----------------------- MODULE H264AnnexBAnalyzer_proof -----------------------
(***************************************************************************)
(* Proofs about H264AnnexBAnalyzer for any files, limits and numbers of    *)
(* cancellations.  IInv is the inductive invariant.  Its heart is one      *)
(* sequence: the records in the tree, then those in the queue, then those  *)
(* a scan has found and not yet queued.  With the NAL unit the scanner has *)
(* open as its last element it is always the beginning of the file's list  *)
(* of NAL units; no step but the scanner's changes it; and each update of  *)
(* the index is a piece of it.                                             *)
(***************************************************************************)
EXTENDS H264AnnexBAnalyzer, AnalysisTree_proof

-----------------------------------------------------------------------------
(* NAL units, as functions of the file. *)

NalUnit == [code : Nat, end : Nat, zeros : Nat]

(* What IsNalUnit says of a record that lies within the file.              *)
UnitOf(f, r) ==
  /\ r \in NalUnit
  /\ r.code \in 1..r.end /\ r.end <= Len(f) /\ r.zeros <= r.end - r.code
  /\ f[r.code] = "code"
  /\ \A i \in (r.code + 1)..r.end : f[i] # "code"
  /\ \A i \in (r.end - r.zeros + 1)..r.end : f[i] = "zero"
  /\ NalLength(r) > 0 => f[r.end - r.zeros] # "zero"

(* The first NAL unit follows no start code, another one the one before.   *)
Continues(f, s, r) ==
  IF s = <<>> THEN \A i \in 1..(r.code - 1) : f[i] # "code"
              ELSE r.code = s[Len(s)].end + 1

UnitsOf(f, s) ==
  /\ s \in Seq(NalUnit)
  /\ \A k \in 1..Len(s) : UnitOf(f, s[k])
  /\ s # <<>> => \A i \in 1..(s[1].code - 1) : f[i] # "code"
  /\ \A k \in 2..Len(s) : s[k].code = s[k - 1].end + 1

AllUnitsOf(f, s) ==
  /\ UnitsOf(f, s)
  /\ IF s = <<>> THEN \A i \in 1..Len(f) : f[i] # "code" ELSE s[Len(s)].end = Len(f)

-----------------------------------------------------------------------------
(* The inductive invariant. *)

QueueEntry == [record : NalUnit, allow : BOOLEAN]

Mapping == [node : Nat, record : NalUnit, kind : {"opaque", "empty", "structured"},
            allow : BOOLEAN, mapped : Nat, issue : BOOLEAN, excluded : BOOLEAN]

Update == [first : Nat, records : Seq(NalUnit), through : Nat, endOfSource : BOOLEAN]

Shape ==
  /\ file \in Files /\ Tree(nodes)
  /\ spans \in Seq(NalUnit) /\ batch \in Seq(NalUnit) /\ queue \in Seq(QueueEntry)
  /\ updates \in Seq(Update)
  /\ Len(spans) = Len(nodes[RootId].children)
  /\ cursor \in 0..Len(file) /\ pending \in 0..cursor /\ zeros \in 0..cursor
  /\ inspected \in 0..MaxInspected /\ Len(batch) <= MaxRecords
  /\ budget \in 0..MaxMapped

Modes ==
  /\ scanStatus \in ScanStatuses /\ deferred \in ScanStatuses
  /\ pc \in {"idle", "scan", "scanned", "drain", "map", "finish"}
  /\ status \in {"InProgress", "Complete", "InvalidRule"} \cup Statuses
  /\ cancelled \in BOOLEAN /\ before \in BOOLEAN
  /\ pc # "idle" => status = "InProgress"
  /\ status = "Complete" => queue = <<>> /\ deferred = "Complete"
  /\ pc = "finish" => mapStatus \in {"Complete", "Cancelled", "SourceError", "ResourceLimit"}

(* What the last scan came to is kept until it is used up, and a scan that *)
(* reached the end for good.                                               *)
Deferral ==
  /\ pc \in {"scan", "scanned"} => deferred = "none"
  /\ deferred # "none" => deferred = scanStatus
  /\ deferred = "none" /\ pc # "scanned" => scanStatus # "Complete"

(* The unit being mapped is the last one published; while a byte of it is  *)
(* mapped there is one, and a byte of the budget.                          *)
Mapped ==
  /\ unit # NoUnit => /\ unit \in Mapping
                      /\ spans # <<>> /\ unit.record = spans[Len(spans)]
                      /\ unit.node = nodes[RootId].children[Len(spans)]
                      /\ unit.mapped <= PayloadLength
  /\ pc \in {"map", "finish"} => unit # NoUnit
  /\ pc = "map" => unit.mapped < PayloadLength /\ budget > 0

Listed == spans \o QueuedRecords

Scanned == Listed \o (IF pc \in {"scan", "scanned"} THEN batch ELSE <<>>)

(* The NAL unit that is open, as it would be if the file ended here.       *)
OpenUnit == MakeRecord(pending, cursor, zeros)

ScannedInOrder ==
  /\ UnitsOf(file, Scanned)
  /\ scanStatus = "Complete" => AllUnitsOf(file, Scanned) 
  /\ scanStatus # "Complete" =>
       IF pending = 0 THEN Scanned = <<>> /\ \A i \in 1..cursor : file[i] # "code"
                      ELSE UnitOf(file, OpenUnit) /\ Continues(file, Scanned, OpenUnit)

ThroughIn(u, k) == u[k].first + Len(u[k].records)

Through(k) == ThroughIn(updates, k)

UpdatesJoin ==
  /\ stable = Len(Listed)
  /\ stable = IF updates = <<>> THEN 0 ELSE Through(Len(updates))
  /\ \A k \in 1..Len(updates) :
       /\ updates[k].first = IF k = 1 THEN 0 ELSE Through(k - 1)
       /\ Through(k) <= stable
       /\ \A j \in 1..Len(updates[k].records) :
            updates[k].records[j] = Listed[updates[k].first + j]
       /\ IF updates[k].endOfSource
          THEN k = Len(updates) /\ deferred = "Complete" /\ updates[k].through = Len(file)
          ELSE updates[k].records # <<>> /\ updates[k].through = Listed[Through(k)].end

IInv == Shape /\ Modes /\ Deferral /\ Mapped /\ ScannedInOrder /\ UpdatesJoin

-----------------------------------------------------------------------------
(* Lists of NAL units. *)

(* The definitions above say of this file what the model says.             *)
LEMMA UnitsAreNalUnits ==
  ASSUME NEW s, UnitsOf(file, s)
  PROVE  AreFirstNalUnits(s)
  BY DEF UnitsOf, UnitOf, AreFirstNalUnits, IsNalUnit

LEMMA AllUnitsAreNalUnits ==
  ASSUME NEW s, AllUnitsOf(file, s)
  PROVE  AreAllNalUnits(s)
<1>1. AreFirstNalUnits(s)
  BY UnitsAreNalUnits DEF AllUnitsOf
<1> QED BY <1>1 DEF AllUnitsOf, AreAllNalUnits

LEMMA NoUnits == ASSUME NEW f PROVE UnitsOf(f, <<>>)
  BY DEF UnitsOf

(* A list is in order when its beginning is and its last unit continues it.*)
LEMMA OneMoreUnit ==
  ASSUME NEW f, NEW s, NEW r, UnitsOf(f, s), UnitOf(f, r), Continues(f, s, r)
  PROVE  UnitsOf(f, Append(s, r))
<1> DEFINE u == Append(s, r)
<1>1. s \in Seq(NalUnit) /\ r \in NalUnit /\ Len(s) \in Nat
  BY DEF UnitsOf, UnitOf
<1>2. /\ u \in Seq(NalUnit) /\ Len(u) = Len(s) + 1 /\ u[Len(s) + 1] = r
      /\ \A k \in 1..Len(s) : u[k] = s[k]
  BY <1>1
<1> HIDE DEF u
<1>3. ASSUME NEW k \in 1..Len(u) PROVE UnitOf(f, u[k])
  <2>1. k \in 1..Len(s) \/ k = Len(s) + 1
    BY <1>1, <1>2
  <2> QED BY <1>2, <2>1 DEF UnitsOf
<1>4. \A i \in 1..(u[1].code - 1) : f[i] # "code"
  <2>1. CASE s = <<>>
    <3>1. Len(s) + 1 = 1
      BY <1>1, <2>1, EmptySeq
    <3> QED BY <1>2, <2>1, <3>1 DEF Continues
  <2>2. CASE s # <<>>
    <3>1. 1 \in 1..Len(s)
      BY <1>1, <2>2
    <3> QED BY <1>2, <2>2, <3>1 DEF UnitsOf
  <2> QED BY <2>1, <2>2
<1>5. ASSUME NEW k \in 2..Len(u) PROVE u[k].code = u[k - 1].end + 1
  <2>1. CASE k \in 2..Len(s)
    <3>1. k \in 1..Len(s) /\ k - 1 \in 1..Len(s)
      BY <1>1, <2>1
    <3> QED BY <1>2, <2>1, <3>1 DEF UnitsOf
  <2>2. CASE k = Len(s) + 1
    <3>1. Len(s) \in 1..Len(s) /\ k - 1 = Len(s) /\ s # <<>>
      BY <1>1, <1>2, <2>2
    <3> QED BY <1>2, <2>2, <3>1 DEF Continues
  <2>3. k \in 2..Len(s) \/ k = Len(s) + 1
    BY <1>1, <1>2
  <2> QED BY <2>1, <2>2, <2>3
<1>6. UnitsOf(f, u)
  BY <1>2, <1>3, <1>4, <1>5 DEF UnitsOf
<1> QED BY <1>6 DEF u

(* The beginning of a list is a list.                                      *)
LEMMA FirstUnits ==
  ASSUME NEW f, NEW s, UnitsOf(f, s), NEW t \in Seq(NalUnit), Len(t) <= Len(s),
         \A k \in 1..Len(t) : t[k] = s[k]
  PROVE  UnitsOf(f, t)
<1>1. s \in Seq(NalUnit) /\ Len(s) \in Nat /\ Len(t) \in Nat
  BY DEF UnitsOf
<1>2. \A k \in 1..Len(t) : k \in 1..Len(s)
  BY <1>1
<1>3. ASSUME t # <<>> PROVE \A i \in 1..(t[1].code - 1) : f[i] # "code"
  <2>1. 1 \in 1..Len(t) /\ s # <<>>
    BY <1>1, <1>3
  <2> QED BY <2>1 DEF UnitsOf
<1>4. ASSUME NEW k \in 2..Len(t) PROVE t[k].code = t[k - 1].end + 1
  <2>1. k \in 1..Len(t) /\ k - 1 \in 1..Len(t) /\ k \in 2..Len(s)
    BY <1>1
  <2> QED BY <2>1 DEF UnitsOf
<1> QED BY <1>2, <1>3, <1>4 DEF UnitsOf

(* Units end one after another.                                            *)
LEMMA EndsIncrease ==
  ASSUME NEW f, NEW s, UnitsOf(f, s), NEW i \in 1..Len(s), NEW j \in i..Len(s)
  PROVE  s[i].end <= s[j].end
<1> DEFINE T == {k \in i..Len(s) : ~ (s[i].end <= s[k].end)}
<1>1. s \in Seq(NalUnit) /\ Len(s) \in Nat
  BY DEF UnitsOf
<1> SUFFICES ASSUME T # {} PROVE FALSE
  OBVIOUS
<1>2. T \in SUBSET Nat
  BY <1>1
<1>3. PICK k \in T : \A m \in T : k <= m
  <2> HIDE DEF T
  <2> QED BY <1>2, LeastNatural
<1>4. /\ k \in i..Len(s) /\ ~ (s[i].end <= s[k].end)
      /\ \A m \in i..Len(s) : m < k => s[i].end <= s[m].end
  BY <1>1, <1>2, <1>3
<1>5. s[k] \in NalUnit /\ s[i] \in NalUnit /\ k \in 1..Len(s)
  BY <1>1, <1>4
<1>6. s[k].end \in Nat /\ s[i].end \in Nat /\ s[k].code \in Nat
  BY <1>5 DEF NalUnit
<1>7. k # i
  BY <1>4, <1>6
<1>8. k - 1 \in i..Len(s) /\ k - 1 < k /\ k \in 2..Len(s) /\ k - 1 \in 1..Len(s)
  BY <1>1, <1>4, <1>7
<1>9. s[k - 1] \in NalUnit
  BY <1>1, <1>8
<1>10. s[k - 1].end \in Nat
  BY <1>9 DEF NalUnit
<1>11. s[i].end <= s[k - 1].end
  BY <1>4, <1>8
<1>12. s[k].code = s[k - 1].end + 1 /\ s[k].code \in 1..s[k].end
  BY <1>5, <1>8 DEF UnitsOf, UnitOf
<1> HIDE DEF T
<1> QED BY SMTT(30), <1>4, <1>6, <1>10, <1>11, <1>12

-----------------------------------------------------------------------------
(* The unit that is open, c positions into the file. *)

LEMMA MakesRecord ==
  ASSUME NEW p \in Nat, NEW c \in Nat, NEW z \in Nat
  PROVE  /\ MakeRecord(p, c, z) \in NalUnit
         /\ MakeRecord(p, c, z).code = p /\ MakeRecord(p, c, z).end = c
         /\ MakeRecord(p, c, z).zeros = z
         /\ NalLength(MakeRecord(p, c, z)) = c - p - z
  BY DEF MakeRecord, NalUnit, NalLength

(* A start code opens a unit that is nothing but the start code yet.       *)
LEMMA UnitOpens ==
  ASSUME NEW f, NEW c \in Nat, c < Len(f), Len(f) \in Nat, f[c + 1] = "code"
  PROVE  UnitOf(f, MakeRecord(c + 1, c + 1, 0))
<1> DEFINE r == MakeRecord(c + 1, c + 1, 0)
<1>1. /\ r \in NalUnit /\ r.code = c + 1 /\ r.end = c + 1 /\ r.zeros = 0
      /\ NalLength(r) = 0
  BY DEF MakeRecord, NalUnit, NalLength
<1> HIDE DEF r
<1>2. UnitOf(f, r)
  BY <1>1 DEF UnitOf
<1> QED BY <1>2 DEF r

(* Any other byte belongs to the unit: a zero may be framing, and what the *)
(* zeros before another byte were taken for does not matter any more.      *)
LEMMA UnitGrows ==
  ASSUME NEW f, NEW p \in Nat, NEW c \in Nat, NEW z \in Nat, c < Len(f), Len(f) \in Nat,
         UnitOf(f, MakeRecord(p, c, z)), f[c + 1] # "code"
  PROVE  UnitOf(f, MakeRecord(p, c + 1, IF f[c + 1] = "zero" THEN z + 1 ELSE 0))
<1> DEFINE n == IF f[c + 1] = "zero" THEN z + 1 ELSE 0
           r == MakeRecord(p, c, z)
           q == MakeRecord(p, c + 1, n)
<1>0. n \in Nat
  OBVIOUS
<1>1. /\ r.code = p /\ r.end = c /\ r.zeros = z /\ NalLength(r) = c - p - z
  BY MakesRecord
<1>2. q \in NalUnit /\ q.code = p /\ q.end = c + 1 /\ q.zeros = n
      /\ NalLength(q) = c + 1 - p - n
  <2> HIDE DEF n
  <2> QED BY <1>0 DEF MakeRecord, NalUnit, NalLength
<1>3. /\ p \in 1..c /\ z <= c - p /\ f[p] = "code"
      /\ \A i \in (p + 1)..c : f[i] # "code"
      /\ \A i \in (c - z + 1)..c : f[i] = "zero"
      /\ c - p - z > 0 => f[c - z] # "zero"
  BY <1>1 DEF UnitOf
<1>4. p \in 1..(c + 1) /\ c + 1 <= Len(f) /\ n <= c + 1 - p
  BY <1>3
<1>5. \A i \in (p + 1)..(c + 1) : f[i] # "code"
  <2>1. \A i \in (p + 1)..(c + 1) : i \in (p + 1)..c \/ i = c + 1
    BY <1>3
  <2> QED BY <1>3, <2>1
<1>6. /\ \A i \in (c + 1 - n + 1)..(c + 1) : f[i] = "zero"
      /\ c + 1 - p - n > 0 => f[c + 1 - n] # "zero"
  <2>1. CASE f[c + 1] = "zero"
    <3>1. n = z + 1 /\ c + 1 - n = c - z /\ c + 1 - p - n = c - p - z
      BY <1>3, <2>1
    <3>2. \A i \in (c - z + 1)..(c + 1) : i \in (c - z + 1)..c \/ i = c + 1
      BY <1>3
    <3>3. \A i \in (c + 1 - n + 1)..(c + 1) : f[i] = "zero"
      BY <1>3, <2>1, <3>1, <3>2
    <3> QED BY <1>3, <3>1, <3>3
  <2>2. CASE f[c + 1] # "zero"
    <3>1. n = 0 /\ c + 1 - n = c + 1
      BY <2>2
    <3> QED BY <1>3, <2>2, <3>1
  <2> QED BY <2>1, <2>2
<1>8. /\ q.code \in 1..q.end /\ q.end <= Len(f) /\ q.zeros <= q.end - q.code
      /\ f[q.code] = "code"
  <2> HIDE DEF q, n
  <2> QED BY <1>2, <1>3, <1>4
<1>9. /\ \A i \in (q.code + 1)..q.end : f[i] # "code"
      /\ \A i \in (q.end - q.zeros + 1)..q.end : f[i] = "zero"
      /\ NalLength(q) > 0 => f[q.end - q.zeros] # "zero"
  <2> HIDE DEF q, n
  <2> QED BY <1>0, <1>2, <1>3, <1>5, <1>6
<1> HIDE DEF q, n
<1>7. UnitOf(f, q)
  BY <1>2, <1>8, <1>9 DEF UnitOf
<1> QED BY <1>7 DEF q, n

-----------------------------------------------------------------------------
(* The one sequence the records are in, from the tree to the batch. *)

RecordsOf(q) == [k \in 1..Len(q) |-> q[k].record]

ListOf(s, q) == s \o RecordsOf(q)

LEMMA QueueRecords ==
  ASSUME NEW q \in Seq(QueueEntry)
  PROVE  /\ RecordsOf(q) \in Seq(NalUnit) /\ Len(RecordsOf(q)) = Len(q)
         /\ \A k \in 1..Len(q) : RecordsOf(q)[k] = q[k].record
<1>1. \A k \in 1..Len(q) : q[k] \in QueueEntry
  OBVIOUS
<1>2. \A k \in 1..Len(q) : q[k].record \in NalUnit
  BY <1>1 DEF QueueEntry
<1> QED BY <1>2 DEF RecordsOf

LEMMA ListShape ==
  ASSUME NEW s \in Seq(NalUnit), NEW q \in Seq(QueueEntry)
  PROVE  /\ ListOf(s, q) \in Seq(NalUnit) /\ Len(ListOf(s, q)) = Len(s) + Len(q)
         /\ \A k \in 1..Len(s) : ListOf(s, q)[k] = s[k]
         /\ \A k \in 1..Len(q) : ListOf(s, q)[Len(s) + k] = q[k].record
<1>1. /\ RecordsOf(q) \in Seq(NalUnit) /\ Len(RecordsOf(q)) = Len(q)
      /\ \A k \in 1..Len(q) : RecordsOf(q)[k] = q[k].record
  BY QueueRecords
<1>2. Len(s) \in Nat /\ Len(q) \in Nat
  OBVIOUS
<1> QED BY SMTT(30), <1>1, <1>2 DEF ListOf

(* Taking a record from the queue into the tree moves no record. *)
LEMMA PublishedList ==
  ASSUME NEW s \in Seq(NalUnit), NEW q \in Seq(QueueEntry), q # <<>>
  PROVE  /\ Append(s, Head(q).record) \in Seq(NalUnit)
         /\ Len(Append(s, Head(q).record)) = Len(s) + 1
         /\ Append(s, Head(q).record)[Len(s) + 1] = Head(q).record
         /\ Tail(q) \in Seq(QueueEntry)
         /\ ListOf(Append(s, Head(q).record), Tail(q)) = ListOf(s, q)
<1> DEFINE r == Head(q).record
           a == Append(s, r)
           p == Tail(q)
<1>1. /\ Len(q) \in Nat /\ Len(q) >= 1 /\ Len(s) \in Nat
      /\ Head(q) = q[1] /\ q[1] \in QueueEntry
      /\ p \in Seq(QueueEntry) /\ Len(p) = Len(q) - 1
      /\ \A k \in 1..Len(p) : p[k] = q[k + 1]
  BY HeadTailProperties
<1>2. r \in NalUnit /\ r = q[1].record
  BY <1>1 DEF QueueEntry
<1> HIDE DEF r, p
<1>3. /\ a \in Seq(NalUnit) /\ Len(a) = Len(s) + 1 /\ a[Len(s) + 1] = r
      /\ \A k \in 1..Len(s) : a[k] = s[k]
  BY <1>1, <1>2
<1> HIDE DEF a
<1>4. /\ ListOf(a, p) \in Seq(NalUnit) /\ Len(ListOf(a, p)) = Len(a) + Len(p)
      /\ \A k \in 1..Len(a) : ListOf(a, p)[k] = a[k]
      /\ \A k \in 1..Len(p) : ListOf(a, p)[Len(a) + k] = p[k].record
  BY <1>1, <1>3, ListShape
<1>5. /\ ListOf(s, q) \in Seq(NalUnit) /\ Len(ListOf(s, q)) = Len(s) + Len(q)
      /\ \A k \in 1..Len(s) : ListOf(s, q)[k] = s[k]
      /\ \A k \in 1..Len(q) : ListOf(s, q)[Len(s) + k] = q[k].record
  BY ListShape
<1>6. Len(ListOf(a, p)) = Len(ListOf(s, q))
  BY <1>1, <1>3, <1>4, <1>5
<1>7. ASSUME NEW k \in 1..Len(ListOf(s, q)) PROVE ListOf(a, p)[k] = ListOf(s, q)[k]
  <2>1. CASE k \in 1..Len(s)
    BY <1>1, <1>3, <1>4, <1>5, <2>1
  <2>2. CASE k = Len(s) + 1
    <3>1. 1 \in 1..Len(q) /\ k \in 1..Len(a)
      BY <1>1, <1>3, <2>2
    <3> QED BY <1>2, <1>3, <1>4, <1>5, <2>2, <3>1
  <2>3. CASE k > Len(s) + 1
    <3> DEFINE j == k - Len(s) - 1
    <3>1. /\ j \in 1..Len(p) /\ j + 1 \in 1..Len(q)
          /\ k = Len(a) + j /\ k = Len(s) + (j + 1)
      BY <1>1, <1>3, <1>5, <2>3
    <3> HIDE DEF j
    <3>2. ListOf(a, p)[k] = p[j].record /\ ListOf(s, q)[k] = q[j + 1].record
      BY <1>4, <1>5, <3>1
    <3> QED BY <1>1, <3>1, <3>2
  <2> QED BY <1>1, <1>5, <2>1, <2>2, <2>3
<1>8. ListOf(a, p) = ListOf(s, q)
  BY <1>4, <1>5, <1>6, <1>7, SeqEqual
<1> QED BY <1>1, <1>3, <1>8 DEF a, p, r

(* c is b behind a. *)
Joins(a, b, c) ==
  /\ Len(c) = Len(a) + Len(b) /\ Len(a) \in Nat /\ Len(b) \in Nat
  /\ \A k \in 1..Len(a) : c[k] = a[k]
  /\ \A k \in 1..Len(b) : c[Len(a) + k] = b[k]

LEMMA ConcatJoins ==
  ASSUME NEW S, NEW a \in Seq(S), NEW b \in Seq(S)
  PROVE  a \o b \in Seq(S) /\ Joins(a, b, a \o b)
<1>1. Len(a) \in Nat /\ Len(b) \in Nat
  OBVIOUS
<1>2. /\ a \o b \in Seq(S) /\ Len(a \o b) = Len(a) + Len(b)
      /\ \A i \in 1..(Len(a) + Len(b)) :
           (a \o b)[i] = IF i <= Len(a) THEN a[i] ELSE b[i - Len(a)]
  BY ConcatProperties
<1>3. ASSUME NEW k \in 1..Len(a) PROVE (a \o b)[k] = a[k]
  BY <1>1, <1>2
<1>4. ASSUME NEW k \in 1..Len(b) PROVE (a \o b)[Len(a) + k] = b[k]
  <2>1. Len(a) + k \in 1..(Len(a) + Len(b)) /\ ~ (Len(a) + k <= Len(a))
        /\ Len(a) + k - Len(a) = k
    BY <1>1
  <2>2. (a \o b)[Len(a) + k] = b[Len(a) + k - Len(a)]
    BY <1>2, <2>1
  <2> QED BY <2>1, <2>2
<1> QED BY <1>1, <1>2, <1>3, <1>4 DEF Joins

(* Neither does queueing a batch. *)
QueuedTo(s, q, b, e) ==
  q \o e \in Seq(QueueEntry) /\ ListOf(s, q \o e) = ListOf(s, q) \o b

LEMMA QueuedList ==
  ASSUME NEW s \in Seq(NalUnit), NEW q \in Seq(QueueEntry), NEW b \in Seq(NalUnit),
         NEW e \in Seq(QueueEntry), Len(e) = Len(b), \A k \in 1..Len(b) : e[k].record = b[k]
  PROVE  QueuedTo(s, q, b, e)
<1>1. q \o e \in Seq(QueueEntry) /\ Joins(q, e, q \o e) /\ Len(s) \in Nat
  BY ConcatJoins
<1> DEFINE x == ListOf(s, q \o e)
           y == ListOf(s, q)
           z == y \o b
           qe == q \o e
<1>2. /\ x \in Seq(NalUnit) /\ Len(x) = Len(s) + Len(qe)
      /\ \A k \in 1..Len(s) : x[k] = s[k]
      /\ \A k \in 1..Len(qe) : x[Len(s) + k] = qe[k].record
  BY <1>1, ListShape
<1>3. /\ y \in Seq(NalUnit) /\ Len(y) = Len(s) + Len(q)
      /\ \A k \in 1..Len(s) : y[k] = s[k]
      /\ \A k \in 1..Len(q) : y[Len(s) + k] = q[k].record
  BY ListShape
<1> HIDE DEF y, x
<1>11. z \in Seq(NalUnit) /\ Joins(y, b, z)
  BY <1>3, ConcatJoins
<1> HIDE DEF z, qe
<1>4. /\ z \in Seq(NalUnit) /\ Len(z) = Len(y) + Len(b)
      /\ \A k \in 1..Len(y) : z[k] = y[k]
      /\ \A k \in 1..Len(b) : z[Len(y) + k] = b[k]
  BY <1>11 DEF Joins
<1>10. /\ Len(qe) = Len(q) + Len(b) /\ Len(q) \in Nat /\ Len(b) \in Nat
       /\ \A k \in 1..Len(q) : qe[k] = q[k]
       /\ \A k \in 1..Len(b) : qe[Len(q) + k] = e[k]
  BY <1>1 DEF qe, Joins
<1>5. Len(x) = Len(z) /\ Len(x) \in Nat
  BY <1>1, <1>2, <1>3, <1>4, <1>10
<1>6. ASSUME NEW k \in 1..Len(x) PROVE x[k] = z[k]
  <2>1. CASE k \in 1..Len(s)
    BY <1>1, <1>10, <1>2, <1>3, <1>4, <2>1
  <2>2. CASE k \in (Len(s) + 1)..Len(y)
    <3> DEFINE j == k - Len(s)
    <3>1. j \in 1..Len(q) /\ j \in 1..Len(qe) /\ k = Len(s) + j /\ k \in 1..Len(y)
      BY <1>1, <1>3, <1>10, <2>2
    <3> HIDE DEF j
    <3>2. x[k] = qe[j].record /\ y[k] = q[j].record /\ z[k] = y[k] /\ qe[j] = q[j]
      BY <1>2, <1>3, <1>4, <1>10, <3>1
    <3> QED BY <3>2
  <2>3. CASE k \in (Len(y) + 1)..Len(x)
    <3> DEFINE j == k - Len(y)
    <3>1. /\ j \in 1..Len(b) /\ k = Len(y) + j
          /\ Len(q) + j \in 1..Len(qe) /\ k = Len(s) + (Len(q) + j)
      BY <1>1, <1>2, <1>3, <1>10, <2>3
    <3> HIDE DEF j
    <3>2. x[k] = qe[Len(q) + j].record /\ z[k] = b[j] /\ qe[Len(q) + j] = e[j]
      BY <1>2, <1>4, <1>10, <3>1
    <3> QED BY <3>1, <3>2
  <2> QED BY <1>1, <1>10, <1>3, <1>5, <2>1, <2>2, <2>3
<1>7. x = z
  BY <1>2, <1>4, <1>5, <1>6, SeqEqual
<1> QED BY <1>1, <1>7 DEF x, y, z, qe, QueuedTo

-----------------------------------------------------------------------------
(* What IInv says of the sequence, in those terms. *)

LEMMA FileIsSequence ==
  ASSUME file \in Files
  PROVE  file \in Seq(ByteKinds) /\ Len(file) \in Nat /\ DOMAIN file = 1..Len(file)
  BY ScannerAssumption

LEMMA ListedIsList ==
  ASSUME Shape
  PROVE  /\ Listed = ListOf(spans, queue)
         /\ Listed \in Seq(NalUnit) /\ Len(Listed) = Len(spans) + Len(queue)
         /\ Len(Listed) \in Nat
<1>1. spans \in Seq(NalUnit) /\ queue \in Seq(QueueEntry) /\ DOMAIN queue = 1..Len(queue)
  BY DEF Shape
<1>2. Listed = ListOf(spans, queue)
  BY <1>1 DEF Listed, QueuedRecords, ListOf, RecordsOf
<1> QED BY <1>1, <1>2, ListShape

LEMMA ScannedIsList ==
  ASSUME Shape
  PROVE  /\ pc \in {"scan", "scanned"} => Scanned = Listed \o batch
         /\ pc \notin {"scan", "scanned"} => Scanned = Listed
         /\ Scanned \in Seq(NalUnit) /\ Len(Listed) <= Len(Scanned)
         /\ \A k \in 1..Len(Listed) : Scanned[k] = Listed[k]
<1>1. Listed \in Seq(NalUnit) /\ Len(Listed) \in Nat /\ batch \in Seq(NalUnit) /\ Len(batch) \in Nat
  BY ListedIsList DEF Shape
<1>2. CASE pc \in {"scan", "scanned"}
  <2>1. Scanned = Listed \o batch
    BY <1>2 DEF Scanned
  <2>2. /\ Listed \o batch \in Seq(NalUnit) /\ Len(Listed \o batch) = Len(Listed) + Len(batch)
        /\ \A k \in 1..Len(Listed) : (Listed \o batch)[k] = Listed[k]
    BY <1>1
  <2> QED BY <1>1, <1>2, <2>1, <2>2
<1>3. CASE pc \notin {"scan", "scanned"}
  <2>1. Scanned = Listed \o <<>>
    BY <1>3 DEF Scanned
  <2>2. Listed \o <<>> = Listed
    BY <1>1, ConcatEmptySeq
  <2> QED BY <1>1, <1>3, <2>1, <2>2
<1> QED BY <1>2, <1>3

(* A step that neither takes a record from the tree nor adds one to the    *)
(* queue.                                                                  *)
LEMMA ScannedNext ==
  ASSUME Shape, UNCHANGED <<spans, queue>>
  PROVE  /\ Listed' = Listed
         /\ pc' \in {"scan", "scanned"} => Scanned' = Listed \o batch'
         /\ pc' \notin {"scan", "scanned"} => Scanned' = Listed
<1>1. Listed' = Listed
  BY DEF Listed, QueuedRecords
<1>2. Scanned' = Listed \o (IF pc' \in {"scan", "scanned"} THEN batch' ELSE <<>>)
  BY <1>1 DEF Scanned
<1>3. Listed \o <<>> = Listed
  BY ListedIsList, ConcatEmptySeq
<1> QED BY <1>1, <1>2, <1>3

LEMMA ScannedKept ==
  ASSUME ScannedInOrder, Scanned' = Scanned,
         UNCHANGED <<file, cursor, pending, zeros, scanStatus>>
  PROVE  ScannedInOrder'
  BY DEF ScannedInOrder, OpenUnit

LEMMA UpdatesKept ==
  ASSUME UpdatesJoin, Listed' = Listed, UNCHANGED <<file, stable, through, updates>>,
         deferred = "Complete" => deferred' = "Complete"
  PROVE  UpdatesJoin'
  BY DEF UpdatesJoin, Through, ThroughIn

LEMMA InitInv == Init => IInv
<1> SUFFICES ASSUME Init PROVE IInv
  OBVIOUS
<1>0. /\ file \in Files /\ inspected = 0 /\ batch = <<>> /\ scanStatus = "none"
      /\ cancelled = FALSE /\ pc = "idle" /\ cursor = 0 /\ pending = 0 /\ zeros = 0
      /\ nodes = NewTree /\ spans = <<>> /\ queue = <<>> /\ unit = NoUnit
      /\ deferred = "none" /\ stable = 0 /\ updates = <<>> /\ budget = 0
      /\ before = FALSE /\ status = "InProgress"
  BY DEF Init, ScannerInit, BatchInit
<1>1. Shape
  <2>1. /\ Tree(nodes) /\ Len(nodes[RootId].children) = 0 /\ Len(spans) = 0
    BY <1>0, NewTreeIsTree, EmptySeq DEF RootId
  <2>2. /\ 0 \in 0..Len(file) /\ 0 \in 0..0 /\ 0 \in 0..MaxInspected /\ 0 \in 0..MaxMapped
        /\ Len(batch) <= MaxRecords
    BY <1>0, EmptySeq, FileIsSequence, BatchAssumption, AnalyzerAssumption
  <2> QED BY <1>0, <2>1, <2>2 DEF Shape
<1>2. Modes /\ Deferral /\ Mapped
  BY <1>0 DEF Modes, Deferral, Mapped, ScanStatuses
<1>3. Listed = <<>> /\ Len(Listed) = 0
  <2>1. Len(Listed) = Len(spans) + Len(queue) /\ Listed \in Seq(NalUnit)
    BY <1>1, ListedIsList
  <2>2. Len(spans) = 0 /\ Len(queue) = 0
    BY <1>0
  <2> QED BY <2>1, <2>2, EmptySeq
<1>4. Scanned = <<>>
  BY <1>0, <1>1, <1>3, ScannedIsList
<1>5. ScannedInOrder
  BY <1>0, <1>4, NoUnits DEF ScannedInOrder
<1>6. UpdatesJoin
  BY <1>0, <1>3 DEF UpdatesJoin
<1> QED BY <1>1, <1>2, <1>5, <1>6 DEF IInv

LEMMA AnalyzeBatchStep == ASSUME IInv, AnalyzeBatch PROVE IInv'
<1>0. /\ pc = "idle" /\ status = "InProgress" /\ budget' = MaxMapped
      /\ before' = cancelled /\ batch' = <<>> /\ inspected' = 0
      /\ pc' = IF deferred = "none" THEN "scan" ELSE "drain"
      /\ UNCHANGED <<file, cursor, pending, zeros, scanStatus, cancelled, nodes, spans,
                     queue, unit, deferred, stable, through, updates, mapStatus, status>>
  BY DEF AnalyzeBatch, Terminated, InspectedAtStart, tree, work, index
<1>1. Shape'
  <2>1. 0 \in 0..MaxInspected /\ MaxMapped \in 0..MaxMapped /\ Len(<<>>) <= MaxRecords
    BY EmptySeq, BatchAssumption, AnalyzerAssumption
  <2> QED BY <1>0, <2>1 DEF IInv, Shape
<1>2. Modes' /\ Deferral'
  BY <1>0 DEF IInv, Modes, Deferral
<1>3. Mapped'
  BY <1>0 DEF IInv, Mapped, PayloadLength
<1>4. Listed' = Listed /\ Scanned' = Scanned
  <2>1. Scanned = Listed /\ Listed \in Seq(NalUnit)
    BY <1>0, ScannedIsList, ListedIsList DEF IInv
  <2>2. Listed' = Listed /\ (Scanned' = Listed \o <<>> \/ Scanned' = Listed)
    BY <1>0, ScannedNext DEF IInv
  <2> QED BY <2>1, <2>2, ConcatEmptySeq
<1> QED BY <1>0, <1>1, <1>2, <1>3, <1>4, ScannedKept, UpdatesKept DEF IInv

-----------------------------------------------------------------------------
(* The scanner. *)

LEMMA ConcatAppend ==
  ASSUME NEW S, NEW a \in Seq(S), NEW b \in Seq(S), NEW x \in S
  PROVE  a \o Append(b, x) = Append(a \o b, x)
<1>1. Append(b, x) = b \o <<x>> /\ <<x>> \in Seq(S)
  BY AppendIsConcat
<1>2. a \o b \in Seq(S)
  BY ConcatProperties
<1>3. Append(a \o b, x) = (a \o b) \o <<x>>
  BY <1>2, AppendIsConcat
<1> QED BY <1>1, <1>3, ConcatAssociative

(* A turn of the loop ends the scan or moves one position on. *)
ScanEnds == /\ scanStatus' \in {"InProgress", "Cancelled", "SourceError"}
            /\ pc' = "scanned" /\ UNCHANGED <<cursor, pending, zeros, inspected, batch>>

ScanMoves ==
  /\ cursor < Len(file) /\ cursor' = cursor + 1 /\ inspected' = inspected + 1
  /\ pc' = "scan" /\ scanStatus' = scanStatus
  /\ inspected < MaxInspected
  /\ \/ /\ file[cursor + 1] = "code" /\ pending' = cursor + 1 /\ zeros' = 0
        /\ batch' = IF pending = 0 THEN batch ELSE Append(batch, OpenUnit)
     \/ /\ file[cursor + 1] # "code" /\ batch' = batch /\ pending' = pending
        /\ zeros' = IF pending = 0 THEN zeros
                    ELSE IF file[cursor + 1] = "zero" THEN zeros + 1 ELSE 0

ScanFinishes ==
  /\ cursor = Len(file) /\ cursor' = cursor /\ inspected' = inspected
  /\ pending' = 0 /\ zeros' = 0 /\ scanStatus' = "Complete" /\ pc' = "scanned"
  /\ batch' = IF pending = 0 THEN batch ELSE Append(batch, OpenUnit)

LEMMA ScanFacts ==
  ASSUME IInv, ScanStep
  PROVE  /\ pc = "scan" /\ scanStatus # "Complete" /\ status = "InProgress"
         /\ deferred = "none"
         /\ ScanEnds \/ ScanMoves \/ ScanFinishes
         /\ batch' # batch => Len(batch) < MaxRecords
         /\ UNCHANGED <<file, cancelled, nodes, spans, queue, unit, deferred, stable, through,
                        updates, budget, mapStatus, before, status>>
<1>1. /\ pc = "scan" /\ ScanPosition
      /\ UNCHANGED <<file, cancelled, nodes, spans, queue, unit, deferred, stable, through,
                     updates, budget, mapStatus, before, status>>
  BY DEF ScanStep, ScanPosition, tree, work, index
<1>2. scanStatus # "Complete" /\ status = "InProgress" /\ deferred = "none"
  BY <1>1 DEF IInv, Modes, Deferral
<1>3. CASE \E s \in {"InProgress", "Cancelled", "SourceError"} : ScanReturns(s) /\ UNCHANGED batch
  BY <1>1, <1>2, <1>3 DEF ScanReturns, ScanEnds
<1>4. CASE HasRoom /\ cursor = Len(file) /\ ScanEnd
  BY <1>1, <1>2, <1>4 DEF ScanEnd, ScanFinishes, OpenUnit, HasRoom
<1>5. CASE HasRoom /\ cursor < Len(file) /\ ScanNext
  BY <1>1, <1>2, <1>5 DEF ScanNext, ScanMoves, OpenUnit, HasRoom, Found, ZerosAfter
<1> QED BY <1>1, <1>3, <1>4, <1>5 DEF ScanPosition

(* The open unit after a turn of the loop. *)
LEMMA ScanKeepsOrder ==
  ASSUME NEW f, Len(f) \in Nat, NEW s \in Seq(NalUnit), UnitsOf(f, s),
         NEW c \in Nat, c < Len(f), NEW p \in 0..c, NEW z \in 0..c,
         IF p = 0 THEN s = <<>> /\ \A i \in 1..c : f[i] # "code"
                  ELSE UnitOf(f, MakeRecord(p, c, z)) /\ Continues(f, s, MakeRecord(p, c, z))
  PROVE  /\ f[c + 1] = "code" =>
              LET t == IF p = 0 THEN s ELSE Append(s, MakeRecord(p, c, z))
                  r == MakeRecord(c + 1, c + 1, 0)
              IN  UnitsOf(f, t) /\ UnitOf(f, r) /\ Continues(f, t, r)
         /\ f[c + 1] # "code" =>
              IF p = 0 THEN \A i \in 1..(c + 1) : f[i] # "code"
              ELSE LET r == MakeRecord(p, c + 1, IF f[c + 1] = "zero" THEN z + 1 ELSE 0)
                   IN  UnitOf(f, r) /\ Continues(f, s, r)
<1>0. p \in Nat /\ z \in Nat /\ c + 1 \in Nat
  OBVIOUS
<1>1. ASSUME f[c + 1] = "code"
      PROVE  LET t == IF p = 0 THEN s ELSE Append(s, MakeRecord(p, c, z))
                 r == MakeRecord(c + 1, c + 1, 0)
             IN  UnitsOf(f, t) /\ UnitOf(f, r) /\ Continues(f, t, r)
  <2> DEFINE o == MakeRecord(p, c, z)
             r == MakeRecord(c + 1, c + 1, 0)
             t == Append(s, o)
  <2>1. UnitOf(f, r)
    BY <1>1, UnitOpens
  <2>2. r.code = c + 1 /\ o.end = c
    BY DEF MakeRecord
  <2>3. CASE p = 0
    <3>1. \A i \in 1..(r.code - 1) : f[i] # "code"
      BY <2>2, <2>3
    <3>2. Continues(f, s, r)
      BY <2>3, <3>1 DEF Continues
    <3> QED BY <2>1, <2>3, <3>2
  <2>4. CASE p # 0
    <3>1. UnitsOf(f, t) /\ o \in NalUnit
      BY <2>4, OneMoreUnit DEF UnitOf
    <3>2. t # <<>> /\ t[Len(t)] = o
      BY <3>1, AppendProperties
    <3>3. Continues(f, t, r)
      BY <2>2, <3>2 DEF Continues
    <3> QED BY <2>1, <2>4, <3>1, <3>3
  <2> QED BY <2>3, <2>4
<1>2. ASSUME f[c + 1] # "code", p = 0 PROVE \A i \in 1..(c + 1) : f[i] # "code"
  <2>1. \A i \in 1..(c + 1) : i \in 1..c \/ i = c + 1
    OBVIOUS
  <2> QED BY <1>2, <2>1
<1>3. ASSUME f[c + 1] # "code", p # 0
      PROVE  LET r == MakeRecord(p, c + 1, IF f[c + 1] = "zero" THEN z + 1 ELSE 0)
             IN  UnitOf(f, r) /\ Continues(f, s, r)
  <2> DEFINE n == IF f[c + 1] = "zero" THEN z + 1 ELSE 0
  <2>1. UnitOf(f, MakeRecord(p, c + 1, n))
    BY <1>0, <1>3, UnitGrows
  <2>2. MakeRecord(p, c + 1, n).code = p /\ MakeRecord(p, c, z).code = p
    BY DEF MakeRecord
  <2>3. Continues(f, s, MakeRecord(p, c + 1, n))
    BY <1>3, <2>2 DEF Continues
  <2> QED BY <2>1, <2>3
<1> QED BY <1>1, <1>2, <1>3

LEMMA ScanStepInv == ASSUME IInv, ScanStep PROVE IInv'
<1>0. /\ pc = "scan" /\ pc' \in {"scan", "scanned"} /\ scanStatus # "Complete"
      /\ status = "InProgress" /\ deferred = "none"
      /\ ScanEnds \/ ScanMoves \/ ScanFinishes
      /\ batch' # batch => Len(batch) < MaxRecords
      /\ UNCHANGED <<file, cancelled, nodes, spans, queue, unit, deferred, stable, through,
                     updates, budget, mapStatus, before, status>>
  BY ScanFacts DEF ScanEnds, ScanMoves, ScanFinishes
<1>1. /\ Len(file) \in Nat /\ cursor \in 0..Len(file) /\ pending \in 0..cursor
      /\ zeros \in 0..cursor /\ inspected \in 0..MaxInspected /\ MaxInspected \in Nat
      /\ batch \in Seq(NalUnit) /\ Len(batch) \in Nat /\ Len(batch) <= MaxRecords
      /\ MaxRecords \in Nat
  BY FileIsSequence, BatchAssumption DEF IInv, Shape
<1>2. /\ Scanned = Listed \o batch /\ Scanned' = Listed \o batch' /\ Listed' = Listed
      /\ Listed \in Seq(NalUnit) /\ Scanned \in Seq(NalUnit)
  BY <1>0, ScannedIsList, ListedIsList, ScannedNext DEF IInv
<1>3. /\ UnitsOf(file, Scanned)
      /\ IF pending = 0 THEN Scanned = <<>> /\ \A i \in 1..cursor : file[i] # "code"
         ELSE UnitOf(file, OpenUnit) /\ Continues(file, Scanned, OpenUnit)
  BY <1>0 DEF IInv, ScannedInOrder
<1> DEFINE Longer == IF pending = 0 THEN Scanned ELSE Append(Scanned, OpenUnit)
<1>4. OpenUnit \in NalUnit /\ OpenUnit.end = cursor
  <2>1. pending \in Nat /\ cursor \in Nat /\ zeros \in Nat
    BY <1>1
  <2> QED BY <2>1 DEF OpenUnit, MakeRecord, NalUnit
<1>5. ASSUME batch' = IF pending = 0 THEN batch ELSE Append(batch, OpenUnit)
      PROVE  /\ Scanned' = Longer /\ batch' \in Seq(NalUnit) /\ Len(batch') <= MaxRecords
             /\ UnitsOf(file, Longer)
  <2>1. CASE pending = 0
    BY <1>1, <1>2, <1>3, <1>5, <2>1
  <2>2. CASE pending # 0
    <3>1. /\ batch' = Append(batch, OpenUnit) /\ batch' \in Seq(NalUnit)
          /\ Len(batch') = Len(batch) + 1
      BY <1>1, <1>4, <1>5, <2>2, AppendProperties
    <3>2. Scanned' = Append(Scanned, OpenUnit)
      BY SMTT(30), <1>1, <1>2, <1>4, <3>1, ConcatAppend
    <3>3. UnitsOf(file, Append(Scanned, OpenUnit))
      BY <1>3, <2>2, OneMoreUnit
    <3>4. Len(batch) < MaxRecords
      <4>1. Len(batch') # Len(batch)
        BY <1>1, <3>1
      <4> QED BY <1>0, <4>1
    <3> QED BY <1>1, <2>2, <3>1, <3>2, <3>3, <3>4
  <2> QED BY <2>1, <2>2
<1>6. /\ batch' \in Seq(NalUnit) /\ Len(batch') <= MaxRecords
      /\ cursor' \in 0..Len(file) /\ pending' \in 0..cursor' /\ zeros' \in 0..cursor'
      /\ inspected' \in 0..MaxInspected
  <2>1. CASE ScanEnds
    BY <1>1, <2>1 DEF ScanEnds
  <2>2. CASE ScanMoves
    <3>1. batch' \in Seq(NalUnit) /\ Len(batch') <= MaxRecords
      BY <1>1, <1>5, <2>2 DEF ScanMoves
    <3>2. cursor' = cursor + 1 /\ inspected' = inspected + 1 /\ inspected < MaxInspected
          /\ cursor < Len(file)
          /\ pending' \in {cursor + 1, pending} /\ zeros' \in {0, zeros, zeros + 1}
      BY <2>2 DEF ScanMoves
    <3> QED BY <1>1, <3>1, <3>2
  <2>3. CASE ScanFinishes
    <3>1. batch' \in Seq(NalUnit) /\ Len(batch') <= MaxRecords
      BY <1>5, <2>3 DEF ScanFinishes
    <3> QED BY <1>1, <2>3, <3>1 DEF ScanFinishes
  <2> QED BY <1>0, <2>1, <2>2, <2>3
<1>7. Shape'
  BY <1>0, <1>6 DEF IInv, Shape
<1>8. Modes' /\ Deferral'
  <2>1. scanStatus' \in ScanStatuses /\ (pc' = "scan" => scanStatus' = scanStatus)
    BY <1>0 DEF IInv, Modes, ScanStatuses, ScanEnds, ScanMoves, ScanFinishes
  <2>2. Modes'
    BY <1>0, <2>1 DEF IInv, Modes
  <2>3. Deferral'
    BY <1>0, <2>1 DEF Deferral
  <2> QED BY <2>2, <2>3
<1>9. Mapped'
  BY <1>0 DEF IInv, Mapped, PayloadLength
<1>10. ScannedInOrder'
  <2>1. CASE ScanEnds
    <3>1. Scanned' = Scanned /\ OpenUnit' = OpenUnit /\ scanStatus' # "Complete"
          /\ pending' = pending /\ cursor' = cursor /\ file' = file
      BY <1>0, <1>2, <2>1 DEF ScanEnds, OpenUnit
    <3> QED BY <1>3, <3>1 DEF ScannedInOrder
  <2>2. CASE ScanMoves
    <3>0. cursor \in Nat /\ cursor < Len(file) /\ cursor' = cursor + 1 /\ file' = file
          /\ scanStatus' # "Complete"
      BY <1>0, <1>1, <2>2 DEF ScanMoves
    <3>1. CASE file[cursor + 1] = "code"
      <4>1. Scanned' = Longer /\ UnitsOf(file, Longer)
        BY <1>5, <2>2, <3>1 DEF ScanMoves
      <4>2. pending' = cursor + 1 /\ OpenUnit' = MakeRecord(cursor + 1, cursor + 1, 0)
        BY <2>2, <3>0, <3>1 DEF ScanMoves, OpenUnit
      <4>3. /\ UnitOf(file, MakeRecord(cursor + 1, cursor + 1, 0))
            /\ Continues(file, Longer, MakeRecord(cursor + 1, cursor + 1, 0))
        BY <1>1, <1>2, <1>3, <3>0, <3>1, ScanKeepsOrder DEF OpenUnit
      <4>4. pending' # 0
        BY <3>0, <4>2
      <4> QED BY <3>0, <4>1, <4>2, <4>3, <4>4 DEF ScannedInOrder
    <3>2. CASE file[cursor + 1] # "code" /\ pending = 0
      <4>1. Scanned' = Scanned /\ pending' = 0
        BY <1>2, <2>2, <3>2 DEF ScanMoves
      <4>2. \A i \in 1..(cursor + 1) : file[i] # "code"
        BY <1>1, <1>2, <1>3, <3>0, <3>2, ScanKeepsOrder DEF OpenUnit
      <4> QED BY <1>3, <3>0, <3>2, <4>1, <4>2 DEF ScannedInOrder
    <3>3. CASE file[cursor + 1] # "code" /\ pending # 0
      <4> DEFINE z == IF file[cursor + 1] = "zero" THEN zeros + 1 ELSE 0
      <4>1. Scanned' = Scanned /\ pending' = pending /\ zeros' = z
        BY <1>2, <2>2, <3>3 DEF ScanMoves
      <4>2. /\ UnitOf(file, MakeRecord(pending, cursor + 1, z))
            /\ Continues(file, Scanned, MakeRecord(pending, cursor + 1, z))
        BY <1>1, <1>2, <1>3, <3>0, <3>3, ScanKeepsOrder DEF OpenUnit
      <4> HIDE DEF z
      <4>3. OpenUnit' = MakeRecord(pending, cursor + 1, z)
        BY <3>0, <4>1 DEF OpenUnit
      <4> QED BY <1>3, <3>0, <3>3, <4>1, <4>2, <4>3 DEF ScannedInOrder
    <3> QED BY <3>1, <3>2, <3>3
  <2>3. CASE ScanFinishes
    <3>1. Scanned' = Longer /\ UnitsOf(file, Longer)
      BY <1>5, <2>3 DEF ScanFinishes
    <3>2. AllUnitsOf(file, Longer)
      <4>1. CASE pending = 0
        <5>1. Longer = <<>> /\ \A i \in 1..Len(file) : file[i] # "code"
          BY <1>3, <2>3, <4>1 DEF ScanFinishes
        <5> QED BY <3>1, <5>1 DEF AllUnitsOf
      <4>2. CASE pending # 0
        <5>1. Longer = Append(Scanned, OpenUnit)
          BY <4>2
        <5>2. Longer # <<>> /\ Longer[Len(Longer)] = OpenUnit
          <6> HIDE DEF Longer
          <6>1. /\ Len(Longer) = Len(Scanned) + 1 /\ Longer \in Seq(NalUnit)
                /\ Longer[Len(Scanned) + 1] = OpenUnit /\ Len(Scanned) \in Nat
            BY <1>2, <1>4, <5>1
          <6> QED BY <6>1, EmptySeq
        <5>3. Longer[Len(Longer)].end = Len(file)
          BY <1>4, <2>3, <5>2 DEF ScanFinishes
        <5> HIDE DEF Longer
        <5> QED BY <3>1, <5>2, <5>3 DEF AllUnitsOf
      <4> QED BY <4>1, <4>2
    <3>3. scanStatus' = "Complete" /\ file' = file
      BY <1>0, <2>3 DEF ScanFinishes
    <3> HIDE DEF Longer
    <3> QED BY <3>1, <3>2, <3>3 DEF ScannedInOrder
  <2> QED BY <1>0, <2>1, <2>2, <2>3
<1>11. UpdatesJoin'
  BY <1>0, <1>2, UpdatesKept DEF IInv
<1> QED BY <1>7, <1>8, <1>9, <1>10, <1>11 DEF IInv

-----------------------------------------------------------------------------
(* The batch joins the queue and the index. *)

LEMMA QueueFacts ==
  ASSUME IInv, QueueScanned
  PROVE  queue' \in Seq(QueueEntry) /\ Listed' = Listed \o batch
<1> DEFINE allow == ~before /\ ~cancelled
           e == [k \in DOMAIN batch |-> Queued(batch[k], allow)]
<1>1. /\ batch \in Seq(NalUnit) /\ Len(batch) \in Nat /\ DOMAIN batch = 1..Len(batch)
      /\ queue \in Seq(QueueEntry) /\ spans \in Seq(NalUnit)
      /\ queue' = queue \o e /\ spans' = spans
  BY DEF IInv, Shape, QueueScanned, tree
<1>2. allow \in BOOLEAN
  OBVIOUS
<1> HIDE DEF allow
<1>3. \A k \in 1..Len(batch) : batch[k] \in NalUnit
  BY <1>1
<1>4. \A k \in 1..Len(batch) : Queued(batch[k], allow) \in QueueEntry
  BY <1>2, <1>3 DEF Queued, QueueEntry
<1>5. /\ e \in Seq(QueueEntry) /\ Len(e) = Len(batch)
      /\ \A k \in 1..Len(batch) : e[k].record = batch[k]
  BY <1>1, <1>4 DEF Queued
<1> HIDE DEF e
<1>6. queue \o e \in Seq(QueueEntry) /\ ListOf(spans, queue \o e) = ListOf(spans, queue) \o batch
  <2>1. QueuedTo(spans, queue, batch, e)
    BY <1>1, <1>5, QueuedList
  <2> QED BY <2>1 DEF QueuedTo
<1>7. Listed = ListOf(spans, queue)
  BY ListedIsList DEF IInv
<1>8. queue' \in Seq(QueueEntry) /\ DOMAIN queue' = 1..Len(queue')
  BY <1>1, <1>6
<1>9. Listed' = ListOf(spans', queue')
  BY <1>8 DEF Listed, QueuedRecords, ListOf, RecordsOf
<1> QED BY <1>1, <1>6, <1>7, <1>8, <1>9

LEMMA QueueScannedStep == ASSUME IInv, QueueScanned PROVE IInv'
<1> DEFINE last == scanStatus = "Complete"
           u == [first |-> stable, records |-> batch, through |-> through',
                 endOfSource |-> last]
           N == Len(updates)
<1>0. /\ pc = "scanned" /\ pc' = "drain" /\ deferred' = scanStatus /\ deferred = "none"
      /\ stable' = stable + Len(batch) /\ through' = IndexedThrough
      /\ updates' = IF batch # <<>> \/ last THEN Append(updates, u) ELSE updates
      /\ status = "InProgress"
      /\ UNCHANGED <<file, cursor, pending, zeros, inspected, batch, scanStatus, cancelled,
                     nodes, spans, unit, budget, mapStatus, before, status>>
  BY DEF QueueScanned, scanner, tree, IInv, Modes, Deferral
<1>1. queue' \in Seq(QueueEntry) /\ Listed' = Listed \o batch
  BY QueueFacts
<1>2. /\ Listed \in Seq(NalUnit) /\ Len(Listed) \in Nat
      /\ batch \in Seq(NalUnit) /\ Len(batch) \in Nat
      /\ Len(file) \in Nat /\ updates \in Seq(Update) /\ N \in Nat
      /\ stable = Len(Listed)
  BY ListedIsList, FileIsSequence DEF IInv, Shape, UpdatesJoin
<1>3. /\ Listed' \in Seq(NalUnit) /\ Len(Listed') = Len(Listed) + Len(batch)
      /\ \A k \in 1..Len(Listed) : Listed'[k] = Listed[k]
      /\ \A k \in 1..Len(batch) : Listed'[Len(Listed) + k] = batch[k]
  <2>1. Listed \o batch \in Seq(NalUnit) /\ Joins(Listed, batch, Listed \o batch)
    BY <1>2, ConcatJoins
  <2> QED BY <1>1, <2>1 DEF Joins
<1>4. Scanned' = Scanned
  <2>1. Scanned = Listed \o batch
    BY <1>0, ScannedIsList DEF IInv
  <2>2. Scanned' = Listed' \o <<>>
    BY <1>0 DEF Scanned
  <2> QED BY <1>1, <1>3, <2>1, <2>2, ConcatEmptySeq
<1>5. /\ last => through' = Len(file)
      /\ ~last /\ batch # <<>> => /\ Len(batch) \in 1..Len(batch)
                                  /\ through' = batch[Len(batch)].end
  BY <1>0, <1>2, EmptySeq DEF IndexedThrough
<1>6. updates' = updates \/ (u \in Update /\ updates' = Append(updates, u))
  <2>1. CASE batch # <<>> \/ last
    <3>1. through' \in Nat
      <4>1. CASE last
        BY <1>2, <1>5, <4>1
      <4>2. CASE ~last
        <5>1. batch[Len(batch)] \in NalUnit
          BY <1>2, <1>5, <2>1, <4>2
        <5> QED BY <1>5, <2>1, <4>2, <5>1 DEF NalUnit
      <4> QED BY <4>1, <4>2
    <3>2. last \in BOOLEAN
      OBVIOUS
    <3> HIDE DEF last
    <3> QED BY <1>0, <1>2, <2>1, <3>1, <3>2 DEF Update
  <2>2. CASE ~ (batch # <<>> \/ last)
    BY <1>0, <2>2
  <2> QED BY <2>1, <2>2
<1>7. Shape'
  <2>1. updates' \in Seq(Update)
    <3> HIDE DEF u
    <3> QED BY SMTT(30), <1>2, <1>6
  <2> QED BY <1>0, <1>1, <2>1 DEF IInv, Shape
<1>8. Modes' /\ Deferral'
  BY <1>0 DEF IInv, Modes, Deferral, ScanStatuses
<1>9. Mapped'
  BY <1>0 DEF IInv, Mapped, PayloadLength
<1>10. ScannedInOrder'
  BY <1>0, <1>4, ScannedKept DEF IInv
<1>11. /\ stable' = Len(Listed')
       /\ stable = IF updates = <<>> THEN 0 ELSE Through(N)
  BY <1>0, <1>2, <1>3 DEF IInv, UpdatesJoin
<1>12. ASSUME NEW k \in 1..N
       PROVE  /\ updates[k].first = IF k = 1 THEN 0 ELSE Through(k - 1)
              /\ Through(k) <= stable' /\ Through(k) \in 1..Len(Listed)
              /\ \A j \in 1..Len(updates[k].records) :
                   updates[k].records[j] = Listed'[updates[k].first + j]
              /\ ~updates[k].endOfSource /\ updates[k].records # <<>>
              /\ updates[k].through = Listed'[Through(k)].end
  <2>1. /\ updates[k].first = IF k = 1 THEN 0 ELSE Through(k - 1)
        /\ Through(k) <= stable
        /\ \A j \in 1..Len(updates[k].records) :
             updates[k].records[j] = Listed[updates[k].first + j]
        /\ ~updates[k].endOfSource /\ updates[k].records # <<>>
        /\ updates[k].through = Listed[Through(k)].end
    BY <1>0 DEF IInv, UpdatesJoin
  <2>2. updates[k] \in Update
    BY <1>2
  <2>3. updates[k].first \in Nat /\ updates[k].records \in Seq(NalUnit)
    BY <2>2 DEF Update
  <2>4. Len(updates[k].records) \in Nat /\ Len(updates[k].records) >= 1
    BY <2>1, <2>3, EmptySeq
  <2>5. Through(k) \in 1..Len(Listed) /\ Through(k) <= stable'
    BY SMTT(30), <1>0, <1>2, <2>1, <2>3, <2>4 DEF Through, ThroughIn
  <2>6. \A j \in 1..Len(updates[k].records) : updates[k].first + j \in 1..Len(Listed)
    BY SMTT(30), <1>2, <2>1, <2>3, <2>4 DEF Through, ThroughIn
  <2> QED BY <1>3, <2>1, <2>5, <2>6
<1>13. CASE updates' = updates /\ batch = <<>>
  <2>1. stable' = stable
    BY <1>0, <1>2, <1>13, EmptySeq
  <2>2. \A k \in 1..N : ThroughIn(updates', k) = Through(k)
    BY <1>13 DEF Through, ThroughIn
  <2>3. UpdatesJoin'
    BY <1>11, <1>12, <1>13, <2>1 DEF UpdatesJoin, Through, ThroughIn
  <2> QED BY <1>7, <1>8, <1>9, <1>10, <2>3 DEF IInv
<1>14. CASE updates' = Append(updates, u) /\ u \in Update /\ (batch # <<>> \/ last)
  <2>1. /\ u.first = stable /\ u.records = batch /\ u.through = through' /\ u.endOfSource = last
    OBVIOUS
  <2> HIDE DEF u, last
  <2>2. /\ Len(updates') = N + 1 /\ updates'[N + 1] = u /\ updates' # <<>>
        /\ \A k \in 1..N : updates'[k] = updates[k]
    <3>1. /\ Len(updates') = N + 1 /\ updates'[N + 1] = u
          /\ \A k \in 1..N : updates'[k] = updates[k]
      BY <1>2, <1>14
    <3> QED BY <1>2, <3>1, EmptySeq
  <2>3. /\ \A k \in 1..N : ThroughIn(updates', k) = Through(k)
        /\ ThroughIn(updates', N + 1) = stable'
    BY <1>0, <2>1, <2>2 DEF Through, ThroughIn
  <2> DEFINE Good(k) ==
        /\ updates'[k].first = IF k = 1 THEN 0 ELSE ThroughIn(updates', k - 1)
        /\ ThroughIn(updates', k) <= stable'
        /\ \A j \in 1..Len(updates'[k].records) :
             updates'[k].records[j] = Listed'[updates'[k].first + j]
        /\ IF updates'[k].endOfSource
           THEN k = Len(updates') /\ deferred' = "Complete" /\ updates'[k].through = Len(file')
           ELSE updates'[k].records # <<>> /\ updates'[k].through = Listed'[ThroughIn(updates', k)].end
  <2>4. ASSUME NEW k \in 1..N PROVE Good(k)
    <3>1. /\ updates'[k] = updates[k] /\ ThroughIn(updates', k) = Through(k)
          /\ k # 1 => ThroughIn(updates', k - 1) = Through(k - 1)
      BY <1>2, <2>2, <2>3
    <3> QED BY <1>12, <3>1
  <2>5. Good(N + 1)
    <3>1. updates'[N + 1].first = IF N + 1 = 1 THEN 0 ELSE ThroughIn(updates', N + 1 - 1)
      <4>1. CASE N = 0
        BY <1>2, <1>11, <2>1, <2>2, <4>1, EmptySeq
      <4>2. CASE N # 0
        <5>1. updates # <<>> /\ N \in 1..N /\ N + 1 - 1 = N
          BY <1>2, <4>2, EmptySeq
        <5> QED BY <1>2, <1>11, <2>1, <2>2, <2>3, <4>2, <5>1
      <4> QED BY <4>1, <4>2
    <3>2. ThroughIn(updates', N + 1) <= stable'
      BY <1>0, <1>2, <2>3
    <3>3. \A j \in 1..Len(batch) : batch[j] = Listed'[stable + j]
      BY <1>2, <1>3
    <3>4. CASE last
      <4>1. /\ updates'[N + 1].endOfSource = TRUE /\ N + 1 = Len(updates')
            /\ deferred' = "Complete" /\ updates'[N + 1].through = Len(file')
        BY <1>0, <1>5, <2>1, <2>2, <3>4 DEF last
      <4> QED BY <2>1, <2>2, <3>1, <3>2, <3>3, <4>1
    <3>5. CASE ~last
      <4>1. batch # <<>> /\ Len(batch) \in 1..Len(batch) /\ through' = batch[Len(batch)].end
        BY <1>5, <1>14, <3>5
      <4>2. Listed'[stable'] = batch[Len(batch)]
        BY <1>0, <1>2, <1>3, <4>1
      <4>3. ~updates'[N + 1].endOfSource
        BY <2>1, <2>2, <3>5
      <4> QED BY <2>1, <2>2, <2>3, <3>1, <3>2, <3>3, <4>1, <4>2, <4>3
    <3> QED BY <3>4, <3>5
  <2>6. \A k \in 1..(N + 1) : k \in 1..N \/ k = N + 1
    BY <1>2
  <2>7. \A k \in 1..(N + 1) : Good(k)
    <3> HIDE DEF Good
    <3> QED BY <2>4, <2>5, <2>6
  <2>8. UpdatesJoin'
    BY <1>11, <2>2, <2>3, <2>7 DEF UpdatesJoin, Through
  <2> QED BY <1>7, <1>8, <1>9, <1>10, <2>8 DEF IInv
<1>15. CASE batch # <<>> \/ last
  BY <1>0, <1>2, <1>6, <1>14, <1>15
<1>16. CASE ~ (batch # <<>> \/ last)
  BY <1>0, <1>13, <1>16
<1> QED BY <1>15, <1>16

-----------------------------------------------------------------------------
(* Steps that leave the scanner alone and move no record. *)

LEMMA Aside ==
  ASSUME IInv, Shape', pc \notin {"scan", "scanned"}, pc' \notin {"scan", "scanned"},
         Listed' = Listed,
         UNCHANGED <<file, cursor, pending, zeros, scanStatus, stable, through, updates>>,
         deferred = "Complete" => deferred' = "Complete"
  PROVE  ScannedInOrder' /\ UpdatesJoin'
<1>1. Scanned = Listed /\ Listed \in Seq(NalUnit)
  BY ScannedIsList, ListedIsList DEF IInv
<1>2. Scanned' = Listed' \o <<>>
  BY DEF Scanned
<1>3. Scanned' = Scanned
  BY <1>1, <1>2, ConcatEmptySeq
<1> QED BY <1>3, ScannedKept, UpdatesKept DEF IInv

LEMMA ListUntouched == ASSUME UNCHANGED <<spans, queue>> PROVE Listed' = Listed
  BY DEF Listed, QueuedRecords

LEMMA PauseStep == ASSUME IInv, Pause PROVE IInv'
<1>0. /\ pc = "drain" /\ pc' = "idle" /\ status = "InProgress"
      /\ UNCHANGED <<file, cursor, pending, zeros, inspected, batch, scanStatus, cancelled,
                     nodes, spans, queue, unit, deferred, stable, through, updates, budget,
                     mapStatus, before, status>>
  BY DEF Pause, scanner, tree, work, index, IInv, Modes
<1>1. Shape' /\ Modes' /\ Deferral'
  BY <1>0 DEF IInv, Shape, Modes, Deferral
<1>2. Mapped'
  BY <1>0 DEF IInv, Mapped, PayloadLength
<1> QED BY <1>0, <1>1, <1>2, Aside, ListUntouched DEF IInv

-----------------------------------------------------------------------------
(* The mapper. *)

LEMMA PayloadIsNat ==
  ASSUME IInv, unit # NoUnit
  PROVE  /\ unit \in Mapping /\ unit.mapped \in Nat /\ unit.mapped <= PayloadLength
         /\ PayloadLength \in Nat
<1>1. /\ unit \in Mapping /\ unit.mapped <= PayloadLength
  BY DEF IInv, Mapped
<1>2. unit.mapped \in Nat /\ unit.record \in NalUnit
  BY <1>1 DEF Mapping
<1>3. PayloadLength \in Int
  BY <1>2 DEF PayloadLength, NalLength, NalUnit
<1> QED BY <1>1, <1>2, <1>3

(* The unit being mapped is a node of the tree, and not the root. *)
LEMMA UnitIsNode ==
  ASSUME IInv, unit # NoUnit
  PROVE  unit.node \in 2..Len(nodes) /\ unit.node # 0 /\ unit.node # RootId
<1>1. /\ Tree(nodes) /\ spans \in Seq(NalUnit) /\ spans # <<>>
      /\ Len(spans) = Len(nodes[RootId].children)
      /\ unit.node = nodes[RootId].children[Len(spans)]
  BY DEF IInv, Shape, Mapped
<1>2. RootId \in 1..Len(nodes) /\ Len(nodes) \in Nat /\ RootId = 1
  BY <1>1, Links DEF RootId
<1>3. Len(spans) \in 1..Len(nodes[RootId].children)
  BY <1>1, EmptySeq
<1>4. unit.node \in 2..Len(nodes)
  BY <1>1, <1>2, <1>3, ChildrenApart
<1> QED BY <1>2, <1>4

LEMMA MapBeginStep == ASSUME IInv, MapBegin PROVE IInv'
<1>0. /\ pc = "drain" /\ pc' \in {"map", "finish"} /\ status = "InProgress"
      /\ unit # NoUnit /\ budget > 0
      /\ pc' = "map" => PayloadLength > unit.mapped
      /\ pc' = "finish" => mapStatus' \in {"Complete", "Cancelled"}
      /\ UNCHANGED <<file, cursor, pending, zeros, inspected, batch, scanStatus, cancelled,
                     nodes, spans, queue, unit, deferred, stable, through, updates, budget,
                     before, status>>
  BY DEF MapBegin, MapperEnds, scanner, tree, work, index, IInv, Modes
<1>1. Shape' /\ Modes' /\ Deferral'
  BY <1>0 DEF IInv, Shape, Modes, Deferral
<1>2. Mapped'
  <2>1. pc' = "map" => unit.mapped < PayloadLength
    BY <1>0, PayloadIsNat
  <2> QED BY <1>0, <2>1 DEF IInv, Mapped, PayloadLength
<1> QED BY <1>0, <1>1, <1>2, Aside, ListUntouched DEF IInv

LEMMA MapFailsStep == ASSUME IInv, MapFails PROVE IInv'
<1>0. /\ pc = "map" /\ pc' = "finish" /\ status = "InProgress"
      /\ mapStatus' \in {"SourceError", "ResourceLimit"}
      /\ UNCHANGED <<file, cursor, pending, zeros, inspected, batch, scanStatus, cancelled,
                     nodes, spans, queue, unit, deferred, stable, through, updates, budget,
                     before, status>>
  BY DEF MapFails, MapperEnds, scanner, tree, work, index, IInv, Modes
<1>1. Shape' /\ Modes' /\ Deferral'
  BY <1>0 DEF IInv, Shape, Modes, Deferral
<1>2. Mapped'
  BY <1>0 DEF IInv, Mapped, PayloadLength
<1> QED BY <1>0, <1>1, <1>2, Aside, ListUntouched DEF IInv

LEMMA MapByteStep == ASSUME IInv, MapByte PROVE IInv'
<1>0. /\ pc = "map" /\ pc' \in {"finish", "idle", "map"} /\ status = "InProgress"
      /\ budget' = budget - 1
      /\ pc' = "finish" => mapStatus' \in {"Complete", "Cancelled"}
      /\ pc' = "map" => unit'.mapped < PayloadLength /\ budget' # 0
      /\ UNCHANGED <<file, cursor, pending, zeros, inspected, batch, scanStatus, cancelled,
                     nodes, spans, queue, deferred, stable, through, updates, before, status>>
  BY DEF MapByte, MapperEnds, scanner, tree, index, IInv, Modes
<1>1. PICK issue \in BOOLEAN, excluded \in BOOLEAN :
        unit' = [unit EXCEPT !.mapped = @ + 1, !.issue = @ \/ issue, !.excluded = @ \/ excluded]
  BY DEF MapByte
<1>2. /\ unit # NoUnit /\ unit.mapped < PayloadLength /\ budget > 0
      /\ unit.mapped \in Nat /\ PayloadLength \in Nat /\ unit \in Mapping
      /\ budget \in 0..MaxMapped /\ MaxMapped \in Nat
  BY <1>0, PayloadIsNat, AnalyzerAssumption DEF IInv, Shape, Mapped
<1>3. /\ unit' \in Mapping /\ unit'.record = unit.record /\ unit'.node = unit.node
      /\ unit'.mapped = unit.mapped + 1
  <2>1. (unit.issue \/ issue) \in BOOLEAN /\ (unit.excluded \/ excluded) \in BOOLEAN
    OBVIOUS
  <2> DEFINE i == unit.issue \/ issue
             x == unit.excluded \/ excluded
  <2>2. unit' = [node |-> unit.node, record |-> unit.record, kind |-> unit.kind,
                 allow |-> unit.allow, mapped |-> unit.mapped + 1, issue |-> i, excluded |-> x]
    BY <1>1, <1>2 DEF Mapping
  <2>3. i \in BOOLEAN /\ x \in BOOLEAN
    BY <2>1
  <2> HIDE DEF i, x
  <2> QED BY <1>2, <2>2, <2>3 DEF Mapping
<1>4. PayloadLength' = PayloadLength
  BY <1>3 DEF PayloadLength
<1>5. budget' \in 0..MaxMapped /\ (budget' # 0 => budget' > 0)
  BY <1>0, <1>2
<1>6. unit' # NoUnit
  <2>1. unit.node # 0
    BY <1>2, UnitIsNode
  <2> QED BY <1>3, <2>1 DEF NoUnit
<1>7. Mapped'
  <2>1. unit'.mapped <= PayloadLength'
    BY <1>2, <1>3, <1>4
  <2>2. /\ spans # <<>> /\ unit.record = spans[Len(spans)]
        /\ unit.node = nodes[RootId].children[Len(spans)]
    BY <1>2 DEF IInv, Mapped
  <2> QED BY <1>0, <1>3, <1>4, <1>5, <1>6, <2>1, <2>2 DEF Mapped
<1>8. Shape' /\ Modes' /\ Deferral'
  BY <1>0, <1>5 DEF IInv, Shape, Modes, Deferral
<1> QED BY <1>0, <1>7, <1>8, Aside, ListUntouched DEF IInv

-----------------------------------------------------------------------------
(* What the analyzer does to the tree. *)

LEMMA BelowStays ==
  ASSUME NEW t, Tree(t), NEW p \in 1..Len(t), NEW u, Below(t, u, p)
  PROVE  Tree(u) /\ p \in 1..Len(u)
<1>1. Len(t) \in Nat /\ Tree(u) /\ Len(u) >= Len(t)
  BY Links DEF Below
<1>2. Len(u) \in Nat
  BY <1>1, Links
<1> QED BY <1>1, <1>2

LEMMA SameBelow == ASSUME NEW t, Tree(t), NEW p \in 1..Len(t) PROVE Below(t, t, p)
  BY Links, NothingMarked, MarksBelow

(* One more operation on p or on a child it gets. *)
LEMMA PartialBelow ==
  ASSUME NEW t, Tree(t), NEW p \in 1..Len(t), NEW u, Below(t, u, p),
         NEW to \in States, NEW code \in Codes
  PROVE  Below(t, MarkPartial(u, p, to, code), p)
<1>1. Tree(u) /\ p \in 1..Len(u) /\ u \in Seq(Node)
  BY BelowStays, Links
<1>2. Below(u, MarkPartial(u, p, to, code), p)
  BY <1>1, MarkPartialMarks, MarksBelow
<1> QED BY <1>2, BelowComposes

LEMMA TransitionBelow ==
  ASSUME NEW t, Tree(t), NEW p \in 1..Len(t), NEW u, Below(t, u, p), NEW to \in States
  PROVE  Below(t, Transition(u, p, to), p)
<1>1. Tree(u) /\ p \in 1..Len(u) /\ u \in Seq(Node)
  BY BelowStays, Links
<1>2. Below(u, Transition(u, p, to), p)
  BY <1>1, TransitionMarks, MarksBelow
<1> QED BY <1>2, BelowComposes

LEMMA DiagnosticBelow ==
  ASSUME NEW t, Tree(t), NEW p \in 1..Len(t), NEW u, Below(t, u, p), NEW code \in Codes
  PROVE  Below(t, AddDiagnostic(u, p, code), p)
<1>1. Tree(u) /\ p \in 1..Len(u) /\ u \in Seq(Node)
  BY BelowStays, Links
<1>2. Below(u, AddDiagnostic(u, p, code), p)
  BY <1>1, AddDiagnosticMarks, MarksBelow
<1> QED BY <1>2, BelowComposes

LEMMA ChildBelow ==
  ASSUME NEW t, Tree(t), NEW p \in 1..Len(t), NEW u, Below(t, u, p),
         NEW kind \in Kinds, NEW state \in States
  PROVE  Below(t, AppendChild(u, p, kind, state, 0, 0), p)
<1> DEFINE n == NewNode(p, kind, state, 0, 0)
<1>1. Tree(u) /\ p \in 1..Len(u)
  BY BelowStays
<1>2. n.parent = p /\ n.children = <<>>
  BY DEF NewNode
<1>3. Grafts(u, AppendChild(u, p, kind, state, 0, 0), p, n)
  BY <1>1, AppendChildTree
<1> HIDE DEF n
<1>4. Below(u, AppendChild(u, p, kind, state, 0, 0), p)
  BY <1>1, <1>2, <1>3, GraftsBelow
<1> QED BY <1>4, BelowComposes

LEMMA StructureBelow ==
  ASSUME NEW t, Tree(t), NEW p \in 1..Len(t), NEW u, Below(t, u, p), NEW c \in BOOLEAN,
         NEW o \in Executions(u, p, Structure, c, Parts(Structure))
  PROVE  o.status \in Statuses /\ Below(t, Decoded(u, p, Structure, o, 0), p)
<1>1. Tree(u) /\ p \in 1..Len(u)
  BY BelowStays
<1>2. IsBox(Structure) /\ Parts(Structure) \in Nat
  BY DEF IsBox, Structure, Parts
<1>3. DecodedFrom(u, Decoded(u, p, Structure, o, 0), p, o) /\ o.status \in Statuses
  BY <1>1, <1>2, DecodedBelow, OutcomeFacts
<1> QED BY <1>3, BelowComposes DEF DecodedFrom

LEMMA FramingBelow ==
  ASSUME NEW t, Tree(t), NEW p \in 1..Len(t), NEW u, Below(t, u, p), NEW r
  PROVE  Below(t, WithFraming(u, p, r), p)
<1>1. "framing" \in Kinds /\ "Materialized" \in States
  BY DEF Kinds, States, Terminal
<1> QED BY <1>1, ChildBelow DEF WithFraming

(* How a failure is marked. *)
LEMMA FailureMarks ==
  ASSUME NEW s \in Statuses, s # "Materialized"
  PROVE  Stopped(s) \in States /\ Code(Stops(s)) \in Codes
  BY DEF Statuses, ContentFailures, Stopped, Stops, Code, States, Active, Terminal, Codes

(* The list of the NAL nodes stays what it was. *)
RootKept(t, u) == Tree(u) /\ u[RootId].children = t[RootId].children

LEMMA BelowOther ==
  ASSUME NEW t, Tree(t), NEW p \in 1..Len(t), p # RootId, NEW u, Below(t, u, p)
  PROVE  RootKept(t, u)
<1>1. RootId \in 1..Len(t)
  BY Links
<1> QED BY <1>1 DEF RootKept, Below

LEMMA RootMarkedKept ==
  ASSUME NEW t, Tree(t), NEW u, OnlyMarks(t, u, RootId)
  PROVE  RootKept(t, u)
<1>1. RootId \in 1..Len(t)
  BY Links
<1> QED BY <1>1, MarksBelow DEF RootKept, Below

Failures == {"Cancelled", "SourceError", "ResourceLimit", "InvalidRule"}

LEMMA TerminalizeKeeps ==
  ASSUME NEW t, Tree(t), NEW s \in Failures, Terminalize(t, s)
  PROVE  RootKept(t, nodes') /\ status' = s /\ pc' = "idle"
<1>1. Stopped(s) \in States /\ Code(s) \in Codes
  BY DEF Failures, Stopped, Code, States, Active, Terminal, Codes
<1>2. RootId \in 1..Len(t) /\ t \in Seq(Node)
  BY Links
<1>3. OnlyMarks(t, MarkPartial(t, RootId, Stopped(s), Code(s)), RootId)
  BY <1>1, <1>2, MarkPartialMarks
<1> QED BY <1>3, RootMarkedKept DEF Terminalize

LEMMA KeptTwice ==
  ASSUME NEW t, NEW u, NEW v, RootKept(t, u), RootKept(u, v)
  PROVE  RootKept(t, v)
  BY DEF RootKept

LEMMA StopIsFailure ==
  ASSUME NEW s \in Statuses, s \notin ContentFailures \cup {"Materialized"}
  PROVE  Stops(s) \in Failures
  BY DEF Statuses, ContentFailures, Stops, Failures

-----------------------------------------------------------------------------
(* publishRecord(): one more NAL node, for the record at the head of the   *)
(* queue, and perhaps a unit to be mapped.                                 *)

LEMMA BegunNal ==
  ASSUME Tree(nodes)
  PROVE  LET nal == Len(nodes) + 1
             one == AppendChild(nodes, RootId, "nal", "Indexing", Len(spans), 0)
         IN  Len(spans) \in Nat =>
               /\ Tree(one) /\ nal \in 1..Len(one) /\ nal # RootId /\ nal # 0
               /\ one[RootId].children = Append(nodes[RootId].children, nal)
<1> DEFINE one == AppendChild(nodes, RootId, "nal", "Indexing", Len(spans), 0)
           n == NewNode(RootId, "nal", "Indexing", Len(spans), 0)
<1> SUFFICES ASSUME Len(spans) \in Nat
             PROVE  /\ Tree(one) /\ Len(nodes) + 1 \in 1..Len(one)
                    /\ Len(nodes) + 1 # RootId /\ Len(nodes) + 1 # 0
                    /\ one[RootId].children = Append(nodes[RootId].children, Len(nodes) + 1)
  OBVIOUS
<1>1. RootId \in 1..Len(nodes) /\ Len(nodes) \in Nat /\ Len(nodes) >= 1 /\ RootId = 1
  BY Links DEF RootId
<1>2. "nal" \in Kinds /\ "Indexing" \in States
  BY DEF Kinds, States, Active
<1>3. Tree(one) /\ Grafts(nodes, one, RootId, n)
  BY <1>1, <1>2, AppendChildTree
<1> HIDE DEF one, n
<1>4. one[RootId].children = Append(nodes[RootId].children, Len(nodes) + 1)
  BY <1>1, <1>3, GraftedChildren
<1>5. Len(one) = Len(nodes) + 1
  BY <1>3 DEF Grafts
<1> QED BY <1>1, <1>3, <1>4, <1>5

UnitFor(r, nal) ==
  /\ unit' \in Mapping /\ unit'.record = r /\ unit'.node = nal /\ unit'.mapped = 0
  /\ NalLength(r) > 0

LEMMA PublishFacts ==
  ASSUME IInv, PublishRecord
  PROVE  /\ Tree(nodes')
         /\ nodes'[RootId].children = Append(nodes[RootId].children, Len(nodes) + 1)
         /\ unit' = unit \/ UnitFor(Head(queue).record, Len(nodes) + 1)
         /\ \/ UNCHANGED <<status, pc>>
            \/ status' \in Failures /\ pc' = "idle"
<1> DEFINE r == Head(queue).record
           allow == Head(queue).allow
           nal == Len(nodes) + 1
           one == AppendChild(nodes, RootId, "nal", "Indexing", Len(spans), 0)
           begun == AppendChild(one, nal, "framing", "Materialized", 0, 0)
           decoded(o) == Decoded(begun, nal, Structure, o, 0)
           framed(o) == WithFraming(decoded(o), nal, r)
           partial(o) == MarkPartial(framed(o), nal, Stopped(o.status), Code(Stops(o.status)))
<1>1. PICK o \in HeaderOutcomes(begun, nal, r, allow /\ cancelled) :
        \/ /\ o.status = "Materialized"
           /\ \E kind \in PayloadKinds(NalLength(r)) :
                IF kind \in {"extension", "unmapped"}
                THEN /\ nodes' = Transition(framed(o), nal, "Materialized")
                     /\ UNCHANGED unit
                ELSE /\ nodes' = decoded(o)
                     /\ unit' = [node |-> nal, record |-> r, kind |-> kind,
                                 allow |-> allow, mapped |-> 0,
                                 issue |-> FALSE, excluded |-> FALSE]
           /\ UNCHANGED <<status, pc>>
        \/ /\ o.status \in ContentFailures
           /\ nodes' = partial(o)
           /\ UNCHANGED <<unit, status, pc>>
        \/ /\ o.status \notin ContentFailures \cup {"Materialized"}
           /\ Terminalize(partial(o), Stops(o.status))
           /\ UNCHANGED unit
  BY DEF PublishRecord
<1>2. Head(queue) \in QueueEntry
  <2>1. queue # <<>> /\ queue \in Seq(QueueEntry)
    BY DEF PublishRecord, IInv, Shape
  <2> QED BY <2>1, HeadTailProperties
<1>3. r \in NalUnit /\ allow \in BOOLEAN /\ cancelled \in BOOLEAN /\ Len(spans) \in Nat
  BY <1>2 DEF QueueEntry, IInv, Shape, Modes
<1>4. (allow /\ cancelled) \in BOOLEAN
  OBVIOUS
<1>5. /\ Tree(one) /\ nal \in 1..Len(one) /\ nal # RootId /\ nal # 0
      /\ one[RootId].children = Append(nodes[RootId].children, nal)
  BY <1>3, BegunNal DEF IInv, Shape
<1>6. Below(one, begun, nal)
  <2>1. "framing" \in Kinds /\ "Materialized" \in States
    BY DEF Kinds, States, Terminal
  <2> HIDE DEF one, nal
  <2> QED BY <1>5, <2>1, SameBelow, ChildBelow
<1>7. /\ o \in Executions(begun, nal, Structure, allow /\ cancelled, Parts(Structure))
      /\ o.status = "Materialized" => NalLength(r) > 0
  BY DEF HeaderOutcomes
<1> HIDE DEF one, begun, nal, allow, r
<1>8. o.status \in Statuses /\ Below(one, decoded(o), nal)
  BY <1>4, <1>5, <1>6, <1>7, StructureBelow
<1> HIDE DEF decoded
<1>9. Below(one, framed(o), nal)
  BY <1>5, <1>8, FramingBelow
<1> HIDE DEF framed
<1>10. ASSUME NEW u, Below(one, u, nal)
       PROVE  Tree(u) /\ u[RootId].children = Append(nodes[RootId].children, nal)
  BY <1>5, <1>10, BelowOther DEF RootKept
<1>11. CASE o.status = "Materialized"
  <2>1. PICK kind \in PayloadKinds(NalLength(r)) :
          IF kind \in {"extension", "unmapped"}
          THEN /\ nodes' = Transition(framed(o), nal, "Materialized")
               /\ UNCHANGED unit
          ELSE /\ nodes' = decoded(o)
               /\ unit' = [node |-> nal, record |-> r, kind |-> kind,
                           allow |-> allow, mapped |-> 0,
                           issue |-> FALSE, excluded |-> FALSE]
    BY <1>1, <1>11 DEF ContentFailures
  <2>2. UNCHANGED <<status, pc>>
    BY <1>1, <1>11 DEF ContentFailures
  <2>3. CASE kind \in {"extension", "unmapped"}
    <3>1. "Materialized" \in States
      BY DEF States, Terminal
    <3>2. Below(one, nodes', nal)
      BY <1>5, <1>9, <2>1, <2>3, <3>1, TransitionBelow
    <3> QED BY <1>10, <2>1, <2>2, <2>3, <3>2 DEF nal
  <2>4. CASE kind \notin {"extension", "unmapped"}
    <3>1. kind \in {"opaque", "empty", "structured"}
      BY <2>1, <2>4 DEF PayloadKinds
    <3>2. nal \in Nat
      BY <1>5, Links
    <3>3. UnitFor(r, nal)
      <4>1. unit' = [node |-> nal, record |-> r, kind |-> kind, allow |-> allow,
                     mapped |-> 0, issue |-> FALSE, excluded |-> FALSE]
        BY <2>1, <2>4
      <4>2. 0 \in Nat /\ FALSE \in BOOLEAN /\ allow \in BOOLEAN
        BY <1>3
      <4>3. unit' \in Mapping
        BY <1>3, <3>1, <3>2, <4>1, <4>2 DEF Mapping
      <4>4. NalLength(r) > 0
        BY <1>7, <1>11
      <4> QED BY <4>1, <4>3, <4>4 DEF UnitFor
    <3>4. Below(one, nodes', nal)
      BY <1>8, <2>1, <2>4
    <3>5. Tree(nodes') /\ nodes'[RootId].children = Append(nodes[RootId].children, nal)
      BY <1>10, <3>4
    <3> QED BY <2>2, <3>3, <3>5 DEF nal, r
  <2> QED BY <2>3, <2>4
<1>12. CASE o.status # "Materialized"
  <2>1. Stopped(o.status) \in States /\ Code(Stops(o.status)) \in Codes
    BY <1>8, <1>12, FailureMarks
  <2>2. Below(one, partial(o), nal)
    BY <1>5, <1>9, <2>1, PartialBelow
  <2> HIDE DEF partial
  <2>3. Tree(partial(o)) /\ partial(o)[RootId].children = Append(nodes[RootId].children, nal)
    BY <1>10, <2>2
  <2>4. CASE o.status \in ContentFailures
    BY <1>1, <1>12, <2>3, <2>4 DEF nal
  <2>5. CASE o.status \notin ContentFailures
    <3>1. Terminalize(partial(o), Stops(o.status)) /\ UNCHANGED unit
      BY <1>1, <1>12, <2>5
    <3>2. Stops(o.status) \in Failures
      BY <1>8, <1>12, <2>5, StopIsFailure
    <3>3. RootKept(partial(o), nodes') /\ status' \in Failures /\ pc' = "idle"
      BY <2>3, <3>1, <3>2, TerminalizeKeeps
    <3> QED BY <2>3, <3>1, <3>3 DEF RootKept, nal
  <2> QED BY <2>4, <2>5
<1> QED BY <1>11, <1>12

LEMMA PublishRecordStep == ASSUME IInv, PublishRecord PROVE IInv'
<1> DEFINE r == Head(queue).record
           nal == Len(nodes) + 1
           L == Len(spans)
<1>0. /\ pc = "drain" /\ status = "InProgress" /\ unit = NoUnit /\ queue # <<>>
      /\ spans' = Append(spans, r) /\ queue' = Tail(queue)
      /\ UNCHANGED <<file, cursor, pending, zeros, inspected, batch, scanStatus, cancelled,
                     deferred, stable, through, updates, budget, mapStatus, before>>
  BY DEF PublishRecord, Unqueued, scanner, index, IInv, Modes
<1>1. /\ Tree(nodes') /\ nodes'[RootId].children = Append(nodes[RootId].children, nal)
      /\ unit' = unit \/ UnitFor(r, nal)
      /\ UNCHANGED <<status, pc>> \/ (status' \in Failures /\ pc' = "idle")
  BY PublishFacts
<1>2. /\ spans \in Seq(NalUnit) /\ queue \in Seq(QueueEntry) /\ L \in Nat
      /\ L = Len(nodes[RootId].children)
      /\ nodes[RootId].children \in Seq(Nat) /\ nal \in Nat
  <2>1. Tree(nodes)
    BY DEF IInv, Shape
  <2>2. nodes \in Seq(Node) /\ RootId \in 1..Len(nodes) /\ Len(nodes) \in Nat
    BY <2>1, Links
  <2>3. nodes[RootId].children \in Seq(Nat)
    BY <2>2, NodeFields
  <2> QED BY <2>2, <2>3 DEF IInv, Shape
<1> HIDE DEF nal
<1>3. /\ spans' \in Seq(NalUnit) /\ Len(spans') = L + 1 /\ spans'[L + 1] = r
      /\ queue' \in Seq(QueueEntry) /\ ListOf(spans', queue') = ListOf(spans, queue)
  BY <1>0, <1>2, PublishedList
<1>4. Len(nodes'[RootId].children) = L + 1 /\ nodes'[RootId].children[L + 1] = nal
  BY <1>1, <1>2
<1>5. Shape'
  BY <1>0, <1>1, <1>3, <1>4 DEF IInv, Shape
<1>6. Modes' /\ Deferral'
  BY <1>0, <1>1 DEF IInv, Modes, Deferral, Failures, Statuses
<1>7. Listed' = Listed
  <2>1. Listed = ListOf(spans, queue)
    BY ListedIsList DEF IInv
  <2>2. DOMAIN queue' = 1..Len(queue')
    BY <1>3
  <2>3. Listed' = ListOf(spans', queue')
    BY <2>2 DEF Listed, QueuedRecords, ListOf, RecordsOf
  <2> QED BY <1>3, <2>1, <2>3
<1>8. Mapped'
  <2>1. pc' \notin {"map", "finish"}
    BY <1>0, <1>1
  <2>2. ASSUME UnitFor(r, nal)
        PROVE  /\ unit' \in Mapping /\ spans' # <<>> /\ unit'.record = spans'[Len(spans')]
               /\ unit'.node = nodes'[RootId].children[Len(spans')]
               /\ unit'.mapped <= PayloadLength'
    <3>1. unit' \in Mapping /\ unit'.record = r /\ unit'.node = nal /\ unit'.mapped = 0
          /\ NalLength(r) > 0
      BY <2>2 DEF UnitFor
    <3>2. spans' # <<>>
      BY <1>2, <1>3, EmptySeq
    <3>3. PayloadLength' = NalLength(r) - 1
      BY <3>1 DEF PayloadLength
    <3>4. NalLength(r) \in Int
      <4>1. r \in NalUnit
        BY <3>1 DEF Mapping
      <4> QED BY <4>1 DEF NalLength, NalUnit
    <3>5. unit'.mapped <= PayloadLength'
      BY <3>1, <3>3, <3>4
    <3> HIDE DEF r
    <3> QED BY <1>3, <1>4, <3>1, <3>2, <3>5
  <2>3. CASE unit' = NoUnit
    BY <2>1, <2>3 DEF Mapped
  <2>4. CASE unit' # NoUnit
    BY <1>0, <1>1, <2>1, <2>2, <2>4 DEF Mapped
  <2> QED BY <2>3, <2>4
<1>9. pc' \notin {"scan", "scanned"} /\ pc \notin {"scan", "scanned"}
  BY <1>0, <1>1
<1>10. ScannedInOrder' /\ UpdatesJoin'
  BY <1>0, <1>5, <1>7, <1>9, Aside
<1> QED BY <1>5, <1>6, <1>8, <1>10 DEF IInv

-----------------------------------------------------------------------------
(* finishPendingNalUnit(): whatever comes of the payload, the list of the  *)
(* NAL nodes stays what it was.                                            *)

Kept(t, u) == RootKept(t, u) /\ Len(u) >= Len(t)

LEMMA BelowKept ==
  ASSUME NEW t, Tree(t), NEW p \in 1..Len(t), p # RootId, NEW u, Below(t, u, p)
  PROVE  Kept(t, u)
<1>1. RootKept(t, u)
  BY BelowOther
<1> QED BY <1>1 DEF Kept, Below

LEMMA KeptOn ==
  ASSUME NEW t, Tree(t), NEW u, Kept(t, u), NEW v, Kept(u, v)
  PROVE  Kept(t, v)
<1>1. Len(t) \in Nat /\ Len(u) \in Nat /\ Len(v) \in Nat
  BY Links DEF Kept, RootKept
<1> QED BY <1>1 DEF Kept, RootKept

LEMMA KeptStays ==
  ASSUME NEW t, Tree(t), NEW p \in 1..Len(t), NEW u, Kept(t, u)
  PROVE  Tree(u) /\ p \in 1..Len(u)
<1>1. Len(t) \in Nat /\ Len(u) \in Nat
  BY Links DEF Kept, RootKept
<1> QED BY <1>1 DEF Kept, RootKept

LEMMA PayloadOutcomeKept ==
  ASSUME NEW t, Tree(t), NEW rbsp \in 1..Len(t), rbsp # RootId, unit \in Mapping,
         cancelled \in BOOLEAN, NEW o \in PayloadOutcomes(t, rbsp)
  PROVE  o.status \in Statuses /\ Kept(t, o.nodes)
<1> DEFINE allow == unit.allow /\ cancelled
           executed == {[status |-> x.status, nodes |-> Decoded(t, rbsp, Structure, x, 0)] :
                          x \in Executions(t, rbsp, Structure, allow, Parts(Structure))}
           refused  == {[status |-> s, nodes |-> e.nodes] :
                          s \in ContentFailures \cup {"InvalidDefinition", "ResourceLimit"},
                          e \in {x \in executed : x.status = "Materialized"}}
<1>1. unit.kind \in {"opaque", "empty", "structured"} /\ allow \in BOOLEAN
  BY DEF Mapping
<1>2. Kept(t, t)
  BY SameBelow, BelowKept
<1>3. ASSUME NEW e \in executed PROVE e.status \in Statuses /\ Kept(t, e.nodes)
  <2>1. PICK x \in Executions(t, rbsp, Structure, allow, Parts(Structure)) :
          e = [status |-> x.status, nodes |-> Decoded(t, rbsp, Structure, x, 0)]
    BY <1>3
  <2>2. x.status \in Statuses /\ Below(t, Decoded(t, rbsp, Structure, x, 0), rbsp)
    BY <1>1, SameBelow, StructureBelow
  <2> QED BY <2>1, <2>2, BelowKept
<1>4. ASSUME NEW e \in refused PROVE e.status \in Statuses /\ Kept(t, e.nodes)
  <2> HIDE DEF executed
  <2>1. PICK s \in ContentFailures \cup {"InvalidDefinition", "ResourceLimit"},
             x \in executed : e = [status |-> s, nodes |-> x.nodes]
    BY <1>4
  <2> QED BY <1>3, <2>1 DEF Statuses
<1>5. \/ o = [status |-> "Materialized", nodes |-> t]
      \/ o = [status |-> "InvalidSyntax", nodes |-> t]
      \/ o \in executed \cup refused
  <2>1. CASE unit.kind = "opaque"
    BY <2>1 DEF PayloadOutcomes
  <2>2. CASE unit.kind = "empty"
    BY <2>2 DEF PayloadOutcomes
  <2>3. CASE unit.kind = "structured"
    BY <2>3 DEF PayloadOutcomes
  <2> QED BY <1>1, <2>1, <2>2, <2>3
<1> HIDE DEF executed, refused
<1> QED BY <1>2, <1>3, <1>4, <1>5 DEF Statuses, ContentFailures

LEMMA FinishMappedKept ==
  ASSUME NEW t, Tree(t), NEW rbsp \in 1..Len(t), rbsp # RootId, unit \in Mapping,
         unit.node \in 1..Len(t), unit.node # RootId, cancelled \in BOOLEAN,
         FinishMapped(t, rbsp)
  PROVE  /\ RootKept(t, nodes')
         /\ \/ pc' = "drain" /\ UNCHANGED status
            \/ status' \in Failures /\ pc' = "idle"
<1> DEFINE n == unit.node
<1>1. PICK o \in PayloadOutcomes(t, rbsp) :
        \/ /\ o.status \in ContentFailures \cup {"Materialized"}
           /\ nodes' = Transition(PayloadMarked(o, rbsp), n,
                                  IF o.status = "Materialized" /\ ~unit.issue
                                  THEN "Materialized" ELSE "Invalid")
           /\ pc' = "drain" /\ UNCHANGED status
        \/ /\ o.status \notin ContentFailures \cup {"Materialized"}
           /\ Terminalize(MarkPartial(PayloadMarked(o, rbsp), n, Stopped(o.status),
                                      Code(Stops(o.status))),
                          Stops(o.status))
  BY DEF FinishMapped
<1> DEFINE m == PayloadMarked(o, rbsp)
<1>2. o.status \in Statuses /\ Kept(t, o.nodes)
  BY PayloadOutcomeKept
<1>3. Tree(o.nodes) /\ rbsp \in 1..Len(o.nodes)
  BY <1>2, KeptStays
<1>4. "Materialized" \in States /\ "Invalid" \in States
  BY DEF States, Terminal
<1>5. Below(o.nodes, m, rbsp)
  <2>1. CASE o.status = "Materialized"
    <3>1. m = Transition(o.nodes, rbsp, "Materialized")
      BY <2>1 DEF PayloadMarked
    <3> QED BY <1>3, <1>4, <3>1, SameBelow, TransitionBelow
  <2>2. CASE o.status # "Materialized"
    <3> DEFINE to == IF o.status = "Unsupported" THEN "Unsupported" ELSE Stopped(o.status)
    <3>1. m = MarkPartial(o.nodes, rbsp, to, Code(Stops(o.status)))
      BY <2>2 DEF PayloadMarked
    <3>2. to \in States /\ Code(Stops(o.status)) \in Codes
      BY <1>2, <2>2, FailureMarks DEF States, Terminal
    <3> HIDE DEF to
    <3> QED BY <1>3, <3>1, <3>2, SameBelow, PartialBelow
  <2> QED BY <2>1, <2>2
<1> HIDE DEF m
<1>6. Kept(t, m)
  BY <1>2, <1>3, <1>5, BelowKept, KeptOn
<1>7. Tree(m) /\ n \in 1..Len(m) /\ n # RootId
  BY <1>6, KeptStays
<1>8. CASE o.status \in ContentFailures \cup {"Materialized"}
  <2>1. \E to \in {"Materialized", "Invalid"} : nodes' = Transition(m, n, to)
    BY <1>1, <1>8 DEF m
  <2>2. Below(m, nodes', n)
    BY <1>4, <1>7, <2>1, SameBelow, TransitionBelow
  <2>3. Kept(t, nodes')
    BY <1>6, <1>7, <2>2, BelowKept, KeptOn
  <2> QED BY <1>1, <1>8, <2>3 DEF Kept
<1>9. CASE o.status \notin ContentFailures \cup {"Materialized"}
  <2> DEFINE q == MarkPartial(m, n, Stopped(o.status), Code(Stops(o.status)))
  <2>1. Terminalize(q, Stops(o.status))
    BY <1>1, <1>9 DEF m
  <2>2. Stopped(o.status) \in States /\ Code(Stops(o.status)) \in Codes
    BY <1>2, <1>9, FailureMarks
  <2>3. Below(m, q, n)
    BY <1>7, <2>2, SameBelow, PartialBelow
  <2> HIDE DEF q
  <2>4. Kept(t, q)
    BY <1>6, <1>7, <2>3, BelowKept, KeptOn
  <2>5. Stops(o.status) \in Failures
    BY <1>2, <1>9, StopIsFailure
  <2>6. RootKept(q, nodes') /\ status' \in Failures /\ pc' = "idle"
    BY <2>1, <2>4, <2>5, TerminalizeKeeps DEF Kept, RootKept
  <2> QED BY <2>4, <2>6, KeptTwice DEF Kept
<1> QED BY <1>8, <1>9

LEMMA FinishPendingFacts ==
  ASSUME IInv, FinishPendingNalUnit
  PROVE  /\ RootKept(nodes, nodes')
         /\ \/ pc' = "drain" /\ UNCHANGED status
            \/ status' \in Failures /\ pc' = "idle"
<1> DEFINE complete == mapStatus = "Complete"
           rbsp  == Len(nodes) + 1
           n     == unit.node
           state == IF ~complete THEN Stopped(mapStatus)
                    ELSE IF unit.kind = "opaque" THEN "Materialized" ELSE "Indexing"
           begun == AppendChild(nodes, n, "rbsp", state, 0, 0)
           noted == IF complete THEN begun ELSE AddDiagnostic(begun, rbsp, mapStatus)
           full  == Finished(noted, n, unit.excluded, unit.record)
           told  == IF complete /\ unit.issue
                    THEN AddDiagnostic(full, n, "InvalidSyntax") ELSE full
<1>1. /\ pc = "finish"
      /\ IF complete THEN FinishMapped(told, rbsp) ELSE FinishUnmapped(told)
  BY DEF FinishPendingNalUnit
<1>2. /\ Tree(nodes) /\ unit # NoUnit /\ cancelled \in BOOLEAN
      /\ mapStatus \in {"Complete", "Cancelled", "SourceError", "ResourceLimit"}
  BY <1>1 DEF IInv, Shape, Modes, Mapped
<1>3. unit \in Mapping /\ n \in 1..Len(nodes) /\ n # RootId
  BY <1>2, UnitIsNode, PayloadIsNat
<1>4. /\ state \in States /\ "rbsp" \in Kinds /\ "framing" \in Kinds
      /\ "Materialized" \in States /\ "InvalidSyntax" \in Codes
      /\ ~complete => mapStatus \in Codes /\ mapStatus \in Failures
  BY <1>2 DEF Stopped, States, Active, Terminal, Kinds, Codes, Failures
<1> HIDE DEF state
<1>5. Below(nodes, begun, n) /\ Len(begun) = Len(nodes) + 1
  <2>1. Below(nodes, begun, n)
    BY <1>2, <1>3, <1>4, SameBelow, ChildBelow
  <2>2. 0 \in Nat /\ Grafts(nodes, begun, n, NewNode(n, "rbsp", state, 0, 0))
    BY <1>2, <1>3, <1>4, AppendChildTree
  <2> QED BY <2>1, <2>2 DEF Grafts
<1>6. Kept(nodes, begun) /\ Tree(begun)
  BY <1>2, <1>3, <1>5, BelowKept DEF Below
<1>7. rbsp \in 1..Len(begun) /\ rbsp # RootId
  BY <1>2, <1>5, Links DEF RootId
<1> HIDE DEF begun, rbsp, complete
<1>8. Kept(begun, noted) /\ Tree(noted)
  <2>1. CASE complete
    BY <1>6, <1>7, <2>1, SameBelow, BelowKept
  <2>2. CASE ~complete
    <3>1. Below(begun, AddDiagnostic(begun, rbsp, mapStatus), rbsp)
      BY <1>4, <1>6, <1>7, <2>2, SameBelow, DiagnosticBelow
    <3> QED BY <1>6, <1>7, <2>2, <3>1, BelowKept DEF Below
  <2> QED BY <2>1, <2>2
<1>9. n \in 1..Len(noted)
  BY <1>2, <1>3, <1>6, <1>8, KeptStays
<1> HIDE DEF noted
<1>10. Below(noted, full, n)
  <2> DEFINE shown == IF unit.excluded
                      THEN AppendChild(noted, n, "framing", "Materialized", 0, 0) ELSE noted
  <2>1. Below(noted, shown, n)
    BY <1>4, <1>8, <1>9, SameBelow, ChildBelow
  <2>2. full = WithFraming(shown, n, unit.record)
    BY DEF Finished
  <2> HIDE DEF shown
  <2> QED BY <1>8, <1>9, <2>1, <2>2, FramingBelow
<1> HIDE DEF full
<1>11. Below(noted, told, n)
  BY <1>4, <1>8, <1>9, <1>10, DiagnosticBelow
<1> HIDE DEF told
<1>12. Kept(nodes, told) /\ Kept(begun, told) /\ Tree(told)
  <2>1. Kept(noted, told)
    BY <1>3, <1>8, <1>9, <1>11, BelowKept
  <2> QED BY <1>2, <1>6, <1>8, <2>1, KeptOn, KeptStays DEF Kept, RootKept
<1>13. n \in 1..Len(told) /\ rbsp \in 1..Len(told)
  BY <1>2, <1>3, <1>6, <1>7, <1>12, KeptStays
<1>14. CASE complete
  <2>1. FinishMapped(told, rbsp)
    BY <1>1, <1>14
  <2>2. /\ RootKept(told, nodes')
        /\ \/ pc' = "drain" /\ UNCHANGED status
           \/ status' \in Failures /\ pc' = "idle"
    BY <1>2, <1>3, <1>7, <1>12, <1>13, <2>1, FinishMappedKept
  <2> QED BY <1>12, <2>2, KeptTwice DEF Kept
<1>15. CASE ~complete
  <2> DEFINE q == MarkPartial(told, n, Stopped(mapStatus), Code(mapStatus))
  <2>1. Terminalize(q, mapStatus)
    BY <1>1, <1>15 DEF FinishUnmapped
  <2>2. Stopped(mapStatus) \in States /\ Code(mapStatus) \in Codes
    BY <1>4, <1>15 DEF Failures, Stopped, Code, States, Terminal, Codes
  <2>3. Below(told, q, n)
    BY <1>12, <1>13, <2>2, SameBelow, PartialBelow
  <2> HIDE DEF q
  <2>4. RootKept(told, q)
    BY <1>3, <1>12, <1>13, <2>3, BelowOther
  <2>5. RootKept(q, nodes') /\ status' \in Failures /\ pc' = "idle"
    BY <1>4, <1>15, <2>1, <2>4, TerminalizeKeeps DEF RootKept
  <2> QED BY <1>12, <2>4, <2>5, KeptTwice DEF Kept
<1> QED BY <1>14, <1>15

(* A step that ends with no unit to be mapped and moves no record.         *)
LEMMA NoUnitLeft ==
  ASSUME IInv, RootKept(nodes, nodes'), unit' = NoUnit, Modes', Deferral',
         pc \in {"idle", "drain", "finish"}, pc' \in {"idle", "drain"},
         deferred = "Complete" => deferred' = "Complete",
         UNCHANGED <<file, cursor, pending, zeros, inspected, batch, scanStatus, spans, queue,
                     stable, through, updates, budget>>
  PROVE  IInv'
<1>1. Shape'
  BY DEF IInv, Shape, RootKept
<1>2. Mapped'
  BY DEF Mapped
<1>3. ScannedInOrder' /\ UpdatesJoin'
  <2>1. Listed' = Listed
    BY ListUntouched
  <2>2. pc \notin {"scan", "scanned"} /\ pc' \notin {"scan", "scanned"}
    OBVIOUS
  <2> QED BY <1>1, <2>1, <2>2, Aside
<1> QED BY <1>1, <1>2, <1>3 DEF IInv

LEMMA FinishPendingStep == ASSUME IInv, FinishPendingNalUnit PROVE IInv'
<1>0. /\ pc = "finish" /\ unit' = NoUnit /\ status = "InProgress"
      /\ UNCHANGED <<file, cursor, pending, zeros, inspected, batch, scanStatus, cancelled,
                     spans, queue, deferred, stable, through, updates, budget, mapStatus,
                     before>>
  BY DEF FinishPendingNalUnit, UnitAfter, scanner, index, IInv, Modes
<1>1. /\ RootKept(nodes, nodes')
      /\ \/ pc' = "drain" /\ UNCHANGED status
         \/ status' \in Failures /\ pc' = "idle"
  BY FinishPendingFacts
<1>2. Modes' /\ Deferral'
  BY <1>0, <1>1 DEF IInv, Modes, Deferral, Failures, Statuses
<1> QED BY <1>0, <1>1, <1>2, NoUnitLeft

-----------------------------------------------------------------------------
(* The end of a call, and between calls. *)

LEMMA FinishBatchStep == ASSUME IInv, FinishBatch PROVE IInv'
<1>0. /\ pc = "drain" /\ pc' = "idle" /\ status = "InProgress" /\ queue = <<>>
      /\ unit = NoUnit /\ unit' = NoUnit /\ Tree(nodes)
      /\ (deferred = "InProgress" /\ deferred' = "none") \/ deferred' = deferred
      /\ UNCHANGED <<file, cursor, pending, zeros, inspected, batch, scanStatus, cancelled,
                     spans, queue, stable, through, updates, budget, mapStatus, before>>
  BY DEF FinishBatch, DeferredAfterBatch, Terminalize, scanner, index, IInv, Modes, Shape
<1>1. RootId \in 1..Len(nodes) /\ nodes \in Seq(Node)
  BY <1>0, Links
<1>2. CASE deferred = "Complete"
  <2>1. /\ nodes' = MarkPartial(nodes, RootId, "Invalid", "InvalidSyntax")
           \/ nodes' = Transition(nodes, RootId, "Materialized")
        /\ status' = "Complete" /\ deferred' = deferred
    BY <1>2 DEF FinishBatch
  <2>2. "Invalid" \in States /\ "Materialized" \in States /\ "InvalidSyntax" \in Codes
    BY DEF States, Terminal, Codes
  <2>3. RootKept(nodes, nodes')
    BY <1>0, <1>1, <2>1, <2>2, MarkPartialMarks, TransitionMarks, RootMarkedKept
  <2>4. Modes' /\ Deferral'
    BY <1>0, <1>2, <2>1 DEF IInv, Modes, Deferral
  <2> QED BY <1>0, <1>2, <2>1, <2>3, <2>4, NoUnitLeft
<1>3. CASE deferred = "InProgress"
  <2>1. nodes' = nodes /\ status' = status /\ deferred' = "none"
    BY <1>3 DEF FinishBatch, DeferredAfterBatch
  <2>2. RootKept(nodes, nodes')
    BY <1>0, <2>1 DEF RootKept
  <2>3. Modes' /\ Deferral'
    BY <1>0, <1>3, <2>1 DEF IInv, Modes, Deferral, ScanStatuses
  <2> QED BY <1>0, <1>3, <2>1, <2>2, <2>3, NoUnitLeft
<1>4. CASE deferred \in {"Cancelled", "SourceError"}
  <2>1. Terminalize(nodes, deferred) /\ deferred' = deferred /\ deferred \in Failures
    BY <1>4 DEF FinishBatch, Failures
  <2>2. RootKept(nodes, nodes') /\ status' \in Failures
    BY <1>0, <2>1, TerminalizeKeeps
  <2>3. Modes' /\ Deferral'
    BY <1>0, <2>1, <2>2 DEF IInv, Modes, Deferral, Failures, Statuses
  <2> QED BY <1>0, <2>1, <2>2, <2>3, NoUnitLeft
<1> QED BY <1>2, <1>3, <1>4 DEF FinishBatch

(* Resumption keeps the queue, and the scan that is not used up unless it  *)
(* was the scan that was cancelled.                                        *)
LEMMA ResumeStep == ASSUME IInv, ResumeAfterCancellation PROVE IInv'
<1>0. /\ pc = "idle" /\ pc' = "idle" /\ status = "Cancelled" /\ status' = "InProgress"
      /\ nodes' = ResumeCancelled(nodes, RootId) /\ cancelled' = FALSE
      /\ deferred' = IF deferred = "Cancelled" THEN "none" ELSE deferred
      /\ Tree(nodes)
      /\ UNCHANGED <<file, cursor, pending, zeros, inspected, batch, scanStatus, spans, queue,
                     unit, stable, through, updates, budget, mapStatus, before>>
  BY DEF ResumeAfterCancellation, scanner, index, IInv, Shape
<1>1. RootKept(nodes, nodes')
  BY <1>0, Links, ResumeMarks, RootMarkedKept
<1>2. Shape'
  BY <1>0, <1>1 DEF IInv, Shape, RootKept
<1>3. Modes' /\ Deferral'
  BY <1>0 DEF IInv, Modes, Deferral, ScanStatuses
<1>4. Mapped'
  BY <1>0, <1>1 DEF IInv, Mapped, PayloadLength, RootKept
<1>5. ScannedInOrder' /\ UpdatesJoin'
  BY <1>0, <1>2, ListUntouched, Aside
<1> QED BY <1>2, <1>3, <1>4, <1>5 DEF IInv

(* Whoever asks for cancellation touches nothing else. *)
LEMMA OthersKept ==
  ASSUME IInv, cancelled' \in BOOLEAN,
         UNCHANGED <<file, cursor, pending, zeros, inspected, batch, scanStatus, pc, nodes,
                     spans, queue, unit, deferred, stable, through, updates, budget, mapStatus,
                     before, status>>
  PROVE  IInv'
<1>1. Shape' /\ Modes' /\ Deferral'
  BY DEF IInv, Shape, Modes, Deferral
<1>2. Mapped'
  BY DEF IInv, Mapped, PayloadLength
<1>3. Listed' = Listed /\ Scanned' = Scanned
  BY DEF Listed, QueuedRecords, Scanned
<1>4. ScannedInOrder' /\ UpdatesJoin'
  BY <1>3, ScannedKept, UpdatesKept DEF IInv
<1> QED BY <1>1, <1>2, <1>4 DEF IInv

-----------------------------------------------------------------------------
(* The theorems. *)

(* However calls, requests and resumptions follow one another, the tree,   *)
(* the queue, the scanner and the index agree on one list of NAL units.    *)
THEOREM Invariance == Spec => []IInv
<1>1. Init => IInv
  BY InitInv
<1>2. IInv /\ [Next]_vars => IInv'
  <2> SUFFICES ASSUME IInv, [Next]_vars PROVE IInv'
    OBVIOUS
  <2>1. CASE AnalyzeBatch
    BY <2>1, AnalyzeBatchStep
  <2>2. CASE ScanStep
    BY <2>2, ScanStepInv
  <2>3. CASE QueueScanned
    BY <2>3, QueueScannedStep
  <2>4. CASE Pause
    BY <2>4, PauseStep
  <2>5. CASE PublishRecord
    BY <2>5, PublishRecordStep
  <2>6. CASE MapBegin
    BY <2>6, MapBeginStep
  <2>7. CASE MapFails
    BY <2>7, MapFailsStep
  <2>8. CASE MapByte
    BY <2>8, MapByteStep
  <2>9. CASE FinishPendingNalUnit
    BY <2>9, FinishPendingStep
  <2>10. CASE FinishBatch
    BY <2>10, FinishBatchStep
  <2>11. CASE ResumeAfterCancellation
    BY <2>11, ResumeStep
  <2>12. CASE RequestCancellation
    BY <2>12, OthersKept DEF RequestCancellation, scanner, tree, work, index
  <2>13. CASE UNCHANGED vars
    <3>1. cancelled' \in BOOLEAN
      BY <2>13 DEF vars, IInv, Modes
    <3> QED BY <2>13, <3>1, OthersKept DEF vars, scanner, tree, work, index
  <2> QED BY <2>1, <2>2, <2>3, <2>4, <2>5, <2>6, <2>7, <2>8, <2>9, <2>10, <2>11, <2>12,
             <2>13 DEF Next, CallStep
<1> QED BY <1>1, <1>2, PTL DEF Spec

(* Every variable keeps its shape, and a unit being mapped is the last one *)
(* published.                                                              *)
THEOREM TypeCorrect == Spec => []TypeOK
<1>1. ASSUME IInv PROVE TypeOK
  BY <1>1 DEF IInv, Shape, Modes, Mapped, TypeOK, Tree, ScanStatuses
<1> QED BY <1>1, Invariance, PTL

(* Cancellation and resumption drop, repeat and reorder nothing: what the  *)
(* index has named is in the tree or in the queue, in file order.          *)
THEOREM NothingDroppedAlways == Spec => []NothingDropped
<1>1. ASSUME IInv PROVE NothingDropped
  <2>1. /\ Listed \in Seq(NalUnit) /\ Len(Listed) \in Nat /\ Len(Listed) = Len(spans) + Len(queue)
        /\ Len(Listed) <= Len(Scanned) /\ \A k \in 1..Len(Listed) : Scanned[k] = Listed[k]
        /\ UnitsOf(file, Scanned)
    BY <1>1, ListedIsList, ScannedIsList DEF IInv, ScannedInOrder
  <2>2. AreFirstNalUnits(Listed)
    BY <2>1, FirstUnits, UnitsAreNalUnits
  <2>3. Len(spans) + Len(queue) = stable
    BY <1>1, <2>1 DEF IInv, UpdatesJoin
  <2>4. ASSUME status = "Complete" PROVE AreAllNalUnits(spans)
    <3>1. queue = <<>> /\ scanStatus = "Complete" /\ pc = "idle" /\ spans \in Seq(NalUnit)
      BY <1>1, <2>4 DEF IInv, Shape, Modes, Deferral
    <3>2. AllUnitsOf(file, Scanned) /\ Scanned = Listed
      BY <1>1, <3>1, ScannedIsList DEF IInv, ScannedInOrder
    <3>3. RecordsOf(queue) = <<>>
      BY <3>1, EmptySeq DEF RecordsOf
    <3>4. Listed = spans
      BY <1>1, <3>1, <3>3, ListedIsList, ConcatEmptySeq DEF IInv, ListOf
    <3> QED BY <3>2, <3>4, AllUnitsAreNalUnits
  <2> QED BY <2>2, <2>3, <2>4 DEF NothingDropped, Listed
<1> QED BY <1>1, Invariance, PTL

LEMMA AllDefined ==
  ASSUME NEW f, f = [k \in 0..Len(updates) |->
                       IF k = 0 THEN <<>> ELSE f[k - 1] \o updates[k].records],
         \A k \in DOMAIN updates :
            /\ updates[k].first = Len(f[k - 1])
            /\ AreFirstNalUnits(f[k])
            /\ k > 1 => updates[k].through >= updates[k - 1].through
            /\ IF updates[k].endOfSource
               THEN AreAllNalUnits(f[k]) /\ k = Len(updates)
               ELSE updates[k].through = f[k][Len(f[k])].end,
         \A g : g = [k \in 0..Len(updates) |->
                       IF k = 0 THEN <<>> ELSE g[k - 1] \o updates[k].records] => g = f
  PROVE  IndexIsFaithful
<1> DEFINE all[k \in 0..Len(updates)] ==
             IF k = 0 THEN <<>> ELSE all[k - 1] \o updates[k].records
<1>1. all = f
  OBVIOUS
<1> HIDE DEF all
<1>2. \A k \in DOMAIN updates :
            /\ updates[k].first = Len(all[k - 1])
            /\ AreFirstNalUnits(all[k])
            /\ k > 1 => updates[k].through >= updates[k - 1].through
            /\ IF updates[k].endOfSource
               THEN AreAllNalUnits(all[k]) /\ k = Len(updates)
               ELSE updates[k].through = all[k][Len(all[k])].end
  BY <1>1
<1> QED BY <1>2 DEF IndexIsFaithful, all

(* The update number k covers the list up to Covered(k). *)
Covered(k) == IF k = 0 THEN 0 ELSE Through(k)

IndexedUpTo == [k \in 0..Len(updates) |-> SubSeq(Listed, 1, Covered(k))]

LEMMA UpdateCovers ==
  ASSUME IInv, NEW k \in 1..Len(updates)
  PROVE  /\ updates[k].records \in Seq(NalUnit)
         /\ updates[k].first = Covered(k - 1)
         /\ Covered(k - 1) \in Nat /\ Covered(k) \in Nat
         /\ Covered(k) = Covered(k - 1) + Len(updates[k].records)
         /\ Covered(k) <= Len(Listed)
         /\ ~updates[k].endOfSource => Covered(k - 1) < Covered(k)
<1>1. /\ updates \in Seq(Update) /\ Len(updates) \in Nat /\ stable = Len(Listed)
  BY DEF IInv, Shape, UpdatesJoin
<1>2. updates[k] \in Update
  BY <1>1
<1>3. updates[k].first \in Nat /\ updates[k].records \in Seq(NalUnit)
  BY <1>2 DEF Update
<1>4. /\ updates[k].first = IF k = 1 THEN 0 ELSE Through(k - 1)
      /\ Through(k) <= stable
      /\ ~updates[k].endOfSource => updates[k].records # <<>>
  BY DEF IInv, UpdatesJoin
<1>5. updates[k].first = Covered(k - 1)
  BY <1>1, <1>4 DEF Covered
<1>6. Covered(k) = updates[k].first + Len(updates[k].records)
  BY <1>1 DEF Covered, Through, ThroughIn
<1>7. Covered(k) <= Len(Listed)
  BY <1>1, <1>4 DEF Covered
<1>8. Len(updates[k].records) \in Nat
      /\ (updates[k].records # <<>> => Len(updates[k].records) >= 1)
  BY <1>3, EmptySeq
<1> QED BY <1>3, <1>4, <1>5, <1>6, <1>7, <1>8

LEMMA PieceOfList ==
  ASSUME NEW s \in Seq(NalUnit), NEW m \in Nat, m <= Len(s)
  PROVE  /\ SubSeq(s, 1, m) \in Seq(NalUnit) /\ Len(SubSeq(s, 1, m)) = m
         /\ \A k \in 1..m : SubSeq(s, 1, m)[k] = s[k]
<1>1. Len(s) \in Nat
  OBVIOUS
<1> QED BY <1>1

(* The recursion of IndexIsFaithful has these pieces for its solution, ... *)
LEMMA PiecesJoin ==
  ASSUME IInv
  PROVE  IndexedUpTo = [k \in 0..Len(updates) |->
                          IF k = 0 THEN <<>> ELSE IndexedUpTo[k - 1] \o updates[k].records]
<1>1. /\ Listed \in Seq(NalUnit) /\ Len(Listed) \in Nat /\ Len(updates) \in Nat
  BY ListedIsList DEF IInv, Shape
<1>2. ASSUME NEW k \in 0..Len(updates), k # 0
      PROVE  IndexedUpTo[k] = IndexedUpTo[k - 1] \o updates[k].records
  <2> DEFINE a == Covered(k - 1)
             b == Covered(k)
             s == SubSeq(Listed, 1, a)
             r == updates[k].records
             t == SubSeq(Listed, 1, b)
             j == s \o r
  <2>1. k \in 1..Len(updates) /\ k - 1 \in 0..Len(updates)
    BY <1>1, <1>2
  <2>2. /\ r \in Seq(NalUnit) /\ updates[k].first = a /\ a \in Nat /\ b \in Nat
        /\ b = a + Len(r) /\ b <= Len(Listed) /\ Len(r) \in Nat
    BY <2>1, UpdateCovers
  <2>3. \A i \in 1..Len(r) : r[i] = Listed[a + i]
    BY <2>1, <2>2 DEF IInv, UpdatesJoin
  <2>4. IndexedUpTo[k] = t /\ IndexedUpTo[k - 1] = s
    BY <2>1 DEF IndexedUpTo
  <2> HIDE DEF a, b, r
  <2>5. /\ s \in Seq(NalUnit) /\ Len(s) = a /\ \A i \in 1..a : s[i] = Listed[i]
    BY <1>1, <2>2, PieceOfList
  <2>6. /\ t \in Seq(NalUnit) /\ Len(t) = b /\ \A i \in 1..b : t[i] = Listed[i]
    BY <1>1, <2>2, PieceOfList
  <2> HIDE DEF s, t
  <2>7. j \in Seq(NalUnit) /\ Joins(s, r, j)
    BY <2>2, <2>5, ConcatJoins
  <2> HIDE DEF j
  <2>8. /\ Len(j) = b /\ \A i \in 1..a : j[i] = s[i]
        /\ \A i \in 1..Len(r) : j[a + i] = r[i]
    BY <2>2, <2>5, <2>7 DEF Joins
  <2>9. ASSUME NEW i \in 1..b PROVE t[i] = j[i]
    <3>1. CASE i \in 1..a
      BY <2>5, <2>6, <2>8, <3>1
    <3>2. CASE i \notin 1..a
      <4> DEFINE d == i - a
      <4>1. d \in 1..Len(r) /\ i = a + d
        BY <2>2, <3>2
      <4> HIDE DEF d
      <4>2. j[i] = r[d] /\ r[d] = Listed[a + d]
        BY <2>3, <2>8, <4>1
      <4> QED BY <2>6, <4>1, <4>2
    <3> QED BY <3>1, <3>2
  <2>10. t = j
    BY <2>6, <2>7, <2>8, <2>9, SeqEqual
  <2> QED BY <2>4, <2>10 DEF j, r
<1>3. IndexedUpTo[0] = <<>>
  <2>1. 0 \in 0..Len(updates) /\ Covered(0) = 0
    BY <1>1 DEF Covered
  <2>2. IndexedUpTo[0] = SubSeq(Listed, 1, 0)
    BY <2>1 DEF IndexedUpTo
  <2> QED BY <2>2, SubSeqEmpty
<1>4. IndexedUpTo = [k \in 0..Len(updates) |-> IndexedUpTo[k]]
  BY DEF IndexedUpTo
<1>5. \A k \in 0..Len(updates) :
        IndexedUpTo[k] = IF k = 0 THEN <<>> ELSE IndexedUpTo[k - 1] \o updates[k].records
  BY <1>2, <1>3
<1> QED BY <1>4, <1>5

(* ... and no other. *)
Solves(f, us, n) ==
  f = [k \in 0..n |-> IF k = 0 THEN <<>> ELSE f[k - 1] \o us[k].records]

LEMMA OneSolution ==
  ASSUME NEW n \in Nat, NEW us, NEW f, NEW g, Solves(f, us, n), Solves(g, us, n)
  PROVE  g = f
<1> DEFINE T == {k \in 0..n : f[k] # g[k]}
<1>1. /\ \A k \in 0..n : f[k] = IF k = 0 THEN <<>> ELSE f[k - 1] \o us[k].records
      /\ \A k \in 0..n : g[k] = IF k = 0 THEN <<>> ELSE g[k - 1] \o us[k].records
  BY DEF Solves
<1>2. T = {}
  <2> SUFFICES ASSUME T # {} PROVE FALSE
    OBVIOUS
  <2>1. T \in SUBSET Nat
    OBVIOUS
  <2>2. PICK k \in T : \A m \in T : k <= m
    <3> HIDE DEF T
    <3> QED BY <2>1, LeastNatural
  <2>3. k \in 0..n /\ f[k] # g[k] /\ \A m \in 0..n : m < k => f[m] = g[m]
    BY <2>2
  <2>4. k # 0
    <3>1. 0 \in 0..n
      OBVIOUS
    <3>2. f[0] = <<>> /\ g[0] = <<>>
      BY <1>1, <3>1
    <3> QED BY <2>3, <3>2
  <2>5. k - 1 \in 0..n /\ k - 1 < k
    <3>1. k \in Nat /\ k <= n
      BY <2>3
    <3> QED BY <2>4, <3>1
  <2>6. f[k - 1] = g[k - 1]
    BY <2>3, <2>5
  <2>7. f[k] = f[k - 1] \o us[k].records /\ g[k] = g[k - 1] \o us[k].records
    BY <1>1, <2>3, <2>4
  <2> QED BY <2>3, <2>6, <2>7
<1>3. \A k \in 0..n : f[k] = g[k]
  BY <1>2
<1>4. f = [k \in 0..n |-> f[k]] /\ g = [k \in 0..n |-> g[k]]
  BY DEF Solves
<1> QED BY <1>3, <1>4

(* The updates of the index join without gap or overlap, each starting     *)
(* where the last one ended, across cancellation and resumption, and name  *)
(* the NAL units of the file, in the end all of them.                      *)
THEOREM IndexIsFaithfulAlways == Spec => []IndexIsFaithful
<1>1. ASSUME IInv PROVE IndexIsFaithful
  <2> DEFINE f == IndexedUpTo
             N == Len(updates)
  <2>1. /\ updates \in Seq(Update) /\ N \in Nat /\ DOMAIN updates = 1..N
        /\ Listed \in Seq(NalUnit) /\ Len(Listed) \in Nat /\ Len(file) \in Nat
        /\ stable = Len(Listed)
    BY <1>1, ListedIsList, FileIsSequence DEF IInv, Shape, UpdatesJoin
  <2>2. UnitsOf(file, Listed)
    <3>1. /\ Len(Listed) <= Len(Scanned) /\ \A k \in 1..Len(Listed) : Scanned[k] = Listed[k]
          /\ UnitsOf(file, Scanned)
      BY <1>1, ScannedIsList DEF IInv, ScannedInOrder
    <3> QED BY <2>1, <3>1, FirstUnits
  <2>3. ASSUME NEW k \in 0..N
        PROVE  /\ Covered(k) \in Nat /\ Covered(k) <= Len(Listed)
               /\ f[k] \in Seq(NalUnit) /\ Len(f[k]) = Covered(k)
               /\ \A i \in 1..Covered(k) : f[k][i] = Listed[i]
               /\ UnitsOf(file, f[k])
    <3>1. Covered(k) \in Nat /\ Covered(k) <= Len(Listed)
      <4>1. CASE k = 0
        BY <2>1, <4>1 DEF Covered
      <4>2. CASE k # 0
        <5>1. k \in 1..N
          BY <2>1, <4>2
        <5> QED BY <1>1, <5>1, UpdateCovers
      <4> QED BY <4>1, <4>2
    <3>2. f[k] = SubSeq(Listed, 1, Covered(k))
      BY DEF IndexedUpTo
    <3>3. /\ f[k] \in Seq(NalUnit) /\ Len(f[k]) = Covered(k)
          /\ \A i \in 1..Covered(k) : f[k][i] = Listed[i]
      BY <2>1, <3>1, <3>2, PieceOfList
    <3>4. UnitsOf(file, f[k])
      BY <2>2, <3>1, <3>3, FirstUnits
    <3> QED BY <3>1, <3>3, <3>4
  <2> HIDE DEF f
  <2>4. ASSUME NEW k \in 1..N
        PROVE  /\ updates[k].first = Len(f[k - 1])
               /\ AreFirstNalUnits(f[k])
               /\ k > 1 => updates[k].through >= updates[k - 1].through
               /\ IF updates[k].endOfSource
                  THEN AreAllNalUnits(f[k]) /\ k = Len(updates)
                  ELSE updates[k].through = f[k][Len(f[k])].end
    <3>1. k \in 0..N /\ k - 1 \in 0..N
      BY <2>1
    <3>2. updates[k].first = Len(f[k - 1])
      BY <1>1, <2>3, <3>1, UpdateCovers
    <3>3. AreFirstNalUnits(f[k])
      BY <2>3, <3>1, UnitsAreNalUnits
    <3>4. ASSUME NEW m \in 1..N, ~updates[m].endOfSource
          PROVE  /\ Covered(m) \in 1..Len(Listed)
                 /\ updates[m].through = Listed[Covered(m)].end
                 /\ updates[m].through = f[m][Len(f[m])].end
                 /\ updates[m].through \in Nat /\ updates[m].through <= Len(file)
      <4>1. /\ Covered(m) = Through(m) /\ Covered(m - 1) < Covered(m)
            /\ Covered(m - 1) \in Nat /\ Covered(m) \in Nat /\ Covered(m) <= Len(Listed)
        BY <1>1, <2>1, <3>4, UpdateCovers DEF Covered
      <4>2. Covered(m) \in 1..Len(Listed)
        BY <2>1, <4>1
      <4>3. updates[m].through = Listed[Covered(m)].end
        BY <1>1, <3>4, <4>1 DEF IInv, UpdatesJoin
      <4>4. UnitOf(file, Listed[Covered(m)])
        BY <2>2, <4>2 DEF UnitsOf
      <4>5. Listed[Covered(m)].end \in Nat /\ Listed[Covered(m)].end <= Len(file)
        BY <4>4 DEF UnitOf, NalUnit
      <4>6. f[m][Len(f[m])] = Listed[Covered(m)]
        <5>1. m \in 0..N /\ Covered(m) \in 1..Covered(m)
          BY <2>1, <4>1, <4>2
        <5> QED BY <2>3, <5>1
      <4> QED BY <4>2, <4>3, <4>5, <4>6
    <3>5. ASSUME updates[k].endOfSource
          PROVE  AreAllNalUnits(f[k]) /\ k = N /\ updates[k].through = Len(file)
      <4>1. k = N /\ deferred = "Complete" /\ updates[k].through = Len(file)
        BY <1>1, <3>5 DEF IInv, UpdatesJoin
      <4>2. Covered(k) = Len(Listed)
        BY <1>1, <2>1, <4>1, EmptySeq DEF IInv, UpdatesJoin, Covered
      <4>3. f[k] = Listed
        BY <2>1, <2>3, <3>1, <4>2, SeqEqual
      <4>4. AllUnitsOf(file, Listed)
        <5>1. scanStatus = "Complete" /\ pc \notin {"scan", "scanned"}
          BY <1>1, <4>1 DEF IInv, Deferral
        <5>2. Scanned = Listed
          BY <1>1, <5>1, ScannedIsList DEF IInv
        <5> QED BY <1>1, <5>1, <5>2 DEF IInv, ScannedInOrder
      <4> QED BY <4>1, <4>3, <4>4, AllUnitsAreNalUnits
    <3>6. ASSUME k > 1 PROVE updates[k].through >= updates[k - 1].through
      <4>1. k - 1 \in 1..N /\ k - 1 # N
        BY <2>1, <3>6
      <4>2. ~updates[k - 1].endOfSource
        BY <1>1, <4>1 DEF IInv, UpdatesJoin
      <4>3. /\ Covered(k - 1) \in 1..Len(Listed)
            /\ updates[k - 1].through = Listed[Covered(k - 1)].end
            /\ updates[k - 1].through \in Nat /\ updates[k - 1].through <= Len(file)
        BY <3>4, <4>1, <4>2
      <4>4. CASE updates[k].endOfSource
        BY <2>1, <3>5, <4>3, <4>4
      <4>5. CASE ~updates[k].endOfSource
        <5>1. /\ Covered(k) \in 1..Len(Listed) /\ Covered(k - 1) < Covered(k)
              /\ updates[k].through = Listed[Covered(k)].end /\ updates[k].through \in Nat
          BY <1>1, <3>4, <4>5, UpdateCovers
        <5>2. Covered(k) \in Covered(k - 1)..Len(Listed)
          BY <2>1, <4>3, <5>1
        <5>3. Listed[Covered(k - 1)].end <= Listed[Covered(k)].end
          BY <2>2, <4>3, <5>2, EndsIncrease
        <5> QED BY <4>3, <5>1, <5>3
      <4> QED BY <4>4, <4>5
    <3> QED BY <3>2, <3>3, <3>4, <3>5, <3>6
  <2>5. f = [k \in 0..N |-> IF k = 0 THEN <<>> ELSE f[k - 1] \o updates[k].records]
    BY <1>1, PiecesJoin DEF f
  <2>6. ASSUME NEW g,
               g = [k \in 0..N |-> IF k = 0 THEN <<>> ELSE g[k - 1] \o updates[k].records]
        PROVE  g = f
    <3>1. Solves(f, updates, N) /\ Solves(g, updates, N)
      BY <2>5, <2>6 DEF Solves
    <3> QED BY <2>1, <3>1, OneSolution
  <2> QED BY <2>1, <2>4, <2>5, <2>6, AllDefined
<1> QED BY <1>1, Invariance, PTL

=============================================================================
