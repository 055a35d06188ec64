-------------------------- MODULE MainWindow_proof --------------------------
(***************************************************************************)
(* Proofs about MainWindow for any files and formats, trees of any size,   *)
(* any number of sessions opened, of nested frames and of acts of the user.*)
(* IInv is the inductive invariant: the view displays the active tree, a   *)
(* callback is posted once, and what is pending is what the tree lacks.    *)
(***************************************************************************)
EXTENDS MainWindow, SequenceTheorems, FiniteSetTheorems, TLAPS

Timer(run, g)  == [run |-> run, of |-> g]
Has(p, run, g) == \E i \in DOMAIN p : p[i] = Timer(run, g)
UniqueIn(p, g) == \A i, j \in DOMAIN p : p[i] = p[j] /\ p[i].of = g => i = j
Apart(p, q)    == \A i \in DOMAIN p, j \in DOMAIN q : p[i] # q[j]

(* The timers that a batch posts.                                          *)
Due(g, status, writes) ==
  (IF Finished(status) /\ writes = TRUE THEN <<Timer("poll", g)>> ELSE <<>>)
    \o (IF status = "running" THEN <<Timer("advance", g)>> ELSE <<>>)

DuePosted(t, g, status, writes) ==
  /\ t \in Seq([run : {"advance", "poll"}, of : 0..g]) /\ UniqueIn(t, g)
  /\ \A j \in DOMAIN t : t[j].of = g /\ t[j] \in {Timer("poll", g), Timer("advance", g)}
  /\ Has(t, "advance", g) <=> status = "running"
  /\ Has(t, "poll", g) <=> Finished(status) /\ writes = TRUE

(* The model holds the rows of the active tree, so that no batch is refused. *)
Displays == session # Closed => view.depth = Depth /\ view.rows = ActiveRows(session)

(* No callback of this generation is posted twice.                         *)
Once == UniqueIn(posted, generation)

Chained ==
  session # Closed =>
    /\ Has(posted, "advance", generation) <=> session.status = "running"
    /\ Has(posted, "poll", generation) => Finished(session.status)
    /\ Finished(session.status) /\ session.writes => Has(posted, "poll", generation)

(* What the root showed is what it shows or what has been kept of it.      *)
RootKept ==
  session # Closed =>
    IF session.frames = <<>> THEN shown = Captured(view)
    ELSE snapshot = shown /\ snapshot # Nothing

(* Once the handler has heard that the cursor was placed nothing is awaited *)
(* any more, so that it stays where it is or where a later click puts it.  *)
Placed ==
  opened.placed = "heard" =>
    view.current = opened.cursor /\ pending.selected = Nothing

(* Each saved path is pending as long as the tree lacks it, and has been   *)
(* restored when the tree has it.                                          *)
AwaitsOrShows(o, status, v, p) ==
  /\ o.placed = "not" =>
       /\ p.selected # Nothing =>
            p.selected = o.from.selected /\ Resolved(p.selected, v.rows) = {}
       /\ \A row \in Resolved(o.from.selected, v.rows) : v.current = row
       /\ status = "running" /\ Resolved(o.from.selected, v.rows) = {}
            => p.selected = o.from.selected
  /\ ~o.folded =>
       \A q \in o.from.expanded :
         /\ Resolved(q, v.rows) \subseteq v.expanded
         /\ status = "running" /\ Resolved(q, v.rows) = {} => q \in p.expanded

Restoring ==
  session # Closed /\ opened.from # Nothing /\ ~opened.left =>
    session.frames = <<>> /\ AwaitsOrShows(opened, session.status, view, pending)

IInv == TypeOK /\ Displays /\ Once /\ Chained /\ RootKept /\ Placed /\ Restoring

-----------------------------------------------------------------------------
(* Sequences *)

(* What is left of a sequence of timers when one of them has fired.        *)
LEMMA RemovedTimer ==
  ASSUME NEW T, NEW p \in Seq(T), NEW i \in DOMAIN p
  PROVE  /\ RemoveAt(p, i) \in Seq(T) /\ Len(RemoveAt(p, i)) = Len(p) - 1
         /\ \A j \in 1..(Len(p) - 1) :
              RemoveAt(p, i)[j] = IF j < i THEN p[j] ELSE p[j + 1]
<1>1. i \in 1..Len(p) /\ Len(p) \in Nat
  OBVIOUS
<1> DEFINE left  == SubSeq(p, 1, i - 1)
           right == SubSeq(p, i + 1, Len(p))
<1>2. left \in Seq(T) /\ Len(left) = i - 1 /\ \A j \in 1..(i - 1) : left[j] = p[j]
  BY <1>1
<1>3. right \in Seq(T) /\ Len(right) = Len(p) - i
      /\ \A j \in 1..(Len(p) - i) : right[j] = p[i + j]
  BY <1>1
<1> HIDE DEF left, right
<1>4. left \o right \in Seq(T) /\ Len(left \o right) = Len(p) - 1
      /\ \A j \in 1..(Len(p) - 1) :
           (left \o right)[j] = IF j <= i - 1 THEN left[j] ELSE right[j - (i - 1)]
  <2>1. Len(left) + Len(right) = Len(p) - 1
    BY <1>1, <1>2, <1>3
  <2>2. /\ left \o right \in Seq(T) /\ Len(left \o right) = Len(left) + Len(right)
        /\ \A j \in 1..(Len(left) + Len(right)) :
             (left \o right)[j] = IF j <= Len(left) THEN left[j] ELSE right[j - Len(left)]
    BY <1>2, <1>3, ConcatProperties
  <2> QED
    BY <2>1, <2>2, <1>2
<1>5. \A j \in 1..(Len(p) - 1) : (left \o right)[j] = IF j < i THEN p[j] ELSE p[j + 1]
  <2> SUFFICES ASSUME NEW j \in 1..(Len(p) - 1)
               PROVE  (left \o right)[j] = IF j < i THEN p[j] ELSE p[j + 1]
    OBVIOUS
  <2>1. CASE j < i
    <3>1. j \in 1..(i - 1) /\ j <= i - 1
      BY <2>1, <1>1
    <3>2. (left \o right)[j] = left[j]
      BY <1>4, <3>1
    <3> QED
      BY <2>1, <1>2, <3>1, <3>2
  <2>2. CASE ~(j < i)
    <3>1. j - (i - 1) \in 1..(Len(p) - i) /\ i + (j - (i - 1)) = j + 1 /\ ~(j <= i - 1)
      BY <2>2, <1>1
    <3>2. (left \o right)[j] = right[j - (i - 1)]
      BY <1>4, <3>1
    <3>3. right[j - (i - 1)] = p[i + (j - (i - 1))]
      BY <1>3, <3>1
    <3> QED
      BY <2>2, <3>1, <3>2, <3>3
  <2> QED
    BY <2>1, <2>2
<1> QED
  BY <1>4, <1>5 DEF RemoveAt, left, right

(* A sequence over a set is one over any larger set.                       *)
LEMMA WiderSeq ==
  ASSUME NEW T, NEW U, T \subseteq U, NEW p \in Seq(T)
  PROVE  p \in Seq(U) /\ \A k \in DOMAIN p : p[k] \in T
<1>1. \A k \in DOMAIN p : p[k] \in T
  OBVIOUS
<1>2. Len(p) \in Nat /\ p = [k \in 1..Len(p) |-> p[k]] /\ DOMAIN p = 1..Len(p)
  OBVIOUS
<1> QED
  BY <1>1, <1>2

(* The rows of a prefix and those that follow it.                          *)
LEMMA RowsJoin ==
  ASSUME NEW T, NEW rows \in Seq(T), NEW m \in Nat, NEW n \in Nat, m <= n, n <= Len(rows)
  PROVE  /\ SubSeq(rows, 1, m) \o SubSeq(rows, m + 1, n) = SubSeq(rows, 1, n)
         /\ SubSeq(rows, 1, n) \in Seq(T) /\ Len(SubSeq(rows, 1, n)) = n
         /\ \A k \in 1..n : SubSeq(rows, 1, n)[k] = rows[k]
<1>1. 1 \in 1..(Len(rows) + 1) /\ m \in (1 - 1)..Len(rows) /\ n \in m..Len(rows)
  OBVIOUS
<1>2. SubSeq(rows, 1, m) \o SubSeq(rows, m + 1, n) = SubSeq(rows, 1, n)
  BY <1>1, ConcatAdjacentSubSeq
<1>3. /\ SubSeq(rows, 1, n) \in Seq(T) /\ Len(SubSeq(rows, 1, n)) = n
      /\ \A k \in 1..n : SubSeq(rows, 1, n)[k] = rows[k]
  OBVIOUS
<1> QED
  BY <1>2, <1>3

-----------------------------------------------------------------------------
(* The view *)

(* A path is found in at most one row.                                     *)
LEMMA ResolvedRow ==
  ASSUME NEW path, NEW rows, NEW row \in Resolved(path, rows)
  PROVE  row \in DOMAIN rows /\ path # Nothing /\ row = path.row
BY DEF Resolved, Path

LEMMA CapturedType ==
  ASSUME NEW v, ViewOK(v)
  PROVE  Captured(v) \in ViewStates /\ Captured(v) # Nothing
<1>1. v.rows \in Seq(STRING) /\ v.current \in 0..Len(v.rows) /\ v.expanded \subseteq DOMAIN v.rows
  BY DEF ViewOK, Views
<1>2. \A row \in DOMAIN v.rows : Path(v.rows, row) \in Paths
  BY <1>1 DEF Path, Paths
<1>3. {Path(v.rows, row) : row \in v.expanded} \in SUBSET Paths
  BY <1>1, <1>2
<1>4. (IF v.current = 0 THEN Nothing ELSE Path(v.rows, v.current)) \in Paths \cup {Nothing}
  BY <1>1, <1>2
<1>5. Captured(v) \in ViewStates
  BY <1>3, <1>4 DEF Captured, ViewStates
<1> QED
  BY <1>5, WindowAssumption

LEMMA FreshOK ==
  ASSUME NEW d \in Nat, NEW rows \in Seq(STRING)
  PROVE  /\ ViewOK(Fresh(d, rows)) /\ Fresh(d, rows).depth = d
         /\ Fresh(d, rows).rows = rows /\ Fresh(d, rows).current = 0
BY DEF ViewOK, Views, Fresh

LEMMA ExpandedOK ==
  ASSUME NEW v, ViewOK(v)
  PROVE  /\ ViewOK(ExpandedAll(v)) /\ ExpandedAll(v).depth = v.depth
         /\ ExpandedAll(v).rows = v.rows /\ ExpandedAll(v).current = v.current
         /\ ExpandedAll(v).expanded = DOMAIN v.rows
BY DEF ViewOK, Views, ExpandedAll

(* Restoring keeps the tree, expands what it finds, and moves the cursor   *)
(* only to the row that is selected.                                       *)
LEMMA RestoredOK ==
  ASSUME NEW v, ViewOK(v), NEW p \in ViewStates
  PROVE  /\ ViewOK(Restored(v, p))
         /\ Restored(v, p).depth = v.depth /\ Restored(v, p).rows = v.rows
         /\ v.expanded \subseteq Restored(v, p).expanded
         /\ \A q \in p.expanded : Resolved(q, v.rows) \subseteq Restored(v, p).expanded
         /\ Resolved(p.selected, v.rows) = {} => Restored(v, p).current = v.current
         /\ \A row \in Resolved(p.selected, v.rows) : Restored(v, p).current = row
<1> DEFINE found == UNION {Resolved(q, v.rows) : q \in p.expanded}
           rows  == Resolved(p.selected, v.rows)
           cur   == IF rows = {} THEN v.current ELSE CHOOSE row \in rows : TRUE
<1>1. v \in Views /\ v.current <= Len(v.rows) /\ v.expanded \subseteq DOMAIN v.rows
  BY DEF ViewOK
<1>2. Restored(v, p) = [v EXCEPT !.expanded = v.expanded \cup found, !.current = cur]
  BY DEF Restored
<1>3. found \subseteq DOMAIN v.rows /\ DOMAIN v.rows = 1..Len(v.rows) /\ Len(v.rows) \in Nat
  BY <1>1, ResolvedRow DEF Views
<1>4. rows # {} => cur \in rows
  OBVIOUS
<1>5. \A row \in rows : row = cur /\ row \in DOMAIN v.rows
  BY <1>4, ResolvedRow
<1>6. cur \in Nat /\ cur <= Len(v.rows)
  BY <1>1, <1>3, <1>5 DEF Views
<1>7. \A q \in p.expanded : Resolved(q, v.rows) \subseteq found
  OBVIOUS
<1> HIDE DEF found, cur
<1>8. /\ Restored(v, p).depth = v.depth /\ Restored(v, p).rows = v.rows
      /\ Restored(v, p).expanded = v.expanded \cup found /\ Restored(v, p).current = cur
      /\ Restored(v, p) \in Views
  <2>1. v = [depth |-> v.depth, rows |-> v.rows, current |-> v.current,
             expanded |-> v.expanded]
    BY <1>1 DEF Views
  <2>2. Restored(v, p) = [depth |-> v.depth, rows |-> v.rows, current |-> cur,
                          expanded |-> v.expanded \cup found]
    BY <1>2, <2>1
  <2>3. /\ v.depth \in Nat /\ v.rows \in Seq(STRING) /\ cur \in Nat
        /\ v.expanded \cup found \in SUBSET Nat
    BY <1>1, <1>3, <1>6 DEF Views
  <2> QED
    BY <2>2, <2>3 DEF Views
<1>9. rows = {} => cur = v.current
  BY DEF cur
<1> QED
  BY <1>1, <1>3, <1>5, <1>6, <1>7, <1>8, <1>9 DEF ViewOK

(* What remains pending is what the tree lacks.                            *)
LEMMA RemainingOK ==
  ASSUME NEW v, NEW p \in ViewStates
  PROVE  /\ Remaining(v, p) \in ViewStates
         /\ Resolved(p.selected, v.rows) = {} => Remaining(v, p).selected = p.selected
         /\ Resolved(p.selected, v.rows) # {} => Remaining(v, p).selected = Nothing
         /\ \A q \in p.expanded : Resolved(q, v.rows) = {} => q \in Remaining(v, p).expanded
BY DEF Remaining, ViewStates

LEMMA NoPendingType == NoPending \in ViewStates /\ NoPending.selected = Nothing
BY DEF NoPending, ViewStates

-----------------------------------------------------------------------------
(* One batch *)

(* The rows of the active tree.                                            *)
LEMMA ActiveType ==
  ASSUME NEW s, SessionOK(s)
  PROVE  /\ ActiveRows(s) \in Seq(STRING) /\ RowsOf(s) \in Seq(STRING)
         /\ Len(RowsOf(s)) = s.published
         /\ Layout[s.media][s.format] \in Seq(STRING)
<1>1. s.published \in Nat /\ Layout[s.media][s.format] \in Seq(STRING)
      /\ s.published <= Len(Layout[s.media][s.format])
  BY WindowAssumption DEF SessionOK, Sessions
<1>2. RowsOf(s) \in Seq(STRING) /\ Len(RowsOf(s)) = s.published
  BY <1>1, RowsJoin DEF RowsOf
<1> QED
  BY <1>1, <1>2, WindowAssumption DEF ActiveRows

(* A session after a batch, and the rows it adds.                          *)
LEMMA AnalysedOK ==
  ASSUME NEW s, SessionOK(s), NEW b \in Batches(s)
  PROVE  /\ SessionOK(Analysed(s, b))
         /\ Analysed(s, b).frames = s.frames /\ Analysed(s, b).status = b.status
         /\ Analysed(s, b).writes = b.writes
         /\ Analysed(s, b).media = s.media /\ Analysed(s, b).format = s.format
         /\ s.published <= b.published
         /\ RowsOf(Analysed(s, b)) =
              RowsOf(s) \o SubSeq(Layout[s.media][s.format], s.published + 1, b.published)
         /\ b.published = s.published => RowsOf(Analysed(s, b)) = RowsOf(s)
         /\ \A k \in DOMAIN RowsOf(s) : /\ k \in DOMAIN RowsOf(Analysed(s, b))
                                        /\ RowsOf(Analysed(s, b))[k] = RowsOf(s)[k]
         /\ s.frames # <<>> => ActiveRows(Analysed(s, b)) = ActiveRows(s)
<1> DEFINE all == Layout[s.media][s.format]
           t   == Analysed(s, b)
<1>1. /\ s \in Sessions /\ s.published \in Nat /\ all \in Seq(STRING)
      /\ s.published <= Len(all) /\ Len(all) \in Nat
  BY ActiveType DEF SessionOK, Sessions
<1>2. /\ b.published \in s.published..Len(all) /\ b.writes \in BOOLEAN
      /\ b.status \in {"running", "complete", "failed", "cancelled"}
  BY DEF Batches
<1>3. /\ t \in Sessions /\ t.published = b.published /\ t.status = b.status
      /\ t.writes = b.writes /\ t.frames = s.frames /\ t.media = s.media
      /\ t.format = s.format
  <2>1. s = [media |-> s.media, format |-> s.format, caching |-> s.caching,
             published |-> s.published, status |-> s.status, cancelled |-> s.cancelled,
             writes |-> s.writes, frames |-> s.frames]
    BY <1>1 DEF Sessions
  <2>2. t = [media |-> s.media, format |-> s.format, caching |-> s.caching,
             published |-> b.published, status |-> b.status, cancelled |-> s.cancelled,
             writes |-> b.writes, frames |-> s.frames]
    <3> DEFINE s1 == [s EXCEPT !.published = b.published]
               s2 == [s1 EXCEPT !.writes = b.writes]
    <3>1. s1 = [media |-> s.media, format |-> s.format, caching |-> s.caching,
                published |-> b.published, status |-> s.status, cancelled |-> s.cancelled,
                writes |-> s.writes, frames |-> s.frames]
      BY <2>1
    <3> HIDE DEF s1
    <3>2. s2 = [media |-> s.media, format |-> s.format, caching |-> s.caching,
                published |-> b.published, status |-> s.status, cancelled |-> s.cancelled,
                writes |-> b.writes, frames |-> s.frames]
      BY <3>1
    <3>3. t = [s2 EXCEPT !.status = b.status]
      BY DEF s1, Analysed
    <3> HIDE DEF s2, t
    <3> QED
      BY <3>2, <3>3
  <2>3. b.published \in Nat
    BY <1>1, <1>2
  <2> QED
    BY <1>1, <1>2, <2>2, <2>3 DEF Sessions
<1>4. \A k \in DOMAIN t.frames :
         t.frames[k].row <= IF k = 1 THEN t.published ELSE Len(Child)
  <2> SUFFICES ASSUME NEW k \in DOMAIN t.frames
               PROVE  t.frames[k].row <= IF k = 1 THEN t.published ELSE Len(Child)
    OBVIOUS
  <2>1. s.frames[k].row <= IF k = 1 THEN s.published ELSE Len(Child)
    BY <1>3 DEF SessionOK
  <2>2. s.frames[k].row \in Nat
    <3>1. s.frames \in Seq(Frames) /\ k \in DOMAIN s.frames
      BY <1>1, <1>3 DEF Sessions
    <3>2. s.frames[k] \in Frames
      BY <3>1
    <3> QED
      BY <3>2 DEF Frames
  <2> QED
    BY <1>1, <1>2, <1>3, <2>1, <2>2
<1>5. SessionOK(t)
  BY <1>1, <1>2, <1>3, <1>4 DEF SessionOK
<1>6. b.published \in Nat /\ s.published <= b.published /\ b.published <= Len(all)
  BY <1>1, <1>2
<1>7. SubSeq(all, 1, s.published) \o SubSeq(all, s.published + 1, b.published)
        = SubSeq(all, 1, b.published)
  <2> HIDE DEF all
  <2>1. \A m, n \in Nat : m <= n /\ n <= Len(all) =>
           SubSeq(all, 1, m) \o SubSeq(all, m + 1, n) = SubSeq(all, 1, n)
    BY <1>1, RowsJoin
  <2> QED
    BY <1>1, <1>6, <2>1
<1>8. RowsOf(t) = SubSeq(all, 1, b.published) /\ RowsOf(s) = SubSeq(all, 1, s.published)
  BY <1>3 DEF RowsOf
<1>9. \A k \in DOMAIN RowsOf(s) : k \in DOMAIN RowsOf(t) /\ RowsOf(t)[k] = RowsOf(s)[k]
  <2>1. /\ SubSeq(all, 1, s.published) \in Seq(STRING)
        /\ Len(SubSeq(all, 1, s.published)) = s.published
        /\ \A k \in 1..s.published : SubSeq(all, 1, s.published)[k] = all[k]
    BY <1>1, RowsJoin
  <2>2. /\ SubSeq(all, 1, b.published) \in Seq(STRING)
        /\ Len(SubSeq(all, 1, b.published)) = b.published
        /\ \A k \in 1..b.published : SubSeq(all, 1, b.published)[k] = all[k]
    BY <1>1, <1>6, RowsJoin
  <2>3. DOMAIN RowsOf(s) = 1..s.published /\ DOMAIN RowsOf(t) = 1..b.published
    BY <1>8, <2>1, <2>2
  <2> QED
    BY <1>1, <1>6, <1>8, <2>1, <2>2, <2>3
<1> QED
  BY <1>3, <1>5, <1>6, <1>7, <1>8, <1>9 DEF ActiveRows

LEMMA AppendedOK ==
  ASSUME NEW s, SessionOK(s), s.frames = <<>>, NEW v, ViewOK(v), v.rows = RowsOf(s),
         NEW b \in Batches(s)
  PROVE  /\ ViewOK(Appended(s, v, b)) /\ Appended(s, v, b).depth = v.depth
         /\ Appended(s, v, b).rows = RowsOf(Analysed(s, b))
         /\ Appended(s, v, b).current = v.current
         /\ Appended(s, v, b).expanded = v.expanded
<1> DEFINE rows == IF b.published > s.published
                   THEN v.rows \o SubSeq(Layout[s.media][s.format],
                                         s.published + 1, b.published)
                   ELSE v.rows
<1>1. rows = RowsOf(Analysed(s, b))
  <2>1. s.published \in Nat /\ b.published \in Nat /\ s.published <= b.published
    BY AnalysedOK, ActiveType DEF SessionOK, Sessions, Batches
  <2>2. b.published = s.published => RowsOf(Analysed(s, b)) = RowsOf(s)
    BY AnalysedOK
  <2>3. RowsOf(Analysed(s, b)) =
          RowsOf(s) \o SubSeq(Layout[s.media][s.format], s.published + 1, b.published)
    BY AnalysedOK
  <2>4. CASE b.published > s.published
    BY <2>3, <2>4
  <2>5. CASE ~(b.published > s.published)
    <3>1. b.published = s.published
      BY <2>1, <2>5
    <3> QED
      BY <2>2, <2>5, <3>1
  <2> QED
    BY <2>4, <2>5
<1>2. rows \in Seq(STRING)
  BY <1>1, AnalysedOK, ActiveType
<1>3. DOMAIN v.rows \subseteq DOMAIN rows /\ Len(v.rows) <= Len(rows)
  <2>1. Len(RowsOf(s)) = s.published /\ s.published \in Nat
    BY ActiveType DEF SessionOK, Sessions
  <2>2. Len(RowsOf(Analysed(s, b))) = b.published /\ b.published \in Nat
        /\ s.published <= b.published
    <3>1. Analysed(s, b).published = b.published
      BY DEF SessionOK, Sessions, Analysed
    <3>2. SessionOK(Analysed(s, b)) /\ s.published <= b.published
      BY AnalysedOK
    <3> QED
      BY <3>1, <3>2, ActiveType DEF SessionOK, Sessions
  <2>3. v.rows \in Seq(STRING)
    BY DEF ViewOK, Views
  <2>4. Len(v.rows) = s.published /\ Len(rows) = b.published
    BY <1>1, <2>1, <2>2
  <2> HIDE DEF rows
  <2>5. DOMAIN v.rows = 1..s.published /\ DOMAIN rows = 1..b.published
    BY <1>2, <2>3, <2>4
  <2> QED
    BY <2>1, <2>2, <2>4, <2>5
<1> HIDE DEF rows
<1>4. Appended(s, v, b) = [v EXCEPT !.rows = rows]
  BY DEF Appended, rows
<1>5. v = [depth |-> v.depth, rows |-> v.rows, current |-> v.current, expanded |-> v.expanded]
  BY DEF ViewOK, Views
<1>6. Appended(s, v, b) = [depth |-> v.depth, rows |-> rows, current |-> v.current,
                           expanded |-> v.expanded]
  BY <1>4, <1>5
<1>7. Appended(s, v, b) \in Views
  BY <1>2, <1>6 DEF ViewOK, Views
<1>8. v.current <= Len(rows) /\ v.expanded \subseteq DOMAIN rows
  BY <1>2, <1>3 DEF ViewOK, Views
<1> QED
  BY <1>1, <1>6, <1>7, <1>8 DEF ViewOK

(* A batch of a session whose tree is displayed is not refused.            *)
LEMMA AdvancedOK ==
  ASSUME NEW g \in Nat, NEW s, SessionOK(s), NEW v, ViewOK(v), NEW p \in ViewStates,
         v.depth = Len(s.frames), v.rows = ActiveRows(s), NEW b \in Batches(s),
         NEW a, a = Advanced(g, s, v, p, b)
  PROVE  /\ a.session = Analysed(s, b) /\ a.generation = g
         /\ ViewOK(a.view) /\ a.pending \in ViewStates
         /\ a.view.depth = Len(s.frames) /\ a.view.rows = ActiveRows(Analysed(s, b))
         /\ s.frames # <<>> => a.view = v /\ a.pending = p
         /\ s.frames = <<>> =>
              /\ a.view = Restored(Appended(s, v, b), p)
              /\ a.pending = IF b.status = "complete" THEN NoPending
                             ELSE Remaining(Appended(s, v, b), p)
         /\ a.timers = Due(g, b.status, b.writes)
<1>1. s.frames = <<>> => Len(s.frames) = 0 /\ ActiveRows(s) = RowsOf(s)
                         /\ Len(RowsOf(s)) = s.published /\ s.published \in Nat
  BY ActiveType DEF ActiveRows, SessionOK, Sessions
<1>2. ~Refused(s, v, b)
  BY <1>1 DEF Refused
<1>3. /\ a.session = Analysed(s, b) /\ a.generation = g
      /\ a.view = IF s.frames = <<>> THEN Restored(Appended(s, v, b), p) ELSE v
      /\ a.pending = IF s.frames # <<>> THEN p
                     ELSE IF b.status = "complete" THEN NoPending
                     ELSE Remaining(Appended(s, v, b), p)
      /\ a.timers = Due(g, b.status, b.writes)
  <2> DEFINE polls == IF Finished(b.status) /\ b.writes THEN <<Timer("poll", g)>> ELSE <<>>
             again == IF b.status = "running" THEN <<Timer("advance", g)>> ELSE <<>>
             shows == IF s.frames = <<>> THEN Restored(Appended(s, v, b), p) ELSE v
             waits == IF s.frames # <<>> THEN p
                      ELSE IF b.status = "complete" THEN NoPending
                      ELSE Remaining(Appended(s, v, b), p)
  <2>1. a.session = Analysed(s, b) /\ a.generation = g
    BY <1>2 DEF Advanced
  <2>2. a.timers = polls \o again
    BY <1>2 DEF Advanced, Timer
  <2>3. a.view = shows
    BY <1>2 DEF Advanced
  <2>4. a.pending = waits
    BY <1>2 DEF Advanced
  <2> QED
    BY <2>1, <2>2, <2>3, <2>4, Zenon DEF Due
<1>4. CASE s.frames = <<>>
  <2>1. /\ ViewOK(Appended(s, v, b)) /\ Appended(s, v, b).depth = v.depth
        /\ Appended(s, v, b).rows = RowsOf(Analysed(s, b))
    BY <1>1, <1>4, AppendedOK
  <2>2. /\ ViewOK(a.view) /\ a.view.depth = Len(s.frames)
        /\ a.view.rows = RowsOf(Analysed(s, b))
    BY <1>3, <1>4, <2>1, RestoredOK
  <2>3. ActiveRows(Analysed(s, b)) = RowsOf(Analysed(s, b))
    BY <1>4, AnalysedOK DEF ActiveRows
  <2>4. a.pending \in ViewStates
    BY <1>3, <1>4, RemainingOK, NoPendingType
  <2> QED
    BY <1>3, <1>4, <2>2, <2>3, <2>4
<1>5. CASE s.frames # <<>>
  BY <1>3, <1>5, AnalysedOK
<1> QED
  BY <1>4, <1>5

-----------------------------------------------------------------------------
(* Timers *)

(* Posting timers that are not there yet keeps them unique.                *)
LEMMA PostedOK ==
  ASSUME NEW T, NEW p \in Seq(T), NEW q \in Seq(T), NEW g
  PROVE  /\ p \o q \in Seq(T)
         /\ \A run : Has(p \o q, run, g) <=> Has(p, run, g) \/ Has(q, run, g)
         /\ UniqueIn(p, g) /\ UniqueIn(q, g) /\ Apart(p, q) => UniqueIn(p \o q, g)
<1>1. /\ p \o q \in Seq(T) /\ Len(p \o q) = Len(p) + Len(q)
      /\ \A i \in 1..(Len(p) + Len(q)) :
           (p \o q)[i] = IF i <= Len(p) THEN p[i] ELSE q[i - Len(p)]
  BY ConcatProperties
<1>2. /\ DOMAIN p = 1..Len(p) /\ DOMAIN q = 1..Len(q) /\ DOMAIN (p \o q) = 1..(Len(p) + Len(q))
      /\ Len(p) \in Nat /\ Len(q) \in Nat
  BY <1>1
<1> DEFINE r == p \o q
<1>3. \A i \in DOMAIN p : i \in DOMAIN r /\ r[i] = p[i]
  BY <1>1, <1>2
<1>4. \A j \in DOMAIN q : Len(p) + j \in DOMAIN r /\ r[Len(p) + j] = q[j]
  BY <1>1, <1>2
<1>5. \A i \in DOMAIN r : \/ i \in DOMAIN p /\ r[i] = p[i]
                          \/ i - Len(p) \in DOMAIN q /\ r[i] = q[i - Len(p)]
  BY <1>1, <1>2
<1> HIDE DEF r
<1>6. \A run : Has(r, run, g) <=> Has(p, run, g) \/ Has(q, run, g)
  BY <1>3, <1>4, <1>5 DEF Has
<1>7. ASSUME UniqueIn(p, g), UniqueIn(q, g), Apart(p, q)
      PROVE  UniqueIn(r, g)
  <2> SUFFICES ASSUME NEW i \in DOMAIN r, NEW j \in DOMAIN r, r[i] = r[j], r[i].of = g
               PROVE  i = j
    BY DEF UniqueIn
  <2>1. i \in Nat /\ j \in Nat
    BY <1>2 DEF r
  <2>2. CASE i \in DOMAIN p /\ r[i] = p[i] /\ j \in DOMAIN p /\ r[j] = p[j]
    BY <1>7, <2>2 DEF UniqueIn
  <2>3. CASE /\ i - Len(p) \in DOMAIN q /\ r[i] = q[i - Len(p)]
             /\ j - Len(p) \in DOMAIN q /\ r[j] = q[j - Len(p)]
    <3>1. i - Len(p) = j - Len(p)
      BY <1>7, <2>3 DEF UniqueIn
    <3> QED
      BY <1>2, <2>1, <3>1
  <2>4. CASE i \in DOMAIN p /\ r[i] = p[i] /\ j - Len(p) \in DOMAIN q /\ r[j] = q[j - Len(p)]
    BY <1>7, <2>4 DEF Apart
  <2>5. CASE j \in DOMAIN p /\ r[j] = p[j] /\ i - Len(p) \in DOMAIN q /\ r[i] = q[i - Len(p)]
    BY <1>7, <2>5 DEF Apart
  <2> QED
    BY <1>5, <2>2, <2>3, <2>4, <2>5
<1> QED
  BY <1>1, <1>6, <1>7 DEF r

(* A timer that fires is gone, and is the only one of its kind.            *)
LEMMA FiredOK ==
  ASSUME NEW T, NEW p \in Seq(T), NEW i \in DOMAIN p, NEW g, UniqueIn(p, g)
  PROVE  /\ RemoveAt(p, i) \in Seq(T) /\ UniqueIn(RemoveAt(p, i), g)
         /\ \A run : p[i] = Timer(run, g) => ~Has(RemoveAt(p, i), run, g)
         /\ \A run : p[i] # Timer(run, g) => (Has(RemoveAt(p, i), run, g) <=> Has(p, run, g))
<1> DEFINE r == RemoveAt(p, i)
           Was(j) == IF j < i THEN j ELSE j + 1
<1>1. r \in Seq(T) /\ Len(r) = Len(p) - 1 /\ i \in 1..Len(p) /\ Len(p) \in Nat
      /\ \A j \in 1..(Len(p) - 1) : r[j] = IF j < i THEN p[j] ELSE p[j + 1]
  BY RemovedTimer
<1>2. DOMAIN r = 1..(Len(p) - 1) /\ DOMAIN p = 1..Len(p)
  BY <1>1
<1>3. \A j \in DOMAIN r : Was(j) \in DOMAIN p \ {i} /\ r[j] = p[Was(j)] /\ j \in Nat
  BY <1>1, <1>2
<1>4. \A k \in DOMAIN p \ {i} : \E j \in DOMAIN r : r[j] = p[k]
  <2> SUFFICES ASSUME NEW k \in DOMAIN p \ {i} PROVE \E j \in DOMAIN r : r[j] = p[k]
    OBVIOUS
  <2>1. CASE k < i
    <3>1. k \in DOMAIN r /\ r[k] = p[k]
      BY <1>1, <1>2, <2>1
    <3> QED
      BY <3>1
  <2>2. CASE k > i
    <3>1. k - 1 \in DOMAIN r /\ r[k - 1] = p[(k - 1) + 1] /\ (k - 1) + 1 = k
      BY <1>1, <1>2, <2>2
    <3> QED
      BY <3>1
  <2> QED
    BY <1>1, <1>2, <2>1, <2>2
<1> HIDE DEF r
<1>5. UniqueIn(r, g)
  <2> SUFFICES ASSUME NEW j \in DOMAIN r, NEW k \in DOMAIN r, r[j] = r[k], r[j].of = g
               PROVE  j = k
    BY DEF UniqueIn
  <2>1. Was(j) = Was(k)
    BY <1>3 DEF UniqueIn
  <2> QED
    BY <1>1, <1>2, <1>3, <2>1
<1>6. ASSUME NEW run, p[i] = Timer(run, g) PROVE ~Has(r, run, g)
  BY <1>3, <1>6 DEF Has, UniqueIn, Timer
<1>7. ASSUME NEW run, p[i] # Timer(run, g) PROVE Has(r, run, g) <=> Has(p, run, g)
  BY <1>3, <1>4, <1>7 DEF Has
<1> QED
  BY <1>1, <1>5, <1>6, <1>7 DEF r

(* What a batch posts: at most one timer, the one that is due.             *)
LEMMA DueTimers ==
  ASSUME NEW g \in Nat, NEW status, NEW writes \in BOOLEAN, NEW t, t = Due(g, status, writes)
  PROVE  DuePosted(t, g, status, writes)
<1>1. Timer("poll", g) # Timer("advance", g)
      /\ Timer("poll", g).of = g /\ Timer("advance", g).of = g
      /\ Timer("poll", g) \in [run : {"advance", "poll"}, of : 0..g]
      /\ Timer("advance", g) \in [run : {"advance", "poll"}, of : 0..g]
  BY DEF Timer
<1>2. status = "running" => ~Finished(status)
  BY DEF Finished
<1>3. CASE Finished(status) /\ writes = TRUE
  <2>1. (IF Finished(status) /\ writes = TRUE THEN <<Timer("poll", g)>> ELSE <<>>)
          = <<Timer("poll", g)>>
    BY <1>3, Zenon
  <2>2. (IF status = "running" THEN <<Timer("advance", g)>> ELSE <<>>) = <<>>
    BY <1>2, <1>3, Zenon
  <2>3. <<Timer("poll", g)>> \o <<>> = <<Timer("poll", g)>>
    OBVIOUS
  <2>4. t = <<Timer("poll", g)>>
    BY <2>1, <2>2, <2>3, Zenon DEF Due
  <2>5. /\ t \in Seq([run : {"advance", "poll"}, of : 0..g]) /\ UniqueIn(t, g)
        /\ \A j \in DOMAIN t : t[j] = Timer("poll", g)
    BY <1>1, <2>4 DEF UniqueIn
  <2>6. Has(t, "poll", g) /\ ~Has(t, "advance", g)
    BY <1>1, <2>4 DEF Has
  <2> QED
    BY <1>1, <1>2, <1>3, <2>5, <2>6 DEF DuePosted
<1>4. CASE status = "running"
  <2>1. (IF Finished(status) /\ writes = TRUE THEN <<Timer("poll", g)>> ELSE <<>>) = <<>>
    BY <1>2, <1>4, Zenon
  <2>2. (IF status = "running" THEN <<Timer("advance", g)>> ELSE <<>>)
          = <<Timer("advance", g)>>
    BY <1>4, Zenon
  <2>3. <<>> \o <<Timer("advance", g)>> = <<Timer("advance", g)>>
    OBVIOUS
  <2>4. t = <<Timer("advance", g)>>
    BY <2>1, <2>2, <2>3, Zenon DEF Due
  <2>5. /\ t \in Seq([run : {"advance", "poll"}, of : 0..g]) /\ UniqueIn(t, g)
        /\ \A j \in DOMAIN t : t[j] = Timer("advance", g)
    BY <1>1, <2>4 DEF UniqueIn
  <2>6. Has(t, "advance", g) /\ ~Has(t, "poll", g)
    BY <1>1, <2>4 DEF Has
  <2> QED
    BY <1>1, <1>2, <1>4, <2>5, <2>6 DEF DuePosted
<1>5. CASE ~(Finished(status) /\ writes = TRUE) /\ status # "running"
  <2>1. (IF Finished(status) /\ writes = TRUE THEN <<Timer("poll", g)>> ELSE <<>>) = <<>>
    BY <1>5, Zenon
  <2>2. (IF status = "running" THEN <<Timer("advance", g)>> ELSE <<>>) = <<>>
    BY <1>5, Zenon
  <2>3. t = <<>> \o <<>>
    BY <2>1, <2>2, Zenon DEF Due
  <2>4. t = <<>>
    BY <2>3
  <2> QED
    BY <1>5, <2>4 DEF UniqueIn, Has, DuePosted
<1> QED
  BY <1>3, <1>4, <1>5

-----------------------------------------------------------------------------
(* Restoration *)

(* A batch keeps what was restored, and restores what it brings.           *)
LEMMA RestoringBatch ==
  ASSUME NEW o, o.from \in ViewStates, NEW v, ViewOK(v), NEW w, ViewOK(w),
         NEW p \in ViewStates, NEW q, NEW status,
         w.current = v.current, w.expanded = v.expanded,
         \A k \in DOMAIN v.rows : k \in DOMAIN w.rows /\ w.rows[k] = v.rows[k],
         q = IF status = "complete" THEN NoPending ELSE Remaining(w, p),
         AwaitsOrShows(o, "running", v, p)
  PROVE  AwaitsOrShows(o, status, Restored(w, p), q)
<1> DEFINE u == Restored(w, p)
<1>1. \A path : Resolved(path, v.rows) \subseteq Resolved(path, w.rows)
  BY DEF Resolved, Path
<1>2. /\ u.rows = w.rows /\ w.expanded \subseteq u.expanded
      /\ \A e \in p.expanded : Resolved(e, w.rows) \subseteq u.expanded
      /\ Resolved(p.selected, w.rows) = {} => u.current = w.current
      /\ \A row \in Resolved(p.selected, w.rows) : u.current = row
  BY RestoredOK
<1>3. /\ status # "complete" /\ Resolved(p.selected, w.rows) = {} => q.selected = p.selected
      /\ Resolved(p.selected, w.rows) # {} => q.selected = Nothing
      /\ status = "complete" => q.selected = Nothing
      /\ \A e \in p.expanded : status # "complete" /\ Resolved(e, w.rows) = {} => e \in q.expanded
  BY RemainingOK, NoPendingType
<1> HIDE DEF u
<1>4. ASSUME o.placed = "not"
      PROVE  /\ q.selected # Nothing =>
                  q.selected = o.from.selected /\ Resolved(q.selected, w.rows) = {}
             /\ \A row \in Resolved(o.from.selected, w.rows) : u.current = row
             /\ status = "running" /\ Resolved(o.from.selected, w.rows) = {}
                  => q.selected = o.from.selected
  <2>1. /\ p.selected # Nothing =>
             p.selected = o.from.selected /\ Resolved(p.selected, v.rows) = {}
        /\ \A row \in Resolved(o.from.selected, v.rows) : v.current = row
        /\ Resolved(o.from.selected, v.rows) = {} => p.selected = o.from.selected
    BY <1>4 DEF AwaitsOrShows
  <2>2. CASE p.selected = o.from.selected
    BY <1>2, <1>3, <2>2
  <2>3. CASE p.selected # o.from.selected
    <3>1. p.selected = Nothing /\ Resolved(o.from.selected, v.rows) # {}
      BY <2>1, <2>3
    <3>2. Resolved(p.selected, w.rows) = {}
      BY <3>1, ResolvedRow
    <3>3. u.current = v.current /\ q.selected = Nothing
      BY <1>2, <1>3, <3>1, <3>2
    <3>4. PICK row \in Resolved(o.from.selected, v.rows) : TRUE
      BY <3>1
    <3>5. \A r \in Resolved(o.from.selected, w.rows) : r = row
      BY <1>1, <3>4, ResolvedRow
    <3>6. Resolved(o.from.selected, w.rows) # {} /\ v.current = row
      BY <1>1, <2>1, <3>4
    <3> QED
      BY <3>3, <3>5, <3>6
  <2> QED
    BY <2>2, <2>3
<1>5. ASSUME ~o.folded, NEW e \in o.from.expanded
      PROVE  /\ Resolved(e, w.rows) \subseteq u.expanded
             /\ status = "running" /\ Resolved(e, w.rows) = {} => e \in q.expanded
  <2>1. /\ Resolved(e, v.rows) \subseteq v.expanded
        /\ Resolved(e, v.rows) = {} => e \in p.expanded
    BY <1>5 DEF AwaitsOrShows
  <2>2. CASE Resolved(e, v.rows) = {}
    BY <1>2, <1>3, <2>1, <2>2
  <2>3. CASE Resolved(e, v.rows) # {}
    <3>1. PICK row \in Resolved(e, v.rows) : TRUE
      BY <2>3
    <3>2. \A r \in Resolved(e, w.rows) : r = row
      BY <1>1, <3>1, ResolvedRow
    <3>3. Resolved(e, w.rows) # {} /\ row \in u.expanded
      BY <1>1, <1>2, <2>1, <3>1
    <3> QED
      BY <3>2, <3>3
  <2> QED
    BY <2>2, <2>3
<1> QED
  BY <1>2, <1>4, <1>5 DEF AwaitsOrShows, u

(* A tree that has just been displayed, and the state of a document.       *)
LEMMA RestoringDocument ==
  ASSUME NEW v, ViewOK(v), NEW p \in ViewStates, NEW status
  PROVE  AwaitsOrShows(Opened(p), status, Restored(v, p), Remaining(v, p))
<1>1. /\ Restored(v, p).rows = v.rows
      /\ \A e \in p.expanded : Resolved(e, v.rows) \subseteq Restored(v, p).expanded
      /\ \A row \in Resolved(p.selected, v.rows) : Restored(v, p).current = row
  BY RestoredOK
<1>2. /\ Resolved(p.selected, v.rows) = {} => Remaining(v, p).selected = p.selected
      /\ Resolved(p.selected, v.rows) # {} => Remaining(v, p).selected = Nothing
      /\ \A e \in p.expanded : Resolved(e, v.rows) = {} => e \in Remaining(v, p).expanded
  BY RemainingOK
<1> QED
  BY <1>1, <1>2 DEF AwaitsOrShows, Opened

-----------------------------------------------------------------------------
(* Sessions *)

(* A request to cancel and an answer from the cache change nothing else.   *)
LEMMA AnsweredOK ==
  ASSUME NEW s, SessionOK(s), NEW w \in BOOLEAN, NEW t,
         t = [s EXCEPT !.writes = w] \/ t = [s EXCEPT !.cancelled = w]
  PROVE  /\ SessionOK(t) /\ t.frames = s.frames /\ t.status = s.status
         /\ ActiveRows(t) = ActiveRows(s)
         /\ t = [s EXCEPT !.writes = w] => t.writes = w
         /\ t = [s EXCEPT !.cancelled = w] => t.writes = s.writes
<1>1. s \in Sessions
  BY DEF SessionOK
<1>2. s = [media |-> s.media, format |-> s.format, caching |-> s.caching,
           published |-> s.published, status |-> s.status, cancelled |-> s.cancelled,
           writes |-> s.writes, frames |-> s.frames]
  BY <1>1 DEF Sessions
<1>3. PICK c \in BOOLEAN, x \in BOOLEAN :
         /\ t = [media |-> s.media, format |-> s.format, caching |-> s.caching,
                 published |-> s.published, status |-> s.status, cancelled |-> c,
                 writes |-> x, frames |-> s.frames]
         /\ t = [s EXCEPT !.writes = w] => x = w
         /\ t = [s EXCEPT !.cancelled = w] => x = s.writes
  <2>1. CASE t = [s EXCEPT !.writes = w]
    <3>1. t = [media |-> s.media, format |-> s.format, caching |-> s.caching,
               published |-> s.published, status |-> s.status, cancelled |-> s.cancelled,
               writes |-> w, frames |-> s.frames]
      BY <1>2, <2>1
    <3>2. t = [s EXCEPT !.cancelled = w] => w = s.writes
      <4>1. t = [s EXCEPT !.cancelled = w] => t.writes = s.writes
        BY <1>2
      <4> QED
        BY <3>1, <4>1
    <3>3. s.cancelled \in BOOLEAN
      BY <1>1 DEF Sessions
    <3> QED
      BY <3>1, <3>2, <3>3
  <2>2. CASE t = [s EXCEPT !.cancelled = w] /\ t # [s EXCEPT !.writes = w]
    <3>1. t = [media |-> s.media, format |-> s.format, caching |-> s.caching,
               published |-> s.published, status |-> s.status, cancelled |-> w,
               writes |-> s.writes, frames |-> s.frames]
      BY <1>2, <2>2
    <3>2. s.writes \in BOOLEAN
      BY <1>1 DEF Sessions
    <3> QED
      BY <2>2, <3>1, <3>2
  <2> QED
    BY <2>1, <2>2
<1>4. t \in Sessions
  BY <1>1, <1>3 DEF Sessions
<1>5. /\ t.frames = s.frames /\ t.status = s.status /\ t.media = s.media
      /\ t.format = s.format /\ t.published = s.published /\ t.writes = x
  BY <1>3
<1>6. SessionOK(t)
  BY <1>4, <1>5 DEF SessionOK
<1>7. ActiveRows(t) = ActiveRows(s)
  BY <1>5 DEF ActiveRows, RowsOf
<1> QED
  BY <1>3, <1>5, <1>6, <1>7

(* Frames are entered and left with nothing else of the session.           *)
LEMMA FramedOK ==
  ASSUME NEW s, SessionOK(s), NEW f \in Seq(Frames), NEW t,
         \A k \in DOMAIN f : f[k].row <= IF k = 1 THEN s.published ELSE Len(Child),
         t = [s EXCEPT !.frames = f]
  PROVE  /\ SessionOK(t) /\ t.frames = f /\ t.status = s.status /\ t.writes = s.writes
         /\ RowsOf(t) = RowsOf(s)
<1>1. s \in Sessions
  BY DEF SessionOK
<1>2. s = [media |-> s.media, format |-> s.format, caching |-> s.caching,
           published |-> s.published, status |-> s.status, cancelled |-> s.cancelled,
           writes |-> s.writes, frames |-> s.frames]
  BY <1>1 DEF Sessions
<1>3. t = [media |-> s.media, format |-> s.format, caching |-> s.caching,
           published |-> s.published, status |-> s.status, cancelled |-> s.cancelled,
           writes |-> s.writes, frames |-> f]
  BY <1>2
<1>4. t \in Sessions
  BY <1>1, <1>3 DEF Sessions
<1>5. /\ t.frames = f /\ t.status = s.status /\ t.media = s.media /\ t.format = s.format
      /\ t.published = s.published /\ t.writes = s.writes
  BY <1>3
<1>6. SessionOK(t)
  BY <1>4, <1>5 DEF SessionOK
<1> QED
  BY <1>5, <1>6 DEF RowsOf

LEMMA NeverClosed ==
  ASSUME NEW s, SessionOK(s)
  PROVE  s # Closed
BY WindowAssumption DEF SessionOK

LEMMA NewSessionOK ==
  ASSUME NEW m \in Media, NEW f \in Formats, NEW c \in BOOLEAN
  PROVE  LET s == NewSession(m, f, c)
         IN  /\ SessionOK(s) /\ s.frames = <<>>
             /\ Fresh(0, <<>>).depth = Len(s.frames) /\ Fresh(0, <<>>).rows = ActiveRows(s)
<1> DEFINE s == NewSession(m, f, c)
<1>1. s \in Sessions /\ s.published = 0 /\ s.media = m /\ s.format = f /\ s.frames = <<>>
  BY DEF NewSession, Sessions
<1>2. Layout[m][f] \in Seq(STRING)
  BY WindowAssumption
<1> HIDE DEF s
<1>3. SessionOK(s)
  BY <1>1, <1>2 DEF SessionOK
<1>4. ActiveRows(s) = <<>>
  <2>1. RowsOf(s) \in Seq(STRING) /\ Len(RowsOf(s)) = 0
    BY <1>1, <1>3, ActiveType
  <2>2. RowsOf(s) = <<>>
    BY <2>1, EmptySeq
  <2> QED
    BY <1>1, <2>2 DEF ActiveRows
<1> QED
  BY <1>1, <1>3, <1>4 DEF Fresh, s

-----------------------------------------------------------------------------
(* The steps that change nothing the view depends on *)

(* The history follows the root tree when it is displayed.                 *)
LEMMA ShownOK ==
  ASSUME TypeOK, ViewOK(view'), shown' = Shows
  PROVE  /\ shown' \in ViewStates \cup {Nothing}
         /\ session' # Closed /\ session'.frames = <<>> => shown' = Captured(view')
         /\ ~(session' # Closed /\ session'.frames = <<>>) => shown' = shown
<1>1. Captured(view') \in ViewStates
  BY CapturedType
<1>2. shown \in ViewStates \cup {Nothing}
  BY DEF TypeOK
<1> QED
  BY <1>1, <1>2 DEF Shows

(* A callback or an act that leaves view, frames and status alone.         *)
LEMMA Quiet ==
  ASSUME IInv, UNCHANGED <<view, pending, snapshot, opened>>, shown' = Shows,
         session' = Closed <=> session = Closed,
         session # Closed => /\ SessionOK(session') /\ session'.frames = session.frames
                             /\ session'.status = session.status
                             /\ ActiveRows(session') = ActiveRows(session)
  PROVE  /\ session' # Closed => SessionOK(session')
         /\ ViewOK(view') /\ pending' \in ViewStates
         /\ snapshot' \in ViewStates \cup {Nothing} /\ shown' \in ViewStates \cup {Nothing}
         /\ opened' \in Histories
         /\ Displays' /\ RootKept' /\ Placed' /\ Restoring'
<1>1. ViewOK(view) /\ pending \in ViewStates /\ snapshot \in ViewStates \cup {Nothing}
      /\ opened \in Histories
  BY DEF IInv, TypeOK
<1>2. /\ shown' \in ViewStates \cup {Nothing}
      /\ session' # Closed /\ session'.frames = <<>> => shown' = Captured(view')
      /\ ~(session' # Closed /\ session'.frames = <<>>) => shown' = shown
  BY <1>1, ShownOK DEF IInv
<1>3. Displays'
  BY DEF IInv, Displays, Depth
<1>4. RootKept'
  BY <1>2 DEF IInv, RootKept
<1>5. Placed' /\ Restoring'
  BY DEF IInv, Placed, Restoring
<1> QED
  BY <1>1, <1>2, <1>3, <1>4, <1>5

(* A timer that is not of the current session only disappears.             *)
LEMMA StaleInv ==
  ASSUME IInv, NEW i \in DOMAIN posted, ~Current(posted[i].of),
         posted' = RemoveAt(posted, i), ByItself,
         UNCHANGED <<generation, session, view, pending, snapshot, document, opened>>
  PROVE  IInv'
<1> DEFINE T == [run : {"advance", "poll"}, of : 0..generation]
<1>1. posted \in Seq(T) /\ UniqueIn(posted, generation)
  BY DEF IInv, TypeOK, Once
<1> HIDE DEF T
<1>2. /\ posted' \in Seq(T) /\ UniqueIn(posted', generation)
      /\ \A run : posted[i] # Timer(run, generation) =>
           (Has(posted', run, generation) <=> Has(posted, run, generation))
  BY <1>1, FiredOK
<1>3. session # Closed => \A run : posted[i] # Timer(run, generation)
  BY DEF Current, Timer
<1>4. Once' /\ Chained'
  BY <1>2, <1>3 DEF IInv, Once, Chained
<1>5. /\ session # Closed => SessionOK(session)
      /\ generation \in Nat /\ acts \in Nat /\ document \in Documents \cup {Nothing}
  BY DEF IInv, TypeOK
<1>6. shown' = Shows /\ acts' = acts
  BY DEF ByItself
<1>7. TypeOK' /\ Displays' /\ RootKept' /\ Placed' /\ Restoring'
  BY <1>2, <1>5, <1>6, Quiet DEF TypeOK, T
<1> QED
  BY <1>4, <1>7 DEF IInv

(* The cache has answered some of the writes, or all.                      *)
LEMMA PollInv ==
  ASSUME IInv, NEW i \in DOMAIN posted, PollAnalysisCache(i)
  PROVE  IInv'
<1>1. CASE ~Current(posted[i].of)
  BY <1>1, StaleInv DEF PollAnalysisCache
<1>2. CASE Current(posted[i].of)
  <2> DEFINE T == [run : {"advance", "poll"}, of : 0..generation]
             g == generation
             r == RemoveAt(posted, i)
  <2>1. PICK left \in BOOLEAN :
           /\ left => session.writes
           /\ session' = [session EXCEPT !.writes = left]
           /\ posted' = r \o (IF left THEN <<posted[i]>> ELSE <<>>)
    BY <1>2 DEF PollAnalysisCache
  <2>2. /\ UNCHANGED <<generation, view, pending, snapshot, document, opened>>
        /\ shown' = Shows /\ acts' = acts /\ posted[i].run = "poll"
    BY DEF PollAnalysisCache, ByItself
  <2>3. session # Closed /\ SessionOK(session) /\ posted[i].of = g
        /\ posted \in Seq(T) /\ UniqueIn(posted, g)
    BY <1>2 DEF Current, IInv, TypeOK, Once
  <2> HIDE DEF T, r
  <2>4. posted[i] \in T /\ posted[i] = Timer("poll", g)
    <3>1. posted[i] \in T
      BY <2>3
    <3> QED
      BY <2>2, <2>3, <3>1 DEF Timer, T
  <2>5. /\ SessionOK(session') /\ session'.frames = session.frames
        /\ session'.status = session.status /\ session'.writes = left
        /\ ActiveRows(session') = ActiveRows(session)
    BY <2>1, <2>3, AnsweredOK
  <2>6. /\ r \in Seq(T) /\ UniqueIn(r, g) /\ ~Has(r, "poll", g)
        /\ Has(r, "advance", g) <=> Has(posted, "advance", g)
    <3>1. posted[i] # Timer("advance", g)
      BY <2>4 DEF Timer
    <3> QED
      BY <2>3, <2>4, <3>1, FiredOK DEF r
  <2> DEFINE q == IF left THEN <<posted[i]>> ELSE <<>>
  <2>7. /\ q \in Seq(T) /\ UniqueIn(q, g) /\ ~Has(q, "advance", g)
        /\ Has(q, "poll", g) <=> left
        /\ \A j \in DOMAIN q : q[j] = Timer("poll", g)
    <3>1. CASE left
      <4>1. q = <<posted[i]>>
        BY <3>1
      <4> QED
        BY <2>4, <3>1, <4>1 DEF UniqueIn, Has, Timer
    <3>2. CASE ~left
      <4>1. q = <<>>
        BY <3>2
      <4> QED
        BY <3>2, <4>1 DEF UniqueIn, Has
    <3> QED
      BY <3>1, <3>2
  <2> HIDE DEF q
  <2>8. Apart(r, q)
    BY <2>6, <2>7 DEF Apart, Has
  <2>9. posted' = r \o q
    BY <2>1 DEF q
  <2>10. /\ posted' \in Seq(T) /\ UniqueIn(posted', g)
         /\ \A run : Has(posted', run, g) <=> Has(r, run, g) \/ Has(q, run, g)
    BY <2>6, <2>7, <2>8, <2>9, PostedOK
  <2>11. Once' /\ Chained'
    <3>1. Has(posted, "poll", g)
      BY <2>4 DEF Has
    <3>2. /\ Has(posted', "advance", g) <=> session'.status = "running"
          /\ Has(posted', "poll", g) => Finished(session'.status)
          /\ Finished(session'.status) /\ session'.writes => Has(posted', "poll", g)
      BY <2>3, <2>5, <2>6, <2>7, <2>10, <3>1 DEF IInv, Chained
    <3> QED
      BY <2>2, <2>10, <3>2 DEF Once, Chained
  <2>12. session' # Closed
    BY <2>5, NeverClosed
  <2>13. /\ session' # Closed => SessionOK(session')
         /\ ViewOK(view') /\ pending' \in ViewStates
         /\ snapshot' \in ViewStates \cup {Nothing} /\ shown' \in ViewStates \cup {Nothing}
         /\ opened' \in Histories
         /\ Displays' /\ RootKept' /\ Placed' /\ Restoring'
    BY <2>2, <2>3, <2>5, <2>12, Quiet
  <2>14. TypeOK'
    BY <2>2, <2>10, <2>13 DEF IInv, TypeOK, T
  <2> QED
    BY <2>11, <2>13, <2>14 DEF IInv
<1> QED
  BY <1>1, <1>2

(* One batch of the current session: the view and what is pending.         *)
LEMMA AdvancedView ==
  ASSUME IInv, session # Closed, session.status = "running", NEW b \in Batches(session),
         NEW a, a = Advanced(generation, session, view, pending, b),
         session' = a.session, view' = a.view, pending' = a.pending,
         shown' = Shows, UNCHANGED <<snapshot, opened>>
  PROVE  Displays' /\ RootKept' /\ Placed' /\ Restoring'
<1>1. /\ SessionOK(session) /\ ViewOK(view) /\ pending \in ViewStates /\ generation \in Nat
      /\ view.depth = Len(session.frames) /\ view.rows = ActiveRows(session)
      /\ opened.from \in ViewStates \cup {Nothing}
  BY DEF IInv, TypeOK, Histories, Displays, Depth
<1>2. /\ session' = Analysed(session, b) /\ ViewOK(view')
      /\ view'.depth = Len(session.frames) /\ view'.rows = ActiveRows(session')
      /\ session.frames # <<>> => view' = view /\ pending' = pending
      /\ session.frames = <<>> =>
           /\ view' = Restored(Appended(session, view, b), pending)
           /\ pending' = IF b.status = "complete" THEN NoPending
                         ELSE Remaining(Appended(session, view, b), pending)
  BY <1>1, AdvancedOK
<1>3. /\ SessionOK(session') /\ session'.frames = session.frames
      /\ session'.status = b.status /\ session' # Closed
      /\ \A k \in DOMAIN RowsOf(session) : /\ k \in DOMAIN RowsOf(session')
                                           /\ RowsOf(session')[k] = RowsOf(session)[k]
  BY <1>1, <1>2, AnalysedOK, NeverClosed
<1>4. Displays'
  BY <1>2, <1>3 DEF Displays, Depth
<1>5. RootKept'
  <2>1. /\ session'.frames = <<>> => shown' = Captured(view')
        /\ session'.frames # <<>> => shown' = shown
    BY <1>2, <1>3, ShownOK DEF IInv
  <2> QED
    BY <1>3, <2>1 DEF IInv, RootKept
<1>6. CASE session.frames # <<>>
  <2>1. Placed'
    BY <1>2, <1>6 DEF IInv, Placed
  <2>2. Restoring'
    BY <1>3, <1>6 DEF IInv, Restoring
  <2> QED
    BY <1>4, <1>5, <2>1, <2>2
<1>7. CASE session.frames = <<>>
  <2> DEFINE w == Appended(session, view, b)
  <2>1. view.rows = RowsOf(session)
    BY <1>1, <1>7 DEF ActiveRows
  <2>2. /\ ViewOK(w) /\ w.rows = RowsOf(session')
        /\ w.current = view.current /\ w.expanded = view.expanded
    BY <1>1, <1>2, <1>7, <2>1, AppendedOK
  <2> HIDE DEF w
  <2>3. /\ view' = Restored(w, pending)
        /\ pending' = IF b.status = "complete" THEN NoPending ELSE Remaining(w, pending)
    BY <1>2, <1>7 DEF w
  <2>4. Placed'
    <3> SUFFICES ASSUME opened.placed = "heard"
                 PROVE  view'.current = opened.cursor /\ pending'.selected = Nothing
      BY <1>2 DEF Placed
    <3>1. view.current = opened.cursor /\ pending.selected = Nothing
      BY DEF IInv, Placed
    <3>2. Resolved(pending.selected, w.rows) = {}
      BY <3>1, ResolvedRow
    <3>3. view'.current = opened.cursor
      <4>1. Restored(w, pending).current = w.current
        BY <1>1, <2>2, <3>2, RestoredOK
      <4> QED
        BY <2>2, <2>3, <3>1, <4>1
    <3>4. Remaining(w, pending).selected = Nothing
      BY <1>1, <3>1, <3>2, RemainingOK
    <3> QED
      BY <2>3, <3>3, <3>4, NoPendingType
  <2>5. Restoring'
    <3> SUFFICES ASSUME opened.from # Nothing, ~opened.left
                 PROVE  AwaitsOrShows(opened, session'.status, view', pending')
      BY <1>3, <1>7 DEF Restoring
    <3>1. AwaitsOrShows(opened, "running", view, pending) /\ opened.from \in ViewStates
      BY <1>1 DEF IInv, Restoring
    <3>2. \A k \in DOMAIN view.rows : k \in DOMAIN w.rows /\ w.rows[k] = view.rows[k]
      BY <1>3, <2>1, <2>2
    <3>3. AwaitsOrShows(opened, b.status, view', pending')
      <4>1. AwaitsOrShows(opened, b.status, Restored(w, pending), pending')
        BY <1>1, <2>2, <2>3, <3>1, <3>2, RestoringBatch
      <4> QED
        BY <2>3, <4>1
    <3> QED
      BY <1>3, <3>3
  <2> QED
    BY <1>4, <1>5, <2>4, <2>5
<1> QED
  BY <1>6, <1>7

(* advanceAnalysis() called back for the session that it was posted for.   *)
LEMMA CurrentAdvanceInv ==
  ASSUME IInv, NEW i \in DOMAIN posted, posted[i].run = "advance", Current(posted[i].of),
         NEW b \in Batches(session),
         NEW a, a = Advanced(generation, session, view, pending, b),
         session' = a.session, generation' = a.generation, view' = a.view,
         pending' = a.pending, posted' = RemoveAt(posted, i) \o a.timers,
         ByItself, UNCHANGED <<snapshot, document, opened>>
  PROVE  IInv'
<1> DEFINE T == [run : {"advance", "poll"}, of : 0..generation]
           g == generation
           r == RemoveAt(posted, i)
<1>1. /\ session # Closed /\ SessionOK(session) /\ posted[i].of = g /\ g \in Nat
      /\ posted \in Seq(T) /\ UniqueIn(posted, g) /\ ViewOK(view)
      /\ pending \in ViewStates /\ acts' = acts /\ shown' = Shows
      /\ view.depth = Len(session.frames) /\ view.rows = ActiveRows(session)
  BY DEF Current, IInv, TypeOK, Once, ByItself, Displays, Depth
<1> HIDE DEF T, r
<1>2. posted[i] = Timer("advance", g) /\ posted[i] # Timer("poll", g)
  <2>1. posted[i] \in T
    BY <1>1
  <2> QED
    BY <1>1, <2>1 DEF Timer, T
<1>3. session.status = "running" /\ ~Has(posted, "poll", g)
  <2>1. Has(posted, "advance", g)
    BY <1>2 DEF Has
  <2> QED
    BY <1>1, <2>1 DEF IInv, Chained, Finished
<1>4. /\ session' = Analysed(session, b) /\ generation' = g /\ ViewOK(view')
      /\ pending' \in ViewStates
      /\ a.timers = Due(g, b.status, b.writes)
  BY <1>1, AdvancedOK
<1>5. /\ SessionOK(session') /\ session' # Closed /\ session'.status = b.status
      /\ session'.writes = b.writes
  BY <1>1, <1>4, AnalysedOK, NeverClosed
<1>6. b.writes \in BOOLEAN
  BY DEF Batches
<1> DEFINE q == a.timers
<1> HIDE DEF q
<1>7. /\ q \in Seq(T) /\ UniqueIn(q, g)
      /\ \A j \in DOMAIN q : q[j] \in {Timer("poll", g), Timer("advance", g)}
      /\ Has(q, "advance", g) <=> b.status = "running"
      /\ Has(q, "poll", g) <=> Finished(b.status) /\ b.writes = TRUE
  <2>1. q = Due(g, b.status, b.writes)
    BY <1>4 DEF q
  <2>2. DuePosted(q, g, b.status, b.writes)
    BY <1>1, <1>6, <2>1, DueTimers
  <2> QED
    BY <2>2 DEF T, DuePosted
<1>8. /\ r \in Seq(T) /\ UniqueIn(r, g) /\ ~Has(r, "poll", g) /\ ~Has(r, "advance", g)
  BY <1>1, <1>2, <1>3, FiredOK DEF r
<1>9. Apart(r, q)
  BY <1>7, <1>8 DEF Apart, Has
<1>10. posted' = r \o q
  BY DEF q, r
<1>11. /\ posted' \in Seq(T) /\ UniqueIn(posted', g)
       /\ \A run : Has(posted', run, g) <=> Has(r, run, g) \/ Has(q, run, g)
  BY <1>7, <1>8, <1>9, <1>10, PostedOK
<1>12. Once' /\ Chained'
  BY <1>4, <1>5, <1>7, <1>8, <1>11 DEF Once, Chained
<1>13. Displays' /\ RootKept' /\ Placed' /\ Restoring'
  BY <1>1, <1>3, AdvancedView
<1>14. shown' \in ViewStates \cup {Nothing}
  BY <1>1, <1>4, ShownOK DEF IInv
<1>15. TypeOK'
  BY <1>1, <1>4, <1>5, <1>11, <1>14 DEF IInv, TypeOK, T
<1> QED
  BY <1>12, <1>13, <1>15 DEF IInv

LEMMA AdvanceInv ==
  ASSUME IInv, NEW i \in DOMAIN posted, AdvanceAnalysis(i)
  PROVE  IInv'
<1>1. CASE ~Current(posted[i].of)
  BY <1>1, StaleInv DEF AdvanceAnalysis
<1>2. CASE Current(posted[i].of)
  <2>1. PICK b \in Batches(session) :
           LET a == Advanced(generation, session, view, pending, b)
           IN  /\ session' = a.session /\ generation' = a.generation
               /\ view' = a.view /\ pending' = a.pending
               /\ posted' = RemoveAt(posted, i) \o a.timers
    BY <1>2 DEF AdvanceAnalysis
  <2> QED
    BY <1>2, <2>1, CurrentAdvanceInv DEF AdvanceAnalysis
<1> QED
  BY <1>1, <1>2

-----------------------------------------------------------------------------
(* Opening *)

(* The first batch of a new session: callbacks of earlier generations are  *)
(* none of its own.                                                        *)
LEMMA OpenedOK ==
  ASSUME IInv, NEW s, SessionOK(s), s.frames = <<>>,
         Fresh(0, <<>>).depth = Len(s.frames), Fresh(0, <<>>).rows = ActiveRows(s),
         NEW p \in ViewStates, NEW b \in Batches(s),
         NEW a, a = Advanced(generation + 1, s, Fresh(0, <<>>), p, b),
         session' = a.session, generation' = a.generation, posted' = posted \o a.timers
  PROVE  /\ SessionOK(session') /\ session' # Closed /\ session'.frames = <<>>
         /\ session'.status = b.status /\ generation' \in Nat
         /\ ViewOK(a.view) /\ a.pending \in ViewStates
         /\ a.view.depth = 0 /\ a.view.rows = ActiveRows(session')
         /\ posted' \in Seq([run : {"advance", "poll"}, of : 0..generation'])
         /\ Once' /\ Chained'
<1> DEFINE g == generation + 1
           W == [run : {"advance", "poll"}, of : 0..generation]
           T == [run : {"advance", "poll"}, of : 0..g]
           q == a.timers
<1>1. generation \in Nat /\ g \in Nat /\ posted \in Seq(W) /\ W \subseteq T
  BY DEF IInv, TypeOK
<1>2. ViewOK(Fresh(0, <<>>))
  BY FreshOK, EmptySeq
<1> HIDE DEF g, q, T
<1>3. /\ session' = Analysed(s, b) /\ generation' = g
      /\ ViewOK(a.view) /\ a.pending \in ViewStates
      /\ a.view.depth = Len(s.frames) /\ a.view.rows = ActiveRows(Analysed(s, b))
      /\ q = Due(g, b.status, b.writes)
  <2>1. a = Advanced(g, s, Fresh(0, <<>>), p, b)
    BY DEF g
  <2> QED
    BY SMTT(30), <1>1, <1>2, <2>1, AdvancedOK DEF q
<1>4. /\ SessionOK(session') /\ session' # Closed /\ session'.frames = <<>>
      /\ session'.status = b.status /\ session'.writes = b.writes
      /\ a.view.depth = 0 /\ a.view.rows = ActiveRows(session')
  BY <1>3, AnalysedOK, NeverClosed
<1>5. b.writes \in BOOLEAN
  BY DEF Batches
<1>6. /\ q \in Seq(T) /\ UniqueIn(q, g)
      /\ \A j \in DOMAIN q : q[j].of = g
      /\ Has(q, "advance", g) <=> b.status = "running"
      /\ Has(q, "poll", g) <=> Finished(b.status) /\ b.writes = TRUE
  <2>1. DuePosted(q, g, b.status, b.writes)
    BY <1>1, <1>3, <1>5, DueTimers
  <2> QED
    BY <2>1 DEF T, DuePosted
<1>7. posted \in Seq(T) /\ \A k \in DOMAIN posted : posted[k].of # g
  <2> HIDE DEF W
  <2>1. posted \in Seq(T) /\ \A k \in DOMAIN posted : posted[k] \in W
    BY <1>1, WiderSeq
  <2>2. \A w \in W : w.of # g
    BY <1>1 DEF W, g
  <2> QED
    BY <2>1, <2>2
<1>8. UniqueIn(posted, g) /\ \A run : ~Has(posted, run, g)
  BY <1>7 DEF UniqueIn, Has, Timer
<1>9. posted' = posted \o q
  BY DEF q
<1>10. /\ posted' \in Seq(T) /\ UniqueIn(posted', g)
       /\ \A run : Has(posted', run, g) <=> Has(posted, run, g) \/ Has(q, run, g)
  <2>1. Apart(posted, q)
    BY <1>6, <1>7 DEF Apart
  <2> QED
    <3>1. /\ posted \o q \in Seq(T) /\ UniqueIn(posted \o q, g)
          /\ \A run : Has(posted \o q, run, g) <=> Has(posted, run, g) \/ Has(q, run, g)
      BY <1>6, <1>7, <1>8, <2>1, PostedOK
    <3> QED
      BY <1>9, <3>1
<1>11. Once' /\ Chained'
  BY <1>3, <1>4, <1>6, <1>8, <1>10 DEF Once, Chained
<1> QED
  BY <1>1, <1>3, <1>4, <1>10, <1>11 DEF T

LEMMA StartedOverInv ==
  ASSUME IInv, NEW s, SessionOK(s), s.frames = <<>>,
         Fresh(0, <<>>).depth = Len(s.frames), Fresh(0, <<>>).rows = ActiveRows(s),
         StartedOver(s)
  PROVE  IInv'
<1>1. PICK b \in Batches(s) :
         LET a == Advanced(generation + 1, s, Fresh(0, <<>>), NoPending, b)
         IN  /\ session' = a.session /\ generation' = a.generation
             /\ view' = ExpandedAll(a.view) /\ pending' = a.pending
             /\ posted' = posted \o a.timers
  BY DEF StartedOver, Post
<1> DEFINE a == Advanced(generation + 1, s, Fresh(0, <<>>), NoPending, b)
<1>2. /\ session' = a.session /\ generation' = a.generation
      /\ view' = ExpandedAll(a.view) /\ pending' = a.pending
      /\ posted' = posted \o a.timers
  BY <1>1
<1>3. /\ snapshot' = Nothing /\ opened' = Opened(Nothing) /\ document' = document
      /\ shown' = Shows /\ acts' = acts
  BY DEF StartedOver, ByItself
<1>4. /\ SessionOK(session') /\ session' # Closed /\ session'.frames = <<>>
      /\ generation' \in Nat /\ ViewOK(a.view) /\ a.pending \in ViewStates
      /\ a.view.depth = 0 /\ a.view.rows = ActiveRows(session')
      /\ posted' \in Seq([run : {"advance", "poll"}, of : 0..generation'])
      /\ Once' /\ Chained'
  BY <1>2, OpenedOK, NoPendingType
<1> HIDE DEF a
<1>5. ViewOK(view') /\ view'.depth = 0 /\ view'.rows = ActiveRows(session')
  BY <1>2, <1>4, ExpandedOK
<1>6. /\ shown' \in ViewStates \cup {Nothing}
      /\ shown' = Captured(view')
  BY <1>3, <1>4, <1>5, ShownOK DEF IInv
<1>7. /\ opened' \in Histories
      /\ opened'.placed = "not" /\ opened'.from = Nothing
  BY <1>3 DEF Opened, Histories
<1>8. TypeOK'
  BY <1>2, <1>3, <1>4, <1>5, <1>6, <1>7 DEF IInv, TypeOK
<1>9. Displays' /\ RootKept'
  BY <1>4, <1>5, <1>6 DEF Displays, RootKept, Depth
<1>10. Placed' /\ Restoring'
  BY <1>7 DEF Placed, Restoring
<1> QED
  BY <1>4, <1>8, <1>9, <1>10 DEF IInv

LEMMA OpenSessionFileInv ==
  ASSUME IInv, OpenSessionFile
  PROVE  IInv'
<1> DEFINE s == NewSession(document.media, document.format, Caching)
<1>1. PICK b \in Batches(s) :
         LET a == Advanced(generation + 1, s, Fresh(0, <<>>), pending, b)
             v == IF document.state.expanded = {} THEN ExpandedAll(a.view) ELSE a.view
         IN  /\ session' = a.session /\ generation' = a.generation
             /\ view' = Restored(v, document.state)
             /\ pending' = Remaining(v, document.state)
             /\ posted' = posted \o a.timers
  BY DEF OpenSessionFile, Post
<1> DEFINE a == Advanced(generation + 1, s, Fresh(0, <<>>), pending, b)
           v == IF document.state.expanded = {} THEN ExpandedAll(a.view) ELSE a.view
<1>2. /\ session' = a.session /\ generation' = a.generation
      /\ view' = Restored(v, document.state)
      /\ pending' = Remaining(v, document.state)
      /\ posted' = posted \o a.timers
  BY <1>1
<1>3. /\ snapshot' = Nothing /\ opened' = Opened(document.state) /\ document' = document
      /\ shown' = Shows /\ acts' = acts /\ document # Nothing
  BY DEF OpenSessionFile, ByItself
<1>4. /\ document.media \in Media /\ document.format \in Formats
      /\ document.state \in ViewStates /\ pending \in ViewStates
  BY <1>3 DEF IInv, TypeOK, Documents
<1>5. /\ SessionOK(s) /\ s.frames = <<>>
      /\ Fresh(0, <<>>).depth = Len(s.frames) /\ Fresh(0, <<>>).rows = ActiveRows(s)
  BY <1>4, NewSessionOK, WindowAssumption
<1> HIDE DEF s
<1>6. /\ SessionOK(session') /\ session' # Closed /\ session'.frames = <<>>
      /\ generation' \in Nat /\ ViewOK(a.view)
      /\ a.view.depth = 0 /\ a.view.rows = ActiveRows(session')
      /\ posted' \in Seq([run : {"advance", "poll"}, of : 0..generation'])
      /\ Once' /\ Chained'
  BY <1>2, <1>4, <1>5, OpenedOK
<1> HIDE DEF a
<1>7. ViewOK(v) /\ v.depth = 0 /\ v.rows = ActiveRows(session')
  BY <1>6, ExpandedOK
<1> HIDE DEF v
<1>8. ViewOK(view') /\ view'.depth = 0 /\ view'.rows = ActiveRows(session')
  BY <1>2, <1>4, <1>7, RestoredOK
<1>9. pending' \in ViewStates
  BY <1>2, <1>4, RemainingOK
<1>10. /\ shown' \in ViewStates \cup {Nothing}
       /\ shown' = Captured(view')
  BY <1>3, <1>6, <1>8, ShownOK DEF IInv
<1>11. /\ opened' \in Histories
       /\ opened'.placed = "not"
  BY <1>3, <1>4 DEF Opened, Histories
<1>12. TypeOK'
  BY <1>3, <1>6, <1>8, <1>9, <1>10, <1>11 DEF IInv, TypeOK
<1>13. Displays' /\ RootKept'
  BY <1>6, <1>8, <1>10 DEF Displays, RootKept, Depth
<1>14. Placed'
  BY <1>11 DEF Placed
<1>15. Restoring'
  <2>1. AwaitsOrShows(Opened(document.state), session'.status, Restored(v, document.state),
                      Remaining(v, document.state))
    BY <1>4, <1>7, RestoringDocument
  <2>2. AwaitsOrShows(opened', session'.status, view', pending')
    BY <1>2, <1>3, <2>1
  <2> QED
    BY <1>6, <2>2 DEF Restoring
<1> QED
  BY <1>6, <1>12, <1>13, <1>14, <1>15 DEF IInv

-----------------------------------------------------------------------------
(* The user *)

LEMMA CancelInv ==
  ASSUME IInv, CancelAnalysis
  PROVE  IInv'
<1>1. /\ session # Closed /\ session' = [session EXCEPT !.cancelled = TRUE]
      /\ UNCHANGED <<generation, posted, view, pending, snapshot, document, opened>>
      /\ shown' = Shows /\ acts' = acts + 1
  BY DEF CancelAnalysis, ByUser
<1>2. SessionOK(session) /\ acts \in Nat
  BY <1>1 DEF IInv, TypeOK
<1>3. /\ SessionOK(session') /\ session'.frames = session.frames
      /\ session'.status = session.status /\ session'.writes = session.writes
      /\ ActiveRows(session') = ActiveRows(session)
  BY <1>1, <1>2, AnsweredOK
<1>4. session' # Closed
  BY <1>3, NeverClosed
<1>5. /\ session' # Closed => SessionOK(session')
      /\ ViewOK(view') /\ pending' \in ViewStates
      /\ snapshot' \in ViewStates \cup {Nothing} /\ shown' \in ViewStates \cup {Nothing}
      /\ opened' \in Histories
      /\ Displays' /\ RootKept' /\ Placed' /\ Restoring'
  BY <1>1, <1>3, <1>4, Quiet
<1>6. TypeOK'
  BY <1>1, <1>2, <1>5 DEF IInv, TypeOK
<1>7. Once' /\ Chained'
  BY <1>1, <1>3 DEF IInv, Once, Chained
<1> QED
  BY <1>5, <1>6, <1>7 DEF IInv

(* What is saved is what the root tree shows, or showed when it was left.  *)
LEMMA SavesRoots ==
  ASSUME IInv, session # Closed
  PROVE  CurrentUserState \in ViewStates /\ CurrentUserState = shown
<1>1. ViewOK(view) /\ SessionOK(session) /\ snapshot \in ViewStates \cup {Nothing}
  BY DEF IInv, TypeOK
<1>2. session.frames \in Seq(Frames)
  BY <1>1 DEF SessionOK, Sessions
<1>3. CASE session.frames = <<>>
  <2>1. ~(Depth > 0)
    BY <1>3 DEF Depth
  <2> QED
    BY <1>1, <1>3, <2>1, CapturedType DEF CurrentUserState, IInv, RootKept
<1>4. CASE session.frames # <<>>
  <2>1. Depth > 0
    BY <1>2, <1>4, EmptySeq DEF Depth
  <2>2. snapshot # Nothing /\ snapshot = shown
    BY <1>4 DEF IInv, RootKept
  <2> QED
    BY <1>1, <2>1, <2>2 DEF CurrentUserState
<1> QED
  BY <1>3, <1>4

LEMMA SaveInv ==
  ASSUME IInv, SaveSession
  PROVE  IInv'
<1>1. /\ session # Closed
      /\ document' = [media |-> session.media, format |-> session.format,
                      state |-> CurrentUserState]
      /\ UNCHANGED <<generation, posted, session, view, pending, snapshot, opened>>
      /\ shown' = Shows /\ acts' = acts + 1
  BY DEF SaveSession, ByUser
<1>2. SessionOK(session) /\ acts \in Nat
  BY <1>1 DEF IInv, TypeOK
<1>3. document' \in Documents
  <2>1. session.media \in Media /\ session.format \in Formats
    BY <1>2 DEF SessionOK, Sessions
  <2>2. CurrentUserState \in ViewStates
    BY <1>1, SavesRoots
  <2> QED
    BY <1>1, <2>1, <2>2 DEF Documents
<1>4. /\ session' # Closed => SessionOK(session')
      /\ ViewOK(view') /\ pending' \in ViewStates
      /\ snapshot' \in ViewStates \cup {Nothing} /\ shown' \in ViewStates \cup {Nothing}
      /\ opened' \in Histories
      /\ Displays' /\ RootKept' /\ Placed' /\ Restoring'
  BY <1>1, <1>2, Quiet
<1>5. TypeOK'
  BY <1>1, <1>2, <1>3, <1>4 DEF IInv, TypeOK
<1>6. Once' /\ Chained'
  BY <1>1 DEF IInv, Once, Chained
<1> QED
  BY <1>4, <1>5, <1>6 DEF IInv

(* A user who moves the cursor or folds a node changes the view alone.     *)
LEMMA TreeInv ==
  ASSUME IInv, ViewOK(view'), view'.depth = view.depth, view'.rows = view.rows,
         pending' \in ViewStates, shown' = Shows, acts' = acts + 1,
         UNCHANGED <<generation, posted, session, snapshot, document>>,
         opened' \in Histories,
         Placed', Restoring'
  PROVE  IInv'
<1>1. /\ session # Closed => SessionOK(session)
      /\ generation \in Nat /\ acts \in Nat /\ document \in Documents \cup {Nothing}
      /\ posted \in Seq([run : {"advance", "poll"}, of : 0..generation])
      /\ snapshot \in ViewStates \cup {Nothing}
  BY DEF IInv, TypeOK
<1>2. /\ shown' \in ViewStates \cup {Nothing}
      /\ session' # Closed /\ session'.frames = <<>> => shown' = Captured(view')
      /\ ~(session' # Closed /\ session'.frames = <<>>) => shown' = shown
  BY ShownOK DEF IInv
<1>3. TypeOK'
  BY <1>1, <1>2 DEF TypeOK
<1>4. Displays' /\ RootKept'
  BY <1>2 DEF IInv, Displays, Depth, RootKept
<1>5. Once' /\ Chained'
  BY DEF IInv, Once, Chained
<1> QED
  BY <1>3, <1>4, <1>5 DEF IInv

LEMMA PreemptedOK ==
  ASSUME NEW p \in ViewStates, NEW v, NEW row
  PROVE  /\ Preempted(p, v, row) \in ViewStates
         /\ Preempted(p, v, row).expanded = p.expanded
         /\ row # v.current => Preempted(p, v, row).selected = Nothing
BY DEF Preempted, ViewStates

LEMMA RevealedOK ==
  ASSUME NEW v, ViewOK(v), NEW row \in 0..Len(v.rows), NEW above \in Above(row)
  PROVE  /\ ViewOK(Revealed(v, row, above))
         /\ Revealed(v, row, above).depth = v.depth
         /\ Revealed(v, row, above).rows = v.rows
         /\ Revealed(v, row, above).current = row
         /\ v.expanded \subseteq Revealed(v, row, above).expanded
<1>1. /\ v \in Views /\ v.expanded \subseteq DOMAIN v.rows
      /\ DOMAIN v.rows = 1..Len(v.rows) /\ Len(v.rows) \in Nat /\ row \in Nat
  BY DEF ViewOK, Views
<1>2. above \subseteq DOMAIN v.rows
  BY <1>1 DEF Above
<1> DEFINE expanded == v.expanded \cup above
<1>3. expanded \subseteq DOMAIN v.rows /\ expanded \in SUBSET Nat /\ v.expanded \subseteq expanded
  BY <1>1, <1>2
<1>4. Revealed(v, row, above) = [depth |-> v.depth, rows |-> v.rows, current |-> row,
                                 expanded |-> expanded]
  <2>1. v = [depth |-> v.depth, rows |-> v.rows, current |-> v.current,
             expanded |-> v.expanded]
    BY <1>1 DEF Views
  <2>2. Revealed(v, row, above) = [v EXCEPT !.current = row, !.expanded = expanded]
    BY DEF Revealed
  <2> HIDE DEF expanded
  <2> QED
    BY <2>1, <2>2
<1> HIDE DEF expanded
<1> QED
  BY <1>1, <1>3, <1>4 DEF ViewOK, Views

LEMMA CursorMovedInv ==
  ASSUME IInv, NEW row, NEW above \in Above(row), CursorMoved(row, above)
  PROVE  IInv'
<1>1. /\ row \in DOMAIN view.rows /\ view' = Revealed(view, row, above)
      /\ pending' = Preempted(pending, view, row)
      /\ opened' = [opened EXCEPT !.cursor = row,
                      !.placed = IF row = view.current THEN opened.placed ELSE "heard"]
      /\ UNCHANGED <<generation, posted, session, snapshot, document>>
      /\ shown' = Shows /\ acts' = acts + 1
  BY DEF CursorMoved, ByUser
<1>2. ViewOK(view) /\ pending \in ViewStates /\ opened \in Histories
  BY DEF IInv, TypeOK
<1>3. row \in Nat /\ row \in 0..Len(view.rows)
  BY <1>1, <1>2 DEF ViewOK, Views
<1>4. /\ ViewOK(view') /\ view'.depth = view.depth /\ view'.rows = view.rows
      /\ view'.current = row /\ view.expanded \subseteq view'.expanded
  BY <1>1, <1>2, <1>3, RevealedOK
<1>5. /\ pending' \in ViewStates /\ pending'.expanded = pending.expanded
      /\ row # view.current => pending'.selected = Nothing
      /\ row = view.current => pending' = pending
  BY <1>1, <1>2, PreemptedOK DEF Preempted
<1>6. /\ opened' \in Histories
      /\ opened'.cursor = row /\ opened'.from = opened.from
      /\ opened'.placed = IF row = view.current THEN opened.placed ELSE "heard"
      /\ opened'.folded = opened.folded /\ opened'.left = opened.left
  BY <1>1, <1>2, <1>3 DEF Histories
<1>7. Placed'
  BY <1>4, <1>5, <1>6 DEF IInv, Placed
<1>8. Restoring'
  <2>1. AwaitsOrShows(opened, session.status, view, pending)
          => AwaitsOrShows(opened', session.status, view', pending')
    BY <1>4, <1>5, <1>6 DEF AwaitsOrShows
  <2> QED
    BY <1>1, <1>6, <2>1 DEF IInv, Restoring
<1> QED
  BY <1>1, <1>4, <1>5, <1>6, <1>7, <1>8, TreeInv

LEMMA SelectInv ==
  ASSUME IInv, NEW row, SelectAnalysisNode(row) \/ OnDiagnosticSelected(row)
  PROVE  IInv'
<1>1. {} \in Above(row)
  BY DEF Above
<1>2. CASE SelectAnalysisNode(row)
  BY <1>1, <1>2, CursorMovedInv DEF SelectAnalysisNode
<1>3. CASE OnDiagnosticSelected(row)
  BY <1>3, CursorMovedInv DEF OnDiagnosticSelected
<1> QED
  BY <1>2, <1>3

(* A click on a byte leaves what is pending.  It moves a cursor of which   *)
(* the handler has heard only when nothing is pending, and one of which it *)
(* has not is no longer promised to be restored.                           *)
LEMMA SelectSourceBitInv ==
  ASSUME IInv, NEW row \in 0..Len(view.rows), SelectSourceBit(row)
  PROVE  IInv'
<1>1. PICK above \in Above(row) : view' = Revealed(view, row, above)
  BY DEF SelectSourceBit
<1>2. /\ opened' = [opened EXCEPT !.cursor = row,
                      !.placed = IF opened.placed = "heard" THEN opened.placed ELSE "unheard"]
      /\ UNCHANGED <<generation, posted, session, pending, snapshot, document>>
      /\ shown' = Shows /\ acts' = acts + 1
  BY DEF SelectSourceBit, ByUser
<1>3. ViewOK(view) /\ pending \in ViewStates /\ opened \in Histories
  BY DEF IInv, TypeOK
<1>4. row \in Nat
  BY <1>3 DEF ViewOK, Views
<1>5. /\ ViewOK(view') /\ view'.depth = view.depth /\ view'.rows = view.rows
      /\ view'.current = row /\ view.expanded \subseteq view'.expanded
  BY <1>1, <1>3, RevealedOK
<1>6. /\ opened' \in Histories
      /\ opened'.cursor = row /\ opened'.from = opened.from
      /\ opened'.placed # "not"
      /\ opened'.placed = "heard" => opened.placed = "heard"
      /\ opened'.folded = opened.folded /\ opened'.left = opened.left
  BY <1>2, <1>3, <1>4 DEF Histories
<1>7. Placed'
  BY <1>2, <1>5, <1>6 DEF IInv, Placed
<1>8. Restoring'
  <2>1. AwaitsOrShows(opened, session.status, view, pending)
          => AwaitsOrShows(opened', session.status, view', pending)
    BY <1>5, <1>6 DEF AwaitsOrShows
  <2> QED
    BY <1>2, <1>6, <2>1 DEF IInv, Restoring
<1> QED
  BY <1>2, <1>3, <1>5, <1>6, <1>7, <1>8, TreeInv

LEMMA FoldInv ==
  ASSUME IInv, NEW row \in DOMAIN view.rows, FoldNode(row)
  PROVE  IInv'
<1>1. /\ view' = [view EXCEPT !.expanded = SymDiff(view.expanded, {row})]
      /\ opened' = [opened EXCEPT !.folded = TRUE]
      /\ UNCHANGED <<generation, posted, session, pending, snapshot, document>>
      /\ shown' = Shows /\ acts' = acts + 1
  BY DEF FoldNode, ByUser
<1>2. /\ ViewOK(view) /\ pending \in ViewStates
      /\ opened \in Histories
  BY DEF IInv, TypeOK
<1>3. SymDiff(view.expanded, {row}) \subseteq DOMAIN view.rows
      /\ DOMAIN view.rows \subseteq Nat
  BY <1>2 DEF ViewOK, Views, SymDiff
<1>4. /\ ViewOK(view') /\ view'.depth = view.depth /\ view'.rows = view.rows
      /\ view'.current = view.current
  BY <1>1, <1>2, <1>3 DEF ViewOK, Views
<1>5. /\ opened' \in Histories
      /\ opened'.cursor = opened.cursor /\ opened'.from = opened.from
      /\ opened'.placed = opened.placed
      /\ opened'.folded /\ opened'.left = opened.left
  BY <1>1, <1>2 DEF Histories
<1>6. Placed'
  BY <1>1, <1>4, <1>5 DEF IInv, Placed
<1>7. Restoring'
  <2>1. AwaitsOrShows(opened, session.status, view, pending)
          => AwaitsOrShows(opened', session.status, view', pending)
    BY <1>4, <1>5 DEF AwaitsOrShows
  <2> QED
    BY <1>1, <1>5, <2>1 DEF IInv, Restoring
<1> QED
  BY <1>1, <1>2, <1>4, <1>5, <1>6, <1>7, TreeInv

-----------------------------------------------------------------------------
(* Navigation *)

(* Whichever tree is displayed next, its cursor has been placed, nothing   *)
(* that is restored counts any more, and the root's state is kept.         *)
LEMMA LeavingInv ==
  ASSUME IInv, session # Closed, Leaving,
         SessionOK(session'), session'.status = session.status,
         session'.writes = session.writes,
         ViewOK(view'), view'.depth = Len(session'.frames),
         view'.rows = ActiveRows(session'),
         pending' \in ViewStates, view'.current # 0 => pending'.selected = Nothing,
         snapshot' \in ViewStates \cup {Nothing},
         session'.frames # <<>> => snapshot' = shown /\ snapshot' # Nothing
  PROVE  IInv'
<1>1. /\ opened' = [opened EXCEPT !.left = TRUE, !.cursor = view'.current,
                      !.placed = IF view'.current = 0 THEN "not" ELSE "heard"]
      /\ UNCHANGED <<generation, posted, document>> /\ shown' = Shows /\ acts' = acts + 1
  BY DEF Leaving, ByUser
<1>2. /\ generation \in Nat /\ acts \in Nat /\ document \in Documents \cup {Nothing}
      /\ posted \in Seq([run : {"advance", "poll"}, of : 0..generation])
      /\ opened \in Histories
  BY DEF IInv, TypeOK
<1>3. view'.current \in Nat
  BY DEF ViewOK, Views
<1>4. /\ opened' \in Histories
      /\ opened'.left /\ opened'.cursor = view'.current
      /\ opened'.placed = "heard" => view'.current # 0
  BY <1>1, <1>2, <1>3 DEF Histories
<1>5. session' # Closed
  BY NeverClosed
<1>6. /\ shown' \in ViewStates \cup {Nothing}
      /\ session'.frames = <<>> => shown' = Captured(view')
      /\ session'.frames # <<>> => shown' = shown
  BY <1>1, <1>5, ShownOK DEF IInv
<1>7. TypeOK'
  BY <1>1, <1>2, <1>4, <1>6 DEF TypeOK
<1>8. Displays' /\ RootKept'
  BY <1>5, <1>6 DEF Displays, Depth, RootKept
<1>9. Placed' /\ Restoring'
  BY <1>4 DEF Placed, Restoring
<1>10. Once' /\ Chained'
  BY <1>1 DEF IInv, Once, Chained
<1> QED
  BY <1>7, <1>8, <1>9, <1>10 DEF IInv

(* What the invariant says of the tree displayed and of the root left.     *)
LEMMA Navigable ==
  ASSUME IInv, session # Closed
  PROVE  /\ SessionOK(session) /\ ViewOK(view) /\ pending \in ViewStates
         /\ session.frames \in Seq(Frames) /\ Depth \in Nat
         /\ Depth = 0 <=> session.frames = <<>>
         /\ view.depth = Depth /\ view.rows = ActiveRows(session)
         /\ view.current \in Nat /\ view.current <= Len(ActiveRows(session))
         /\ Len(ActiveRows(session)) = IF Depth = 0 THEN session.published ELSE Len(Child)
         /\ snapshot \in ViewStates \cup {Nothing}
         /\ Depth = 0 => Captured(view) = shown
         /\ Depth # 0 => snapshot = shown /\ snapshot # Nothing
<1>1. /\ SessionOK(session) /\ ViewOK(view) /\ pending \in ViewStates
      /\ snapshot \in ViewStates \cup {Nothing}
      /\ view.depth = Depth /\ view.rows = ActiveRows(session)
  BY DEF IInv, TypeOK, Displays
<1>2. session.frames \in Seq(Frames)
  BY <1>1 DEF SessionOK, Sessions
<1>3. Depth \in Nat /\ (Depth = 0 <=> session.frames = <<>>)
  BY <1>2, EmptySeq DEF Depth
<1>4. view.current \in Nat /\ view.current <= Len(ActiveRows(session))
  BY <1>1 DEF ViewOK, Views
<1>5. Len(ActiveRows(session)) = IF Depth = 0 THEN session.published ELSE Len(Child)
  BY <1>1, <1>3, ActiveType DEF ActiveRows
<1>6. /\ Depth = 0 => Captured(view) = shown
      /\ Depth # 0 => snapshot = shown /\ snapshot # Nothing
  BY <1>3 DEF IInv, RootKept
<1> QED
  BY <1>1, <1>2, <1>3, <1>4, <1>5, <1>6

(* A tree displayed afresh with its cursor at row, or nowhere.             *)
LEMMA DisplayedOK ==
  ASSUME NEW d \in Nat, NEW rows \in Seq(STRING), NEW row \in Nat, row <= Len(rows),
         pending \in ViewStates, Displayed(d, rows, row)
  PROVE  /\ ViewOK(view') /\ view'.depth = d /\ view'.rows = rows
         /\ pending' \in ViewStates
         /\ view'.current # 0 => pending'.selected = Nothing
<1> DEFINE fresh == Fresh(d, rows)
<1>1. view' = [fresh EXCEPT !.current = row] /\ pending' = Preempted(pending, fresh, row)
  BY DEF Displayed
<1>2. ViewOK(fresh) /\ fresh.depth = d /\ fresh.rows = rows /\ fresh.current = 0
  BY FreshOK
<1> HIDE DEF fresh
<1>3. /\ ViewOK(view') /\ view'.depth = d /\ view'.rows = rows /\ view'.current = row
  BY <1>1, <1>2 DEF ViewOK, Views
<1>4. pending' \in ViewStates /\ (row # 0 => pending'.selected = Nothing)
  BY <1>1, <1>2, PreemptedOK
<1> QED
  BY <1>3, <1>4

LEMMA EnteredInv ==
  ASSUME IInv, session # Closed, NEW frame \in Frames, frame.row <= Len(ActiveRows(session)),
         Entered(frame), Leaving
  PROVE  IInv'
<1> DEFINE fresh  == Fresh(Depth + 1, Child)
           frames == Append(session.frames, frame)
           placed == [fresh EXCEPT !.current = 1]
<1>1. /\ session' = [session EXCEPT !.frames = frames]
      /\ snapshot' = IF Depth = 0 THEN Captured(view) ELSE snapshot
      /\ view' = ExpandedAll(placed) /\ pending' = Preempted(pending, fresh, 1)
  BY DEF Entered
<1>2. Child \in Seq(STRING) /\ Child # <<>> /\ Len(Child) \in Nat /\ 1 <= Len(Child)
  BY WindowAssumption, EmptySeq
<1>3. ViewOK(fresh) /\ fresh.depth = Depth + 1 /\ fresh.rows = Child /\ fresh.current = 0
  BY <1>2, Navigable, FreshOK
<1>4. frames \in Seq(Frames) /\ Len(frames) = Depth + 1 /\ frames # <<>>
      /\ \A k \in DOMAIN frames :
           frames[k].row <= IF k = 1 THEN session.published ELSE Len(Child)
  <2>1. session.frames \in Seq(Frames) /\ Depth = Len(session.frames) /\ Depth \in Nat
    BY Navigable DEF Depth
  <2>2. /\ frames \in Seq(Frames) /\ Len(frames) = Depth + 1 /\ frames # <<>>
        /\ DOMAIN frames = 1..(Depth + 1) /\ frames[Depth + 1] = frame
        /\ \A k \in 1..Depth : frames[k] = session.frames[k]
    BY <2>1
  <2>3. \A k \in DOMAIN session.frames :
           session.frames[k].row <= IF k = 1 THEN session.published ELSE Len(Child)
    BY Navigable DEF SessionOK
  <2>4. DOMAIN session.frames = 1..Depth
    BY <2>1
  <2>5. frame.row <= IF Depth + 1 = 1 THEN session.published ELSE Len(Child)
    BY <2>1, Navigable
  <2> HIDE DEF frames
  <2> SUFFICES ASSUME NEW k \in DOMAIN frames
               PROVE  frames[k].row <= IF k = 1 THEN session.published ELSE Len(Child)
    BY <2>2
  <2>6. CASE k \in 1..Depth
    BY <2>2, <2>3, <2>4, <2>6
  <2>7. CASE k = Depth + 1
    BY <2>2, <2>5, <2>7
  <2> QED
    BY <2>1, <2>2, <2>6, <2>7
<1> HIDE DEF frames, fresh
<1>5. /\ SessionOK(session') /\ session'.frames = frames
      /\ session'.status = session.status /\ session'.writes = session.writes
  BY <1>1, <1>4, Navigable, FramedOK
<1>6. /\ ViewOK(placed) /\ placed.depth = Depth + 1 /\ placed.rows = Child
      /\ placed.current = 1
  BY <1>2, <1>3 DEF ViewOK, Views
<1> HIDE DEF placed
<1>7. /\ ViewOK(view') /\ view'.depth = Depth + 1 /\ view'.rows = Child
      /\ view'.current = 1
  BY <1>1, <1>6, ExpandedOK
<1>8. pending' \in ViewStates /\ pending'.selected = Nothing
  BY <1>1, <1>3, Navigable, PreemptedOK
<1>9. ActiveRows(session') = Child
  BY <1>4, <1>5 DEF ActiveRows
<1>10. snapshot' \in ViewStates /\ snapshot' = shown /\ snapshot' # Nothing
  BY <1>1, Navigable, CapturedType
<1>11. view'.depth = Len(session'.frames) /\ view'.rows = ActiveRows(session')
  BY <1>4, <1>5, <1>7, <1>9
<1> QED
  BY <1>5, <1>7, <1>8, <1>10, <1>11, LeavingInv

(* Entered and left at once: the tree that was displayed is again.         *)
LEMMA RedisplayedInv ==
  ASSUME IInv, session # Closed, NEW row \in Nat, row <= Len(ActiveRows(session)),
         Displayed(Depth, ActiveRows(session), row), UNCHANGED <<session, snapshot>>, Leaving
  PROVE  IInv'
<1>1. ActiveRows(session) \in Seq(STRING)
  BY Navigable, ActiveType
<1>2. /\ ViewOK(view') /\ view'.depth = Depth /\ view'.rows = ActiveRows(session)
      /\ pending' \in ViewStates
      /\ view'.current # 0 => pending'.selected = Nothing
  BY <1>1, Navigable, DisplayedOK
<1>3. view'.depth = Len(session'.frames) /\ view'.rows = ActiveRows(session')
  BY <1>2 DEF Depth
<1>4. /\ SessionOK(session') /\ session'.status = session.status
      /\ session'.writes = session.writes
      /\ snapshot' \in ViewStates \cup {Nothing}
      /\ session'.frames # <<>> => snapshot' = shown /\ snapshot' # Nothing
  BY Navigable
<1> QED
  BY <1>2, <1>3, <1>4, LeavingInv

LEMMA EnterChildFormatInv ==
  ASSUME IInv, EnterChildFormat
  PROVE  IInv'
<1>1. session # Closed /\ Leaving
  BY DEF EnterChildFormat
<1> DEFINE frame == [kind |-> "child", row |-> view.current]
<1>2. /\ frame \in Frames /\ frame.row <= Len(ActiveRows(session))
      /\ view.current \in Nat /\ view.current <= Len(ActiveRows(session))
  BY <1>1, Navigable DEF Frames
<1> HIDE DEF frame
<1>3. \/ Entered(frame)
      \/ Displayed(Depth, ActiveRows(session), view.current) /\ UNCHANGED <<session, snapshot>>
  BY DEF EnterChildFormat, frame
<1> QED
  BY <1>1, <1>2, <1>3, EnteredInv, RedisplayedInv

LEMMA EnterSampleInv ==
  ASSUME IInv, EnterSample
  PROVE  IInv'
<1>1. session # Closed /\ Leaving
  BY DEF EnterSample
<1> DEFINE frame == [kind |-> "sample", row |-> 0]
<1>2. frame \in Frames /\ frame.row <= Len(ActiveRows(session)) /\ 0 <= Len(ActiveRows(session))
  BY <1>1, Navigable, ActiveType DEF Frames
<1> HIDE DEF frame
<1>3. \/ Entered(frame)
      \/ Displayed(Depth, ActiveRows(session), 0) /\ UNCHANGED <<session, snapshot>>
  BY DEF EnterSample, frame
<1> QED
  BY <1>1, <1>2, <1>3, EnteredInv, RedisplayedInv

LEMMA ReturnInv ==
  ASSUME IInv, ReturnToParentFormat
  PROVE  IInv'
<1> DEFINE frames == Front(session.frames)
           parent == [session EXCEPT !.frames = frames]
           row    == Last(session.frames).row
<1>1. /\ session # Closed /\ session.frames # <<>> /\ Leaving /\ session' = parent
      /\ Displayed(Depth - 1, ActiveRows(parent), row)
      /\ snapshot' = IF Depth = 1 THEN Nothing ELSE snapshot
  BY DEF ReturnToParentFormat
<1>2. session.frames \in Seq(Frames) /\ Depth = Len(session.frames) /\ Depth \in Nat \ {0}
  BY <1>1, Navigable DEF Depth
<1>3. /\ frames \in Seq(Frames) /\ Len(frames) = Depth - 1
      /\ \A k \in DOMAIN frames : frames[k] = session.frames[k] /\ k \in DOMAIN session.frames
  <2>1. frames = SubSeq(session.frames, 1, Depth - 1)
    BY <1>2 DEF Front
  <2> QED
    BY <1>2, <2>1
<1>4. \A k \in DOMAIN session.frames :
         session.frames[k].row <= IF k = 1 THEN session.published ELSE Len(Child)
  BY <1>1, Navigable DEF SessionOK
<1>5. row \in Nat /\ row <= IF Depth = 1 THEN session.published ELSE Len(Child)
  <2>1. Depth \in DOMAIN session.frames /\ Last(session.frames) = session.frames[Depth]
    BY <1>2 DEF Last
  <2>2. session.frames[Depth] \in Frames
    BY <1>2, <2>1
  <2> QED
    BY <1>4, <2>1, <2>2 DEF Frames
<1> HIDE DEF frames, row
<1>6. /\ SessionOK(parent) /\ parent.frames = frames /\ parent.status = session.status
      /\ parent.writes = session.writes
      /\ RowsOf(parent) = RowsOf(session)
  BY <1>1, <1>3, <1>4, Navigable, FramedOK
<1> HIDE DEF parent
<1>7. frames = <<>> <=> Depth = 1
  <2>1. frames = <<>> <=> Len(frames) = 0
    BY <1>3, EmptySeq
  <2> QED
    BY <1>2, <1>3, <2>1
<1>8. ActiveRows(parent) \in Seq(STRING) /\ row <= Len(ActiveRows(parent))
  <2>1. Len(RowsOf(session)) = session.published
    BY <1>1, Navigable, ActiveType
  <2> QED
    BY <1>5, <1>6, <1>7, <2>1, ActiveType DEF ActiveRows
<1>9. /\ ViewOK(view') /\ view'.depth = Depth - 1 /\ view'.rows = ActiveRows(parent)
      /\ pending' \in ViewStates
      /\ view'.current # 0 => pending'.selected = Nothing
  <2>1. Depth - 1 \in Nat
    BY <1>2
  <2> QED
    BY <1>1, <1>5, <1>8, <2>1, Navigable, DisplayedOK
<1>10. view'.depth = Len(session'.frames) /\ view'.rows = ActiveRows(session')
  BY <1>1, <1>3, <1>6, <1>9
<1>11. /\ snapshot' \in ViewStates \cup {Nothing}
       /\ session'.frames # <<>> => snapshot' = shown /\ snapshot' # Nothing
  BY <1>1, <1>2, <1>6, <1>7, Navigable
<1> QED
  BY <1>1, <1>6, <1>9, <1>10, <1>11, LeavingInv

-----------------------------------------------------------------------------
(* The invariant *)

LEMMA InitInv == Init => IInv
<1> SUFFICES ASSUME Init PROVE IInv
  OBVIOUS
<1> USE DEF Init
<1>1. ViewOK(view)
  BY FreshOK, EmptySeq
<1>2. pending \in ViewStates
  BY NoPendingType
<1>3. document \in Documents \cup {Nothing}
  BY WindowAssumption
<1>4. /\ opened \in Histories
      /\ opened.placed = "not" /\ opened.from = Nothing
  BY DEF Opened, Histories
<1>5. posted \in Seq([run : {"advance", "poll"}, of : 0..generation])
  BY EmptySeq
<1>6. TypeOK
  BY <1>1, <1>2, <1>3, <1>4, <1>5 DEF TypeOK
<1>7. Displays /\ Chained /\ RootKept
  BY DEF Displays, Chained, RootKept
<1>8. Once
  BY DEF Once, UniqueIn
<1>9. Placed /\ Restoring
  BY <1>4 DEF Placed, Restoring
<1> QED
  BY <1>6, <1>7, <1>8, <1>9 DEF IInv

LEMMA OpenInv ==
  ASSUME IInv, Open
  PROVE  IInv'
<1>1. CASE OpenSessionFile
  BY <1>1, OpenSessionFileInv
<1>2. ASSUME NEW m \in Media, OpenMediaSource(m) PROVE IInv'
  <2> DEFINE s == NewSession(m, Detected[m], Caching)
  <2>1. /\ SessionOK(s) /\ s.frames = <<>>
        /\ Fresh(0, <<>>).depth = Len(s.frames) /\ Fresh(0, <<>>).rows = ActiveRows(s)
    BY NewSessionOK, WindowAssumption
  <2>2. StartedOver(s)
    BY <1>2 DEF OpenMediaSource
  <2> HIDE DEF s
  <2> QED
    BY <2>1, <2>2, StartedOverInv
<1>3. ASSUME NEW f \in Formats, OverrideFormat(f) PROVE IInv'
  <2> DEFINE s == NewSession(session.media, f, FALSE)
  <2>1. StartedOver(s) /\ session # Closed
    BY <1>3 DEF OverrideFormat
  <2>2. session.media \in Media
    BY <2>1 DEF IInv, TypeOK, SessionOK, Sessions
  <2>3. /\ SessionOK(s) /\ s.frames = <<>>
        /\ Fresh(0, <<>>).depth = Len(s.frames) /\ Fresh(0, <<>>).rows = ActiveRows(s)
    BY <2>2, NewSessionOK
  <2> HIDE DEF s
  <2> QED
    BY <2>1, <2>3, StartedOverInv
<1> QED
  BY <1>1, <1>2, <1>3 DEF Open

LEMMA StepInv ==
  ASSUME IInv, [Next]_vars
  PROVE  IInv'
<1>1. CASE Callback
  BY <1>1, AdvanceInv, PollInv DEF Callback
<1>2. CASE Open
  BY <1>2, OpenInv
<1>3. CASE User
  BY <1>3, CancelInv, SaveInv, SelectInv, SelectSourceBitInv, FoldInv,
     EnterChildFormatInv, EnterSampleInv, ReturnInv DEF User
<1>4. CASE UNCHANGED vars
  <2> USE <1>4 DEF vars
  <2>1. TypeOK'
    BY DEF IInv, TypeOK
  <2>2. Displays' /\ RootKept'
    BY DEF IInv, Displays, RootKept, Depth
  <2>3. Once' /\ Chained'
    BY DEF IInv, Once, Chained
  <2>4. Placed' /\ Restoring'
    BY DEF IInv, Placed, Restoring
  <2> QED
    BY <2>1, <2>2, <2>3, <2>4 DEF IInv
<1> QED
  BY <1>1, <1>2, <1>3, <1>4 DEF Next

(* The inductive invariant holds in every reachable state.                 *)
THEOREM InvariantHolds == Spec => []IInv
<1>1. IInv /\ [Next]_vars => IInv'
  BY StepInv
<1> QED
  BY InitInv, <1>1, PTL DEF Spec

(* The window's variables keep their types: no timer is of a generation to *)
(* come, and cursor and expansions are always rows of the tree displayed.  *)
THEOREM TypeCorrect == Spec => []TypeOK
<1>1. IInv => TypeOK
  BY DEF IInv
<1> QED
  BY InvariantHolds, <1>1, PTL

(* An analysis that has not ended is advanced by exactly one chain of      *)
(* callbacks, and one that has by none; the cache writes of a finished one *)
(* are polled.  advanceAnalysis() relies on it never to be posted twice.   *)
THEOREM OneChain == Spec => []ChainsLive
<1>1. IInv => ChainsLive
  <2> SUFFICES ASSUME IInv, session # Closed
               PROVE  /\ Cardinality(Live("advance")) =
                           IF session.status = "running" THEN 1 ELSE 0
                      /\ Cardinality(Live("poll")) <= 1
                      /\ Finished(session.status) /\ session.writes => Live("poll") # {}
    BY DEF ChainsLive
  <2>1. ASSUME NEW run
        PROVE  /\ Live(run) # {} <=> Has(posted, run, generation)
               /\ Cardinality(Live(run)) = IF Live(run) = {} THEN 0 ELSE 1
    <3>1. Live(run) # {} <=> Has(posted, run, generation)
      BY DEF Live, Has, Timer
    <3>2. \A i, j \in Live(run) : i = j
      BY DEF Live, IInv, Once, UniqueIn
    <3>3. CASE Live(run) = {}
      BY <3>1, <3>3, FS_EmptySet
    <3>4. CASE Live(run) # {}
      <4>1. PICK i \in Live(run) : TRUE
        BY <3>4
      <4>2. Live(run) = {i}
        BY <3>2, <4>1
      <4> QED
        BY <3>1, <3>4, <4>2, FS_Singleton
    <3> QED
      BY <3>3, <3>4
  <2>2. /\ Has(posted, "advance", generation) <=> session.status = "running"
        /\ Finished(session.status) /\ session.writes => Has(posted, "poll", generation)
    BY DEF IInv, Chained
  <2>3. Cardinality(Live("advance")) = IF session.status = "running" THEN 1 ELSE 0
    BY <2>1, <2>2
  <2>4. Cardinality(Live("poll")) <= 1
    BY <2>1
  <2>5. Finished(session.status) /\ session.writes => Live("poll") # {}
    BY <2>1, <2>2
  <2> QED
    BY <2>3, <2>4, <2>5
<1> QED
  BY InvariantHolds, <1>1, PTL

(* Wherever navigation has gone and however often it has failed, a session *)
(* that is saved records the root's expansions and selection as they were  *)
(* when the root was last displayed, not those of the tree displayed now.  *)
THEOREM SavesTheRoot == Spec => SavedIsRoots
<1>1. IInv /\ [Next]_vars => [document' # document => document'.state = shown]_vars
  <2> SUFFICES ASSUME IInv, Next, document' # document
               PROVE  document'.state = shown
    BY DEF vars
  <2>1. SaveSession
    BY DEF Next, Callback, Open, User, AdvanceAnalysis, PollAnalysisCache,
       OpenMediaSource, OverrideFormat, OpenSessionFile, StartedOver, CancelAnalysis,
       CursorMoved, SelectAnalysisNode, OnDiagnosticSelected, SelectSourceBit, FoldNode, EnterChildFormat, EnterSample, ReturnToParentFormat,
       Leaving
  <2>2. session # Closed /\ document'.state = CurrentUserState
    BY <2>1 DEF SaveSession
  <2> QED
    BY <2>2, SavesRoots
<1> QED
  BY InvariantHolds, <1>1, PTL DEF Spec, SavedIsRoots

(* From the moment that the tree view's handler hears of a cursor placed   *)
(* by the user or by navigation no batch moves it, wherever clicks in the  *)
(* raw view put it since; and a finished analysis shows the selection of   *)
(* the session file unless the cursor was placed in any way, and its       *)
(* expansions unless the user changed them, whichever batches brought the  *)
(* nodes.                                                                  *)
THEOREM RestoresUnlessPreempted == Spec => []RestoredUnlessPreempted
<1>1. IInv => RestoredUnlessPreempted
  <2> SUFFICES ASSUME IInv PROVE RestoredUnlessPreempted
    OBVIOUS
  <2>1. opened.placed = "heard" => view.current = opened.cursor
    BY DEF IInv, Placed
  <2>2. ASSUME RootActive, session.status = "complete", opened.from # Nothing, ~opened.left
        PROVE  LET rows == RowsOf(session) IN
               /\ opened.placed = "not" =>
                    \A row \in Resolved(opened.from.selected, rows) : view.current = row
               /\ ~opened.folded =>
                    UNION {Resolved(q, rows) : q \in opened.from.expanded} \subseteq view.expanded
    <3>1. session # Closed
      BY <2>2 DEF RootActive
    <3>2. AwaitsOrShows(opened, session.status, view, pending) /\ session.frames = <<>>
      BY <2>2, <3>1 DEF IInv, Restoring
    <3>3. view.rows = RowsOf(session)
      BY <3>1, <3>2 DEF IInv, Displays, ActiveRows
    <3> QED
      BY <3>2, <3>3 DEF AwaitsOrShows
  <2> QED
    BY <2>1, <2>2 DEF RestoredUnlessPreempted
<1> QED
  BY InvariantHolds, <1>1, PTL

=============================================================================
