------------------------ MODULE AacAdtsAnalyzer_proof ------------------------
(***************************************************************************)
(* Proofs about AacAdtsAnalyzer for any files, header lengths, limits of a *)
(* batch and numbers of cancellations.  Frames is defined by recursion on  *)
(* positions, towards the end of the file: the recursion has a solution,   *)
(* and each of its frames is the next one behind the end of the frame      *)
(* before.  IInv is the inductive invariant: the scanner stands between    *)
(* the frames it has found and the one that is next, the batch is the run  *)
(* of frames found last, and the published ones are in order up to where   *)
(* the batch begins.                                                       *)
(***************************************************************************)
EXTENDS AacAdtsAnalyzer, AnalysisTree_proof

FrameRecord == [at : Nat, length : Nat, truncated : BOOLEAN]

-----------------------------------------------------------------------------
(* Headers. *)

LEMMA FileBytes ==
  ASSUME file \in Files
  PROVE  /\ file \in Seq(Nat) /\ Size \in Nat
         /\ \A p \in 0..(Size - 1) : FrameLength(p) \in Nat
<1>1. file \in Seq(Nat)
  BY AdtsAssumption
<1>2. \A p \in 0..(Len(file) - 1) : p + 1 \in 1..Len(file)
  BY <1>1
<1> QED BY <1>1, <1>2 DEF Size, FrameLength

(* A frame lies in the file where it begins, and has a length.             *)
LEMMA HeaderFacts ==
  ASSUME file \in Files, NEW p \in Nat, HasHeader(p)
  PROVE  /\ p < Size /\ FrameLength(p) \in Nat /\ FrameLength(p) > 0
         /\ MakeRecord(p) \in FrameRecord /\ MakeRecord(p).at = p
         /\ FrameEnd(MakeRecord(p)) = p + FrameLength(p)
         /\ FrameEnd(MakeRecord(p)) \in Nat /\ FrameEnd(MakeRecord(p)) > p
<1>1. p < Size /\ FrameLength(p) > 0 /\ Size \in Nat
  BY FileBytes DEF HasHeader, HasSyncword
<1>2. FrameLength(p) \in Nat
  BY <1>1, FileBytes
<1>3. MakeRecord(p).at = p /\ MakeRecord(p).length = FrameLength(p)
  BY DEF MakeRecord
<1>4. MakeRecord(p) \in FrameRecord
  BY <1>2 DEF MakeRecord, FrameRecord
<1> QED BY <1>1, <1>2, <1>3, <1>4 DEF FrameEnd

Confirms(p) == HasHeader(p) /\ Confirmed(p)

MinimumIs(S, m) == m \in S /\ \A x \in S : m <= x

LEMMA Minimum ==
  ASSUME NEW S \in SUBSET Nat, NEW m, MinimumIs(S, m)
  PROVE  Min(S) = m
<1>1. m \in S /\ \A x \in S : m <= x
  BY DEF MinimumIs
<1>2. \A y \in S : (\A x \in S : y <= x) => y = m
  BY <1>1
<1> QED BY <1>1, <1>2 DEF Min

(* Where the next frame is: here, or at the first confirmed header behind. *)
NextAt(p, q) ==
  /\ q \in p..(Size - 1) /\ HasHeader(q)
  /\ q # p => /\ ~HasHeader(p) /\ Confirmed(q)
              /\ \A x \in (p + 1)..(q - 1) : ~Confirms(x)

LEMMA NextIs ==
  ASSUME file \in Files, NEW p \in Nat, NEW q, NextAt(p, q)
  PROVE  NextFrames(p) = {q} /\ Min(NextFrames(p)) = q /\ q \in Nat
<1>0. Size \in Nat /\ q \in Nat
  BY FileBytes DEF NextAt
<1>1. NextFrames(p) = {q}
  <2>1. CASE q = p
    BY <2>1 DEF NextAt, NextFrames
  <2>2. CASE q # p
    <3> DEFINE found == {x \in (p + 1)..(Size - 1) : HasHeader(x) /\ Confirmed(x)}
    <3>1. ~HasHeader(p) /\ q \in found
      BY <1>0, <2>2 DEF NextAt
    <3>2. \A x \in found : q <= x
      <4>1. \A x \in found : x \in Nat /\ x \notin (p + 1)..(q - 1)
        BY <1>0, <2>2 DEF NextAt, Confirms
      <4> QED BY <1>0, <4>1
    <3>3. found \in SUBSET Nat
      BY <1>0
    <3>4. NextFrames(p) = IF found = {} THEN {} ELSE {Min(found)}
      BY <3>1 DEF NextFrames
    <3> HIDE DEF found
    <3>5. Min(found) = q
      BY <3>1, <3>2, <3>3, Minimum DEF MinimumIs
    <3> QED BY <3>1, <3>4, <3>5
  <2> QED BY <2>1, <2>2
<1>2. Min({q}) = q
  BY <1>0, Minimum DEF MinimumIs
<1> QED BY <1>0, <1>1, <1>2

LEMMA NextOrNone ==
  ASSUME file \in Files, NEW p \in Nat
  PROVE  NextFrames(p) = {} \/ \E q : NextAt(p, q)
<1> SUFFICES ASSUME NextFrames(p) # {} PROVE \E q : NextAt(p, q)
  OBVIOUS
<1>0. Size \in Nat
  BY FileBytes
<1>1. CASE HasHeader(p)
  <2>1. p < Size
    BY <1>1, HeaderFacts
  <2>2. NextAt(p, p)
    BY <1>0, <1>1, <2>1 DEF NextAt
  <2> QED BY <2>2
<1>2. CASE ~HasHeader(p)
  <2> DEFINE found == {x \in (p + 1)..(Size - 1) : HasHeader(x) /\ Confirmed(x)}
  <2>1. found # {} /\ found \in SUBSET Nat
    <3>1. NextFrames(p) = IF found = {} THEN {} ELSE {Min(found)}
      BY <1>2 DEF NextFrames
    <3>2. found \in SUBSET Nat
      BY <1>0
    <3> HIDE DEF found
    <3> QED BY <3>1, <3>2
  <2>2. PICK q \in found : \A x \in found : q <= x
    <3> HIDE DEF found
    <3> QED BY <2>1, LeastNatural
  <2>3. q \in (p + 1)..(Size - 1) /\ HasHeader(q) /\ Confirmed(q)
    OBVIOUS
  <2>4. \A x \in (p + 1)..(q - 1) : ~Confirms(x)
    BY <1>0, <2>2, <2>3 DEF Confirms
  <2>5. NextAt(p, q)
    BY <1>0, <1>2, <2>3, <2>4 DEF NextAt
  <2> QED BY <2>5
<1> QED BY <1>1, <1>2

-----------------------------------------------------------------------------
(* The recursion that defines Frames. *)

(* The frames from p on, given those from any later position on.           *)
Onward(g, r) == IF FrameEnd(r) < Size THEN g[FrameEnd(r)] ELSE <<>>

Continued(g, p) ==
  IF NextFrames(p) = {} THEN <<>>
  ELSE <<MakeRecord(Min(NextFrames(p)))>> \o Onward(g, MakeRecord(Min(NextFrames(p))))

LEMMA ContinuedIs ==
  ASSUME file \in Files, NEW p \in Nat, NEW q, NextAt(p, q), NEW g
  PROVE  /\ Continued(g, p) = <<MakeRecord(q)>> \o Onward(g, MakeRecord(q))
         /\ MakeRecord(q) \in FrameRecord /\ FrameEnd(MakeRecord(q)) \in Nat
         /\ FrameEnd(MakeRecord(q)) > p
<1>1. NextFrames(p) = {q} /\ Min(NextFrames(p)) = q /\ q \in Nat
  BY NextIs
<1>2. HasHeader(q) /\ q >= p
  BY FileBytes DEF NextAt
<1>3. /\ MakeRecord(q) \in FrameRecord /\ FrameEnd(MakeRecord(q)) \in Nat
      /\ FrameEnd(MakeRecord(q)) > q
  BY <1>1, <1>2, HeaderFacts
<1>4. Continued(g, p) = <<MakeRecord(q)>> \o Onward(g, MakeRecord(q))
  BY <1>1 DEF Continued
<1> QED BY <1>1, <1>2, <1>3, <1>4

LEMMA ContinuedAgrees ==
  ASSUME file \in Files, NEW p \in Nat, NEW g, NEW h,
         \A q \in (p + 1)..(Size - 1) : g[q] = h[q]
  PROVE  Continued(g, p) = Continued(h, p)
<1>1. CASE NextFrames(p) = {}
  BY <1>1 DEF Continued
<1>2. CASE NextFrames(p) # {}
  <2>1. PICK q : NextAt(p, q)
    BY <1>2, NextOrNone
  <2> DEFINE r == MakeRecord(q)
  <2>2. FrameEnd(r) \in Nat /\ FrameEnd(r) > p /\ Size \in Nat
    BY <2>1, ContinuedIs, FileBytes
  <2>3. Continued(g, p) = <<r>> \o Onward(g, r) /\ Continued(h, p) = <<r>> \o Onward(h, r)
    BY <2>1, ContinuedIs
  <2> HIDE DEF r
  <2>4. Onward(g, r) = Onward(h, r)
    BY <2>2 DEF Onward
  <2> QED BY <2>3, <2>4
<1> QED BY <1>1, <1>2

(* g says what is enumerated from each of the last positions on.           *)
Solves(g, n) == g = [p \in n..Size |-> Continued(g, p)]

LEMMA SolutionExtends ==
  ASSUME file \in Files, NEW n \in Nat, n < Size, NEW g, Solves(g, n + 1)
  PROVE  \E h : Solves(h, n)
<1> DEFINE h == [p \in n..Size |-> IF p = n THEN Continued(g, n) ELSE g[p]]
<1>0. Size \in Nat
  BY FileBytes
<1>1. \A p \in (n + 1)..Size : g[p] = Continued(g, p)
  BY DEF Solves
<1>2. \A q \in (n + 1)..Size : h[q] = g[q]
  BY <1>0
<1>3. h[n] = Continued(g, n)
  BY <1>0
<1>4. DOMAIN h = n..Size /\ h = [p \in n..Size |-> h[p]]
  OBVIOUS
<1> HIDE DEF h
<1>5. ASSUME NEW p \in n..Size PROVE h[p] = Continued(h, p)
  <2>1. p \in Nat /\ \A q \in (p + 1)..(Size - 1) : g[q] = h[q]
    BY <1>0, <1>2
  <2>2. Continued(g, p) = Continued(h, p)
    BY <2>1, ContinuedAgrees
  <2>3. h[p] = Continued(g, p)
    <3>1. p = n \/ p \in (n + 1)..Size
      BY <1>0
    <3> QED BY <1>1, <1>2, <1>3, <3>1
  <2> QED BY <2>2, <2>3
<1>6. h = [p \in n..Size |-> Continued(h, p)]
  BY <1>4, <1>5
<1> QED BY <1>6 DEF Solves

LEMMA SolutionExists ==
  ASSUME file \in Files
  PROVE  \E g : Solves(g, 0)
<1> DEFINE T == {d \in 0..Size : ~ \E g : Solves(g, Size - d)}
<1>0. Size \in Nat
  BY FileBytes
<1>1. 0 \notin T
  <2> DEFINE g == [p \in Size..Size |-> Continued(<<>>, p)]
  <2>1. ASSUME NEW p \in Size..Size PROVE Continued(<<>>, p) = Continued(g, p)
    <3>1. p \in Nat /\ \A q \in (p + 1)..(Size - 1) : <<>>[q] = g[q]
      BY <1>0
    <3> HIDE DEF g
    <3> QED BY <3>1, ContinuedAgrees
  <2>2. g = [p \in Size..Size |-> Continued(g, p)]
    BY <2>1
  <2> HIDE DEF g
  <2>3. Solves(g, Size)
    BY <2>2 DEF Solves
  <2>4. Size - 0 = Size
    BY <1>0
  <2> QED BY <2>3, <2>4
<1>2. T = {}
  <2> SUFFICES ASSUME T # {} PROVE FALSE
    OBVIOUS
  <2>1. T \in SUBSET Nat
    BY <1>0
  <2>2. PICK d \in T : \A e \in T : d <= e
    <3> HIDE DEF T
    <3> QED BY <2>1, LeastNatural
  <2>3. d \in 1..Size /\ d - 1 \in 0..Size /\ d - 1 < d
    <3>1. d \in 0..Size /\ d # 0
      BY <1>1, <2>2
    <3> QED BY <1>0, <3>1
  <2>4. d - 1 \notin T
    <3> HIDE DEF T
    <3> QED BY <1>0, <2>2, <2>3
  <2>5. PICK g : Solves(g, Size - (d - 1))
    BY <2>3, <2>4
  <2>6. Size - (d - 1) = (Size - d) + 1 /\ Size - d \in Nat /\ Size - d < Size
    BY <1>0, <2>3
  <2>7. \E h : Solves(h, Size - d)
    BY <2>5, <2>6, SolutionExtends
  <2> QED BY <2>2, <2>7
<1>3. Size \in 0..Size /\ Size - Size = 0
  BY <1>0
<1> QED BY <1>2, <1>3

(* What is enumerated from each position on.                               *)
LEMMA FramesSolve ==
  ASSUME file \in Files
  PROVE  Solves(FramesFrom, 0)
<1>1. FramesFrom = CHOOSE g : g = [p \in 0..Size |-> Continued(g, p)]
  BY DEF FramesFrom, Continued, Onward
<1>2. \E g : g = [p \in 0..Size |-> Continued(g, p)]
  BY SolutionExists DEF Solves
<1> HIDE DEF FramesFrom
<1> QED BY <1>1, <1>2 DEF Solves

LEMMA FramesFromSequences ==
  ASSUME file \in Files, NEW p \in 0..Size
  PROVE  FramesFrom[p] \in Seq(FrameRecord) /\ FramesFrom[p] = Continued(FramesFrom, p)
<1> DEFINE F == FramesFrom
           T == {d \in 0..Size : F[Size - d] \notin Seq(FrameRecord)}
<1>0. Size \in Nat
  BY FileBytes
<1> HIDE DEF F
<1>1. \A q \in 0..Size : F[q] = Continued(F, q)
  BY FramesSolve DEF Solves, F
<1>2. T = {}
  <2> SUFFICES ASSUME T # {} PROVE FALSE
    OBVIOUS
  <2>1. T \in SUBSET Nat
    BY <1>0
  <2>2. PICK d \in T : \A e \in T : d <= e
    <3> HIDE DEF T
    <3> QED BY <2>1, LeastNatural
  <2> DEFINE a == Size - d
  <2>3. d \in 0..Size /\ a \in 0..Size /\ a \in Nat /\ F[a] \notin Seq(FrameRecord)
    BY <1>0, <2>2
  <2>4. ASSUME NEW q \in (a + 1)..Size PROVE F[q] \in Seq(FrameRecord)
    <3>1. Size - q \in 0..Size /\ Size - q < d /\ Size - (Size - q) = q
      BY <1>0, <2>3
    <3>2. Size - q \notin T
      <4> HIDE DEF T, a
      <4> QED BY <1>0, <2>2, <2>3, <3>1
    <3> QED BY <3>1, <3>2
  <2> HIDE DEF a
  <2>5. F[a] = Continued(F, a)
    BY <1>1, <2>3
  <2>6. CASE NextFrames(a) = {}
    BY <2>3, <2>5, <2>6 DEF Continued
  <2>7. CASE NextFrames(a) # {}
    <3>1. PICK q : NextAt(a, q)
      BY <2>3, <2>7, NextOrNone
    <3> DEFINE r == MakeRecord(q)
    <3>2. /\ Continued(F, a) = <<r>> \o Onward(F, r)
          /\ r \in FrameRecord /\ FrameEnd(r) \in Nat /\ FrameEnd(r) > a
      BY <2>3, <3>1, ContinuedIs
    <3> HIDE DEF r
    <3>3. Onward(F, r) \in Seq(FrameRecord)
      BY <1>0, <2>3, <2>4, <3>2 DEF Onward
    <3>4. <<r>> \o Onward(F, r) \in Seq(FrameRecord)
      BY <3>2, <3>3
    <3> QED BY <2>3, <2>5, <3>2, <3>4
  <2> QED BY <2>6, <2>7
<1>3. Size - p \in 0..Size /\ Size - (Size - p) = p
  BY <1>0
<1>4. F[p] \in Seq(FrameRecord)
  BY <1>2, <1>3
<1> QED BY <1>1, <1>4 DEF F

-----------------------------------------------------------------------------
(* Frames, one after another. *)

EndOf(n) == IF n = 0 THEN 0 ELSE FrameEnd(Frames[n])

(* Behind the first n frames of the file there may be more.                *)
Open(n) == n = 0 \/ EndOf(n) < Size

(* The frames behind the first n are those enumerated from their end on.   *)
RestFrom(n) ==
  IF Open(n)
  THEN /\ EndOf(n) \in 0..Size
       /\ Len(FramesFrom[EndOf(n)]) = Len(Frames) - n
       /\ \A k \in 1..(Len(Frames) - n) : FramesFrom[EndOf(n)][k] = Frames[n + k]
  ELSE n = Len(Frames)

LEMMA FramesTyped ==
  ASSUME file \in Files
  PROVE  Frames \in Seq(FrameRecord) /\ Len(Frames) \in Nat
<1>1. 0 \in 0..Size
  BY FileBytes
<1>2. Frames \in Seq(FrameRecord)
  BY <1>1, FramesFromSequences DEF Frames
<1> QED BY <1>2

(* One step of the enumeration. *)
LEMMA RestHead ==
  ASSUME file \in Files, NEW n \in 0..Len(Frames), Open(n), RestFrom(n),
         NEW q, NextAt(EndOf(n), q)
  PROVE  /\ n + 1 \in 1..Len(Frames) /\ Frames[n + 1] = MakeRecord(q)
         /\ RestFrom(n + 1)
<1> DEFINE e == EndOf(n)
           r == MakeRecord(q)
           F == FramesFrom
           L == Len(Frames)
<1>0. Size \in Nat /\ L \in Nat /\ n \in Nat /\ n <= L
  BY FileBytes, FramesTyped
<1>1. /\ e \in 0..Size /\ Len(F[e]) = L - n
      /\ \A k \in 1..(L - n) : F[e][k] = Frames[n + k]
  BY DEF RestFrom
<1>2. F[e] \in Seq(FrameRecord) /\ F[e] = Continued(F, e)
  BY <1>1, FramesFromSequences
<1>3. /\ Continued(F, e) = <<r>> \o Onward(F, r)
      /\ r \in FrameRecord /\ FrameEnd(r) \in Nat /\ FrameEnd(r) > e
  <2>1. e \in Nat /\ NextAt(e, q) /\ file \in Files
    BY <1>0, <1>1
  <2> HIDE DEF e, F
  <2> QED BY ONLY <2>1, ContinuedIs
<1>4. Onward(F, r) \in Seq(FrameRecord)
  <2>1. FrameEnd(r) < Size => FrameEnd(r) \in 0..Size
    BY <1>0, <1>3
  <2>2. FrameEnd(r) < Size => F[FrameEnd(r)] \in Seq(FrameRecord)
    BY <2>1, FramesFromSequences
  <2> QED BY <2>2 DEF Onward
<1> HIDE DEF F, r, L, e
<1>5. /\ Len(F[e]) = 1 + Len(Onward(F, r)) /\ Len(Onward(F, r)) \in Nat
      /\ F[e][1] = r
      /\ \A k \in 1..Len(Onward(F, r)) : F[e][k + 1] = Onward(F, r)[k]
  BY <1>2, <1>3, <1>4
<1>6. /\ n + 1 \in 1..L /\ 1 \in 1..(L - n)
      /\ Len(Onward(F, r)) = L - (n + 1)
  <2>1. PICK o \in Nat : o = Len(Onward(F, r))
    BY <1>5
  <2>2. 1 + o = L - n
    BY <1>1, <1>5, <2>1
  <2>3. n + 1 \in 1..L /\ 1 \in 1..(L - n) /\ o = L - (n + 1)
    BY <1>0, <2>2
  <2> QED BY <2>1, <2>3
<1>7. Frames[n + 1] = r
  BY <1>1, <1>5, <1>6
<1>8. EndOf(n + 1) = FrameEnd(r)
  BY <1>0, <1>7 DEF EndOf
<1>9. CASE FrameEnd(r) < Size
  <2>1. Onward(F, r) = F[FrameEnd(r)] /\ FrameEnd(r) \in 0..Size
    BY <1>0, <1>3, <1>9 DEF Onward
  <2>2. Len(F[FrameEnd(r)]) = L - (n + 1)
    BY <1>6, <2>1
  <2>3. ASSUME NEW k \in 1..(L - (n + 1)) PROVE F[FrameEnd(r)][k] = Frames[(n + 1) + k]
    <3>1. k \in 1..Len(Onward(F, r)) /\ k + 1 \in 1..(L - n)
      BY <1>0, <2>1, <2>2
    <3>2. F[e][k + 1] = Onward(F, r)[k] /\ F[e][k + 1] = Frames[n + (k + 1)]
      BY <1>1, <1>5, <3>1
    <3>3. n + (k + 1) = (n + 1) + k
      BY <1>0
    <3> QED BY <2>1, <3>2, <3>3
  <2>4. RestFrom(n + 1)
    BY <1>8, <1>9, <2>1, <2>2, <2>3 DEF RestFrom, Open, F, L
  <2> QED BY <1>6, <1>7, <2>4 DEF r, L
<1>10. CASE ~(FrameEnd(r) < Size)
  <2>1. Len(Onward(F, r)) = 0
    BY <1>10, EmptySeq DEF Onward
  <2>2. n + 1 = L
    <3>1. 0 = L - (n + 1)
      BY <1>6, <2>1
    <3> QED BY <1>0, <3>1
  <2>3. RestFrom(n + 1)
    BY <1>0, <1>8, <1>10, <2>2 DEF RestFrom, Open, L
  <2> QED BY <1>6, <1>7, <2>3 DEF r, L
<1> QED BY <1>9, <1>10

LEMMA RestEmpty ==
  ASSUME file \in Files, NEW n \in 0..Len(Frames), Open(n), RestFrom(n), n < Len(Frames)
  PROVE  \E q : NextAt(EndOf(n), q)
<1> DEFINE e == EndOf(n)
           L == Len(Frames)
<1>0. L \in Nat /\ n \in Nat
  BY FramesTyped
<1>1. e \in 0..Size /\ e \in Nat /\ Len(FramesFrom[e]) = L - n
  BY FileBytes DEF RestFrom
<1>2. FramesFrom[e] = Continued(FramesFrom, e)
  BY <1>1, FramesFromSequences
<1> HIDE DEF e, L
<1>3. NextFrames(e) # {}
  <2> SUFFICES ASSUME NextFrames(e) = {} PROVE FALSE
    OBVIOUS
  <2>1. FramesFrom[e] = <<>>
    BY <1>2 DEF Continued
  <2>2. L - n = 0
    BY <1>1, <2>1, EmptySeq
  <2> QED BY <1>0, <2>2 DEF L
<1> QED BY <1>1, <1>3, NextOrNone DEF e

LEMMA FramesRest ==
  ASSUME file \in Files, NEW n \in 0..Len(Frames)
  PROVE  RestFrom(n)
<1> DEFINE T == {m \in 0..Len(Frames) : ~RestFrom(m)}
<1>0. Size \in Nat /\ Len(Frames) \in Nat
  BY FileBytes, FramesTyped
<1>1. RestFrom(0)
  <2>1. Open(0) /\ EndOf(0) = 0 /\ 0 \in 0..Size
    BY <1>0 DEF Open, EndOf
  <2>2. Len(FramesFrom[0]) = Len(Frames) - 0
    BY <1>0 DEF Frames
  <2>3. \A k \in 1..(Len(Frames) - 0) : FramesFrom[0][k] = Frames[0 + k]
    BY <1>0 DEF Frames
  <2> QED BY <2>1, <2>2, <2>3 DEF RestFrom
<1> SUFFICES ASSUME T # {} PROVE FALSE
  OBVIOUS
<1>2. T \in SUBSET Nat
  BY <1>0
<1>3. PICK m \in T : \A x \in T : m <= x
  <2> HIDE DEF T
  <2> QED BY <1>2, LeastNatural
<1>4. m \in 0..Len(Frames) /\ ~RestFrom(m)
  BY <1>3
<1>5. m - 1 \in 0..Len(Frames) /\ m - 1 < m /\ (m - 1) + 1 = m /\ m - 1 < Len(Frames)
  <2>1. m # 0
    BY <1>1, <1>4
  <2> QED BY <1>0, <1>4, <2>1
<1>6. RestFrom(m - 1)
  <2>1. m - 1 \notin T
    <3> HIDE DEF T
    <3> QED BY <1>0, <1>3, <1>4, <1>5
  <2> QED BY <1>5, <2>1
<1>7. Open(m - 1)
  BY <1>0, <1>5, <1>6 DEF RestFrom
<1>8. PICK q : NextAt(EndOf(m - 1), q)
  BY <1>5, <1>6, <1>7, RestEmpty
<1> HIDE DEF T
<1> QED BY <1>4, <1>5, <1>6, <1>7, <1>8, RestHead

(* The frame behind the first n is the one that is next at their end.      *)
LEMMA FrameIsNext ==
  ASSUME file \in Files, NEW n \in 0..Len(Frames), Open(n), NEW q, NextAt(EndOf(n), q)
  PROVE  n + 1 \in 1..Len(Frames) /\ Frames[n + 1] = MakeRecord(q)
<1>1. RestFrom(n)
  BY FramesRest
<1> QED BY <1>1, RestHead

LEMMA FileKept ==
  ASSUME file' = file
  PROVE  /\ Frames' = Frames
         /\ \A n : EndOf(n)' = EndOf(n)
         /\ \A p : HasHeader(p)' = HasHeader(p) /\ Confirms(p)' = Confirms(p)
<1>1. Frames' = Frames
  <2>1. Size' = Size /\ \A p : FrameLength(p)' = FrameLength(p)
    BY DEF Size, FrameLength
  <2>2. \A p : HasHeader(p)' = HasHeader(p) /\ MayHaveSyncword(p)' = MayHaveSyncword(p)
    BY DEF HasHeader, HasSyncword, MayHaveSyncword, Size, FrameLength
  <2>3. \A p : Confirmed(p)' = Confirmed(p)
    BY <2>1, <2>2 DEF Confirmed
  <2>4. \A p : NextFrames(p)' = NextFrames(p)
    BY <2>1, <2>2, <2>3 DEF NextFrames
  <2>5. \A p : MakeRecord(p)' = MakeRecord(p)
    BY <2>1 DEF MakeRecord
  <2>6. \A g, p : Continued(g, p)' = Continued(g, p)
    BY <2>1, <2>4, <2>5 DEF Continued, Onward, FrameEnd
  <2>7. \A g : Solves(g, 0)' <=> Solves(g, 0)
    BY <2>1, <2>6 DEF Solves
  <2>8. FramesFrom = CHOOSE g : Solves(g, 0)
    BY DEF FramesFrom, Solves, Continued, Onward
  <2>9. FramesFrom' = CHOOSE g : Solves(g, 0)'
    BY DEF FramesFrom, Solves, Continued, Onward
  <2>10. (CHOOSE g : Solves(g, 0)') = CHOOSE g : Solves(g, 0)
    BY Zenon, <2>7
  <2> QED BY <2>8, <2>9, <2>10 DEF Frames
<1>2. \A n : EndOf(n)' = EndOf(n)
  BY <1>1 DEF EndOf, FrameEnd
<1>3. \A p : HasHeader(p)' = HasHeader(p)
  BY DEF HasHeader, Size, HasSyncword, FrameLength
<1>4. \A p : Confirms(p)' = Confirms(p)
  BY DEF Confirms, HasHeader, Confirmed, Size, HasSyncword, FrameLength, MayHaveSyncword
<1> QED BY <1>1, <1>2, <1>3, <1>4

-----------------------------------------------------------------------------
(* The inductive invariant. *)

Shape ==
  /\ file \in Files
  /\ Tree(nodes)
  /\ spans \in Seq(FrameRecord) /\ batch \in Seq(FrameRecord)
  /\ Len(spans) = Len(nodes[RootId].children)
  /\ cursor \in 0..Size /\ inspectedBytes \in Nat
  /\ inspected \in 0..MaxInspected /\ Len(batch) <= MaxRecords

Modes ==
  /\ inSync \in BOOLEAN /\ finished \in BOOLEAN
  /\ failedRead \in BOOLEAN /\ blind \in BOOLEAN
  /\ scanStatus \in ScanStatuses
  /\ pc \in {"idle", "enter", "scan", "scanned", "publish", "decode"}
  /\ status \in {"InProgress", "Complete", "InvalidRule"} \cup Statuses
  /\ cancelled \in BOOLEAN /\ before \in BOOLEAN /\ allow \in BOOLEAN
  /\ cancels \in 0..MaxCancels
  /\ pc # "idle" => status = "InProgress"
  /\ pc \in {"idle", "enter"} => batch = <<>>
  /\ pc = "decode" => batch # <<>> /\ spans # <<>>
  /\ finished => cursor = Size

Settled ==
  \A k \in 1..Len(spans) :
    IF pc = "decode" /\ k = Len(spans) THEN RecordState(k) = "Indexing"
                                       ELSE RecordState(k) \notin Active

(* The scanner has found the first n frames and no more: in sync it stands *)
(* where the last one ends; out of sync there is no header, and it has     *)
(* passed nothing behind that resumes the stream.                          *)
Reached(n) ==
  IF Open(n)
  THEN IF inSync THEN cursor = EndOf(n)
       ELSE /\ cursor > EndOf(n) /\ ~HasHeader(EndOf(n))
            /\ \A q \in (EndOf(n) + 1)..(cursor - 1) : ~Confirms(q)
  ELSE cursor = Size

(* The batch holds the last ones of these.                                 *)
BatchIsRun(n) ==
  /\ Len(batch) <= n
  /\ \A k \in 1..Len(batch) : batch[k] = Frames[n - Len(batch) + k]

(* The next frame to be published, or found when the batch is used up.     *)
First(n) == n - Len(batch) + 1

(* A frame may be left out behind a cancelled one only.                    *)
Follows(next, at, last) ==
  /\ at[last] < next
  /\ next > at[last] + 1 => RecordState(last) = "Cancelled"

(* at says which frames of the file the published ones are.                *)
SpansInOrder(n, at) ==
  /\ Len(at) = Len(spans)
  /\ \A k \in 1..Len(spans) : at[k] \in 1..n /\ spans[k] = Frames[at[k]]
  /\ spans # <<>> => at[1] = 1
  /\ \A k \in 2..Len(spans) : Follows(at[k], at, k - 1)

(* Where publishing goes on.  After a failure that cannot be resumed it    *)
(* does not.                                                               *)
GoesOn(n, at) ==
  IF pc = "decode" THEN at[Len(spans)] = First(n)
  ELSE status \in {"InProgress", "Cancelled"} =>
         IF spans = <<>> THEN First(n) = 1 ELSE Follows(First(n), at, Len(spans))

Located(n, at) ==
  /\ n \in 0..Len(Frames) /\ at \in Seq(Nat)
  /\ Reached(n) /\ BatchIsRun(n) /\ SpansInOrder(n, at) /\ GoesOn(n, at)

InOrder == blind \/ \E n, at : Located(n, at)

IInv == Shape /\ Modes /\ Settled /\ InOrder

LEMMA InitInv == Init => IInv
<1> SUFFICES ASSUME Init PROVE IInv
  OBVIOUS
<1> USE DEF Init, BatchInit, ScannerInit, PublisherInit
<1>0. /\ batch = <<>> /\ Len(batch) = 0 /\ spans = <<>> /\ Len(spans) = 0
      /\ file \in Files /\ Size \in Nat
  BY FileBytes
<1>1. Shape
  <2>1. /\ Tree(nodes) /\ Len(nodes[RootId].children) = 0
    BY NewTreeIsTree DEF RootId
  <2> QED BY <1>0, <2>1, BatchAssumption DEF Shape
<1>2. Modes
  <2>1. 0 \in 0..MaxCancels
    BY CancelAssumption
  <2> QED BY <2>1 DEF Modes, ScanStatuses
<1>3. Settled
  BY DEF Settled
<1>4. Located(0, <<>>)
  <2>1. 0 \in 0..Len(Frames)
    BY <1>0, FramesTyped
  <2>2. Reached(0)
    BY DEF Reached, Open, EndOf
  <2>3. BatchIsRun(0) /\ First(0) = 1
    BY <1>0 DEF BatchIsRun, First
  <2>4. SpansInOrder(0, <<>>)
    BY <1>0 DEF SpansInOrder
  <2>5. GoesOn(0, <<>>)
    BY <1>0, <2>3 DEF GoesOn
  <2> QED BY <2>1, <2>2, <2>3, <2>4, <2>5 DEF Located
<1> QED BY <1>1, <1>2, <1>3, <1>4 DEF IInv, InOrder

(* A step that leaves the records alone. *)
LEMMA RecordsKept ==
  ASSUME Shape, SameRecords(nodes, nodes'), spans' = spans
  PROVE  /\ \A k \in 1..Len(spans) : RecordState(k)' = RecordState(k)
         /\ Len(nodes'[RootId].children) = Len(spans)
<1>1. \A k \in 1..Len(spans) : RecordState(k)' = RecordState(k)
  BY DEF Shape, SameRecords, RecordState, StateIn
<1> QED BY <1>1 DEF Shape, SameRecords

LEMMA SameNodes == ASSUME UNCHANGED nodes PROVE SameRecords(nodes, nodes')
BY DEF SameRecords, StateIn

(* A step that moves neither the scanner nor the batch.                    *)
LEMMA ScannerKept ==
  ASSUME UNCHANGED <<file, cursor, inSync, batch>>
  PROVE  /\ Frames' = Frames
         /\ \A n : /\ Reached(n)' = Reached(n)
                   /\ BatchIsRun(n)' = BatchIsRun(n) /\ First(n)' = First(n)
<1>0. /\ Frames' = Frames /\ Size' = Size
      /\ \A n : EndOf(n)' = EndOf(n)
      /\ \A p : HasHeader(p)' = HasHeader(p) /\ Confirms(p)' = Confirms(p)
  BY FileKept DEF Size
<1>1. \A n : Reached(n)' = Reached(n)
  BY <1>0 DEF Reached, Open
<1>2. \A n : BatchIsRun(n)' = BatchIsRun(n) /\ First(n)' = First(n)
  BY <1>0 DEF BatchIsRun, First
<1> QED BY <1>0, <1>1, <1>2

(* A step that touches neither the scanner, nor the batch, nor any record. *)
LEMMA NothingMoves ==
  ASSUME IInv, pc = "decode" <=> pc' = "decode", Tree(nodes'), SameRecords(nodes, nodes'),
         Modes', UNCHANGED <<file, inspected, batch, spans, adts, blind>>,
         status' \in {"InProgress", "Cancelled"} => status \in {"InProgress", "Cancelled"}
  PROVE  IInv'
<1>0. UNCHANGED <<cursor, inSync, inspectedBytes>>
  BY DEF adts
<1>1. /\ \A k \in 1..Len(spans) : RecordState(k)' = RecordState(k)
      /\ Len(nodes'[RootId].children) = Len(spans)
  BY RecordsKept DEF IInv
<1>2. Shape'
  BY <1>0, <1>1 DEF IInv, Shape, Size
<1>3. Settled'
  BY <1>1 DEF IInv, Settled
<1>4. ASSUME NEW n, NEW at, Located(n, at) PROVE Located(n, at)'
  <2>0. /\ n \in 0..Len(Frames) /\ at \in Seq(Nat) /\ Reached(n) /\ BatchIsRun(n)
        /\ SpansInOrder(n, at) /\ GoesOn(n, at)
        /\ spans \in Seq(FrameRecord)
    BY <1>4 DEF Located, IInv, Shape
  <2>1. /\ Frames' = Frames /\ Reached(n)' /\ BatchIsRun(n)' /\ First(n)' = First(n)
    BY <1>0, <2>0, ScannerKept
  <2>2. ASSUME NEW next, NEW k \in 1..Len(spans), Follows(next, at, k)
        PROVE  Follows(next, at, k)'
    BY <1>1, <2>2 DEF Follows
  <2>3. SpansInOrder(n, at)'
    <3>1. \A k \in 2..Len(spans) : Follows(at[k], at, k - 1)'
      <4>1. \A k \in 2..Len(spans) : k - 1 \in 1..Len(spans) /\ Follows(at[k], at, k - 1)
        BY <2>0 DEF SpansInOrder
      <4> QED BY <2>2, <4>1
    <3>2. /\ Len(at) = Len(spans) /\ (spans # <<>> => at[1] = 1)
          /\ \A k \in 1..Len(spans) : at[k] \in 1..n /\ spans[k] = Frames[at[k]]
      BY <2>0 DEF SpansInOrder
    <3> QED BY <2>1, <3>1, <3>2 DEF SpansInOrder
  <2>4. GoesOn(n, at)'
    <3>4. CASE pc = "decode"
      BY <2>0, <2>1, <3>4 DEF GoesOn
    <3> SUFFICES ASSUME pc # "decode", status' \in {"InProgress", "Cancelled"}
                 PROVE  IF spans = <<>> THEN First(n)' = 1
                        ELSE Follows(First(n), at, Len(spans))'
      BY <3>4 DEF GoesOn
    <3>1. IF spans = <<>> THEN First(n) = 1 ELSE Follows(First(n), at, Len(spans))
      BY <2>0 DEF GoesOn
    <3>2. spans # <<>> => Len(spans) \in 1..Len(spans)
      BY <2>0
    <3>3. ASSUME spans # <<>> PROVE Follows(First(n), at, Len(spans))'
      <4>1. RecordState(Len(spans))' = RecordState(Len(spans))
        BY <1>1, <3>2, <3>3
      <4> QED BY <2>1, <3>1, <3>3, <4>1 DEF Follows, RecordState
    <3> QED BY <2>1, <3>1, <3>3
  <2> QED BY <2>0, <2>1, <2>3, <2>4 DEF Located
<1>5. InOrder'
  BY <1>4 DEF IInv, InOrder
<1> QED BY <1>2, <1>3, <1>5 DEF IInv

LEMMA BeginBatchStep == ASSUME IInv, AnalyzeBatch PROVE IInv'
<1>0. /\ pc = "idle" /\ status = "InProgress" /\ batch = <<>>
      /\ pc' = "enter" /\ batch' = <<>> /\ before' = cancelled
      /\ UNCHANGED <<file, inspected, scanStatus, adts, blind, nodes, spans,
                     status, cancelled, allow, cancels>>
  BY DEF AnalyzeBatch, BeginBatch, scan, IInv, Modes, Terminated
<1>1. Modes'
  BY <1>0 DEF IInv, Modes, adts, Size
<1>2. Tree(nodes') /\ SameRecords(nodes, nodes')
  BY <1>0, SameNodes DEF IInv, Shape
<1> QED BY <1>0, <1>1, <1>2, NothingMoves

LEMMA BeginPublishingStep ==
  ASSUME IInv, BeginPublishing, UNCHANGED <<adts, blind>> PROVE IInv'
<1>0. /\ pc = "scanned" /\ pc' = "publish" /\ batch' = batch
      /\ allow' = (~before /\ ~cancelled)
      /\ UNCHANGED <<file, inspected, scanStatus, adts, blind, nodes, spans,
                     status, cancelled, before, cancels>>
  BY DEF BeginPublishing, Found, scan
<1>1. Modes'
  <2>1. allow' \in BOOLEAN
    BY <1>0 DEF IInv, Modes
  <2> QED BY <1>0, <2>1 DEF IInv, Modes, adts, Size
<1>2. Tree(nodes') /\ SameRecords(nodes, nodes')
  BY <1>0, SameNodes DEF IInv, Shape
<1> QED BY <1>0, <1>1, <1>2, NothingMoves

LEMMA ResumeStep == ASSUME IInv, ResumeAfterCancellation PROVE IInv'
<1>0. /\ pc = "idle" /\ pc' = "idle"
      /\ status = "Cancelled" /\ status' = "InProgress" /\ cancelled' \in BOOLEAN
      /\ nodes' = ResumeCancelled(nodes, RootId)
      /\ UNCHANGED <<file, inspected, scanStatus, adts, blind, spans, batch,
                     before, allow, cancels>>
  BY DEF ResumeAfterCancellation, Resume, scan
<1>1. Tree(nodes) /\ RootId \in 1..Len(nodes) /\ nodes \in Seq(Node)
  BY Links DEF IInv, Shape
<1>2. Tree(nodes') /\ SameRecords(nodes, nodes')
  <2>1. OnlyMarks(nodes, nodes', RootId)
    BY <1>0, <1>1, ResumeMarks
  <2> QED BY <1>1, <2>1, RecordsUnmarked
<1>3. Modes'
  BY <1>0 DEF IInv, Modes, adts, Size
<1> QED BY <1>0, <1>2, <1>3, NothingMoves

LEMMA CancelStep == ASSUME IInv, Cancel PROVE IInv'
<1>0. /\ cancelled' = TRUE /\ cancels < MaxCancels /\ cancels' = cancels + 1
      /\ UNCHANGED <<file, inspected, scanStatus, adts, blind, batch, pc, nodes,
                     spans, before, allow, status>>
  BY DEF Cancel, RequestCancellation, scan
<1>1. Modes'
  <2>1. cancels' \in 0..MaxCancels
    BY <1>0, CancelAssumption DEF IInv, Modes
  <2> QED BY <1>0, <2>1 DEF IInv, Modes, adts, Size
<1>2. Tree(nodes') /\ SameRecords(nodes, nodes')
  BY <1>0, SameNodes DEF IInv, Shape
<1> QED BY <1>0, <1>1, <1>2, NothingMoves

LEMMA StutterStep == ASSUME IInv, UNCHANGED vars PROVE IInv'
<1>0. UNCHANGED <<file, inspected, scanStatus, adts, blind, batch, pc, nodes,
                  spans, before, allow, status, cancelled, cancels>>
  BY DEF vars, scan, published
<1>1. Modes'
  BY <1>0 DEF IInv, Modes, adts, Size
<1>2. Tree(nodes') /\ SameRecords(nodes, nodes')
  BY <1>0, SameNodes DEF IInv, Shape
<1> QED BY <1>0, <1>1, <1>2, NothingMoves

(* The root tells how the analysis ended, which the records do not notice. *)
LEMMA TerminalizedRoot ==
  ASSUME NEW t, Tree(t), NEW s \in {"Cancelled", "SourceError", "ResourceLimit", "InvalidRule"},
         Terminalize(t, s)
  PROVE  Tree(nodes') /\ SameRecords(t, nodes') /\ status' = s /\ pc' = "idle"
<1> DEFINE to == IF s = "Cancelled" THEN "Cancelled" ELSE "Invalid"
<1>1. to \in States /\ Code(s) \in Codes
  BY DEF States, Terminal, Codes, Code
<1>2. nodes' = MarkPartial(t, RootId, to, Code(s)) /\ status' = s /\ pc' = "idle"
  BY DEF Terminalize
<1>3. RootId \in 1..Len(t) /\ t \in Seq(Node)
  BY Links
<1> HIDE DEF to
<1>4. OnlyMarks(t, nodes', RootId)
  BY <1>1, <1>2, <1>3, MarkPartialMarks
<1> QED BY <1>2, <1>4, RecordsUnmarked

LEMMA FinishBatchStep ==
  ASSUME IInv, FinishBatch, UNCHANGED <<adts, blind>> PROVE IInv'
<1>0. /\ pc = "publish" /\ pc' = "idle" /\ batch = <<>> /\ batch' = <<>>
      /\ status = "InProgress"
      /\ UNCHANGED <<file, inspected, scanStatus, adts, blind, spans,
                     cancelled, before, allow, cancels>>
  BY DEF FinishBatch, Terminalize, scan, IInv, Modes
<1>1. Tree(nodes) /\ RootId \in 1..Len(nodes) /\ nodes \in Seq(Node)
  BY Links DEF IInv, Shape
<1>2. /\ Tree(nodes') /\ SameRecords(nodes, nodes')
      /\ status' \in {"Complete", "InProgress", "Cancelled", "SourceError"}
  <2>1. CASE scanStatus = "Complete"
    <3>1. /\ "Invalid" \in States /\ "Materialized" \in States
          /\ "InvalidSyntax" \in Codes
      BY DEF States, Terminal, Codes
    <3>2. OnlyMarks(nodes, nodes', RootId) /\ status' = "Complete"
      BY <1>1, <2>1, <3>1, MarkPartialMarks, TransitionMarks DEF FinishBatch
    <3> QED BY <1>1, <3>2, RecordsUnmarked
  <2>2. CASE scanStatus = "InProgress"
    BY <1>0, <1>1, <2>2, SameNodes DEF FinishBatch
  <2>3. CASE scanStatus \in {"Cancelled", "SourceError"}
    <3>1. Terminalize(nodes, scanStatus)
      BY <2>3 DEF FinishBatch
    <3> QED BY <1>1, <2>3, <3>1, TerminalizedRoot
  <2> QED BY <2>1, <2>2, <2>3 DEF FinishBatch
<1>3. Modes'
  BY <1>0, <1>2 DEF IInv, Modes, Statuses, adts, Size
<1> QED BY <1>0, <1>2, <1>3, NothingMoves

-----------------------------------------------------------------------------
(* A turn of the scanner: it stays where it is, or takes the frame it      *)
(* stands at, or skips a byte.  Unless a read has failed, it takes what is *)
(* a frame and skips what is none.                                         *)

Stays == UNCHANGED <<batch, cursor, inSync>>

Takes ==
  /\ cursor < Size /\ HasHeader(cursor) /\ Len(batch) < MaxRecords
  /\ inSync \/ Confirmed(cursor) \/ blind'
  /\ batch' = Append(batch, MakeRecord(cursor)) /\ inSync' = TRUE
  /\ cursor' = IF cursor + FrameLength(cursor) >= Size THEN Size
               ELSE cursor + FrameLength(cursor)

Skips ==
  /\ cursor < Size
  /\ ~HasHeader(cursor) \/ (~inSync /\ ~Confirmed(cursor)) \/ blind'
  /\ UNCHANGED batch /\ inSync' = FALSE /\ cursor' = cursor + 1

ScanModes ==
  /\ pc \in {"enter", "scan"} /\ pc' \in {"scan", "scanned"}
  /\ inspected' \in 0..MaxInspected /\ inspectedBytes' \in Nat
  /\ finished' \in BOOLEAN /\ scanStatus' \in ScanStatuses
  /\ failedRead' \in BOOLEAN /\ blind' \in BOOLEAN /\ (blind => blind')
  /\ finished' => cursor' = Size

(* What is known where the loop turns.                                     *)
LEMMA ScanTyped ==
  ASSUME IInv
  PROVE  /\ file \in Files /\ cursor \in 0..Size /\ Size \in Nat /\ inspectedBytes \in Nat
         /\ inspected \in 0..MaxInspected /\ finished \in BOOLEAN /\ inSync \in BOOLEAN
         /\ failedRead \in BOOLEAN /\ blind \in BOOLEAN
         /\ scanStatus \in ScanStatuses /\ HeaderLength \in Nat
         /\ MaxRecords \in Nat \ {0} /\ MaxInspected \in Nat \ {0}
         /\ finished => cursor = Size
BY FileBytes, BatchAssumption, AdtsAssumption DEF IInv, Shape, Modes

LEMMA EnterScanFacts ==
  ASSUME IInv, EnterScan, blind' = (blind \/ failedRead')
  PROVE  ScanModes /\ Stays
<1>1. /\ pc = "enter" /\ inspected' = 0 /\ failedRead' = FALSE
      /\ UNCHANGED <<batch, cursor, inspectedBytes, inSync>>
  BY DEF EnterScan, InspectedAtStart
<1>4. /\ blind' \in BOOLEAN /\ (blind => blind') /\ failedRead' \in BOOLEAN
      /\ inspected' \in 0..MaxInspected
  <2>1. inspected' \in 0..MaxInspected /\ blind \in BOOLEAN /\ blind' = (blind \/ FALSE)
    BY <1>1, ScanTyped
  <2>2. blind' = blind
    BY Zenon, <2>1
  <2> QED BY <1>1, <2>1, <2>2
<1>2. CASE finished
  <2>1. scanStatus' = "Complete" /\ pc' = "scanned" /\ finished' = TRUE
    BY <1>2 DEF EnterScan, ScanReturns
  <2>2. ScanModes
    BY <1>1, <1>2, <1>4, <2>1, ScanTyped DEF ScanModes, ScanStatuses
  <2> QED BY <1>1, <2>2 DEF Stays
<1>3. CASE ~finished
  <2>1. UNCHANGED scanStatus /\ pc' = "scan" /\ finished' = FALSE
    BY <1>3, ScanTyped DEF EnterScan, ScanGoesOn
  <2>2. ScanModes
    BY <1>1, <1>4, <2>1, ScanTyped DEF ScanModes
  <2> QED BY <1>1, <2>2 DEF Stays
<1> QED BY <1>2, <1>3

LEMMA ScanStopsFacts ==
  ASSUME IInv, ScanStops, pc = "scan", blind' = (blind \/ failedRead')
  PROVE  ScanModes /\ Stays
<1>1. /\ pc' \in {"scan", "scanned"} /\ scanStatus' \in ScanStatuses /\ finished' \in BOOLEAN
      /\ finished' => cursor >= Size
      /\ UNCHANGED <<batch, cursor, inspectedBytes, inspected, inSync, failedRead>>
  BY DEF ScanStops, ScanReturns, ScanStatuses
<1>2. finished' => cursor' = Size
  BY <1>1, ScanTyped
<1>3. ScanModes
  BY <1>1, <1>2, ScanTyped DEF ScanModes
<1> QED BY <1>1, <1>3 DEF Stays

LEMMA EmitFrameFacts ==
  ASSUME IInv, pc = "scan", HasRoom, cursor < Size, HasHeader(cursor), EmitFrame,
         inSync \/ Confirmed(cursor) \/ blind',
         failedRead' \in BOOLEAN, blind' = (blind \/ failedRead')
  PROVE  ScanModes /\ Takes
<1> DEFINE behind == cursor + FrameLength(cursor)
<1>1. /\ batch' = Append(batch, MakeRecord(cursor)) /\ inSync' = TRUE
      /\ inspectedBytes' = inspectedBytes + HeaderLength /\ inspected' = inspected + 1
      /\ IF behind >= Size THEN cursor' = Size /\ ScanReturns("Complete")
                           ELSE cursor' = behind /\ ScanGoesOn
  BY DEF EmitFrame
<1>2. Len(batch) < MaxRecords /\ inspected < MaxInspected
  BY DEF HasRoom
<1>3. finished = FALSE /\ scanStatus \in ScanStatuses
  BY ScanTyped
<1> HIDE DEF behind
<1>4. /\ pc' \in {"scan", "scanned"} /\ scanStatus' \in ScanStatuses /\ finished' \in BOOLEAN
      /\ cursor' = IF behind >= Size THEN Size ELSE behind
      /\ finished' => cursor' = Size
  <2>1. CASE behind >= Size
    <3>1. cursor' = Size /\ ScanReturns("Complete")
      BY <1>1, <2>1
    <3>2. scanStatus' = "Complete" /\ pc' = "scanned" /\ finished' = TRUE
      BY <3>1 DEF ScanReturns
    <3> QED BY <2>1, <3>1, <3>2 DEF ScanStatuses
  <2>2. CASE ~(behind >= Size)
    BY <1>1, <1>3, <2>2 DEF ScanGoesOn
  <2> QED BY <2>1, <2>2
<1>5. inspected' \in 0..MaxInspected /\ inspectedBytes' \in Nat
  BY <1>1, <1>2, ScanTyped
<1>6. ScanModes
  BY <1>4, <1>5, ScanTyped DEF ScanModes
<1> QED BY <1>1, <1>2, <1>4, <1>6 DEF Takes, behind

LEMMA SkipByteFacts ==
  ASSUME IInv, pc = "scan", HasRoom, cursor < Size, SkipByte,
         ~HasHeader(cursor) \/ (~inSync /\ ~Confirmed(cursor)) \/ blind',
         failedRead' \in BOOLEAN, blind' = (blind \/ failedRead')
  PROVE  ScanModes /\ Skips
<1>1. /\ UNCHANGED batch /\ inSync' = FALSE /\ cursor' = cursor + 1
      /\ inspectedBytes' = inspectedBytes + 1 /\ inspected' = inspected + 1
      /\ pc' = "scan" /\ UNCHANGED <<scanStatus, finished>>
  BY DEF SkipByte, SyncAfterSkip, ScanGoesOn
<1>2. inspected < MaxInspected
  BY DEF HasRoom
<1>3. ~finished
  BY ScanTyped
<1> QED BY <1>1, <1>2, <1>3, ScanTyped DEF ScanModes, Skips

LEMMA ScanPositionFacts ==
  ASSUME IInv, pc = "scan", ScanPosition, blind' = (blind \/ failedRead')
  PROVE  ScanModes /\ (Takes \/ Skips)
<1>0. HasRoom /\ cursor < Size /\ failedRead \in BOOLEAN /\ blind \in BOOLEAN
  BY ScanTyped DEF ScanPosition
<1>1. CASE inSync /\ HasHeader(cursor) /\ EmitFrame /\ UNCHANGED failedRead
  BY <1>0, <1>1, EmitFrameFacts
<1>2. CASE ~HasHeader(cursor) /\ SkipByte /\ UNCHANGED failedRead
  BY <1>0, <1>2, SkipByteFacts
<1>3. CASE /\ ~inSync /\ HasHeader(cursor)
           /\ \E answer \in Lookaheads(cursor) :
                /\ failedRead' = answer.failed
                /\ IF answer.holds THEN EmitFrame ELSE SkipByte
  <2>1. PICK answer \in Lookaheads(cursor) :
               /\ failedRead' = answer.failed
               /\ IF answer.holds THEN EmitFrame ELSE SkipByte
    BY <1>3
  <2>2. /\ answer.failed \in BOOLEAN
        /\ ~answer.failed => answer.holds = Confirmed(cursor)
    <3> DEFINE sure == [holds |-> Confirmed(cursor), failed |-> FALSE]
               no   == [holds |-> FALSE, failed |-> TRUE]
               yes  == [holds |-> TRUE, failed |-> TRUE]
    <3>1. answer \in {sure, no, yes}
      BY DEF Lookaheads
    <3>2. /\ sure.holds = Confirmed(cursor) /\ sure.failed = FALSE
          /\ no.failed = TRUE /\ yes.failed = TRUE
      OBVIOUS
    <3> HIDE DEF sure, no, yes
    <3> QED BY Zenon, <3>1, <3>2
  <2>3. CASE answer.holds
    <3>1. EmitFrame /\ (Confirmed(cursor) \/ blind')
      BY <2>1, <2>2, <2>3
    <3> QED BY <1>0, <1>3, <2>1, <2>2, <3>1, EmitFrameFacts
  <2>4. CASE ~answer.holds
    <3>1. SkipByte /\ (~Confirmed(cursor) \/ blind')
      BY <2>1, <2>2, <2>4
    <3> QED BY <1>0, <1>3, <2>1, <2>2, <3>1, SkipByteFacts
  <2> QED BY <2>3, <2>4
<1> QED BY <1>1, <1>2, <1>3 DEF ScanPosition

LEMMA ScanFacts ==
  ASSUME IInv, ScanStep
  PROVE  /\ ScanModes /\ (Stays \/ Takes \/ Skips)
         /\ UNCHANGED <<file, nodes, spans, status, cancelled, before, allow, cancels>>
<1>1. /\ blind' = (blind \/ failedRead')
      /\ UNCHANGED <<file, nodes, spans, status, cancelled, before, allow, cancels>>
  BY DEF ScanStep, published, EnterScan, ScanFrame
<1>2. CASE EnterScan
  BY <1>1, <1>2, EnterScanFacts
<1>3. CASE ScanFrame /\ ScanStops
  BY <1>1, <1>3, ScanStopsFacts DEF ScanFrame
<1>4. CASE ScanFrame /\ ScanPosition
  BY <1>1, <1>4, ScanPositionFacts DEF ScanFrame
<1> QED BY <1>1, <1>2, <1>3, <1>4 DEF ScanStep, ScanFrame

-----------------------------------------------------------------------------
(* Where the scanner stands after it. *)

(* It stands at the next frame when it takes one.                          *)
LEMMA TakenIsNext ==
  ASSUME file \in Files, NEW n \in 0..Len(Frames), Reached(n), cursor \in Nat, Takes, ~blind'
  PROVE  Open(n) /\ NextAt(EndOf(n), cursor)
<1>0. Size \in Nat /\ cursor < Size /\ HasHeader(cursor) /\ (inSync \/ Confirmed(cursor))
  BY FileBytes DEF Takes
<1>1. Open(n)
  BY <1>0 DEF Reached
<1>2. EndOf(n) \in Nat
  BY <1>1, FileBytes, FramesRest DEF RestFrom
<1>3. CASE inSync
  <2>1. cursor = EndOf(n)
    BY <1>1, <1>3 DEF Reached
  <2>2. cursor \in EndOf(n)..(Size - 1)
    BY <1>0, <2>1
  <2> QED BY <1>0, <1>1, <2>1, <2>2 DEF NextAt
<1>4. CASE ~inSync
  <2>1. /\ cursor > EndOf(n) /\ ~HasHeader(EndOf(n))
        /\ \A q \in (EndOf(n) + 1)..(cursor - 1) : ~Confirms(q)
    BY <1>1, <1>4 DEF Reached
  <2>2. cursor \in EndOf(n)..(Size - 1)
    BY <1>0, <1>2, <2>1
  <2> QED BY <1>0, <1>1, <1>4, <2>1, <2>2 DEF NextAt
<1> QED BY <1>3, <1>4

LEMMA ReachedByTaking ==
  ASSUME file \in Files, UNCHANGED file, NEW n \in 0..Len(Frames), Reached(n), cursor \in Nat,
         Takes, ~blind'
  PROVE  /\ n + 1 \in 0..Len(Frames) /\ Frames[n + 1] = MakeRecord(cursor)
         /\ Reached(n + 1)'
<1>1. Open(n) /\ NextAt(EndOf(n), cursor)
  BY TakenIsNext
<1>2. n + 1 \in 1..Len(Frames) /\ Frames[n + 1] = MakeRecord(cursor)
  BY <1>1, FrameIsNext
<1>3. FrameEnd(MakeRecord(cursor)) = cursor + FrameLength(cursor) /\ Size' = Size /\ Size \in Nat
  BY HeaderFacts, FileBytes DEF Takes, Size
<1>4. EndOf(n + 1) = cursor + FrameLength(cursor) /\ EndOf(n + 1)' = EndOf(n + 1)
  BY <1>2, <1>3, FileKept, FramesTyped DEF EndOf
<1>5. Open(n + 1)' <=> cursor + FrameLength(cursor) < Size
  BY <1>2, <1>3, <1>4, FramesTyped DEF Open
<1>6. /\ inSync' = TRUE
      /\ cursor' = IF cursor + FrameLength(cursor) >= Size THEN Size
                   ELSE cursor + FrameLength(cursor)
  BY DEF Takes
<1>7. cursor + FrameLength(cursor) \in Nat
  BY HeaderFacts DEF Takes
<1>8. Reached(n + 1)'
  BY <1>3, <1>4, <1>5, <1>6, <1>7 DEF Reached
<1>9. n + 1 \in 0..Len(Frames)
  BY <1>2, FramesTyped
<1> QED BY <1>2, <1>8, <1>9

LEMMA ReachedBySkipping ==
  ASSUME file \in Files, UNCHANGED file, NEW n \in 0..Len(Frames), Reached(n), cursor \in Nat,
         inSync \in BOOLEAN, Skips, ~blind'
  PROVE  Reached(n)'
<1>0. /\ Size \in Nat /\ cursor < Size /\ inSync' = FALSE /\ cursor' = cursor + 1
      /\ ~HasHeader(cursor) \/ (~inSync /\ ~Confirmed(cursor))
      /\ Size' = Size
  BY FileBytes DEF Skips, Size
<1>1. Open(n)
  BY <1>0 DEF Reached
<1>2. EndOf(n) \in Nat
  BY <1>1, FileBytes, FramesRest DEF RestFrom
<1>3. /\ EndOf(n)' = EndOf(n) /\ Open(n)'
      /\ \A p : HasHeader(p)' = HasHeader(p) /\ Confirms(p)' = Confirms(p)
  BY <1>0, <1>1, FileKept DEF Open
<1>4. /\ cursor + 1 > EndOf(n) /\ ~HasHeader(EndOf(n))
      /\ \A q \in (EndOf(n) + 1)..cursor : ~Confirms(q)
  <2>1. CASE inSync
    <3>1. cursor = EndOf(n)
      BY <1>1, <2>1 DEF Reached
    <3> QED BY <1>0, <1>2, <2>1, <3>1
  <2>2. CASE ~inSync
    <3>1. /\ cursor > EndOf(n) /\ ~HasHeader(EndOf(n))
          /\ \A q \in (EndOf(n) + 1)..(cursor - 1) : ~Confirms(q)
      BY <1>1, <2>2 DEF Reached
    <3>2. ~Confirms(cursor)
      BY <1>0 DEF Confirms
    <3>3. \A q \in (EndOf(n) + 1)..cursor : q \in (EndOf(n) + 1)..(cursor - 1) \/ q = cursor
      BY <1>2
    <3> QED BY <1>2, <3>1, <3>2, <3>3
  <2> QED BY <2>1, <2>2
<1>5. (cursor + 1) - 1 = cursor
  OBVIOUS
<1> QED BY <1>0, <1>3, <1>4, <1>5 DEF Reached

LEMMA BatchFacts ==
  ASSUME IInv
  PROVE  /\ batch \in Seq(FrameRecord) /\ Len(batch) \in Nat
         /\ spans \in Seq(FrameRecord) /\ Len(spans) \in Nat
         /\ cursor \in Nat /\ inSync \in BOOLEAN /\ file \in Files
         /\ Tree(nodes) /\ Len(nodes[RootId].children) = Len(spans)
         /\ Len(batch) <= MaxRecords /\ MaxRecords \in Nat
BY FileBytes, BatchAssumption DEF IInv, Shape, Modes

(* The frames found are the first n of the file, the batch the last ones   *)
(* of these.                                                               *)
FoundFirst(n) == n \in 0..Len(Frames) /\ Reached(n) /\ BatchIsRun(n)

LEMMA FoundByTaking ==
  ASSUME IInv, UNCHANGED file, NEW n \in Nat, FoundFirst(n), Takes, ~blind'
  PROVE  FoundFirst(n + 1)' /\ First(n + 1)' = First(n)
<1> DEFINE r == MakeRecord(cursor)
           b == Len(batch)
<1>0. /\ batch \in Seq(FrameRecord) /\ b \in Nat /\ cursor \in Nat /\ file \in Files
      /\ n \in 0..Len(Frames) /\ Reached(n) /\ Len(Frames) \in Nat
  BY BatchFacts, FramesTyped DEF FoundFirst
<1>1. /\ n + 1 \in 0..Len(Frames) /\ Frames[n + 1] = r /\ Reached(n + 1)'
  BY <1>0, ReachedByTaking
<1>2. Frames' = Frames
  BY FileKept
<1>3. HasHeader(cursor) /\ batch' = Append(batch, r)
  BY DEF Takes
<1>4. r \in FrameRecord
  BY <1>0, <1>3, HeaderFacts
<1> HIDE DEF r
<1>5. /\ batch' \in Seq(FrameRecord) /\ Len(batch') = b + 1 /\ batch'[b + 1] = r
      /\ \A k \in 1..b : batch'[k] = batch[k]
  BY <1>0, <1>3, <1>4
<1>6. b <= n /\ \A k \in 1..b : batch[k] = Frames[n - b + k]
  BY DEF FoundFirst, BatchIsRun
<1> HIDE DEF b
<1>7. First(n + 1)' = First(n) /\ (n + 1) - (b + 1) = n - b
  BY <1>0, <1>5 DEF First, b
<1>8. ASSUME NEW k \in 1..(b + 1) PROVE batch'[k] = Frames[n - b + k]
  <2>1. CASE k \in 1..b
    BY <1>5, <1>6, <2>1
  <2>2. CASE k = b + 1
    <3>1. n - b + k = n + 1
      BY <1>0, <2>2
    <3> QED BY <1>1, <1>5, <2>2, <3>1
  <2> QED BY <1>0, <2>1, <2>2
<1>9. BatchIsRun(n + 1)'
  <2>1. b + 1 <= n + 1
    BY <1>0, <1>6
  <2> QED BY <1>2, <1>5, <1>7, <1>8, <2>1 DEF BatchIsRun
<1> QED BY <1>1, <1>2, <1>7, <1>9 DEF FoundFirst

LEMMA FoundBySkipping ==
  ASSUME IInv, UNCHANGED file, NEW n \in Nat, FoundFirst(n), Skips, ~blind'
  PROVE  FoundFirst(n)' /\ First(n)' = First(n)
<1>0. /\ cursor \in Nat /\ file \in Files /\ inSync \in BOOLEAN /\ batch' = batch
      /\ n \in 0..Len(Frames) /\ Reached(n) /\ BatchIsRun(n)
  BY BatchFacts DEF FoundFirst, Skips
<1>1. Frames' = Frames
  BY FileKept
<1>2. Reached(n)'
  BY <1>0, ReachedBySkipping
<1>3. BatchIsRun(n)' /\ First(n)' = First(n)
  BY <1>0, <1>1 DEF BatchIsRun, First
<1> QED BY <1>0, <1>1, <1>2, <1>3 DEF FoundFirst

LEMMA FoundByStaying ==
  ASSUME IInv, UNCHANGED file, NEW n \in Nat, FoundFirst(n), Stays
  PROVE  FoundFirst(n)' /\ First(n)' = First(n)
BY ScannerKept DEF FoundFirst, Stays

(* More frames found, none published.                                      *)
LEMMA MoreFound ==
  ASSUME UNCHANGED <<nodes, spans, status>>, Frames' = Frames,
         pc \notin {"decode"}, pc' \notin {"decode"}, spans \in Seq(FrameRecord),
         NEW n \in Nat, NEW m \in Nat, n <= m, NEW at \in Seq(Nat),
         SpansInOrder(n, at), GoesOn(n, at), First(m)' = First(n)
  PROVE  SpansInOrder(m, at)' /\ GoesOn(m, at)'
<1>1. \A k : RecordState(k)' = RecordState(k)
  BY DEF RecordState
<1>2. SpansInOrder(m, at)'
  <2>1. \A k \in 1..Len(spans) : at[k] \in 1..n /\ spans[k] = Frames[at[k]]
    BY DEF SpansInOrder
  <2>2. \A k \in 1..Len(spans) : at[k] \in 1..m /\ spans[k] = Frames[at[k]]
    <3>1. \A x \in 1..n : x \in 1..m
      OBVIOUS
    <3> QED BY <2>1, <3>1
  <2>3. Len(at) = Len(spans) /\ (spans # <<>> => at[1] = 1)
    BY DEF SpansInOrder
  <2>4. \A k \in 2..Len(spans) : Follows(at[k], at, k - 1)'
    BY <1>1 DEF SpansInOrder, Follows
  <2> QED BY <2>2, <2>3, <2>4 DEF SpansInOrder
<1>3. GoesOn(m, at)'
  BY <1>1 DEF GoesOn, Follows
<1> QED BY <1>2, <1>3

LEMMA ScanStepInv == ASSUME IInv, ScanStep PROVE IInv'
<1>1. /\ ScanModes /\ (Stays \/ Takes \/ Skips)
      /\ UNCHANGED <<file, nodes, spans, status, cancelled, before, allow, cancels>>
  BY ScanFacts
<1>2. /\ pc \in {"enter", "scan"} /\ pc' \in {"scan", "scanned"}
      /\ inspected' \in 0..MaxInspected /\ inspectedBytes' \in Nat
      /\ finished' \in BOOLEAN /\ scanStatus' \in ScanStatuses
      /\ failedRead' \in BOOLEAN /\ blind' \in BOOLEAN
      /\ finished' => cursor' = Size
      /\ blind => blind'
  BY <1>1 DEF ScanModes
<1>3. /\ batch \in Seq(FrameRecord) /\ Len(batch) \in Nat /\ Len(batch) <= MaxRecords
      /\ MaxRecords \in Nat /\ cursor \in 0..Size /\ Size \in Nat /\ cursor \in Nat
      /\ file \in Files /\ inSync \in BOOLEAN /\ Size' = Size
      /\ spans \in Seq(FrameRecord) /\ Len(spans) \in Nat
  BY <1>1, BatchFacts, ScanTyped DEF Size
<1>4. /\ batch' \in Seq(FrameRecord) /\ Len(batch') <= MaxRecords
      /\ cursor' \in 0..Size /\ inSync' \in BOOLEAN
  <2>1. CASE Stays
    BY <1>3, <2>1 DEF Stays
  <2>2. CASE Takes
    <3>1. /\ HasHeader(cursor) /\ Len(batch) < MaxRecords /\ inSync' = TRUE
          /\ batch' = Append(batch, MakeRecord(cursor))
          /\ cursor' = IF cursor + FrameLength(cursor) >= Size THEN Size
                       ELSE cursor + FrameLength(cursor)
      BY <2>2 DEF Takes
    <3>2. MakeRecord(cursor) \in FrameRecord /\ FrameLength(cursor) \in Nat
      BY <1>3, <3>1, HeaderFacts
    <3>3. batch' \in Seq(FrameRecord) /\ Len(batch') = Len(batch) + 1
      BY <1>3, <3>1, <3>2
    <3>4. cursor' \in 0..Size
      BY <1>3, <3>1, <3>2
    <3> QED BY <1>3, <3>1, <3>3, <3>4
  <2>3. CASE Skips
    <3>1. cursor < Size /\ UNCHANGED batch /\ inSync' = FALSE /\ cursor' = cursor + 1
      BY <2>3 DEF Skips
    <3>2. cursor' \in 0..Size
      BY <1>3, <3>1
    <3> QED BY <1>3, <3>1, <3>2
  <2> QED BY <1>1, <2>1, <2>2, <2>3
<1>5. Shape'
  BY <1>1, <1>2, <1>3, <1>4 DEF IInv, Shape
<1>6. Modes'
  <2>1. pc # "idle" /\ pc' # "idle" /\ pc' # "enter" /\ pc' # "decode"
    BY <1>2
  <2>2. status' = "InProgress"
    BY <1>1, <2>1 DEF IInv, Modes
  <2> QED BY <1>1, <1>2, <1>3, <1>4, <2>1, <2>2 DEF IInv, Modes
<1>7. Settled'
  <2>1. \A k : RecordState(k)' = RecordState(k)
    BY <1>1 DEF RecordState
  <2> QED BY <1>1, <1>2, <2>1 DEF IInv, Settled
<1>8. ASSUME ~blind' PROVE \E n, at : Located(n, at)'
  <2>1. PICK n, at : Located(n, at)
    BY <1>2, <1>8 DEF IInv, InOrder
  <2>2. /\ n \in 0..Len(Frames) /\ at \in Seq(Nat) /\ FoundFirst(n)
        /\ SpansInOrder(n, at) /\ GoesOn(n, at) /\ Len(Frames) \in Nat /\ n \in Nat
    BY <1>3, <2>1, FramesTyped DEF Located, FoundFirst
  <2>3. Frames' = Frames /\ UNCHANGED file
    BY <1>1, FileKept
  <2>4. PICK m \in Nat : n <= m /\ FoundFirst(m)' /\ First(m)' = First(n)
    <3>1. CASE Takes
      <4>1. FoundFirst(n + 1)' /\ First(n + 1)' = First(n)
        BY <1>8, <2>2, <2>3, <3>1, FoundByTaking
      <4>2. n + 1 \in Nat /\ n <= n + 1
        BY <2>2
      <4> QED BY <4>1, <4>2
    <3>2. CASE Skips
      <4>1. FoundFirst(n)' /\ First(n)' = First(n)
        BY <1>8, <2>2, <2>3, <3>2, FoundBySkipping
      <4> QED BY <2>2, <4>1
    <3>3. CASE Stays
      <4>1. FoundFirst(n)' /\ First(n)' = First(n)
        BY <2>2, <2>3, <3>3, FoundByStaying
      <4> QED BY <2>2, <4>1
    <3> QED BY <1>1, <3>1, <3>2, <3>3
  <2>5. SpansInOrder(m, at)' /\ GoesOn(m, at)'
    BY <1>1, <1>2, <1>3, <2>2, <2>3, <2>4, MoreFound
  <2>6. Located(m, at)'
    BY <2>2, <2>4, <2>5 DEF Located, FoundFirst
  <2> QED BY <2>6
<1>9. InOrder'
  BY <1>2, <1>8 DEF InOrder
<1> QED BY <1>5, <1>6, <1>7, <1>9 DEF IInv

-----------------------------------------------------------------------------
(* Publishing. *)

(* publishRecord() appends the record node: the youngest child of the root,*)
(* located at the first record of the batch.                               *)
LEMMA AppendRecordFacts ==
  ASSUME IInv, AppendRecord
  PROVE  /\ Tree(nodes') /\ Len(nodes'[RootId].children) = Len(spans) + 1
         /\ \A k \in 1..Len(spans) : RecordState(k)' = RecordState(k)
         /\ StateIn(nodes', Len(spans) + 1) = "Indexing"
<1>1. Tree(nodes) /\ Len(spans) \in Nat /\ Len(nodes[RootId].children) = Len(spans)
  BY BatchFacts
<1>2. nodes' = AppendChild(nodes, RootId, "record", "Indexing", Len(spans), 0)
  BY DEF AppendRecord
<1>3. /\ Tree(nodes') /\ Len(nodes'[RootId].children) = Len(spans) + 1
      /\ \A k \in 1..Len(spans) : StateIn(nodes', k) = StateIn(nodes, k)
      /\ StateIn(nodes', Len(spans) + 1) = "Indexing"
  BY <1>1, <1>2, RecordAppended
<1> QED BY <1>3 DEF RecordState, StateIn


(* The frame published next is the first one of the batch.                 *)
LEMMA BatchHead ==
  ASSUME IInv, batch # <<>>, NEW n, NEW at, Located(n, at)
  PROVE  /\ n \in Nat /\ First(n) \in 1..n /\ n - Len(batch) \in Nat
         /\ Head(batch) = Frames[First(n)] /\ Frames[First(n)] \in FrameRecord
         /\ at \in Seq(Nat) /\ Len(at) = Len(spans)
<1>0. /\ batch \in Seq(FrameRecord) /\ Len(batch) \in Nat /\ file \in Files
      /\ n \in 0..Len(Frames) /\ BatchIsRun(n) /\ SpansInOrder(n, at) /\ at \in Seq(Nat)
  BY BatchFacts DEF Located
<1>1. Frames \in Seq(FrameRecord) /\ Len(Frames) \in Nat
  BY <1>0, FramesTyped
<1>2. /\ 1 <= Len(batch) /\ Len(batch) <= n /\ Head(batch) = batch[1]
      /\ batch[1] = Frames[n - Len(batch) + 1]
  BY <1>0 DEF BatchIsRun
<1>3. First(n) \in 1..n /\ n - Len(batch) \in Nat /\ n \in Nat
  BY <1>0, <1>1, <1>2 DEF First
<1>4. Frames[First(n)] \in FrameRecord
  BY <1>0, <1>1, <1>3
<1> QED BY <1>0, <1>2, <1>3, <1>4 DEF First, SpansInOrder

LEMMA AppendRecordStep ==
  ASSUME IInv, AppendRecord, UNCHANGED <<adts, blind>> PROVE IInv'
<1> DEFINE L == Len(spans)
<1>0. /\ pc = "publish" /\ pc' = "decode" /\ batch # <<>>
      /\ spans' = Append(spans, Head(batch))
      /\ UNCHANGED <<file, inspected, scanStatus, cursor, inspectedBytes, inSync, finished,
                     failedRead, blind, batch, status, cancelled, before, allow, cancels>>
  BY DEF AppendRecord, scan, adts
<1>1. /\ Tree(nodes') /\ Len(nodes'[RootId].children) = L + 1
      /\ \A k \in 1..L : RecordState(k)' = RecordState(k)
      /\ StateIn(nodes', L + 1) = "Indexing"
      /\ \A k \in 1..(L + 1) : RecordState(k)' = StateIn(nodes', k)
  BY AppendRecordFacts DEF RecordState, StateIn
<1>2. /\ batch \in Seq(FrameRecord) /\ Len(batch) \in Nat /\ Head(batch) \in FrameRecord
      /\ spans \in Seq(FrameRecord) /\ L \in Nat /\ status = "InProgress"
  <2>1. /\ batch \in Seq(FrameRecord) /\ Len(batch) \in Nat
        /\ spans \in Seq(FrameRecord) /\ L \in Nat /\ status = "InProgress"
    BY <1>0, BatchFacts DEF IInv, Modes
  <2>2. 1 \in 1..Len(batch) /\ Head(batch) = batch[1]
    BY <1>0, <2>1
  <2> QED BY <2>1, <2>2
<1>3. /\ spans' \in Seq(FrameRecord) /\ Len(spans') = L + 1 /\ spans' # <<>>
      /\ spans'[L + 1] = Head(batch)
      /\ \A k \in 1..L : spans'[k] = spans[k]
  BY SMTT(30), <1>0, <1>2
<1>5. Shape'
  BY <1>0, <1>1, <1>3 DEF IInv, Shape, Size
<1>6. Modes'
  BY <1>0, <1>3 DEF IInv, Modes, Size
<1>7. ASSUME NEW n, NEW at, Located(n, at) PROVE Located(n, Append(at, First(n)))'
  <2> DEFINE f == First(n)
             to == Append(at, f)
  <2>1. /\ n \in Nat /\ f \in 1..n /\ Head(batch) = Frames[f]
        /\ at \in Seq(Nat) /\ Len(at) = L
    BY <1>0, <1>7, BatchHead
  <2>2. /\ n \in 0..Len(Frames) /\ Reached(n) /\ BatchIsRun(n)
        /\ SpansInOrder(n, at) /\ GoesOn(n, at)
    BY <1>7 DEF Located
  <2>3. Frames' = Frames /\ Reached(n)' /\ BatchIsRun(n)' /\ f' = f
    BY <1>0, <2>2, ScannerKept
  <2>4. to' = to
    BY <2>3
  <2> HIDE DEF f
  <2>5. /\ to \in Seq(Nat) /\ Len(to) = L + 1 /\ to[L + 1] = f
        /\ \A k \in 1..L : to[k] = at[k]
    BY <1>2, <2>1
  <2> HIDE DEF to
  <2>6. \A k \in 1..(L + 1) : to[k] \in 1..n /\ spans'[k] = Frames[to[k]]
    <3>1. \A k \in 1..L : at[k] \in 1..n /\ spans[k] = Frames[at[k]]
      BY <2>2 DEF SpansInOrder
    <3>2. \A k \in 1..(L + 1) : k \in 1..L \/ k = L + 1
      BY <1>2
    <3> QED BY <1>3, <2>1, <2>5, <3>1, <3>2
  <2>7. to[1] = 1
    <3>1. CASE spans = <<>>
      <4>1. f = 1 /\ L = 0
        BY <1>0, <1>2, <2>2, <3>1, EmptySeq DEF GoesOn, f
      <4> QED BY <2>5, <4>1
    <3>2. CASE spans # <<>>
      <4>1. at[1] = 1 /\ 1 \in 1..L
        BY <1>2, <2>2, <3>2 DEF SpansInOrder
      <4> QED BY <2>5, <4>1
    <3> QED BY <3>1, <3>2
  <2>8. ASSUME NEW k \in 2..(L + 1)
        PROVE  /\ to[k - 1] < to[k]
               /\ to[k] > to[k - 1] + 1 => RecordState(k - 1)' = "Cancelled"
    <3>1. CASE k \in 2..L
      <4>1. Follows(at[k], at, k - 1)
        BY <2>2, <3>1 DEF SpansInOrder
      <4>2. k - 1 \in 1..L /\ k \in 1..L
        BY <1>2, <3>1
      <4> QED BY <1>1, <2>5, <4>1, <4>2 DEF Follows
    <3>2. CASE k = L + 1
      <4>1. L \in 1..L /\ k - 1 = L /\ spans # <<>>
        BY <1>2, <3>2, EmptySeq
      <4>2. Follows(f, at, L)
        BY <1>0, <1>2, <2>2, <4>1 DEF GoesOn, f
      <4> QED BY <1>1, <2>5, <3>2, <4>1, <4>2 DEF Follows
    <3> QED BY <1>2, <3>1, <3>2
  <2>9. SpansInOrder(n, to)'
    BY <1>3, <2>3, <2>4, <2>5, <2>6, <2>7, <2>8 DEF SpansInOrder, Follows
  <2>10. GoesOn(n, to)'
    BY <1>0, <1>3, <2>3, <2>4, <2>5 DEF GoesOn, f
  <2>11. Located(n, to)'
    BY <2>2, <2>3, <2>4, <2>5, <2>9, <2>10 DEF Located
  <2> QED BY <2>11 DEF to, f
<1>8. InOrder'
  BY <1>0, <1>7 DEF IInv, InOrder
<1>10. Settled'
  <2>1. \A k \in 1..L : RecordState(k) \notin Active
    BY <1>0 DEF IInv, Settled
  <2>2. \A k \in 1..L : k # L + 1 /\ RecordState(k)' \notin Active
    BY <1>1, <1>2, <2>1
  <2>3. \A k \in 1..(L + 1) : k \in 1..L \/ k = L + 1
    BY <1>2
  <2>4. ASSUME NEW k \in 1..(L + 1)
        PROVE  IF k = L + 1 THEN RecordState(k)' = "Indexing"
                            ELSE RecordState(k)' \notin Active
    BY <1>1, <2>2, <2>3
  <2> QED BY <1>0, <1>3, <2>4 DEF Settled
<1> QED BY <1>5, <1>6, <1>8, <1>10 DEF IInv

LEMMA RecordOutcomeSettles ==
  ASSUME NEW t, Tree(t), NEW id \in 1..Len(t), t[id].state = "Indexing",
         NEW c \in BOOLEAN, NEW o \in Executions(t, id, Record, c, Parts(Record))
  PROVE  /\ o.status \in Statuses
         /\ SettledBy(t, RecordOutcome(Decoded(t, id, Record, o, 0), id, o.status),
                      id, o.status, c)
<1> DEFINE v == Decoded(t, id, Record, o, 0)
           u == RecordOutcome(v, id, o.status)
<1>1. IsBox(Record) /\ Parts(Record) = 1
  BY DEF IsBox, Record, Parts
<1>2. o.status \in Statuses
  BY <1>1, OutcomeFacts
<1>3. LeftAs(v, u, id, o.status)
  <2> HIDE DEF v
  <2>1. /\ "Cancelled" \in Codes /\ "Unsupported" \in Codes
        /\ o.status # "Materialized" => Code(o.status) \in Codes
    BY <1>2 DEF Codes, Code, Statuses, ContentFailures
  <2> QED BY <2>1 DEF LeftAs, RecordOutcome
<1> HIDE DEF u
<1>4. SettledBy(t, u, id, o.status, c)
  BY <1>1, <1>3, OutcomeSettles
<1> QED BY <1>2, <1>4 DEF u

(* What decoding a record comes to, s being the outcome: the record is     *)
(* settled, the others keep their states, and either the batch goes on or  *)
(* the call ends with it.                                                  *)
LEMMA DecodeRecordFacts ==
  ASSUME IInv, DecodeRecord
  PROVE  \E s \in Statuses :
           /\ Tree(nodes') /\ nodes'[RootId].children = nodes[RootId].children
           /\ \A k \in 1..(Len(spans) - 1) : RecordState(k)' = RecordState(k)
           /\ StateIn(nodes', Len(spans)) \notin Active
           /\ StateIn(nodes', Len(spans)) = "Cancelled" <=> s = "Cancelled"
           /\ s = "Cancelled" => allow /\ cancelled
           /\ \/ /\ s # "Cancelled"
                 /\ batch' = Tail(batch) /\ pc' = "publish" /\ status' = status
              \/ /\ status' \in {"Cancelled", "SourceError", "ResourceLimit", "InvalidRule"}
                 /\ status' = "Cancelled" <=> s = "Cancelled"
                 /\ batch' = <<>> /\ pc' = "idle"
<1> DEFINE L == Len(spans)
           kids == nodes[RootId].children
           id == kids[L]
           c == allow /\ cancelled
<1>0. /\ Tree(nodes) /\ RootId \in 1..Len(nodes) /\ Len(nodes) \in Nat /\ RootId = 1
      /\ L \in Nat /\ Len(kids) = L /\ L >= 1
      /\ RecordState(L) = "Indexing" /\ c \in BOOLEAN /\ pc = "decode"
  <2>1. pc = "decode" /\ spans # <<>> /\ spans \in Seq(FrameRecord)
    BY DEF DecodeRecord, IInv, Modes, Shape
  <2>2. L \in Nat /\ L >= 1 /\ L \in 1..L
    BY <2>1
  <2>3. RecordState(L) = "Indexing"
    BY <2>1, <2>2 DEF IInv, Settled
  <2> QED BY <2>1, <2>2, <2>3, Links DEF IInv, Shape, RootId, Modes
<1>1. \A k \in 1..L : kids[k] \in 2..Len(nodes)
  BY <1>0, RecordNodes
<1>2. id \in 1..Len(nodes) /\ nodes[id].state = "Indexing" /\ RecordNode = id
  BY <1>0, <1>1 DEF RecordState, RecordNode
<1>3. PICK o \in Executions(nodes, id, Record, c, Parts(Record)) :
        LET decoded == RecordOutcome(Decoded(nodes, id, Record, o, 0), id, o.status)
        IN  IF o.status \in {"Materialized"} \cup ContentFailures
            THEN /\ nodes' = decoded
                 /\ batch' = Tail(batch)
                 /\ pc' = "publish" /\ UNCHANGED status
            ELSE /\ Terminalize(decoded, Stops(o.status))
                 /\ batch' = <<>>
  BY <1>2 DEF DecodeRecord
<1> DEFINE u == RecordOutcome(Decoded(nodes, id, Record, o, 0), id, o.status)
           s == o.status
<1> HIDE DEF id, c
<1>4. s \in Statuses /\ SettledBy(nodes, u, id, s, c)
  BY <1>0, <1>2, RecordOutcomeSettles
<1>5. IF s \in {"Materialized"} \cup ContentFailures
      THEN nodes' = u /\ batch' = Tail(batch) /\ pc' = "publish" /\ status' = status
      ELSE Terminalize(u, Stops(s)) /\ batch' = <<>>
  BY <1>3
<1> HIDE DEF u, s
<1>6. /\ Tree(u) /\ u[RootId].children = kids
      /\ \A k \in 1..(L - 1) : StateIn(u, k) = RecordState(k)
      /\ StateIn(u, L) \notin Active
      /\ StateIn(u, L) = "Cancelled" <=> s = "Cancelled"
      /\ s = "Cancelled" => allow /\ cancelled
  <2>1. SettledBy(nodes, u, nodes[RootId].children[L], s, c)
    BY <1>4 DEF id
  <2>2. L \in Nat \ {0} /\ L = Len(nodes[RootId].children) /\ Tree(nodes)
    BY <1>0
  <2> HIDE DEF L, kids
  <2>3. YoungestIs(nodes, u, L, s, c)
    BY <2>1, <2>2, YoungestSettled
  <2> QED BY <2>3 DEF YoungestIs, c, kids, RecordState, StateIn
<1>7. CASE s \in {"Materialized"} \cup ContentFailures
  <2>1. nodes' = u /\ batch' = Tail(batch) /\ pc' = "publish" /\ status' = status
    BY <1>5, <1>7
  <2>2. s # "Cancelled"
    BY <1>7 DEF ContentFailures
  <2>3. \A k \in 1..(L - 1) : RecordState(k)' = RecordState(k)
    BY <1>6, <2>1 DEF RecordState, StateIn
  <2> QED BY <1>4, <1>6, <2>1, <2>2, <2>3
<1>8. CASE s \notin {"Materialized"} \cup ContentFailures
  <2>1. Terminalize(u, Stops(s)) /\ batch' = <<>>
    BY <1>5, <1>8
  <2>2. /\ Stops(s) \in {"Cancelled", "SourceError", "ResourceLimit", "InvalidRule"}
        /\ Stops(s) = "Cancelled" <=> s = "Cancelled"
    BY <1>4, <1>8 DEF Stops, Statuses
  <2>3. Tree(nodes') /\ SameRecords(u, nodes') /\ status' = Stops(s) /\ pc' = "idle"
    BY <1>6, <2>1, <2>2, TerminalizedRoot
  <2>4. nodes'[RootId].children = kids /\ \A k \in 1..L : StateIn(nodes', k) = StateIn(u, k)
    BY <1>0, <1>6, <2>3 DEF SameRecords
  <2>5. \A k \in 1..(L - 1) : RecordState(k)' = RecordState(k)
    <3>1. \A k \in 1..(L - 1) : k \in 1..L
      BY <1>0
    <3> QED BY <1>6, <2>4, <3>1 DEF RecordState, StateIn
  <2>6. StateIn(nodes', L) = StateIn(u, L)
    BY <1>0, <2>4
  <2> QED BY <1>4, <1>6, <2>1, <2>2, <2>3, <2>4, <2>5, <2>6
<1> QED BY <1>7, <1>8

(* The rest of the batch, or nothing: what is left of it is the run of the *)
(* frames found last still, and publishing goes on one frame later, or     *)
(* behind all that have been found.                                        *)
LEMMA BatchShrinks ==
  ASSUME IInv, batch # <<>>, Frames' = Frames, batch' = Tail(batch) \/ batch' = <<>>,
         NEW n, NEW at, Located(n, at)
  PROVE  /\ BatchIsRun(n)' /\ First(n)' \in Nat
         /\ batch' = Tail(batch) => First(n)' = First(n) + 1
         /\ First(n)' > First(n)
<1> DEFINE b == Len(batch)
<1>0. /\ batch \in Seq(FrameRecord) /\ b \in Nat /\ n \in Nat /\ n - b \in Nat
      /\ \A k \in 1..b : batch[k] = Frames[n - b + k]
      /\ b >= 1
  <2>1. batch \in Seq(FrameRecord) /\ b \in Nat /\ n \in Nat /\ n - b \in Nat
    BY BatchFacts, BatchHead
  <2>2. \A k \in 1..b : batch[k] = Frames[n - b + k]
    BY DEF Located, BatchIsRun
  <2> QED BY <2>1, <2>2
<1>1. CASE batch' = Tail(batch)
  <2>1. /\ Len(batch') = b - 1 /\ \A k \in 1..(b - 1) : batch'[k] = batch[k + 1]
    <3>1. /\ Len(Tail(batch)) = b - 1
          /\ \A k \in 1..Len(Tail(batch)) : Tail(batch)[k] = batch[k + 1]
      BY <1>0, HeadTailProperties
    <3> QED BY <1>1, <3>1
  <2> HIDE DEF b
  <2>2. n - (b - 1) = (n - b) + 1 /\ b - 1 <= n /\ b - 1 \in Nat
    BY <1>0
  <2>3. ASSUME NEW k \in 1..(b - 1) PROVE batch'[k] = Frames[n - (b - 1) + k]
    <3>1. k + 1 \in 1..b /\ batch'[k] = batch[k + 1]
      BY <1>0, <2>1
    <3>2. n - b + (k + 1) = n - (b - 1) + k
      BY <1>0
    <3>3. batch[k + 1] = Frames[n - b + (k + 1)]
      BY <1>0, <3>1
    <3> QED BY <3>1, <3>2, <3>3
  <2>4. BatchIsRun(n)'
    BY <2>1, <2>2, <2>3 DEF BatchIsRun
  <2>5. First(n)' = n - (b - 1) + 1 /\ First(n) = n - b + 1
    BY <2>1 DEF First, b
  <2>6. First(n)' = First(n) + 1 /\ First(n)' > First(n) /\ First(n)' \in Nat
    BY <1>0, <2>2, <2>5
  <2> QED BY <2>4, <2>6
<1>2. CASE batch' = <<>> /\ batch' # Tail(batch)
  <2>1. Len(batch') = 0
    BY <1>2, EmptySeq
  <2>2. BatchIsRun(n)'
    BY <1>0, <2>1 DEF BatchIsRun
  <2>3. First(n)' = n - 0 + 1 /\ First(n) = n - b + 1
    BY <2>1 DEF First
  <2>4. First(n)' > First(n) /\ First(n)' \in Nat
    BY <1>0, <2>3
  <2> QED BY <1>2, <2>2, <2>4
<1> QED BY <1>1, <1>2

LEMMA DecodeRecordStep ==
  ASSUME IInv, DecodeRecord, UNCHANGED <<adts, blind>> PROVE IInv'
<1> DEFINE L == Len(spans)
<1>0. /\ pc = "decode" /\ status = "InProgress"
      /\ UNCHANGED <<file, inspected, scanStatus, cursor, inspectedBytes, inSync, finished,
                     failedRead, blind, spans, cancelled, before, allow, cancels>>
  BY DEF DecodeRecord, scan, adts, IInv, Modes
<1>1. PICK s \in Statuses :
        /\ Tree(nodes') /\ nodes'[RootId].children = nodes[RootId].children
        /\ \A k \in 1..(L - 1) : RecordState(k)' = RecordState(k)
        /\ StateIn(nodes', L) \notin Active
        /\ StateIn(nodes', L) = "Cancelled" <=> s = "Cancelled"
        /\ s = "Cancelled" => allow /\ cancelled
        /\ \/ /\ s # "Cancelled"
              /\ batch' = Tail(batch) /\ pc' = "publish" /\ status' = status
           \/ /\ status' \in {"Cancelled", "SourceError", "ResourceLimit", "InvalidRule"}
              /\ status' = "Cancelled" <=> s = "Cancelled"
              /\ batch' = <<>> /\ pc' = "idle"
  BY DecodeRecordFacts
<1>2. /\ batch \in Seq(FrameRecord) /\ Len(batch) \in Nat /\ batch # <<>> /\ file \in Files
      /\ Len(batch) <= MaxRecords /\ MaxRecords \in Nat
      /\ spans \in Seq(FrameRecord) /\ L \in Nat /\ L >= 1 /\ spans # <<>>
  <2>1. batch # <<>> /\ spans # <<>>
    BY <1>0 DEF IInv, Modes
  <2>2. L # 0
    BY <2>1, BatchFacts, EmptySeq
  <2> QED BY <2>1, <2>2, BatchFacts
<1>3. \A k \in 1..L : RecordState(k)' = IF k = L THEN StateIn(nodes', L) ELSE RecordState(k)
  <2>1. \A k \in 1..L : k = L \/ k \in 1..(L - 1)
    BY <1>2
  <2> QED BY <1>1, <2>1 DEF RecordState, StateIn
<1>4. /\ batch' \in Seq(FrameRecord) /\ Len(batch') <= MaxRecords
      /\ batch' = Tail(batch) \/ batch' = <<>>
  <2>1. CASE batch' = Tail(batch)
    <3>1. Tail(batch) \in Seq(FrameRecord) /\ Len(Tail(batch)) = Len(batch) - 1
      BY <1>2, HeadTailProperties
    <3> QED BY <1>2, <2>1, <3>1
  <2>2. CASE batch' = <<>>
    BY <1>2, <2>2, EmptySeq
  <2> QED BY <1>1, <2>1, <2>2
<1>5. Shape'
  BY <1>0, <1>1, <1>4 DEF IInv, Shape, Size
<1>6. Modes'
  BY <1>0, <1>1 DEF IInv, Modes, Statuses, Size
<1>7. ASSUME NEW n, NEW at, Located(n, at) PROVE Located(n, at)'
  <2>1. /\ n \in 0..Len(Frames) /\ at \in Seq(Nat) /\ Reached(n)
        /\ SpansInOrder(n, at) /\ GoesOn(n, at)
        /\ First(n) \in 1..n /\ n \in Nat
    BY <1>2, <1>7, BatchHead DEF Located
  <2>2. Frames' = Frames /\ Reached(n)'
    <3>1. /\ Frames' = Frames /\ Size' = Size /\ EndOf(n)' = EndOf(n)
          /\ \A p : HasHeader(p)' = HasHeader(p) /\ Confirms(p)' = Confirms(p)
      BY <1>0, FileKept DEF Size
    <3> QED BY <1>0, <2>1, <3>1 DEF Reached, Open
  <2>3. /\ BatchIsRun(n)' /\ First(n)' \in Nat /\ First(n)' > First(n)
        /\ batch' = Tail(batch) => First(n)' = First(n) + 1
    BY <1>2, <1>4, <1>7, <2>2, BatchShrinks
  <2>4. at[L] = First(n)
    BY <1>0, <2>1 DEF GoesOn
  <2>5. SpansInOrder(n, at)'
    <3>1. ASSUME NEW k \in 2..L PROVE Follows(at[k], at, k - 1)'
      <4>1. Follows(at[k], at, k - 1)
        BY <2>1, <3>1 DEF SpansInOrder
      <4>2. k - 1 \in 1..L /\ k - 1 # L
        BY <1>2, <3>1
      <4> QED BY <1>3, <4>1, <4>2 DEF Follows
    <3> QED BY <1>0, <2>1, <2>2, <3>1 DEF SpansInOrder
  <2>6. GoesOn(n, at)'
    <3> SUFFICES ASSUME status' \in {"InProgress", "Cancelled"}
                 PROVE  Follows(First(n), at, L)'
      BY <1>0, <1>1, <1>2 DEF GoesOn
    <3>1. CASE s # "Cancelled"
      <4>1. First(n)' = First(n) + 1
        BY <1>0, <1>1, <2>3, <3>1
      <4>2. First(n)' > at[L] /\ ~(First(n)' > at[L] + 1)
        BY <2>1, <2>3, <2>4, <4>1
      <4> QED BY <1>0, <4>2 DEF Follows
    <3>2. CASE s = "Cancelled"
      <4>1. L \in 1..L /\ StateIn(nodes', L) = "Cancelled"
        BY <1>1, <1>2, <3>2
      <4>2. RecordState(L)' = "Cancelled"
        BY <1>0, <4>1 DEF RecordState, StateIn
      <4> QED BY <1>0, <2>3, <2>4, <4>2 DEF Follows, RecordState
    <3> QED BY <3>1, <3>2
  <2> QED BY <2>1, <2>2, <2>3, <2>5, <2>6 DEF Located
<1>8. InOrder'
  BY <1>0, <1>7 DEF IInv, InOrder
<1>9. Settled'
  <2>1. \A k \in 1..L : k # L => RecordState(k) \notin Active
    BY <1>0 DEF IInv, Settled
  <2>2. \A k \in 1..L : RecordState(k)' \notin Active
    BY <1>1, <1>3, <2>1
  <2> QED BY <1>0, <1>1, <2>2 DEF Settled
<1> QED BY <1>5, <1>6, <1>8, <1>9 DEF IInv

-----------------------------------------------------------------------------
(* The theorems. *)

(* However calls, requests and resumptions follow one another, and until a *)
(* read fails in a lookahead, scanner, batch and tree agree on which       *)
(* frames have been found and which published.                             *)
THEOREM Invariance == Spec => []IInv
<1>1. Init => IInv
  BY InitInv
<1>2. IInv /\ [Next]_vars => IInv'
  <2> SUFFICES ASSUME IInv, [Next]_vars PROVE IInv'
    OBVIOUS
  <2>1. CASE AnalyzeBatch
    BY <2>1, BeginBatchStep
  <2>2. CASE ScanStep
    BY <2>2, ScanStepInv
  <2>3. CASE Publish
    <3>1. UNCHANGED <<adts, blind>>
      BY <2>3 DEF Publish
    <3>2. CASE BeginPublishing
      BY <3>1, <3>2, BeginPublishingStep
    <3>3. CASE AppendRecord
      BY <3>1, <3>3, AppendRecordStep
    <3>4. CASE DecodeRecord
      BY <3>1, <3>4, DecodeRecordStep
    <3>5. CASE FinishBatch
      BY <3>1, <3>5, FinishBatchStep
    <3> QED BY <2>3, <3>2, <3>3, <3>4, <3>5 DEF Publish, PublishStep
  <2>4. CASE ResumeAfterCancellation
    BY <2>4, ResumeStep
  <2>5. CASE Cancel
    BY <2>5, CancelStep
  <2>6. CASE UNCHANGED vars
    BY <2>6, StutterStep
  <2> QED BY <2>1, <2>2, <2>3, <2>4, <2>5, <2>6 DEF Next, CallStep
<1> QED BY <1>1, <1>2, PTL DEF Spec

(* Every variable keeps its shape, and a batch its limits.                 *)
THEOREM TypeCorrect == Spec => []TypeOK
<1>1. ASSUME IInv PROVE TypeOK
  <2>1. PublisherTypeOK
    BY <1>1 DEF IInv, Shape, Modes, PublisherTypeOK, Tree
  <2>2. <<inSync, finished, failedRead, blind>> \in [1..4 -> BOOLEAN]
    BY <1>1 DEF IInv, Modes
  <2> QED BY <1>1, <2>1, <2>2 DEF IInv, Shape, Modes, TypeOK
<1> QED BY <1>1, Invariance, PTL

(* Where batches end, and how often the analysis is cancelled and resumed, *)
(* makes no difference: what is published is what an uninterrupted scan    *)
(* enumerates, with gaps only behind cancelled frames, until a read fails  *)
(* in a lookahead.                                                         *)
THEOREM FramesAsEnumeratedAlways == Spec => []FramesAsEnumerated
<1>1. ASSUME IInv PROVE FramesAsEnumerated
  <2> SUFFICES ASSUME ~blind PROVE GapsOnlyBehindCancelledOf(Frames)
    BY DEF FramesAsEnumerated
  <2>1. PICK n, at : Located(n, at)
    BY <1>1 DEF IInv, InOrder
  <2>2. /\ Frames \in Seq(FrameRecord) /\ Len(Frames) \in Nat
        /\ spans \in Seq(FrameRecord) /\ Len(spans) \in Nat
    BY <1>1, FramesTyped, BatchFacts
  <2>3. /\ DOMAIN Frames = 1..Len(Frames) /\ DOMAIN spans = 1..Len(spans)
        /\ n \in 0..Len(Frames) /\ SpansInOrder(n, at)
    BY <2>1, <2>2 DEF Located
  <2>4. \A k \in 1..Len(spans) :
          at[k] \in Nat /\ at[k] \in 1..Len(Frames) /\ spans[k] = Frames[at[k]]
    <3>1. \A x \in 1..n : x \in Nat /\ x \in 1..Len(Frames)
      BY <2>2, <2>3
    <3> QED BY <2>3, <3>1 DEF SpansInOrder
  <2>5. ASSUME NEW k \in 1..Len(spans)
        PROVE  \E i \in 1..Len(Frames) :
                 /\ Frames[i] = spans[k]
                 /\ k = 1 => i = 1
                 /\ k > 1 => \E h \in 1..(i - 1) :
                               /\ Frames[h] = spans[k - 1]
                               /\ i > h + 1 => RecordState(k - 1) = "Cancelled"
    <3>1. at[k] \in 1..Len(Frames) /\ Frames[at[k]] = spans[k]
      BY <2>4
    <3>2. k = 1 => at[k] = 1
      BY <2>2, <2>3 DEF SpansInOrder
    <3>3. ASSUME k > 1
          PROVE  \E h \in 1..(at[k] - 1) :
                   /\ Frames[h] = spans[k - 1]
                   /\ at[k] > h + 1 => RecordState(k - 1) = "Cancelled"
      <4>1. k - 1 \in 1..Len(spans) /\ k \in 2..Len(spans)
        BY <2>2, <3>3
      <4>2. Follows(at[k], at, k - 1)
        BY <2>3, <4>1 DEF SpansInOrder
      <4>3. /\ at[k - 1] \in Nat /\ at[k - 1] \in 1..Len(Frames) /\ at[k] \in Nat
            /\ Frames[at[k - 1]] = spans[k - 1]
        BY <2>4, <4>1
      <4>4. at[k - 1] \in 1..(at[k] - 1)
        BY <2>2, <4>2, <4>3 DEF Follows
      <4>5. at[k] > at[k - 1] + 1 => RecordState(k - 1) = "Cancelled"
        BY <4>2 DEF Follows
      <4> QED BY <4>3, <4>4, <4>5
    <3> QED BY <3>1, <3>2, <3>3
  <2> QED BY <2>3, <2>5 DEF GapsOnlyBehindCancelledOf
<1> QED BY <1>1, Invariance, PTL

=============================================================================
