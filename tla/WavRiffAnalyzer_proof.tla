------------------------ MODULE WavRiffAnalyzer_proof ------------------------
(***************************************************************************)
(* Proofs about WavRiffAnalyzer for any files, limits of a batch and       *)
(* numbers of cancellations.  IInv is the inductive invariant: the batch   *)
(* is the run of records the scanner framed last, the published records    *)
(* are in order up to where the batch begins, and every cancelled record   *)
(* has a request of its own.                                               *)
(***************************************************************************)
EXTENDS WavRiffAnalyzer, AnalysisTree_proof

(* The record nodes and their states.                                      *)
Children == nodes[RootId].children

Shape ==
  /\ file \in Files
  /\ Tree(nodes)
  /\ spans \in Seq(Nat) /\ batch \in Seq(Nat)
  /\ Len(spans) = Len(nodes[RootId].children)
  /\ framed \in 0..file.records
  /\ inspected \in 0..MaxInspected /\ Len(batch) <= MaxRecords

Modes ==
  /\ finished \in BOOLEAN /\ scanStatus \in ScanStatuses
  /\ pc \in {"idle", "enter", "scan", "scanned", "publish", "decode"}
  /\ status \in {"InProgress", "Complete", "InvalidRule"} \cup Statuses
  /\ cancelled \in BOOLEAN /\ before \in BOOLEAN /\ allow \in BOOLEAN
  /\ cancels \in 0..MaxCancels
  /\ pc # "idle" => status = "InProgress"
  /\ pc \in {"idle", "enter"} => batch = <<>>

(* The next record to be published, or scanned when the batch is used up.  *)
First == framed - Len(batch)

BatchIsRun ==
  /\ Len(batch) <= framed
  /\ \A k \in 1..Len(batch) : batch[k] = First + k - 1

(* A record may be left out behind a cancelled one only. *)
Follows(next, last) ==
  /\ spans[last] < next
  /\ next > spans[last] + 1 => RecordState(last) = "Cancelled"

SpansInOrder ==
  /\ \A k \in 1..Len(spans) : spans[k] < framed
  /\ spans # <<>> => spans[1] = 0
  /\ \A k \in 2..Len(spans) : Follows(spans[k], k - 1)

(* Where publishing goes on.  After a failure that cannot be resumed it    *)
(* does not.                                                               *)
GoesOn ==
  IF pc = "decode"
  THEN batch # <<>> /\ spans # <<>> /\ spans[Len(spans)] = First
  ELSE status \in {"InProgress", "Cancelled"} =>
         IF spans = <<>> THEN First = 0 ELSE Follows(First, Len(spans))

Settled ==
  \A k \in 1..Len(spans) :
    IF pc = "decode" /\ k = Len(spans) THEN RecordState(k) = "Indexing"
                                       ELSE RecordState(k) \notin Active

CancelledRecords == {k \in 1..Len(spans) : RecordState(k) = "Cancelled"}

(* A request that the record being decoded may still answer to.            *)
Open == pc \in {"publish", "decode"} /\ allow /\ cancelled

Counted == Cardinality(CancelledRecords) + (IF Open THEN 1 ELSE 0) <= cancels

IInv == Shape /\ Modes /\ BatchIsRun /\ SpansInOrder /\ GoesOn /\ Settled /\ Counted

-----------------------------------------------------------------------------
(* The root tells how the analysis ended, which the records do not notice. *)
LEMMA TerminalizedRoot ==
  ASSUME NEW t, Tree(t), NEW s \in {"Cancelled", "SourceError", "ResourceLimit", "InvalidRule"},
         Terminalize(t, s)
  PROVE  Tree(nodes') /\ SameRecords(t, nodes') /\ status' = s /\ pc' = "idle"
<1> DEFINE to == IF s = "Cancelled" THEN "Cancelled" ELSE "Invalid"
<1>1. to \in States /\ Code(s) \in Codes
  BY DEF States, Terminal, Codes, Code
<1>2. nodes' = MarkPartial(t, RootId, to, Code(s)) /\ status' = s /\ pc' = "idle"
  BY DEF Terminalize
<1>3. RootId \in 1..Len(t) /\ t \in Seq(Node)
  BY Links
<1> HIDE DEF to
<1>4. OnlyMarks(t, nodes', RootId)
  BY <1>1, <1>2, <1>3, MarkPartialMarks
<1> QED BY <1>2, <1>4, RecordsUnmarked

LEMMA RecordOutcomeSettles ==
  ASSUME NEW t, Tree(t), NEW id \in 1..Len(t), t[id].state = "Indexing",
         NEW c \in BOOLEAN, NEW o \in Executions(t, id, Record, c, Parts(Record))
  PROVE  /\ o.status \in Statuses
         /\ SettledBy(t, RecordOutcome(Decoded(t, id, Record, o, 0), id, o.status),
                      id, o.status, c)
<1> DEFINE v == Decoded(t, id, Record, o, 0)
           u == RecordOutcome(v, id, o.status)
<1>1. IsBox(Record) /\ Parts(Record) = 1
  BY DEF IsBox, Record, Parts
<1>2. o.status \in Statuses
  BY <1>1, OutcomeFacts
<1>3. LeftAs(v, u, id, o.status)
  <2> HIDE DEF v
  <2>1. /\ "Cancelled" \in Codes /\ "Unsupported" \in Codes
        /\ o.status # "Materialized" => Code(o.status) \in Codes
    BY <1>2 DEF Codes, Code, Statuses, ContentFailures
  <2> QED BY <2>1 DEF LeftAs, RecordOutcome
<1> HIDE DEF u
<1>4. SettledBy(t, u, id, o.status, c)
  BY <1>1, <1>3, OutcomeSettles
<1> QED BY <1>2, <1>4 DEF u

-----------------------------------------------------------------------------
(* The inductive invariant. *)

LEMMA FileRecords == ASSUME file \in Files PROVE file.records \in Nat
BY RiffAssumption

LEMMA CancelledFinite ==
  ASSUME spans \in Seq(Nat)
  PROVE  IsFiniteSet(CancelledRecords) /\ Cardinality(CancelledRecords) \in Nat
<1>1. CancelledRecords \subseteq 1..Len(spans) /\ Len(spans) \in Nat
  BY DEF CancelledRecords
<1>2. IsFiniteSet(1..Len(spans))
  BY <1>1, FS_Interval
<1> QED BY <1>1, <1>2, FS_Subset, FS_CardinalityType

LEMMA InitInv == Init => IInv
<1> SUFFICES ASSUME Init PROVE IInv
  OBVIOUS
<1>9. First = 0
  <2>1. framed = 0 /\ Len(batch) = 0
    BY EmptySeq DEF Init, BatchInit, ScannerInit
  <2> QED BY <2>1 DEF First
<1> USE DEF Init, BatchInit, ScannerInit, PublisherInit
<1>0. batch = <<>> /\ Len(batch) = 0 /\ spans = <<>> /\ Len(spans) = 0 /\ framed = 0
  OBVIOUS
<1>1. Shape
  BY NewTreeIsTree, FileRecords, BatchAssumption DEF Shape, RootId
<1>2. Modes
  <2>1. 0 \in 0..MaxCancels
    BY CancelAssumption
  <2> QED BY <2>1 DEF Modes, ScanStatuses
<1>3. BatchIsRun /\ GoesOn
  <2>2. BatchIsRun
    BY <1>0 DEF BatchIsRun
  <2> QED BY <1>0, <1>9, <2>2 DEF GoesOn
<1>4. SpansInOrder /\ Settled
  BY DEF SpansInOrder, Settled
<1>5. Counted
  <2>1. CancelledRecords = {}
    BY DEF CancelledRecords
  <2> QED BY <2>1, FS_EmptySet DEF Counted, Open
<1> QED BY <1>1, <1>2, <1>3, <1>4, <1>5 DEF IInv

(* A step that leaves the records alone. *)
LEMMA RecordsKept ==
  ASSUME Shape, SameRecords(nodes, nodes'), spans' = spans
  PROVE  /\ \A k \in 1..Len(spans) : RecordState(k)' = RecordState(k)
         /\ CancelledRecords' = CancelledRecords
         /\ Len(nodes'[RootId].children) = Len(spans)
<1>1. \A k \in 1..Len(spans) : RecordState(k)' = RecordState(k)
  BY DEF Shape, SameRecords, RecordState, StateIn
<1> QED BY <1>1 DEF Shape, SameRecords, CancelledRecords

LEMMA SameNodes == ASSUME UNCHANGED nodes PROVE SameRecords(nodes, nodes')
BY DEF SameRecords

(* The states of a batch that is being scanned or published, between two   *)
(* records.                                                                *)
LEMMA BeginBatchStep == ASSUME IInv, AnalyzeBatch PROVE IInv'
<1> USE DEF AnalyzeBatch, BeginBatch, scan, riff
<1>0. /\ pc = "idle" /\ status = "InProgress" /\ batch = <<>>
      /\ pc' = "enter" /\ batch' = <<>> /\ before' = cancelled
      /\ UNCHANGED <<file, nodes, spans, framed, inspected, finished, scanStatus,
                     status, cancelled, allow, cancels>>
  BY DEF IInv, Modes, Terminated
<1>1. /\ \A k \in 1..Len(spans) : RecordState(k)' = RecordState(k)
      /\ CancelledRecords' = CancelledRecords
  BY <1>0, SameNodes, RecordsKept DEF IInv
<1>2. Shape'
  BY <1>0 DEF IInv, Shape
<1>3. Modes'
  BY <1>0 DEF IInv, Modes
<1>4. BatchIsRun' /\ First' = First
  BY <1>0 DEF IInv, BatchIsRun, First
<1>5. SpansInOrder'
  BY <1>0, <1>1 DEF IInv, Shape, SpansInOrder, Follows
<1>6. GoesOn'
  BY <1>0, <1>1, <1>4 DEF IInv, Shape, GoesOn, Follows
<1>7. Settled'
  BY <1>0, <1>1 DEF IInv, Settled
<1>8. Counted'
  BY <1>0, <1>1 DEF IInv, Counted, Open
<1> QED BY <1>2, <1>3, <1>4, <1>5, <1>6, <1>7, <1>8 DEF IInv

(* What a turn of the scanner does: at most one more record, the next one. *)
FramesOne == /\ batch' = Append(batch, framed) /\ framed' = framed + 1
             /\ framed < file.records /\ Len(batch) < MaxRecords

LEMMA ScanFacts ==
  ASSUME IInv, ScanStep
  PROVE  /\ pc \in {"enter", "scan"} /\ pc' \in {"scan", "scanned"}
         /\ FramesOne \/ UNCHANGED <<batch, framed>>
         /\ inspected' \in 0..MaxInspected
         /\ finished' \in BOOLEAN /\ scanStatus' \in ScanStatuses
         /\ UNCHANGED <<file, nodes, spans, status, cancelled, before, allow, cancels>>
<1>0. /\ framed \in 0..file.records /\ file.records \in Nat
      /\ inspected \in 0..MaxInspected /\ finished \in BOOLEAN
      /\ scanStatus \in ScanStatuses
      /\ MaxRecords \in Nat \ {0} /\ MaxInspected \in Nat \ {0}
  BY FileRecords, BatchAssumption DEF IInv, Shape, Modes
<1>1. UNCHANGED <<nodes, spans, status, before, allow, cancels>>
  BY DEF ScanStep, published
<1>2. CASE EnterScan
  <2>1. pc = "enter" /\ batch = <<>> /\ Len(batch) < MaxRecords
    BY <1>0, <1>2 DEF EnterScan, IInv, Modes
  <2>2. /\ pc' \in {"scan", "scanned"} /\ UNCHANGED <<file, cancelled>>
        /\ inspected' = 0
        /\ finished' \in BOOLEAN /\ scanStatus' \in ScanStatuses
    BY <1>0, <1>2 DEF EnterScan, ScanReturns, ScanGoesOn, Frame, ScanStatuses,
                      InspectedAtStart
  <2>3. FramesOne \/ UNCHANGED <<batch, framed>>
    BY <1>0, <1>2, <2>1 DEF EnterScan, Frame, FrameNothing, FramesOne
  <2> QED BY <1>0, <1>1, <2>1, <2>2, <2>3
<1>3. CASE ScanChunk
  <2>1. pc = "scan" /\ UNCHANGED <<file, cancelled>>
    BY <1>3 DEF ScanChunk
  <2>2. /\ pc' \in {"scan", "scanned"}
        /\ finished' \in BOOLEAN /\ scanStatus' \in ScanStatuses
    BY <1>0, <1>3 DEF ScanChunk, ScanReturns, ScanGoesOn, Frame, ScanStatuses
  <2>3. FramesOne \/ UNCHANGED <<batch, framed>>
    BY <1>0, <1>3 DEF ScanChunk, Frame, FrameNothing, FramesOne, HasRoom
  <2>4. inspected' \in 0..MaxInspected
    BY <1>0, <1>3 DEF ScanChunk, HasRoom
  <2> QED BY <1>1, <2>1, <2>2, <2>3, <2>4
<1> QED BY <1>2, <1>3 DEF ScanStep

LEMMA ScanStepInv == ASSUME IInv, ScanStep PROVE IInv'
<1>0. /\ pc \in {"enter", "scan"} /\ pc' \in {"scan", "scanned"}
      /\ FramesOne \/ UNCHANGED <<batch, framed>>
      /\ inspected' \in 0..MaxInspected
      /\ finished' \in BOOLEAN /\ scanStatus' \in ScanStatuses
      /\ UNCHANGED <<file, nodes, spans, status, cancelled, before, allow, cancels>>
  BY ScanFacts
<1>1. /\ \A k \in 1..Len(spans) : RecordState(k)' = RecordState(k)
      /\ CancelledRecords' = CancelledRecords
  BY <1>0, SameNodes, RecordsKept DEF IInv
<1>2. /\ batch \in Seq(Nat) /\ Len(batch) \in Nat /\ Len(batch) <= MaxRecords
      /\ framed \in 0..file.records /\ file.records \in Nat /\ MaxRecords \in Nat
      /\ Len(batch) <= framed
      /\ spans \in Seq(Nat) /\ Len(spans) \in Nat
  BY FileRecords, BatchAssumption DEF IInv, Shape, BatchIsRun
<1>3. /\ batch' \in Seq(Nat) /\ framed' \in 0..file.records /\ Len(batch') <= MaxRecords
      /\ First' = First /\ First \in Nat /\ framed <= framed' /\ Len(batch') <= framed'
  <2>1. CASE FramesOne
    BY <1>2, <2>1 DEF FramesOne, First
  <2>2. CASE UNCHANGED <<batch, framed>>
    BY <1>2, <2>2 DEF First
  <2> QED BY <1>0, <2>1, <2>2
<1>4. Shape'
  BY <1>0, <1>3 DEF IInv, Shape
<1>5. Modes'
  BY <1>0 DEF IInv, Modes
<1>6. BatchIsRun'
  <2>1. \A k \in 1..Len(batch) : batch[k] = First + k - 1
    BY DEF IInv, BatchIsRun
  <2>2. CASE FramesOne
    <3>1. /\ Len(batch') = Len(batch) + 1 /\ batch'[Len(batch) + 1] = framed
          /\ \A k \in 1..Len(batch) : batch'[k] = batch[k]
      BY <1>2, <2>2 DEF FramesOne
    <3>2. framed = First + (Len(batch) + 1) - 1
      BY <1>2 DEF First
    <3>3. \A k \in 1..Len(batch') : batch'[k] = First + k - 1
      BY <1>2, <2>1, <3>1, <3>2
    <3> QED BY <1>3, <3>3 DEF BatchIsRun
  <2>3. CASE UNCHANGED <<batch, framed>>
    BY <1>3, <2>1, <2>3 DEF BatchIsRun
  <2> QED BY <1>0, <2>2, <2>3
<1>7. SpansInOrder'
  <2>1. \A k \in 1..Len(spans) : spans[k] \in Nat /\ spans[k] < framed
    BY <1>2 DEF IInv, SpansInOrder
  <2>2. \A k \in 1..Len(spans) : spans[k] < framed'
    BY <1>2, <1>3, <2>1
  <2> QED BY <1>0, <1>1, <1>2, <2>2 DEF IInv, SpansInOrder, Follows
<1>8. GoesOn'
  <2>1. pc # "decode" /\ pc' # "decode" /\ GoesOn
    BY <1>0 DEF IInv
  <2>2. status \in {"InProgress", "Cancelled"} =>
         IF spans = <<>> THEN First = 0 ELSE Follows(First, Len(spans))
    BY <2>1 DEF GoesOn
  <2>3. ASSUME spans # <<>>, Follows(First, Len(spans))
        PROVE  Follows(First, Len(spans))'
    BY <1>0, <1>1, <1>2, <1>3, <2>3 DEF Follows
  <2> QED BY <1>0, <1>3, <2>1, <2>2, <2>3 DEF GoesOn
<1>9. Settled'
  BY <1>0, <1>1 DEF IInv, Settled
<1>10. Counted'
  BY <1>0, <1>1 DEF IInv, Counted, Open
<1> QED BY <1>4, <1>5, <1>6, <1>7, <1>8, <1>9, <1>10 DEF IInv

(* The batch is handed over; records are polled for cancellation from here *)
(* on only if none has been requested.                                     *)
LEMMA BeginPublishingStep ==
  ASSUME IInv, BeginPublishing, UNCHANGED riff PROVE IInv'
<1>0. /\ pc = "scanned" /\ pc' = "publish" /\ batch' = batch
      /\ allow' = (~before /\ ~cancelled)
      /\ UNCHANGED <<file, inspected, scanStatus, framed, finished, nodes, spans,
                     status, cancelled, before, cancels>>
  BY DEF BeginPublishing, Found, scan, riff
<1>1. /\ \A k \in 1..Len(spans) : RecordState(k)' = RecordState(k)
      /\ CancelledRecords' = CancelledRecords
  BY <1>0, SameNodes, RecordsKept DEF IInv
<1>2. Shape'
  BY <1>0 DEF IInv, Shape
<1>3. Modes'
  <2>1. allow' \in BOOLEAN
    BY <1>0 DEF IInv, Modes
  <2> QED BY <1>0, <2>1 DEF IInv, Modes
<1>4. BatchIsRun' /\ First' = First
  BY <1>0 DEF IInv, BatchIsRun, First
<1>5. SpansInOrder'
  BY <1>0, <1>1 DEF IInv, Shape, SpansInOrder, Follows
<1>6. GoesOn'
  BY <1>0, <1>1, <1>4 DEF IInv, Shape, GoesOn, Follows
<1>7. Settled'
  BY <1>0, <1>1 DEF IInv, Settled
<1>8. Counted'
  <2>1. ~Open /\ ~Open'
    BY <1>0 DEF Open
  <2> QED BY <1>0, <1>1, <2>1 DEF IInv, Counted
<1> QED BY <1>2, <1>3, <1>4, <1>5, <1>6, <1>7, <1>8 DEF IInv

(* publishRecord() appends the record node: the youngest child of the root,*)
(* located at the first record of the batch.                               *)
LEMMA AppendRecordFacts ==
  ASSUME IInv, AppendRecord
  PROVE  /\ Tree(nodes') /\ Len(nodes'[RootId].children) = Len(spans) + 1
         /\ \A k \in 1..Len(spans) : RecordState(k)' = RecordState(k)
         /\ StateIn(nodes', Len(spans) + 1) = "Indexing"
<1>1. Tree(nodes) /\ Len(spans) \in Nat /\ Len(nodes[RootId].children) = Len(spans)
  BY DEF IInv, Shape
<1>2. nodes' = AppendChild(nodes, RootId, "record", "Indexing", Len(spans), 0)
  BY DEF AppendRecord
<1>3. /\ Tree(nodes') /\ Len(nodes'[RootId].children) = Len(spans) + 1
      /\ \A k \in 1..Len(spans) : StateIn(nodes', k) = StateIn(nodes, k)
      /\ StateIn(nodes', Len(spans) + 1) = "Indexing"
  BY <1>1, <1>2, RecordAppended
<1> QED BY <1>3 DEF RecordState, StateIn

LEMMA AppendRecordStep ==
  ASSUME IInv, AppendRecord, UNCHANGED riff PROVE IInv'
<1> DEFINE L == Len(spans)
<1>0. /\ pc = "publish" /\ pc' = "decode" /\ batch # <<>>
      /\ spans' = Append(spans, Head(batch))
      /\ UNCHANGED <<file, inspected, scanStatus, framed, finished, batch,
                     status, cancelled, before, allow, cancels>>
  BY DEF AppendRecord, scan, riff
<1>1. /\ Tree(nodes') /\ Len(nodes'[RootId].children) = L + 1
      /\ \A k \in 1..L : RecordState(k)' = RecordState(k)
      /\ StateIn(nodes', L + 1) = "Indexing"
      /\ \A k \in 1..(L + 1) : RecordState(k)' = StateIn(nodes', k)
  BY AppendRecordFacts DEF RecordState, StateIn
<1>2. /\ batch \in Seq(Nat) /\ Len(batch) \in Nat /\ Len(batch) >= 1
      /\ framed \in Nat /\ Len(batch) <= framed
      /\ spans \in Seq(Nat) /\ L \in Nat
      /\ First \in Nat /\ First < framed /\ Head(batch) = First
      /\ status = "InProgress"
  <2>1. /\ batch \in Seq(Nat) /\ Len(batch) \in Nat /\ framed \in Nat /\ Len(batch) <= framed
        /\ spans \in Seq(Nat) /\ L \in Nat /\ status = "InProgress"
    BY <1>0, FileRecords DEF IInv, Shape, BatchIsRun, Modes
  <2>2. Len(batch) >= 1 /\ Head(batch) = batch[1] /\ batch[1] = First + 1 - 1
    BY <1>0, <2>1 DEF IInv, BatchIsRun
  <2>3. First \in Nat /\ First < framed
    BY <2>1, <2>2 DEF First
  <2> QED BY <2>1, <2>2, <2>3
<1>3. /\ spans' \in Seq(Nat) /\ Len(spans') = L + 1 /\ spans' # <<>>
      /\ spans'[L + 1] = First
      /\ \A k \in 1..L : spans'[k] = spans[k]
  BY SMTT(30), <1>0, <1>2
<1>4. CancelledRecords' = CancelledRecords
  <2>1. CancelledRecords' = {k \in 1..(L + 1) : RecordState(k)' = "Cancelled"}
    BY <1>3 DEF CancelledRecords
  <2>2. ASSUME NEW k \in 1..(L + 1)
        PROVE  RecordState(k)' = "Cancelled" <=> k \in 1..L /\ RecordState(k) = "Cancelled"
    <3>1. CASE k = L + 1
      BY <1>1, <1>2, <3>1
    <3>2. CASE k # L + 1
      BY <1>1, <1>2, <3>2
    <3> QED BY <3>1, <3>2
  <2>3. 1..L \subseteq 1..(L + 1)
    BY <1>2
  <2> QED BY <2>1, <2>2, <2>3 DEF CancelledRecords
<1>5. Shape'
  BY <1>0, <1>1, <1>3 DEF IInv, Shape
<1>6. Modes'
  BY <1>0 DEF IInv, Modes
<1>7. BatchIsRun' /\ First' = First
  BY <1>0 DEF IInv, BatchIsRun, First
<1>8. SpansInOrder'
  <2>1. \A k \in 1..(L + 1) : spans'[k] < framed
    <3>1. \A k \in 1..L : spans[k] < framed
      BY DEF IInv, SpansInOrder
    <3>2. \A k \in 1..(L + 1) : k \in 1..L \/ k = L + 1
      BY <1>2
    <3> QED BY <1>2, <1>3, <3>1, <3>2
  <2>2. spans'[1] = 0
    <3>1. CASE spans = <<>>
      <4>1. First = 0 /\ L = 0
        BY <1>0, <1>2, <3>1 DEF IInv, GoesOn
      <4> QED BY <1>3, <4>1
    <3>2. CASE spans # <<>>
      <4>1. spans[1] = 0 /\ 1 \in 1..L
        BY <1>2, <3>2 DEF IInv, SpansInOrder
      <4> QED BY <1>3, <4>1
    <3> QED BY <3>1, <3>2
  <2>3. ASSUME NEW k \in 2..(L + 1)
        PROVE  Follows(spans[k], k - 1)'
    <3>1. CASE k \in 2..L
      <4>1. Follows(spans[k], k - 1)
        BY <3>1 DEF IInv, SpansInOrder
      <4>2. k - 1 \in 1..L /\ k \in 1..L
        BY <1>2, <3>1
      <4> QED BY <1>1, <1>3, <4>1, <4>2 DEF Follows
    <3>2. CASE k = L + 1
      <4>1. L \in 1..L /\ k - 1 = L /\ spans # <<>>
        BY <1>2, <3>2
      <4>2. Follows(First, L)
        BY <1>0, <1>2, <4>1 DEF IInv, GoesOn
      <4> QED BY <1>1, <1>3, <3>2, <4>1, <4>2 DEF Follows
    <3> QED BY <1>2, <3>1, <3>2
  <2> QED BY <1>0, <1>3, <2>1, <2>2, <2>3 DEF SpansInOrder
<1>9. GoesOn'
  BY <1>0, <1>3, <1>7 DEF GoesOn
<1>10. Settled'
  <2>1. \A k \in 1..L : RecordState(k) \notin Active
    BY <1>0 DEF IInv, Settled
  <2>2. \A k \in 1..L : k # L + 1 /\ RecordState(k)' \notin Active
    BY <1>1, <1>2, <2>1
  <2>3. \A k \in 1..(L + 1) : k \in 1..L \/ k = L + 1
    BY <1>2
  <2>4. ASSUME NEW k \in 1..(L + 1)
        PROVE  IF k = L + 1 THEN RecordState(k)' = "Indexing"
                            ELSE RecordState(k)' \notin Active
    BY <1>1, <2>2, <2>3
  <2> QED BY <1>0, <1>3, <2>4 DEF Settled
<1>11. Counted'
  BY <1>0, <1>4 DEF IInv, Counted, Open
<1> QED BY <1>5, <1>6, <1>7, <1>8, <1>9, <1>10, <1>11 DEF IInv

(* What decoding a record comes to, s being the outcome: the record is     *)
(* settled, the others keep their states, and either the batch goes on or  *)
(* the call ends with it.                                                  *)
LEMMA DecodeRecordFacts ==
  ASSUME IInv, DecodeRecord
  PROVE  \E s \in Statuses :
           /\ Tree(nodes') /\ nodes'[RootId].children = nodes[RootId].children
           /\ \A k \in 1..(Len(spans) - 1) : RecordState(k)' = RecordState(k)
           /\ StateIn(nodes', Len(spans)) \notin Active
           /\ StateIn(nodes', Len(spans)) = "Cancelled" <=> s = "Cancelled"
           /\ s = "Cancelled" => allow /\ cancelled
           /\ \/ /\ s # "Cancelled"
                 /\ batch' = Tail(batch) /\ pc' = "publish" /\ status' = status
              \/ /\ status' \in {"Cancelled", "SourceError", "ResourceLimit", "InvalidRule"}
                 /\ status' = "Cancelled" <=> s = "Cancelled"
                 /\ batch' = <<>> /\ pc' = "idle"
<1> DEFINE L == Len(spans)
           kids == nodes[RootId].children
           id == kids[L]
           c == allow /\ cancelled
<1>0. /\ Tree(nodes) /\ RootId \in 1..Len(nodes) /\ Len(nodes) \in Nat /\ RootId = 1
      /\ L \in Nat /\ Len(kids) = L /\ L >= 1
      /\ RecordState(L) = "Indexing" /\ c \in BOOLEAN /\ pc = "decode"
  <2>1. pc = "decode" /\ spans # <<>> /\ spans \in Seq(Nat)
    BY DEF DecodeRecord, IInv, GoesOn, Shape
  <2>2. L \in Nat /\ L >= 1 /\ L \in 1..L
    BY <2>1
  <2>3. RecordState(L) = "Indexing"
    BY <2>1, <2>2 DEF IInv, Settled
  <2> QED BY <2>1, <2>2, <2>3, Links DEF IInv, Shape, RootId, Modes
<1>1. \A k \in 1..L : kids[k] \in 2..Len(nodes)
  BY <1>0, RecordNodes
<1>2. id \in 1..Len(nodes) /\ nodes[id].state = "Indexing" /\ RecordNode = id
  BY <1>0, <1>1 DEF RecordState, RecordNode
<1>3. PICK o \in Executions(nodes, id, Record, c, Parts(Record)) :
        LET decoded == RecordOutcome(Decoded(nodes, id, Record, o, 0), id, o.status)
        IN  IF o.status \in {"Materialized"} \cup ContentFailures
            THEN /\ nodes' = decoded
                 /\ batch' = Tail(batch)
                 /\ pc' = "publish" /\ UNCHANGED status
            ELSE /\ Terminalize(decoded, Stops(o.status))
                 /\ batch' = <<>>
  BY <1>2 DEF DecodeRecord
<1> DEFINE u == RecordOutcome(Decoded(nodes, id, Record, o, 0), id, o.status)
           s == o.status
<1> HIDE DEF id, c
<1>4. s \in Statuses /\ SettledBy(nodes, u, id, s, c)
  BY <1>0, <1>2, RecordOutcomeSettles
<1>5. IF s \in {"Materialized"} \cup ContentFailures
      THEN nodes' = u /\ batch' = Tail(batch) /\ pc' = "publish" /\ status' = status
      ELSE Terminalize(u, Stops(s)) /\ batch' = <<>>
  BY <1>3
<1> HIDE DEF u, s
<1>6. /\ Tree(u) /\ u[RootId].children = kids
      /\ \A k \in 1..(L - 1) : StateIn(u, k) = RecordState(k)
      /\ StateIn(u, L) \notin Active
      /\ StateIn(u, L) = "Cancelled" <=> s = "Cancelled"
      /\ s = "Cancelled" => allow /\ cancelled
  <2>1. SettledBy(nodes, u, nodes[RootId].children[L], s, c)
    BY <1>4 DEF id
  <2>2. L \in Nat \ {0} /\ L = Len(nodes[RootId].children) /\ Tree(nodes)
    BY <1>0
  <2> HIDE DEF L, kids
  <2>3. YoungestIs(nodes, u, L, s, c)
    BY <2>1, <2>2, YoungestSettled
  <2> QED BY <2>3 DEF YoungestIs, c, kids, RecordState, StateIn
<1>7. CASE s \in {"Materialized"} \cup ContentFailures
  <2>1. nodes' = u /\ batch' = Tail(batch) /\ pc' = "publish" /\ status' = status
    BY <1>5, <1>7
  <2>2. s # "Cancelled"
    BY <1>7 DEF ContentFailures
  <2>3. \A k \in 1..(L - 1) : RecordState(k)' = RecordState(k)
    BY <1>6, <2>1 DEF RecordState, StateIn
  <2> QED BY <1>4, <1>6, <2>1, <2>2, <2>3
<1>8. CASE s \notin {"Materialized"} \cup ContentFailures
  <2>1. Terminalize(u, Stops(s)) /\ batch' = <<>>
    BY <1>5, <1>8
  <2>2. /\ Stops(s) \in {"Cancelled", "SourceError", "ResourceLimit", "InvalidRule"}
        /\ Stops(s) = "Cancelled" <=> s = "Cancelled"
    BY <1>4, <1>8 DEF Stops, Statuses
  <2>3. Tree(nodes') /\ SameRecords(u, nodes') /\ status' = Stops(s) /\ pc' = "idle"
    BY <1>6, <2>1, <2>2, TerminalizedRoot
  <2>4. nodes'[RootId].children = kids /\ \A k \in 1..L : StateIn(nodes', k) = StateIn(u, k)
    BY <1>0, <1>6, <2>3 DEF SameRecords
  <2>5. \A k \in 1..(L - 1) : RecordState(k)' = RecordState(k)
    <3>1. \A k \in 1..(L - 1) : k \in 1..L
      BY <1>0
    <3> QED BY <1>6, <2>4, <3>1 DEF RecordState, StateIn
  <2>6. StateIn(nodes', L) = StateIn(u, L)
    BY <1>0, <2>4
  <2> QED BY <1>4, <1>6, <2>1, <2>2, <2>3, <2>4, <2>5, <2>6
<1> QED BY <1>7, <1>8

LEMMA DecodeRecordStep ==
  ASSUME IInv, DecodeRecord, UNCHANGED riff PROVE IInv'
<1> DEFINE L == Len(spans)
<1>0. /\ pc = "decode" /\ status = "InProgress"
      /\ UNCHANGED <<file, inspected, scanStatus, framed, finished, spans,
                     cancelled, before, allow, cancels>>
  BY DEF DecodeRecord, scan, riff, IInv, Modes
<1>1. PICK s \in Statuses :
        /\ Tree(nodes') /\ nodes'[RootId].children = nodes[RootId].children
        /\ \A k \in 1..(L - 1) : RecordState(k)' = RecordState(k)
        /\ StateIn(nodes', L) \notin Active
        /\ StateIn(nodes', L) = "Cancelled" <=> s = "Cancelled"
        /\ s = "Cancelled" => allow /\ cancelled
        /\ \/ /\ s # "Cancelled"
              /\ batch' = Tail(batch) /\ pc' = "publish" /\ status' = status
           \/ /\ status' \in {"Cancelled", "SourceError", "ResourceLimit", "InvalidRule"}
              /\ status' = "Cancelled" <=> s = "Cancelled"
              /\ batch' = <<>> /\ pc' = "idle"
  BY DecodeRecordFacts
<1>2. /\ batch \in Seq(Nat) /\ Len(batch) \in Nat /\ Len(batch) >= 1
      /\ framed \in Nat /\ Len(batch) <= framed /\ First \in Nat /\ First < framed
      /\ Len(batch) <= MaxRecords /\ MaxRecords \in Nat
      /\ \A k \in 1..Len(batch) : batch[k] = First + k - 1
      /\ spans \in Seq(Nat) /\ L \in Nat /\ L >= 1 /\ spans # <<>> /\ spans[L] = First
  <2>1. /\ batch \in Seq(Nat) /\ Len(batch) \in Nat /\ framed \in Nat /\ Len(batch) <= framed
        /\ spans \in Seq(Nat) /\ L \in Nat /\ Len(batch) <= MaxRecords /\ MaxRecords \in Nat
        /\ \A k \in 1..Len(batch) : batch[k] = First + k - 1
    BY FileRecords, BatchAssumption DEF IInv, Shape, BatchIsRun
  <2>2. batch # <<>> /\ spans # <<>> /\ spans[L] = First
    BY <1>0 DEF IInv, GoesOn
  <2>3. Len(batch) >= 1 /\ L >= 1
    BY <2>1, <2>2
  <2>4. First \in Nat /\ First < framed
    BY <2>1, <2>3 DEF First
  <2> QED BY <2>1, <2>2, <2>3, <2>4
<1>3. \A k \in 1..L : RecordState(k)' = IF k = L THEN StateIn(nodes', L) ELSE RecordState(k)
  <2>1. \A k \in 1..L : k = L \/ k \in 1..(L - 1)
    BY <1>2
  <2> QED BY <1>1, <2>1 DEF RecordState, StateIn
<1>4. /\ batch' \in Seq(Nat) /\ Len(batch') <= MaxRecords /\ Len(batch') <= framed
      /\ Len(batch') \in Nat
      /\ \/ /\ batch' = Tail(batch) /\ Len(batch') = Len(batch) - 1
            /\ \A k \in 1..Len(batch') : batch'[k] = batch[k + 1]
         \/ batch' = <<>> /\ Len(batch') = 0
  <2>1. CASE batch' = Tail(batch)
    <3>1. /\ Tail(batch) \in Seq(Nat) /\ Len(Tail(batch)) = Len(batch) - 1
          /\ \A k \in 1..Len(Tail(batch)) : Tail(batch)[k] = batch[k + 1]
      BY <1>2, HeadTailProperties
    <3> QED BY <1>2, <2>1, <3>1
  <2>2. CASE batch' = <<>>
    BY <1>2, <2>2, EmptySeq
  <2> QED BY <1>1, <2>1, <2>2
<1>5. Shape'
  BY <1>0, <1>1, <1>4 DEF IInv, Shape
<1>6. Modes'
  BY <1>0, <1>1 DEF IInv, Modes, Statuses
<1>7. BatchIsRun'
  <2>1. CASE batch' = <<>> /\ Len(batch') = 0
    BY <1>0, <1>4, <2>1 DEF BatchIsRun
  <2>2. CASE /\ batch' = Tail(batch) /\ Len(batch') = Len(batch) - 1
             /\ \A k \in 1..Len(batch') : batch'[k] = batch[k + 1]
    <3>1. First' = First + 1
      <4>1. framed' = framed /\ Len(batch') = Len(batch) - 1
        BY <1>0, <2>2
      <4>2. framed \in Nat /\ Len(batch) \in Nat
        BY <1>2
      <4> QED BY <4>1, <4>2 DEF First
    <3>2. ASSUME NEW k \in 1..Len(batch') PROVE batch'[k] = First' + k - 1
      <4>1. k + 1 \in 1..Len(batch) /\ batch'[k] = batch[k + 1]
        BY <1>2, <2>2
      <4>2. batch[k + 1] = First + (k + 1) - 1
        BY <1>2, <4>1
      <4> QED BY <1>2, <3>1, <4>1, <4>2
    <3> QED BY <1>0, <1>4, <3>2 DEF BatchIsRun
  <2> QED BY <1>4, <2>1, <2>2
<1>8. SpansInOrder'
  <2>1. ASSUME NEW k \in 2..L PROVE Follows(spans[k], k - 1)'
    <3>1. Follows(spans[k], k - 1)
      BY <2>1 DEF IInv, SpansInOrder
    <3>2. k - 1 \in 1..L /\ k - 1 # L
      BY <1>2, <2>1
    <3> QED BY <1>0, <1>3, <3>1, <3>2 DEF Follows
  <2> QED BY <1>0, <2>1 DEF IInv, SpansInOrder
<1>9. GoesOn'
  <2> SUFFICES ASSUME status' \in {"InProgress", "Cancelled"}
               PROVE  IF spans = <<>> THEN First' = 0 ELSE Follows(First, Len(spans))'
    BY <1>0, <1>1 DEF GoesOn
  <2>1. CASE s # "Cancelled"
    <3>1. batch' = Tail(batch)
      BY <1>0, <1>1, <2>1
    <3>2. First' = First + 1
      BY <1>0, <1>2, <1>4, <3>1 DEF First
    <3> QED BY <1>0, <1>2, <3>2 DEF Follows
  <2>2. CASE s = "Cancelled"
    <3>1. First' = framed
      BY <1>0, <1>1, <1>2, <1>4, <2>2 DEF First
    <3>2. L \in 1..L
      BY <1>2
    <3>3. StateIn(nodes', L) = "Cancelled"
      BY <1>1, <2>2
    <3>4. Follows(First, Len(spans))'
      BY <1>0, <1>2, <3>1, <3>3 DEF Follows, RecordState, StateIn
    <3> QED BY <1>2, <3>4
  <2> QED BY <2>1, <2>2
<1>10. Settled'
  <2>1. \A k \in 1..L : k # L => RecordState(k) \notin Active
    BY <1>0 DEF IInv, Settled
  <2>2. \A k \in 1..L : RecordState(k)' \notin Active
    BY <1>1, <1>3, <2>1
  <2> QED BY <1>0, <1>1, <2>2 DEF Settled
<1>11. Counted'
  <2> DEFINE C == CancelledRecords
  <2>0. /\ IsFiniteSet(C) /\ Cardinality(C) \in Nat /\ cancels \in Nat
        /\ Cardinality(C) + (IF Open THEN 1 ELSE 0) <= cancels
    BY <1>2, CancelledFinite, CancelAssumption DEF IInv, Counted, Modes
  <2>1. L \in 1..L /\ L \notin C
    <3>1. L \in 1..L /\ RecordState(L) = "Indexing"
      BY <1>0, <1>2 DEF IInv, Settled
    <3> QED BY <3>1 DEF CancelledRecords
  <2>2. CancelledRecords' = {k \in 1..L : RecordState(k)' = "Cancelled"}
    BY <1>0 DEF CancelledRecords
  <2>3. CASE s = "Cancelled"
    <3>1. CancelledRecords' = C \cup {L}
      BY <1>1, <1>3, <2>1, <2>2, <2>3 DEF CancelledRecords
    <3>2. Cardinality(C \cup {L}) = Cardinality(C) + 1
      BY <2>0, <2>1, FS_AddElement
    <3>3. Open /\ ~Open'
      BY <1>0, <1>1, <2>3 DEF Open
    <3> QED BY <1>0, <2>0, <3>1, <3>2, <3>3 DEF Counted
  <2>4. CASE s # "Cancelled"
    <3>1. CancelledRecords' = C
      BY <1>1, <1>3, <2>1, <2>2, <2>4 DEF CancelledRecords
    <3>2. Open' => Open
      BY <1>0 DEF Open
    <3> QED BY <1>0, <2>0, <3>1, <3>2 DEF Counted
  <2> QED BY <2>3, <2>4
<1> QED BY <1>5, <1>6, <1>7, <1>8, <1>9, <1>10, <1>11 DEF IInv

(* A step between calls or at the end of one, which touches neither the    *)
(* batch nor any record.                                                   *)
LEMMA RecordsUntouched ==
  ASSUME IInv, pc # "decode", pc' = "idle", Tree(nodes'), SameRecords(nodes, nodes'),
         Modes', batch' = <<>>, batch = <<>>, cancels' = cancels,
         status' \in {"InProgress", "Cancelled"} => status \in {"InProgress", "Cancelled"},
         UNCHANGED <<file, inspected, framed, spans>>
  PROVE  IInv'
<1>1. /\ \A k \in 1..Len(spans) : RecordState(k)' = RecordState(k)
      /\ CancelledRecords' = CancelledRecords
      /\ Len(nodes'[RootId].children) = Len(spans)
  BY RecordsKept DEF IInv
<1>2. Shape'
  BY <1>1 DEF IInv, Shape
<1>3. BatchIsRun' /\ First' = First
  BY DEF IInv, BatchIsRun, First
<1>4. SpansInOrder'
  BY <1>1 DEF IInv, Shape, SpansInOrder, Follows
<1>5. GoesOn'
  BY <1>1, <1>3 DEF IInv, Shape, GoesOn, Follows
<1>6. Settled'
  BY <1>1 DEF IInv, Settled
<1>7. Counted'
  <2>1. ~Open'
    BY DEF Open
  <2>2. Cardinality(CancelledRecords) \in Nat /\ cancels \in Nat
    BY CancelledFinite, CancelAssumption DEF IInv, Shape, Modes
  <2>3. Cardinality(CancelledRecords) <= cancels
    BY <2>2 DEF IInv, Counted
  <2> QED BY <1>1, <2>1, <2>2, <2>3 DEF Counted
<1> QED BY <1>2, <1>3, <1>4, <1>5, <1>6, <1>7 DEF IInv

LEMMA FinishBatchStep ==
  ASSUME IInv, FinishBatch, UNCHANGED riff PROVE IInv'
<1>0. /\ pc = "publish" /\ pc' = "idle" /\ batch = <<>> /\ batch' = <<>>
      /\ status = "InProgress"
      /\ UNCHANGED <<file, inspected, scanStatus, framed, finished, spans,
                     cancelled, before, allow, cancels>>
  BY DEF FinishBatch, Terminalize, scan, riff, IInv, Modes
<1>1. Tree(nodes) /\ RootId \in 1..Len(nodes) /\ nodes \in Seq(Node)
  BY Links DEF IInv, Shape
<1>2. /\ Tree(nodes') /\ SameRecords(nodes, nodes')
      /\ status' \in {"Complete", "InProgress", "Cancelled", "SourceError"}
  <2>1. CASE scanStatus = "Complete"
    <3>1. /\ "Invalid" \in States /\ "Materialized" \in States
          /\ "InvalidSyntax" \in Codes
      BY DEF States, Terminal, Codes
    <3>2. OnlyMarks(nodes, nodes', RootId) /\ status' = "Complete"
      BY <1>1, <2>1, <3>1, MarkPartialMarks, TransitionMarks DEF FinishBatch
    <3> QED BY <1>1, <3>2, RecordsUnmarked
  <2>2. CASE scanStatus = "InProgress"
    BY <1>0, <1>1, <2>2, SameNodes DEF FinishBatch
  <2>3. CASE scanStatus \in {"Cancelled", "SourceError"}
    <3>1. Terminalize(nodes, scanStatus)
      BY <2>3 DEF FinishBatch
    <3> QED BY <1>1, <2>3, <3>1, TerminalizedRoot
  <2> QED BY <2>1, <2>2, <2>3 DEF FinishBatch
<1>3. Modes'
  BY <1>0, <1>2 DEF IInv, Modes, Statuses
<1> QED BY <1>0, <1>2, <1>3, RecordsUntouched

LEMMA ResumeStep == ASSUME IInv, ResumeAfterCancellation PROVE IInv'
<1> USE DEF ResumeAfterCancellation, Resume
<1>0. /\ pc = "idle" /\ pc' = "idle" /\ batch = <<>> /\ batch' = <<>>
      /\ status = "Cancelled" /\ status' = "InProgress" /\ cancelled' \in BOOLEAN
      /\ UNCHANGED <<file, inspected, scanStatus, framed, finished, spans,
                     before, allow, cancels>>
  BY DEF scan, riff, IInv, Modes
<1>1. Tree(nodes) /\ RootId \in 1..Len(nodes) /\ nodes \in Seq(Node)
  BY Links DEF IInv, Shape
<1>2. Tree(nodes') /\ SameRecords(nodes, nodes')
  <2>1. OnlyMarks(nodes, nodes', RootId)
    BY <1>1, ResumeMarks
  <2> QED BY <1>1, <2>1, RecordsUnmarked
<1>3. Modes'
  BY <1>0 DEF IInv, Modes
<1> QED BY <1>0, <1>2, <1>3, RecordsUntouched

(* A request pays for the record it may cancel.                            *)
LEMMA CancelStep == ASSUME IInv, Cancel PROVE IInv'
<1>0. /\ ~cancelled /\ cancelled' = TRUE /\ cancels < MaxCancels /\ cancels' = cancels + 1
      /\ UNCHANGED <<file, inspected, scanStatus, framed, finished, batch, pc, nodes,
                     spans, before, allow, status>>
  BY DEF Cancel, RequestCancellation, scan, riff
<1>1. /\ \A k \in 1..Len(spans) : RecordState(k)' = RecordState(k)
      /\ CancelledRecords' = CancelledRecords
  BY <1>0, SameNodes, RecordsKept DEF IInv
<1>2. Shape'
  BY <1>0 DEF IInv, Shape
<1>3. Modes'
  <2>1. cancels' \in 0..MaxCancels
    BY <1>0, CancelAssumption DEF IInv, Modes
  <2> QED BY <1>0, <2>1 DEF IInv, Modes
<1>4. BatchIsRun' /\ First' = First
  BY <1>0 DEF IInv, BatchIsRun, First
<1>5. SpansInOrder'
  BY SMTT(30), <1>0, <1>1 DEF IInv, Shape, SpansInOrder, Follows
<1>6. GoesOn'
  BY <1>0, <1>1, <1>4 DEF IInv, Shape, GoesOn, Follows
<1>7. Settled'
  BY <1>0, <1>1 DEF IInv, Settled
<1>8. Counted'
  <2>1. Cardinality(CancelledRecords) \in Nat /\ cancels \in Nat
    BY CancelledFinite, CancelAssumption DEF IInv, Shape, Modes
  <2>2. ~Open
    BY <1>0 DEF Open
  <2>3. Cardinality(CancelledRecords) <= cancels
    BY <2>1, <2>2 DEF IInv, Counted
  <2> QED BY <1>0, <1>1, <2>1, <2>3 DEF Counted
<1> QED BY <1>2, <1>3, <1>4, <1>5, <1>6, <1>7, <1>8 DEF IInv

LEMMA StutterStep == ASSUME IInv, UNCHANGED vars PROVE IInv'
<1>0. UNCHANGED <<file, inspected, scanStatus, framed, finished, batch, pc, nodes,
                  spans, before, allow, status, cancelled, cancels>>
  BY DEF vars, scan, riff, published
<1>1. /\ \A k \in 1..Len(spans) : RecordState(k)' = RecordState(k)
      /\ CancelledRecords' = CancelledRecords
  BY <1>0, SameNodes, RecordsKept DEF IInv
<1>2. Shape' /\ Modes'
  BY <1>0 DEF IInv, Shape, Modes
<1>3. BatchIsRun' /\ First' = First
  BY <1>0 DEF IInv, BatchIsRun, First
<1>4. SpansInOrder' /\ GoesOn'
  BY SMTT(30), <1>0, <1>1, <1>3 DEF IInv, Shape, SpansInOrder, GoesOn, Follows
<1>5. Settled' /\ Counted'
  BY <1>0, <1>1 DEF IInv, Settled, Counted, Open
<1> QED BY <1>2, <1>3, <1>4, <1>5 DEF IInv

-----------------------------------------------------------------------------
(* The theorems. *)

(* However calls, requests and resumptions follow one another, the batch,  *)
(* the tree and the account of cancellations agree.                        *)
THEOREM Invariance == Spec => []IInv
<1>1. Init => IInv
  BY InitInv
<1>2. IInv /\ [Next]_vars => IInv'
  <2> SUFFICES ASSUME IInv, [Next]_vars PROVE IInv'
    OBVIOUS
  <2>1. CASE AnalyzeBatch
    BY <2>1, BeginBatchStep
  <2>2. CASE ScanStep
    BY <2>2, ScanStepInv
  <2>3. CASE Publish
    <3>1. UNCHANGED riff
      BY <2>3 DEF Publish
    <3>2. CASE BeginPublishing
      BY <3>1, <3>2, BeginPublishingStep
    <3>3. CASE AppendRecord
      BY <3>1, <3>3, AppendRecordStep
    <3>4. CASE DecodeRecord
      BY <3>1, <3>4, DecodeRecordStep
    <3>5. CASE FinishBatch
      BY <3>1, <3>5, FinishBatchStep
    <3> QED BY <2>3, <3>2, <3>3, <3>4, <3>5 DEF Publish, PublishStep
  <2>4. CASE ResumeAfterCancellation
    BY <2>4, ResumeStep
  <2>5. CASE Cancel
    BY <2>5, CancelStep
  <2>6. CASE UNCHANGED vars
    BY <2>6, StutterStep
  <2> QED BY <2>1, <2>2, <2>3, <2>4, <2>5, <2>6 DEF Next, CallStep
<1> QED BY <1>1, <1>2, PTL DEF Spec

(* Every variable keeps its shape, and a batch its limits.                 *)
THEOREM TypeCorrect == Spec => []TypeOK
<1>1. ASSUME IInv PROVE TypeOK
  <2>1. PublisherTypeOK
    BY <1>1 DEF IInv, Shape, Modes, PublisherTypeOK, Tree
  <2>2. \A k \in DOMAIN batch : batch[k] \in 0..(framed - 1)
    <3>1. /\ batch \in Seq(Nat) /\ Len(batch) \in Nat /\ framed \in Nat /\ Len(batch) <= framed
          /\ \A k \in 1..Len(batch) : batch[k] = First + k - 1
      BY <1>1, FileRecords DEF IInv, Shape, BatchIsRun
    <3>2. First \in Nat /\ First = framed - Len(batch)
      BY <3>1 DEF First
    <3>3. ASSUME NEW k \in 1..Len(batch) PROVE First + k - 1 \in 0..(framed - 1)
      BY <3>1, <3>2
    <3> QED BY SMTT(30), <3>1, <3>3
  <2> QED BY <1>1, <2>1, <2>2 DEF IInv, Shape, Modes, TypeOK
<1> QED BY <1>1, Invariance, PTL

(* No record twice, none before an earlier one, none left out but behind a *)
(* cancelled one.                                                          *)
THEOREM GapsOnlyBehindCancelledAlways == Spec => []GapsOnlyBehindCancelled
<1>1. ASSUME IInv PROVE GapsOnlyBehindCancelled
  <2>1. /\ spans \in Seq(Nat) /\ Len(spans) \in Nat /\ DOMAIN spans = 1..Len(spans)
        /\ file.records \in Nat /\ framed \in Nat /\ framed <= file.records
    BY <1>1, FileRecords DEF IInv, Shape
  <2>2. /\ DOMAIN Records = 1..file.records
        /\ \A i \in 1..file.records : Records[i] = i - 1
    BY DEF Records
  <2>3. ASSUME NEW k \in 1..Len(spans)
        PROVE  /\ spans[k] \in Nat /\ spans[k] + 1 \in 1..file.records
               /\ Records[spans[k] + 1] = spans[k]
    <3>1. spans[k] \in Nat /\ spans[k] < framed
      BY <1>1, <2>1 DEF IInv, SpansInOrder
    <3>2. spans[k] + 1 \in 1..file.records
      BY <2>1, <3>1
    <3> QED BY <2>2, <3>1, <3>2
  <2>4. ASSUME NEW k \in 1..Len(spans)
        PROVE  \E i \in DOMAIN Records :
                 /\ Records[i] = spans[k]
                 /\ k = 1 => i = 1
                 /\ k > 1 => \E h \in 1..(i - 1) :
                               /\ Records[h] = spans[k - 1]
                               /\ i > h + 1 => RecordState(k - 1) = "Cancelled"
    <3> DEFINE i == spans[k] + 1
    <3>1. i \in DOMAIN Records /\ Records[i] = spans[k]
      BY <2>2, <2>3
    <3>2. k = 1 => i = 1
      BY <1>1, <2>1, <2>3 DEF IInv, SpansInOrder
    <3>3. ASSUME k > 1
          PROVE  \E h \in 1..(i - 1) :
                   /\ Records[h] = spans[k - 1]
                   /\ i > h + 1 => RecordState(k - 1) = "Cancelled"
      <4>1. k - 1 \in 1..Len(spans) /\ k \in 2..Len(spans)
        BY <2>1, <3>3
      <4>2. Follows(spans[k], k - 1)
        BY <1>1, <4>1 DEF IInv, SpansInOrder
      <4>3. /\ spans[k - 1] \in Nat /\ spans[k] \in Nat
            /\ Records[spans[k - 1] + 1] = spans[k - 1]
        BY <2>3, <4>1
      <4>4. spans[k - 1] + 1 \in 1..(i - 1)
        BY <4>2, <4>3 DEF Follows
      <4>5. i > (spans[k - 1] + 1) + 1 => RecordState(k - 1) = "Cancelled"
        BY <4>2, <4>3 DEF Follows
      <4> QED BY <4>3, <4>4, <4>5
    <3> HIDE DEF i
    <3> QED BY <3>1, <3>2, <3>3
  <2> QED BY <2>1, <2>4 DEF GapsOnlyBehindCancelled, GapsOnlyBehindCancelledOf
<1> QED BY <1>1, Invariance, PTL

(* Between calls every record is settled, and there are no more cancelled  *)
(* ones than cancellations asked for.                                      *)
THEOREM RecordsSettledAlways == Spec => []RecordsSettled
<1>1. ASSUME IInv PROVE RecordsSettled
  <2> SUFFICES ASSUME pc = "idle"
               PROVE  /\ \A k \in DOMAIN spans : RecordState(k) \notin Active
                      /\ Cardinality({k \in DOMAIN spans : RecordState(k) = "Cancelled"})
                           <= cancels
    BY DEF RecordsSettled
  <2>1. spans \in Seq(Nat) /\ DOMAIN spans = 1..Len(spans)
    BY <1>1 DEF IInv, Shape
  <2>2. \A k \in DOMAIN spans : RecordState(k) \notin Active
    BY <1>1, <2>1 DEF IInv, Settled
  <2>3. CancelledRecords = {k \in DOMAIN spans : RecordState(k) = "Cancelled"}
    BY <2>1 DEF CancelledRecords
  <2>4. Cardinality(CancelledRecords) \in Nat /\ cancels \in Nat
    BY <1>1, <2>1, CancelledFinite, CancelAssumption DEF IInv, Modes
  <2>5. Cardinality(CancelledRecords) <= cancels
    BY <1>1, <2>4 DEF IInv, Counted, Open
  <2> QED BY <2>2, <2>3, <2>5
<1> QED BY <1>1, Invariance, PTL

=============================================================================
