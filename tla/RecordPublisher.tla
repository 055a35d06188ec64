--------------------------- MODULE RecordPublisher ---------------------------
(***************************************************************************)
(* What rules/wav_riff_analyzer.cpp and rules/aac_adts_analyzer.cpp have   *)
(* in common, which is all but the scanner: each call scans a batch of     *)
(* records and publishes them below the root of the analysis tree.  There  *)
(* are neither a queue nor transactions: the batch is local to the call, a *)
(* failed record stays where it is, and every record has an execution      *)
(* budget of its own.  Cancellation may be requested by any thread at any  *)
(* time; a cancelled analysis can be resumed in place.                     *)
(***************************************************************************)
EXTENDS DslExecutor, BatchScan

CONSTANT MaxCancels      \* bound of the model on cancellation requests

ASSUME CancelAssumption == MaxCancels \in Nat

VARIABLES nodes,         \* the analysis tree
          spans,         \* the record each record node is located at
          cancels,       \* cancellation requests made so far
          before,        \* cancellationRequestedBeforeScan
          allow,         \* allowExecutionCancellation
          status         \* "InProgress", or the terminal status

scan      == <<file, inspected, scanStatus>>
published == <<nodes, spans, cancels, before, allow, status>>

PublisherInit == /\ nodes = NewTree /\ spans = <<>>
                 /\ cancels = 0
                 /\ before = FALSE /\ allow = FALSE
                 /\ status = "InProgress"

Terminated == status # "InProgress"

-----------------------------------------------------------------------------
(* analyzeBatch(): scan, then publish what was found.  Records are decoded *)
(* without polling when cancellation was asked before or during the scan.  *)

BeginBatch ==
  /\ pc = "idle" /\ ~Terminated
  /\ before' = cancelled
  /\ pc' = "enter" /\ batch' = <<>>
  /\ UNCHANGED <<scan, cancelled, nodes, spans, cancels, allow, status>>

(* Whatever ended the scan, the records it found are published. *)
Found_UnlessCancelled(records) ==
  IF scanStatus = "Cancelled" THEN <<>> ELSE records

Found(records) == records

BeginPublishing ==
  /\ pc = "scanned"
  /\ allow' = (~before /\ ~cancelled)
  /\ batch' = Found(batch)
  /\ pc' = "publish"
  /\ UNCHANGED <<scan, cancelled, nodes, spans, cancels, before, status>>

-----------------------------------------------------------------------------
(* publishRecord() for the first record left of the batch. *)

AppendRecord ==
  /\ pc = "publish" /\ batch # <<>>
  /\ nodes' = AppendChild(nodes, RootId, "record", "Indexing", Len(spans), 0)
  /\ spans' = Append(spans, Head(batch))
  /\ pc' = "decode"
  /\ UNCHANGED <<scan, batch, cancelled, cancels, before, allow, status>>

(* The record's structure, as the rule declares it. *)
Record == [form |-> "leaf", room |-> 0]

RecordNode == nodes[RootId].children[Len(spans)]

Code(s) == IF s \in {"InvalidRule", "InvalidDefinition"} THEN "InvalidSyntax" ELSE s

(* terminalState: a record that failed is not being indexed any more. *)
RecordOutcome_Structure(t, id, s) ==
  IF s = "Materialized" THEN Transition(t, id, s) ELSE t

RecordOutcome(t, id, s) ==
  CASE s = "Materialized" -> Transition(t, id, s)
    [] s \in {"Cancelled", "Unsupported"} -> MarkPartial(t, id, s, s)
    [] OTHER              -> MarkPartial(t, id, "Invalid", Code(s))

(* terminalizeFailure(): the root tells how the analysis ended, and the    *)
(* call returns.                                                           *)
Terminalize(t, s) ==
  /\ nodes' = MarkPartial(t, RootId,
                          IF s = "Cancelled" THEN "Cancelled" ELSE "Invalid", Code(s))
  /\ status' = s
  /\ pc' = "idle"

Stops(s) == IF s = "InvalidDefinition" THEN "InvalidRule" ELSE s

(* A record whose content is at fault does not stop the batch; any other   *)
(* failure ends the call, and the batch goes with it.                      *)
DecodeRecord ==
  /\ pc = "decode"
  /\ \E o \in Executions(nodes, RecordNode, Record, allow /\ cancelled, Parts(Record)) :
       LET decoded == RecordOutcome(Decoded(nodes, RecordNode, Record, o, 0),
                                    RecordNode, o.status)
       IN  IF o.status \in {"Materialized"} \cup ContentFailures
           THEN /\ nodes' = decoded
                /\ batch' = Tail(batch)
                /\ pc' = "publish" /\ UNCHANGED status
           ELSE /\ Terminalize(decoded, Stops(o.status))
                /\ batch' = <<>>
  /\ UNCHANGED <<scan, cancelled, spans, cancels, before, allow>>

(* The end of the batch.  A file without a single record is complete, too, *)
(* but its root is not materialized.                                       *)
FinishBatch ==
  /\ pc = "publish" /\ batch = <<>>
  /\ \/ /\ scanStatus = "Complete"
        /\ nodes' = IF nodes[RootId].children = <<>>
                    THEN MarkPartial(nodes, RootId, "Invalid", "InvalidSyntax")
                    ELSE Transition(nodes, RootId, "Materialized")
        /\ status' = "Complete" /\ pc' = "idle"
     \/ /\ scanStatus = "InProgress"
        /\ pc' = "idle" /\ UNCHANGED <<nodes, status>>
     \/ /\ scanStatus \in {"Cancelled", "SourceError"}
        /\ Terminalize(nodes, scanStatus)
  /\ UNCHANGED <<scan, batch, cancelled, spans, cancels, before, allow>>

PublishStep == BeginPublishing \/ AppendRecord \/ DecodeRecord \/ FinishBatch

-----------------------------------------------------------------------------
(* resumeAfterCancellation(): the scanner goes on where it stopped.  The   *)
(* new token may be one whose cancellation is requested already.           *)
Resume ==
  /\ pc = "idle" /\ status = "Cancelled"
  /\ nodes' = ResumeCancelled(nodes, RootId)
  /\ cancelled' \in BOOLEAN
  /\ status' = "InProgress"
  /\ UNCHANGED <<scan, batch, pc, spans, cancels, before, allow>>

RequestCancellation ==
  /\ ~cancelled /\ cancels < MaxCancels
  /\ cancelled' = TRUE /\ cancels' = cancels + 1
  /\ UNCHANGED <<scan, batch, pc, nodes, spans, before, allow, status>>

-----------------------------------------------------------------------------
(* The parts the properties of both analyzers are made of. *)

PublisherTypeOK ==
  /\ WellLinked(nodes)
  /\ inspected \in 0..MaxInspected
  /\ Len(batch) <= MaxRecords
  /\ scanStatus \in ScanStatuses
  /\ pc \in {"idle", "enter", "scan", "scanned", "publish", "decode"}
  /\ status \in {"InProgress", "Complete", "InvalidRule"} \cup Statuses
  /\ <<cancelled, before, allow>> \in BOOLEAN \X BOOLEAN \X BOOLEAN
  /\ cancels \in 0..MaxCancels
  /\ Len(spans) = Len(nodes[RootId].children)

RecordState(k) == nodes[nodes[RootId].children[k]].state

(* The records published are among those of the file, in order, and one is *)
(* left out only behind a record whose decoding was cancelled.             *)
GapsOnlyBehindCancelledOf(all) ==
  \A k \in DOMAIN spans :
    \E i \in DOMAIN all :
      /\ all[i] = spans[k]
      /\ k = 1 => i = 1
      /\ k > 1 => \E h \in 1..(i - 1) :
                    /\ all[h] = spans[k - 1]
                    /\ i > h + 1 => RecordState(k - 1) = "Cancelled"

=============================================================================
