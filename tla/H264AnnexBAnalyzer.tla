------------------------- MODULE H264AnnexBAnalyzer -------------------------
(***************************************************************************)
(* rules/h264_annex_b_analyzer.cpp: each call scans for NAL units, unless  *)
(* the last scan is not used up, reports them to the progressive index,    *)
(* queues them, and takes them from the queue one by one: the header is    *)
(* decoded, the payload is mapped byte by byte within a work budget that   *)
(* may pause the call, and the mapped payload is decoded.  Cancellation    *)
(* may be requested by any thread at any time; a cancelled analysis can be *)
(* resumed in place.                                                       *)
(***************************************************************************)
EXTENDS DslExecutor, H264StartCodeScanner

CONSTANTS MaxMapped,     \* payload bytes a call maps at most
          MaxCancels     \* bound of the model on cancellation requests

ASSUME AnalyzerAssumption == MaxMapped \in Nat \ {0} /\ MaxCancels \in Nat

VARIABLES nodes,         \* the analysis tree
          spans,         \* the records the NAL nodes of the tree are located at
          queue,         \* queuedRecords_
          unit,          \* pendingNalUnit_ with its mapper, or NoUnit
          deferred,      \* deferredScanStatus_, or "none"
          budget,        \* remainingMappedBytes of the call
          mapStatus,     \* how the mapper of the unit ended
          before,        \* cancellationRequestedBeforeScan
          stable,        \* nextStableRecordIndex_
          through,       \* stableIndexedThroughByteOffset_
          updates,       \* history: the index updates handed out
          cancels,       \* cancellation requests made so far
          status         \* "InProgress", or the terminal status

scanner == <<file, cursor, pending, zeros, inspected, batch, scanStatus>>
work    == <<queue, unit, deferred>>
index   == <<stable, through, updates>>
tree    == <<nodes, spans>>

vars == <<scanner, cancelled, pc, tree, work, index, budget, mapStatus, before,
          cancels, status>>

NoUnit == [node |-> 0]

Init == /\ ScannerInit
        /\ nodes = NewTree /\ spans = <<>>
        /\ queue = <<>> /\ unit = NoUnit /\ deferred = "none"
        /\ stable = 0 /\ through = 0 /\ updates = <<>>
        /\ budget = 0 /\ mapStatus = "none"
        /\ before = FALSE /\ cancels = 0
        /\ status = "InProgress"

Terminated == status # "InProgress"

-----------------------------------------------------------------------------
(* analyzeBatch(), up to the loop. *)

AnalyzeBatch ==
  /\ pc = "idle" /\ ~Terminated
  /\ budget' = MaxMapped
  /\ before' = cancelled
  /\ batch' = <<>> /\ inspected' = InspectedAtStart
  /\ pc' = IF deferred = "none" THEN "scan" ELSE "drain"
  /\ UNCHANGED <<file, cursor, pending, zeros, scanStatus, cancelled, tree, work,
                 index, mapStatus, cancels, status>>

ScanStep == /\ ScanPosition
            /\ UNCHANGED <<tree, work, index, budget, mapStatus, before, cancels, status>>

Queued(r, allow) == [record |-> r, allow |-> allow]

IndexedThrough ==
  IF scanStatus = "Complete" THEN Len(file)
  ELSE IF batch = <<>> THEN through ELSE batch[Len(batch)].end

(* The batch joins the index and the queue whatever ended the scan.        *)
QueueScanned ==
  /\ pc = "scanned"
  /\ LET allow == ~before /\ ~cancelled
     IN  queue' = queue \o [k \in DOMAIN batch |-> Queued(batch[k], allow)]
  /\ through' = IndexedThrough
  /\ stable' = stable + Len(batch)
  /\ updates' = IF batch # <<>> \/ scanStatus = "Complete"
                THEN Append(updates, [first |-> stable, records |-> batch,
                                      through |-> through',
                                      endOfSource |-> scanStatus = "Complete"])
                ELSE updates
  /\ deferred' = scanStatus
  /\ pc' = "drain"
  /\ UNCHANGED <<scanner, cancelled, tree, unit, budget, mapStatus, before,
                 cancels, status>>

-----------------------------------------------------------------------------
(* How a call ends. *)

Code(s) == IF s = "InvalidRule" THEN "InvalidSyntax" ELSE s

Stopped(s) == IF s = "Cancelled" THEN "Cancelled" ELSE "Invalid"

(* terminalizeFailure(). *)
Terminalize(t, s) == /\ nodes' = MarkPartial(t, RootId, Stopped(s), Code(s))
                     /\ status' = s
                     /\ pc' = "idle"

Stops(s) == IF s = "InvalidDefinition" THEN "InvalidRule" ELSE s

(* Work is left but no byte of the budget: the call returns InProgress.    *)
Pause ==
  /\ pc = "drain" /\ budget = 0
  /\ unit # NoUnit \/ queue # <<>>
  /\ pc' = "idle"
  /\ UNCHANGED <<scanner, cancelled, tree, work, index, budget, mapStatus, before,
                 cancels, status>>

-----------------------------------------------------------------------------
(* publishRecord(): the NAL node, its start code, its header.              *)

(* Structures are leaves: what a rule materializes below one is left out.  *)
Structure == [form |-> "leaf", room |-> 0]

(* What the header may say of the payload: nothing is mapped behind an     *)
(* extension header; an opaque payload has no case in the rule's dispatch, *)
(* an empty one a case without a structure.                                *)
PayloadKinds(length) ==
  IF length > 1 THEN {"extension", "opaque", "empty", "structured"}
                ELSE {"unmapped", "empty", "structured"}

(* A NAL unit without bytes cannot have a header.                          *)
HeaderOutcomes(t, nal, r, polled) ==
  {o \in Executions(t, nal, Structure, polled, Parts(Structure)) :
     o.status = "Materialized" => NalLength(r) > 0}

(* appendTrailingZeroRegion(). *)
WithFraming(t, nal, r) ==
  IF r.zeros = 0 THEN t ELSE AppendChild(t, nal, "framing", "Materialized", 0, 0)

(* Mutant: a cancelled record is put back at the end of the queue. *)
Unqueued_Requeued == IF cancelled THEN Append(Tail(queue), Head(queue)) ELSE Tail(queue)

Unqueued == Tail(queue)

PublishRecord ==
  /\ pc = "drain" /\ budget > 0
  /\ unit = NoUnit /\ queue # <<>>
  /\ LET r   == Head(queue).record
         allow == Head(queue).allow
         nal == Len(nodes) + 1
         begun == AppendChild(AppendChild(nodes, RootId, "nal", "Indexing", Len(spans), 0),
                              nal, "framing", "Materialized", 0, 0)
     IN  \E o \in HeaderOutcomes(begun, nal, r, allow /\ cancelled) :
           LET decoded == Decoded(begun, nal, Structure, o, 0)
               partial == MarkPartial(WithFraming(decoded, nal, r), nal,
                                      Stopped(o.status), Code(Stops(o.status)))
           IN  \/ /\ o.status = "Materialized"
                  /\ \E kind \in PayloadKinds(NalLength(r)) :
                       IF kind \in {"extension", "unmapped"}
                       THEN /\ nodes' = Transition(WithFraming(decoded, nal, r),
                                                   nal, "Materialized")
                            /\ UNCHANGED unit
                       ELSE /\ nodes' = decoded
                            /\ unit' = [node |-> nal, record |-> r, kind |-> kind,
                                        allow |-> allow, mapped |-> 0,
                                        issue |-> FALSE, excluded |-> FALSE]
                  /\ UNCHANGED <<status, pc>>
               \/ /\ o.status \in ContentFailures
                  /\ nodes' = partial
                  /\ UNCHANGED <<unit, status, pc>>
               \/ /\ o.status \notin ContentFailures \cup {"Materialized"}
                  /\ Terminalize(partial, Stops(o.status))
                  /\ UNCHANGED unit
  /\ spans' = Append(spans, Head(queue).record)
  /\ queue' = Unqueued
  /\ UNCHANGED <<scanner, cancelled, deferred, index, budget, mapStatus, before, cancels>>

-----------------------------------------------------------------------------
(* The mapper of the unit (H264EbspRbspMapper::mapBatch), one byte a step. *)
(* Whether a byte is excluded or violates the syntax is left open.         *)

PayloadLength == NalLength(unit.record) - 1

MapperEnds(s) == mapStatus' = s /\ pc' = "finish"

MapBegin ==
  /\ pc = "drain" /\ unit # NoUnit /\ budget > 0
  /\ \/ cancelled /\ MapperEnds("Cancelled")
     \/ ~cancelled /\ PayloadLength = unit.mapped /\ MapperEnds("Complete")
     \/ ~cancelled /\ PayloadLength > unit.mapped /\ pc' = "map" /\ UNCHANGED mapStatus
  /\ UNCHANGED <<scanner, cancelled, tree, work, index, budget, before, cancels, status>>

MapFails ==
  /\ pc = "map"
  /\ MapperEnds("SourceError") \/ MapperEnds("ResourceLimit")
  /\ UNCHANGED <<scanner, cancelled, tree, work, index, budget, before, cancels, status>>

(* A byte is mapped; then the token is looked at, sometimes, and then the  *)
(* end of the payload and of the budget.                                   *)
MapByte ==
  /\ pc = "map"
  /\ \E issue, excluded \in BOOLEAN :
       unit' = [unit EXCEPT !.mapped = @ + 1, !.issue = @ \/ issue,
                            !.excluded = @ \/ excluded]
  /\ budget' = budget - 1
  /\ \/ cancelled /\ unit'.mapped % PollEvery = 0 /\ MapperEnds("Cancelled")
     \/ /\ ~(cancelled /\ unit'.mapped % PollEvery = 0)
        /\ \/ unit'.mapped = PayloadLength /\ MapperEnds("Complete")
           \/ /\ unit'.mapped < PayloadLength
              /\ pc' = IF budget' = 0 THEN "idle" ELSE "map"
              /\ UNCHANGED mapStatus
  /\ UNCHANGED <<scanner, cancelled, tree, queue, deferred, index, before, cancels, status>>

-----------------------------------------------------------------------------
(* finishPendingNalUnit(). *)

Finished(t, nal, excluded, r) ==
  WithFraming(IF excluded THEN AppendChild(t, nal, "framing", "Materialized", 0, 0) ELSE t,
              nal, r)

(* How decodePayloadStructure() leaves the payload node, and whether the   *)
(* payload counts as decoded.  The execution session may refuse a          *)
(* structure that was materialized; the structure then stays as it is.     *)
PayloadOutcomes(t, rbsp) ==
  LET executed == {[status |-> o.status, nodes |-> Decoded(t, rbsp, Structure, o, 0)] :
                     o \in Executions(t, rbsp, Structure, unit.allow /\ cancelled,
                                    Parts(Structure))}
      refused  == {[status |-> s, nodes |-> e.nodes] :
                     s \in ContentFailures \cup {"InvalidDefinition", "ResourceLimit"},
                     e \in {x \in executed : x.status = "Materialized"}}
      emptyOk  == {[status |-> "Materialized", nodes |-> t]}
      notEmpty == {[status |-> "InvalidSyntax", nodes |-> t]}
  IN  CASE unit.kind = "opaque"     -> emptyOk
        [] unit.kind = "empty"      ->
             IF PayloadLength = 0 THEN emptyOk ELSE notEmpty
        [] unit.kind = "structured" -> executed \cup refused

(* The payload node as the outcome leaves it. *)
PayloadMarked(o, rbsp) ==
  IF o.status = "Materialized" THEN Transition(o.nodes, rbsp, "Materialized")
  ELSE MarkPartial(o.nodes, rbsp,
                   IF o.status = "Unsupported" THEN "Unsupported" ELSE Stopped(o.status),
                   Code(Stops(o.status)))

FinishMapped(t, rbsp) ==
  \E o \in PayloadOutcomes(t, rbsp) :
    LET marked == PayloadMarked(o, rbsp)
        clean  == o.status = "Materialized" /\ ~unit.issue
    IN  \/ /\ o.status \in ContentFailures \cup {"Materialized"}
           /\ nodes' = Transition(marked, unit.node,
                                  IF clean THEN "Materialized" ELSE "Invalid")
           /\ pc' = "drain" /\ UNCHANGED status
        \/ /\ o.status \notin ContentFailures \cup {"Materialized"}
           /\ Terminalize(MarkPartial(marked, unit.node, Stopped(o.status),
                                      Code(Stops(o.status))),
                          Stops(o.status))

FinishUnmapped(t) ==
  Terminalize(MarkPartial(t, unit.node, Stopped(mapStatus), Code(mapStatus)), mapStatus)

UnitAfter == NoUnit

FinishPendingNalUnit ==
  /\ pc = "finish"
  /\ LET complete == mapStatus = "Complete"
         rbsp  == Len(nodes) + 1
         state == IF ~complete THEN Stopped(mapStatus)
                  ELSE IF unit.kind = "opaque" THEN "Materialized" ELSE "Indexing"
         begun == AppendChild(nodes, unit.node, "rbsp", state, 0, 0)
         noted == IF complete THEN begun ELSE AddDiagnostic(begun, rbsp, mapStatus)
         full  == Finished(noted, unit.node, unit.excluded, unit.record)
         told  == IF complete /\ unit.issue
                  THEN AddDiagnostic(full, unit.node, "InvalidSyntax") ELSE full
     IN  IF complete THEN FinishMapped(told, rbsp) ELSE FinishUnmapped(told)
  /\ unit' = UnitAfter
  /\ UNCHANGED <<scanner, cancelled, spans, queue, deferred, index, budget, mapStatus,
                 before, cancels>>

-----------------------------------------------------------------------------
(* The end of analyzeBatch(): the queue is empty, the scan decides.        *)

(* Mutant: a scan that may go on stays deferred. *)
DeferredAfterBatch_Kept == deferred

DeferredAfterBatch == "none"

FinishBatch ==
  /\ pc = "drain" /\ unit = NoUnit /\ queue = <<>>
  /\ \/ /\ deferred = "Complete"
        /\ nodes' = IF nodes[RootId].children = <<>>
                    THEN MarkPartial(nodes, RootId, "Invalid", "InvalidSyntax")
                    ELSE Transition(nodes, RootId, "Materialized")
        /\ status' = "Complete" /\ pc' = "idle" /\ UNCHANGED deferred
     \/ /\ deferred = "InProgress"
        /\ deferred' = DeferredAfterBatch /\ pc' = "idle" /\ UNCHANGED <<nodes, status>>
     \/ /\ deferred \in {"Cancelled", "SourceError"}
        /\ Terminalize(nodes, deferred) /\ UNCHANGED deferred
  /\ UNCHANGED <<scanner, cancelled, spans, queue, unit, index, budget, mapStatus,
                 before, cancels>>

-----------------------------------------------------------------------------
(* resumeAfterCancellation(): the queue and the scanner go on where they   *)
(* stopped.  A token already requested is refused.                         *)
ResumeAfterCancellation ==
  /\ pc = "idle" /\ status = "Cancelled"
  /\ nodes' = ResumeCancelled(nodes, RootId)
  /\ cancelled' = FALSE
  /\ deferred' = IF deferred = "Cancelled" THEN "none" ELSE deferred
  /\ status' = "InProgress"
  /\ UNCHANGED <<scanner, pc, spans, queue, unit, index, budget, mapStatus, before, cancels>>

RequestCancellation ==
  /\ ~cancelled /\ cancels < MaxCancels
  /\ cancelled' = TRUE /\ cancels' = cancels + 1
  /\ UNCHANGED <<scanner, pc, tree, work, index, budget, mapStatus, before, status>>

-----------------------------------------------------------------------------
CallStep == \/ ScanStep \/ QueueScanned \/ Pause \/ PublishRecord
            \/ MapBegin \/ MapFails \/ MapByte \/ FinishPendingNalUnit \/ FinishBatch

Next == AnalyzeBatch \/ CallStep \/ ResumeAfterCancellation \/ RequestCancellation

Spec == Init /\ [][Next]_vars

(* A call returns; the host polls analyzeBatch until it is finished. *)
FairSpec == Spec /\ WF_vars(CallStep) /\ WF_vars(AnalyzeBatch)

-----------------------------------------------------------------------------
(* Properties *)

QueuedRecords == [k \in DOMAIN queue |-> queue[k].record]

NalNode(k) == nodes[nodes[RootId].children[k]]

(* Every variable keeps its shape, a call its limits; a unit being mapped  *)
(* is the last one published.                                              *)
TypeOK ==
  /\ WellLinked(nodes)
  /\ cursor \in 0..Len(file) /\ pending \in 0..cursor /\ zeros \in 0..cursor
  /\ inspected \in 0..MaxInspected /\ Len(batch) <= MaxRecords
  /\ budget \in 0..MaxMapped
  /\ scanStatus \in {"none", "InProgress", "Complete", "Cancelled", "SourceError"}
  /\ deferred \in {"none", "InProgress", "Complete", "Cancelled", "SourceError"}
  /\ pc \in {"idle", "scan", "scanned", "drain", "map", "finish"}
  /\ status \in {"InProgress", "Complete", "InvalidRule"} \cup Statuses
  /\ <<cancelled, before>> \in BOOLEAN \X BOOLEAN
  /\ Len(spans) = Len(nodes[RootId].children)
  /\ unit # NoUnit => /\ spans # <<>> /\ unit.record = spans[Len(spans)]
                      /\ unit.node = nodes[RootId].children[Len(spans)]
                      /\ unit.mapped <= PayloadLength

(* The updates of the progressive index join without gap or overlap, each  *)
(* starting where the last one ended, across cancellation and resume; they *)
(* name the NAL units of the file, and all of them at the end of source.   *)
IndexIsFaithful ==
  LET all[k \in 0..Len(updates)] ==
        IF k = 0 THEN <<>> ELSE all[k - 1] \o updates[k].records
  IN  \A k \in DOMAIN updates :
        /\ updates[k].first = Len(all[k - 1])
        /\ AreFirstNalUnits(all[k])
        /\ k > 1 => updates[k].through >= updates[k - 1].through
        /\ IF updates[k].endOfSource
           THEN AreAllNalUnits(all[k]) /\ k = Len(updates)
           ELSE updates[k].through = all[k][Len(all[k])].end

(* ADR-0027: cancellation and resume drop, repeat and reorder nothing.     *)
(* What the index has named is in the tree or in the queue, in file order. *)
NothingDropped ==
  /\ AreFirstNalUnits(spans \o QueuedRecords)
  /\ Len(spans) + Len(queue) = stable
  /\ status = "Complete" => AreAllNalUnits(spans)

(* Polled until finished, an analysis finishes, also after every resume.   *)
AnalysisEnds == []<>Terminated

=============================================================================
