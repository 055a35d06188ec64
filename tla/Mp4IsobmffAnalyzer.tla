-------------------------- MODULE Mp4IsobmffAnalyzer --------------------------
(***************************************************************************)
(* rules/mp4_isobmff_analyzer.cpp with its box scanner: a file is a        *)
(* sequence of boxes, scanned in batches into a queue and published one at *)
(* a time, each as a transaction on the analysis tree: the box node, its   *)
(* header structure and, for a container, the boxes inside it, however     *)
(* deep.  A cancelled analysis can be resumed in place with a fresh token. *)
(* Windows are decoded between the batches (WindowDecoder).                *)
(***************************************************************************)
EXTENDS WindowDecoder

CONSTANTS Boxes,         \* the boxes of the file, in order
          AnyBox,        \* those and the boxes inside them, however deep
          MaxRecords,    \* boxes a batch scans at most
          MaxNesting     \* containers that may be open at once (256)

ASSUME AnalyzerAssumption ==
  /\ MaxRecords \in Nat \ {0} /\ MaxNesting \in Nat
  /\ Boxes \in Seq(AnyBox)
  /\ \A box \in AnyBox : /\ box.form \in {"leaf", "table", "container"}
                         /\ box.room \in Nat /\ box.inside \in Seq(AnyBox)

VARIABLES scanned,       \* boxes the scanner has passed: its cursor
          fetched,       \* boxes scanned in the present batch
          queued,        \* queuedRecords_: boxes scanned but not published
          deferred,      \* deferredScanStatus_ or "none"
          status,        \* "InProgress", or the terminal status
          nextBox,       \* nextBoxIndex_
          checkpoint,    \* what a failed record's transaction goes back to
          drill,         \* containers being drilled, the innermost last
          failure        \* how the record failed

scanner == <<scanned, fetched, deferred>>
record  == <<checkpoint, drill, failure>>

vars == <<nodes, remaining, cancelled, cancels, pc, entries, call, shown,
          scanned, fetched, queued, deferred, status, nextBox,
          checkpoint, drill, failure>>

NoRecord == [tree |-> Snapshot(NewTree, RootId), nextBox |-> 0]

Init == /\ nodes = NewTree /\ shown = NewTree
        /\ remaining = MaxNodes
        /\ cancelled = FALSE /\ cancels = 0
        /\ pc = "idle"
        /\ DecoderInit
        /\ scanned = 0 /\ fetched = 0 /\ deferred = "none"
        /\ queued = <<>> /\ status = "InProgress" /\ nextBox = 0
        /\ checkpoint = NoRecord /\ drill = <<>> /\ failure = "none"

Terminated == status # "InProgress"

-----------------------------------------------------------------------------
(* analyzeBatch(): scan, unless a scan is still to be published. *)

AnalyzeBatch ==
  /\ pc = "idle" /\ ~Terminated
  /\ pc' = IF deferred = "none" THEN "scan" ELSE "publish"
  /\ fetched' = 0
  /\ UNCHANGED <<nodes, remaining, cancelled, cancels, entries, call, shown,
                 scanned, deferred, queued, status, nextBox, record>>

Scanning == /\ pc = "scan"
            /\ fetched < MaxRecords /\ scanned < Len(Boxes)

ScanBox ==
  /\ Scanning /\ ~cancelled
  /\ scanned' = scanned + 1
  /\ fetched' = fetched + 1
  /\ queued' = Append(queued, scanned + 1)
  /\ UNCHANGED <<nodes, remaining, cancelled, cancels, pc, entries, call,
                 shown, deferred, status, nextBox, record>>

(* How the scan ends when the source can be read: at the end of the file,  *)
(* with a full batch, or cancelled; what it found stays queued.            *)
ScanStatus == IF scanned = Len(Boxes) THEN "Complete"
              ELSE IF fetched = MaxRecords THEN "InProgress" ELSE "Cancelled"

ScanEnds ==
  /\ pc = "scan"
  /\ \/ /\ ~Scanning \/ cancelled
        /\ deferred' = ScanStatus
     \/ /\ Scanning /\ ~cancelled
        /\ deferred' = "SourceError"
  /\ pc' = "publish"
  /\ UNCHANGED <<nodes, remaining, cancelled, cancels, entries, call, shown,
                 scanned, fetched, queued, status, nextBox, record>>

-----------------------------------------------------------------------------
(* publishRecord() for the record at the head of the queue. *)

Fail(s) == failure' = s /\ pc' = "rollback"

(* The status of the analysis for a failure of the executor that stops it. *)
Stops(s) == IF s = "InvalidDefinition" THEN "InvalidRule" ELSE s

(* The box node is the analyzer's own, but paid from the same budget. *)
BoxCharged(budget) == budget - 1

BeginRecord ==
  /\ pc = "publish" /\ queued # <<>>
  /\ checkpoint' = [tree |-> Snapshot(nodes, RootId), nextBox |-> nextBox]
  /\ drill' = <<>>
  /\ IF cancelled \/ remaining = 0
     THEN /\ Fail(IF cancelled THEN "Cancelled" ELSE "ResourceLimit")
          /\ UNCHANGED <<nodes, remaining, nextBox>>
     ELSE /\ nodes' = AppendChild(nodes, RootId, "box", "Indexing", nextBox, 0)
          /\ nextBox' = nextBox + 1
          /\ remaining' = BoxCharged(remaining)
          /\ pc' = "header"
          /\ UNCHANGED failure
  /\ UNCHANGED <<cancelled, cancels, entries, call, shown, scanner, queued, status>>

BoxNode == checkpoint.tree.count + 1

(* The container of box just decoded, whose structure is the next node. *)
Opened(box) == [node |-> Len(nodes) + 2, inside |-> box.inside]

(* Decode a box below parent, charge the work, and go on with "next" when  *)
(* its content is at fault, or into it when it is a container.             *)
Decode(parent, box, opened, whole, partly) ==
  \E o \in Executions(nodes, parent, box, cancelled, remaining) :
    /\ nodes' = Decoded(nodes, parent, box, o, 0)
    /\ remaining' = remaining - o.made
    /\ CASE o.status \in ContentFailures ->
              /\ drill' = opened /\ pc' = partly /\ UNCHANGED failure
         [] o.status = "Materialized" ->
              /\ drill' = IF box.form = "container"
                          THEN Append(opened, Opened(box)) ELSE opened
              /\ pc' = IF box.form = "container" THEN "open" ELSE whole
              /\ UNCHANGED failure
         [] OTHER -> Fail(Stops(o.status)) /\ UNCHANGED drill

DecodeHeader ==
  /\ pc = "header"
  /\ Decode(BoxNode, Boxes[Head(queued)], <<>>, "box", "dequeue")
  /\ UNCHANGED <<cancelled, cancels, entries, call, shown, scanner, queued,
                 status, nextBox, checkpoint>>

Innermost == drill[Len(drill)]

(* recursivelyDrillContainer(): the nesting is bounded. *)
OpenContainer ==
  /\ pc = "open"
  /\ IF Len(drill) > MaxNesting
     THEN Fail("ResourceLimit") /\ UNCHANGED nodes
     ELSE /\ nodes' = Transition(nodes, Innermost.node, "Indexing")
          /\ pc' = "drill"
          /\ UNCHANGED failure
  /\ UNCHANGED <<remaining, cancelled, cancels, entries, call, shown, scanner,
                 queued, status, nextBox, checkpoint, drill>>

(* The next box inside the innermost container: its scan can fail, be      *)
(* cancelled, or find the budget spent; otherwise the box is decoded.      *)
DrillBox ==
  /\ pc = "drill" /\ Innermost.inside # <<>>
  /\ \/ /\ Fail("SourceError")
        /\ UNCHANGED <<nodes, remaining, drill>>
     \/ /\ cancelled \/ remaining = 0
        /\ Fail(IF cancelled THEN "Cancelled" ELSE "ResourceLimit")
        /\ UNCHANGED <<nodes, remaining, drill>>
     \/ /\ remaining > 0
        /\ Decode(Innermost.node, Head(Innermost.inside),
                  [drill EXCEPT ![Len(drill)].inside = Tail(@)], "drill", "drill")
  /\ UNCHANGED <<cancelled, cancels, entries, call, shown, scanner, queued,
                 status, nextBox, checkpoint>>

CloseContainer ==
  /\ pc = "drill" /\ Innermost.inside = <<>>
  /\ nodes' = Transition(nodes, Innermost.node, "Materialized")
  /\ drill' = SubSeq(drill, 1, Len(drill) - 1)
  /\ pc' = IF Len(drill) = 1 THEN "box" ELSE "drill"
  /\ UNCHANGED <<remaining, cancelled, cancels, entries, call, shown, scanner,
                 queued, status, nextBox, checkpoint, failure>>

(* A box whose header was decoded is complete; one whose content is at     *)
(* fault is left as it is.  Only now does the record leave the queue.      *)
FinishRecord ==
  /\ pc \in {"box", "dequeue"}
  /\ nodes' = IF pc = "box" THEN Transition(nodes, BoxNode, "Materialized") ELSE nodes
  /\ queued' = Tail(queued)
  /\ pc' = "publish"
  /\ UNCHANGED <<remaining, cancelled, cancels, entries, call, shown, scanner,
                 status, nextBox, record>>

-----------------------------------------------------------------------------
(* terminalizeFailure(): the root tells how the analysis ended. *)
RootState(s) == IF s = "Cancelled" THEN "Cancelled" ELSE "Invalid"

Code(s) == IF s = "InvalidRule" THEN "InvalidSyntax" ELSE s

Terminalize(t, s) ==
  /\ nodes' = MarkPartial(t, RootId, RootState(s), Code(s))
  /\ status' = s

(* What is left to publish after a failed record: the record is kept. *)
KeptRecords_Drops(q) == Tail(q)

KeptRecords(q) == q

(* The index the next box gets after a failed record. *)
RestoredIndex_Advanced == nextBox

RestoredIndex == checkpoint.nextBox

RollBack ==
  /\ pc = "rollback"
  /\ Terminalize(Restore(nodes, checkpoint.tree), failure)
  /\ nextBox' = RestoredIndex
  /\ queued' = KeptRecords(queued)
  /\ drill' = <<>> /\ checkpoint' = NoRecord /\ failure' = "none"
  /\ UNCHANGED <<remaining, cancelled, cancels, entries, call, scanner>>
  /\ Return

(* A scan that is not the last one makes room for the next. *)
AfterPublishing_Kept(s) == s

AfterPublishing(s) == IF s \in {"InProgress", "Complete"} THEN "none" ELSE s

FinishBatch ==
  /\ pc = "publish" /\ queued = <<>>
  /\ deferred' = AfterPublishing(deferred)
  /\ checkpoint' = NoRecord
  /\ \/ /\ deferred = "Complete"
        /\ nodes' = Transition(nodes, RootId, "Materialized")
        /\ status' = "Complete"
     \/ /\ deferred = "InProgress"
        /\ UNCHANGED <<nodes, status>>
     \/ /\ deferred \in {"Cancelled", "SourceError"}
        /\ Terminalize(nodes, deferred)
  /\ UNCHANGED <<remaining, cancelled, cancels, entries, call, scanned, fetched,
                 queued, nextBox, drill, failure>>
  /\ Return

(* resumeAfterCancellation() with a fresh token; a cancelled scan goes on. *)
Resumed(t) == ResumeCancelled(t, RootId)

ResumedScan(s) == IF s = "Cancelled" THEN "InProgress" ELSE s

ResumeAfterCancellation ==
  /\ pc = "idle" /\ status = "Cancelled"
  /\ cancelled' = FALSE
  /\ nodes' = Resumed(nodes)
  /\ status' = "InProgress"
  /\ deferred' = ResumedScan(deferred)
  /\ UNCHANGED <<remaining, cancels, entries, call, scanned, fetched, queued,
                 nextBox, record>>
  /\ Return

(* Any thread, at any time. *)
RequestCancellation ==
  /\ ~cancelled /\ cancels < MaxCancels
  /\ cancelled' = TRUE /\ cancels' = cancels + 1
  /\ UNCHANGED <<nodes, remaining, pc, entries, call, shown, scanner, queued,
                 status, nextBox, record>>

-----------------------------------------------------------------------------
analyzer == <<scanner, queued, status, nextBox, record>>

RecordStep == \/ BeginRecord \/ DecodeHeader \/ OpenContainer \/ DrillBox
              \/ CloseContainer \/ FinishRecord \/ RollBack

BatchStep == ScanBox \/ ScanEnds \/ RecordStep \/ FinishBatch

WindowCall == \E w \in DOMAIN nodes, p \in Pages : DecodeWindow(w, p[1], p[2])

Next == \/ AnalyzeBatch
        \/ BatchStep
        \/ WindowCall /\ UNCHANGED analyzer
        \/ PageStep /\ UNCHANGED analyzer
        \/ ResumeAfterCancellation
        \/ RequestCancellation

Spec == Init /\ [][Next]_vars

(* A call that was made returns; the host calls analyzeBatch again and     *)
(* again until the analysis is finished, whatever windows it opens.        *)
FairSpec == /\ Spec
            /\ WF_vars(BatchStep)
            /\ WF_vars(PageStep /\ UNCHANGED analyzer)
            /\ SF_vars(AnalyzeBatch)

-----------------------------------------------------------------------------
(* Properties *)

(* Every variable keeps its shape, no counter runs past the file, and the  *)
(* budget is never overdrawn (the counters are unsigned in the code).      *)
TypeOK ==
  /\ \A i \in DOMAIN nodes :
       /\ nodes[i].kind \in Kinds /\ nodes[i].state \in States
       /\ nodes[i].codes \subseteq Codes
  /\ remaining \in 0..MaxNodes
  /\ cancelled \in BOOLEAN /\ cancels \in 0..MaxCancels
  /\ pc \in {"idle", "scan", "publish", "header", "open", "drill", "box",
             "dequeue", "rollback", "window", "entry"}
  /\ \A w \in DOMAIN entries : DOMAIN entries[w] \subseteq 0..(nodes[w].room - 1)
  /\ scanned \in 0..Len(Boxes) /\ fetched \in 0..MaxRecords
  /\ nextBox \in 0..Len(Boxes)
  /\ deferred \in {"none", "InProgress", "Complete", "Cancelled", "SourceError"}
  /\ status \in {"InProgress", "Complete", "InvalidRule"} \cup Statuses
  /\ Len(drill) <= MaxNesting + 1

(* The decoder's index of a window and the tree agree, however often       *)
(* entries failed and were rolled back, pages were asked for out of order, *)
(* or later records were rolled back: each indexed entry is a materialized *)
(* child of the window bearing its index, no child is unindexed, and only  *)
(* a window whose every entry is there is called materialized.             *)
EntriesInPlace ==
  \A w \in DOMAIN entries :
    /\ IsWindow(w)
    /\ \A i \in DOMAIN entries[w] :
         LET id == entries[w][i] IN
         /\ id \in DOMAIN nodes
         /\ nodes[id].parent = w /\ nodes[id].tag = i
         /\ nodes[id].kind = "structure" /\ nodes[id].state = "Materialized"
    /\ {nodes[w].children[k] : k \in DOMAIN nodes[w].children} =
         {entries[w][i] : i \in DOMAIN entries[w]}
    /\ nodes[w].state = "Materialized" =>
         DOMAIN entries[w] = 0..(nodes[w].room - 1)

(* A cancelled or failed batch neither loses, repeats nor reorders a box:  *)
(* between records the root's children are the first nextBox boxes, in     *)
(* order, and the queue holds all other boxes the scanner has passed; an   *)
(* analysis that says Complete has published every box of the file.        *)
NoRecordLost ==
  pc \in {"idle", "scan", "publish", "window", "entry"} =>
    /\ [k \in DOMAIN nodes[RootId].children |-> nodes[nodes[RootId].children[k]].tag]
         = [k \in 1..nextBox |-> k - 1]
    /\ queued = [k \in 1..(scanned - nextBox) |-> nextBox + k]
    /\ status = "Complete" => nextBox = Len(Boxes)

(* What a caller sees between calls is an append-only tree: the analyzer   *)
(* implements PublishedTree.  Rolled back work must leave nothing behind   *)
(* that was ever shown, and nothing shown may be taken back.               *)
Published == INSTANCE PublishedTree WITH visible <- shown
PublicationSpec == Published!Spec

(* Polled until finished, an analysis finishes, also after every resume:   *)
(* no scan status is left that would keep the scanner from going on.       *)
AnalysisEnds == []<>Terminated

(* docs/analysis-model.md says of the state "indexing" that "work is       *)
(* actively materializing or indexing the node": once the analysis is      *)
(* complete no box of the file is left in it.                              *)
BoxesSettled ==
  status = "Complete" =>
    \A k \in DOMAIN nodes[RootId].children :
      nodes[nodes[RootId].children[k]].state # "Indexing"

=============================================================================
