--------------------------- MODULE AacAdtsAnalyzer ---------------------------
(***************************************************************************)
(* rules/aac_adts_analyzer.cpp: the frames of an ADTS stream, published.   *)
(***************************************************************************)
EXTENDS RecordPublisher, AacAdtsScanner

VARIABLE blind           \* history: a read of a lookahead has failed

vars == <<scan, adts, batch, cancelled, pc, published, blind>>

Init == BatchInit /\ ScannerInit /\ PublisherInit /\ blind = FALSE

AnalyzeBatch == BeginBatch /\ UNCHANGED <<adts, blind>>

ScanStep ==
  /\ EnterScan \/ ScanFrame
  /\ blind' = (blind \/ failedRead')
  /\ UNCHANGED published

(* publishRecord() for each frame, and the end of analyzeBatch(). *)
Publish == PublishStep /\ UNCHANGED <<adts, blind>>

ResumeAfterCancellation == Resume /\ UNCHANGED <<adts, blind>>

Cancel == RequestCancellation /\ UNCHANGED <<adts, blind>>

CallStep == ScanStep \/ Publish

Next == AnalyzeBatch \/ CallStep \/ ResumeAfterCancellation \/ Cancel

Spec == Init /\ [][Next]_vars

-----------------------------------------------------------------------------
(* Properties *)

(* Every variable keeps its shape; a batch stays within its limits, which  *)
(* are the caller's; the root's children are the located frames.           *)
TypeOK ==
  /\ PublisherTypeOK
  /\ cursor \in 0..Size /\ inspectedBytes \in Nat
  /\ <<inSync, finished, failedRead, blind>> \in [1..4 -> BOOLEAN]
  /\ finished => cursor = Size

(* Wherever batches end and however often the analysis is cancelled and    *)
(* resumed, what is published is the enumeration of the stream that an     *)
(* uninterrupted scan gives, with gaps only behind cancelled frames; as    *)
(* long as no lookahead has failed.                                        *)
FramesAsEnumerated == blind \/ GapsOnlyBehindCancelledOf(Frames)

=============================================================================
