--------------------------- MODULE WavRiffAnalyzer ---------------------------
(***************************************************************************)
(* rules/wav_riff_analyzer.cpp: the records of a RIFF file, published.     *)
(***************************************************************************)
EXTENDS RecordPublisher, RiffChunkScanner

vars == <<scan, riff, batch, cancelled, pc, published>>

Init == BatchInit /\ ScannerInit /\ PublisherInit

AnalyzeBatch == BeginBatch /\ UNCHANGED riff

ScanStep == (EnterScan \/ ScanChunk) /\ UNCHANGED published

(* publishRecord() for each record, and the end of analyzeBatch(). *)
Publish == PublishStep /\ UNCHANGED riff

ResumeAfterCancellation == Resume /\ UNCHANGED riff

Cancel == RequestCancellation /\ UNCHANGED riff

CallStep == ScanStep \/ Publish

Next == AnalyzeBatch \/ CallStep \/ ResumeAfterCancellation \/ Cancel

Spec == Init /\ [][Next]_vars

(* A call returns; the host polls analyzeBatch until it is finished. *)
FairSpec == Spec /\ WF_vars(CallStep) /\ WF_vars(AnalyzeBatch)

-----------------------------------------------------------------------------
(* Properties *)

(* Every variable keeps its shape; a batch stays within its limits, which  *)
(* are the caller's; the root's children are the located records.          *)
TypeOK ==
  /\ PublisherTypeOK
  /\ framed \in 0..file.records /\ finished \in BOOLEAN
  /\ \A k \in DOMAIN batch : batch[k] \in 0..(framed - 1)

Records == [k \in 1..file.records |-> k - 1]

(* However often it is cancelled and resumed, the analysis publishes no    *)
(* record twice and none before an earlier one; and it skips records only  *)
(* behind one whose decoding was cancelled.                                *)
GapsOnlyBehindCancelled == GapsOnlyBehindCancelledOf(Records)

(* Nothing is left looking as if it were still being worked on: between    *)
(* calls every published record has been settled, and a record is shown as *)
(* cancelled only if a cancellation was really asked for, so there are no  *)
(* more of those than requests.                                            *)
RecordsSettled ==
  pc = "idle" =>
    /\ \A k \in DOMAIN spans : RecordState(k) \notin Active
    /\ Cardinality({k \in DOMAIN spans : RecordState(k) = "Cancelled"}) <= cancels

(* Polled until finished, an analysis finishes, also after every resume.   *)
AnalysisEnds == []<>Terminated

(* docs/adr/0115 promises the recovery of ADR-0027, which "continues with  *)
(* the next queued or unscanned record": an analysis that says Complete,   *)
(* cancelled and resumed or not, has every record of the file in its tree. *)
EveryRecordPublished == status = "Complete" => spans = Records

=============================================================================
