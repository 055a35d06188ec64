------------------------------ MODULE BatchScan ------------------------------
(***************************************************************************)
(* What the record scanners of src/rules have in common: a batch is filled *)
(* by one call, within two limits of the caller, and handed to the         *)
(* analyzer that called together with how the scan ended.                  *)
(***************************************************************************)
EXTENDS Naturals, Sequences

CONSTANTS Files,         \* the sources that may be analyzed
          MaxRecords,    \* records a batch holds at most
          MaxInspected   \* positions a batch looks at at most

ASSUME BatchAssumption == {MaxRecords, MaxInspected} \subseteq Nat \ {0}

VARIABLES file,          \* the source; never changes
          inspected,     \* inspectedPositions, of this batch
          batch,         \* records of the batch being scanned or published
          scanStatus,    \* status of the last scan
          cancelled,     \* whether cancellation of the present token is asked
          pc             \* where the analyzing thread stands; "idle": in no call

ScanStatuses == {"none", "InProgress", "Complete", "Cancelled", "SourceError"}

BatchInit == /\ file \in Files
             /\ inspected = 0 /\ batch = <<>> /\ scanStatus = "none"
             /\ cancelled = FALSE /\ pc = "idle"

(* Mutant: the account of the last batch is carried on. *)
InspectedAtStart_Carried == inspected

(* A batch starts with an empty account of inspected positions. *)
InspectedAtStart == 0

(* Mutant: one position too many. *)
HasRoom_Inclusive == Len(batch) < MaxRecords /\ inspected <= MaxInspected

(* The loop condition of every scanBatch(). *)
HasRoom == Len(batch) < MaxRecords /\ inspected < MaxInspected

=============================================================================
