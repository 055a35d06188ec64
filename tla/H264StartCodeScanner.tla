------------------------ MODULE H264StartCodeScanner ------------------------
(***************************************************************************)
(* rules/h264_start_code_scanner.cpp: a byte stream is searched for start  *)
(* codes, in batches, one position at a time.  A NAL unit reaches to the   *)
(* next start code or the end; the zero bytes at its end are framing.      *)
(* A start code of three or four bytes is one position here; bytes are     *)
(* told apart only as far as the scanner does outside a start code.        *)
(***************************************************************************)
EXTENDS BatchScan

CONSTANT PollEvery       \* positions between two looks at the token (1024)

ByteKinds == {"code", "byte", "zero"}

ASSUME ScannerAssumption ==
  /\ Files \subseteq Seq(ByteKinds)
  /\ PollEvery \in Nat \ {0}

VARIABLES cursor,        \* cursor_, and inspectedBytes_, which moves with it
          pending,       \* the start code of the NAL unit being scanned; 0: none
          zeros          \* pendingTrailingZero8BitsLength_

ScannerInit == BatchInit /\ cursor = 0 /\ pending = 0 /\ zeros = 0

(* makeRecord(): a NAL unit by its start code, its last position, framing  *)
(* included, and how many of those positions are trailing zeros.           *)
MakeRecord(code, end, trailing) == [code |-> code, end |-> end, zeros |-> trailing]

NalLength(r) == r.end - r.code - r.zeros

ScanReturns(s) == /\ scanStatus' = s /\ pc' = "scanned"
                  /\ UNCHANGED <<cursor, pending, zeros, inspected>>

PollsToken == cursor % PollEvery = 0

(* The end of the source closes the NAL unit being scanned. *)
ScanEnd ==
  /\ batch' = IF pending = 0 THEN batch
              ELSE Append(batch, MakeRecord(pending, Len(file), zeros))
  /\ pending' = 0 /\ zeros' = 0
  /\ scanStatus' = "Complete" /\ pc' = "scanned"
  /\ UNCHANGED <<cursor, inspected>>

Found == file[cursor + 1]

(* A zero may be framing; any other byte makes it payload again. *)
ZerosAfter_Kept == IF Found = "zero" THEN zeros + 1 ELSE zeros

ZerosAfter == IF Found = "zero" THEN zeros + 1 ELSE 0

ScanNext ==
  /\ cursor' = cursor + 1 /\ inspected' = inspected + 1
  /\ \/ /\ Found = "code"
        /\ batch' = IF pending = 0 THEN batch
                    ELSE Append(batch, MakeRecord(pending, cursor, zeros))
        /\ pending' = cursor + 1 /\ zeros' = 0
     \/ /\ Found # "code" /\ pending # 0
        /\ zeros' = ZerosAfter /\ UNCHANGED <<batch, pending>>
     \/ /\ Found # "code" /\ pending = 0
        /\ UNCHANGED <<batch, pending, zeros>>
  /\ UNCHANGED <<scanStatus, pc>>

(* One turn of the loop of scanBatch().  Any read may fail. *)
ScanPosition ==
  /\ pc = "scan"
  /\ \/ ~HasRoom /\ ScanReturns("InProgress") /\ UNCHANGED batch
     \/ /\ HasRoom /\ cancelled /\ PollsToken
        /\ ScanReturns("Cancelled") /\ UNCHANGED batch
     \/ /\ HasRoom /\ ~(cancelled /\ PollsToken)
        /\ \/ cursor = Len(file) /\ ScanEnd
           \/ cursor < Len(file) /\ ScanReturns("SourceError") /\ UNCHANGED batch
           \/ cursor < Len(file) /\ ScanNext
  /\ UNCHANGED <<file, cancelled>>

-----------------------------------------------------------------------------
(* What the records are to be, independently of how they were found: the   *)
(* NAL units of the file from its first start code on, one after another.  *)

IsNalUnit(r) ==
  /\ file[r.code] = "code"
  /\ \A i \in (r.code + 1)..r.end : file[i] # "code"
  /\ \A i \in (r.end - r.zeros + 1)..r.end : file[i] = "zero"
  /\ NalLength(r) > 0 => file[r.end - r.zeros] # "zero"

AreFirstNalUnits(s) ==
  /\ \A k \in DOMAIN s : IsNalUnit(s[k])
  /\ s # <<>> => \A i \in 1..(s[1].code - 1) : file[i] # "code"
  /\ \A k \in 2..Len(s) : s[k].code = s[k - 1].end + 1

AreAllNalUnits(s) ==
  /\ AreFirstNalUnits(s)
  /\ IF s = <<>> THEN \A i \in DOMAIN file : file[i] # "code"
                 ELSE s[Len(s)].end = Len(file)

=============================================================================
