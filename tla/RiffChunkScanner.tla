--------------------------- MODULE RiffChunkScanner ---------------------------
(***************************************************************************)
(* rules/riff_chunk_scanner.cpp: a RIFF file is walked chunk by chunk, in  *)
(* batches.  Record 0 is the form header, the others are the chunks; a     *)
(* file that is no RIFF form has no records.  A file may end in a few      *)
(* bytes that cannot hold a chunk.  Chunk sizes and spans are left out: a  *)
(* position is the number of records framed so far.                        *)
(***************************************************************************)
EXTENDS BatchScan

(* A file: how many records it holds, and whether trailing bytes follow.   *)
ASSUME RiffAssumption == Files \subseteq [records : Nat, trailing : BOOLEAN]

VARIABLES framed,        \* cursor_: records framed so far
          finished       \* finished_

riff == <<framed, finished>>

ScannerInit == framed = 0 /\ finished = FALSE

ScanReturns(s) == /\ scanStatus' = s
                  /\ finished' = (s = "Complete")
                  /\ pc' = "scanned"

ScanGoesOn == pc' = "scan" /\ UNCHANGED <<scanStatus, finished>>

(* The next record of the file joins the batch; the last one ends the scan *)
(* unless trailing bytes remain to be looked at.                           *)
Frame == /\ batch' = Append(batch, framed)
         /\ framed' = framed + 1
         /\ IF framed + 1 = file.records /\ ~file.trailing
            THEN ScanReturns("Complete") ELSE ScanGoesOn

FrameNothing == UNCHANGED <<batch, framed>>

(* The head of scanBatch(): a finished scan is complete whatever has been  *)
(* requested; otherwise cancellation is looked for; the first call reads   *)
(* the form header, which is the first record.                             *)
EnterScan ==
  /\ pc = "enter"
  /\ inspected' = InspectedAtStart
  /\ \/ finished /\ ScanReturns("Complete") /\ FrameNothing
     \/ ~finished /\ cancelled /\ ScanReturns("Cancelled") /\ FrameNothing
     \/ ~finished /\ ~cancelled /\ framed > 0 /\ ScanGoesOn /\ FrameNothing
     \/ /\ ~finished /\ ~cancelled /\ framed = 0
        /\ \/ ScanReturns("SourceError") /\ FrameNothing
           \/ file.records = 0 /\ ScanReturns("Complete") /\ FrameNothing
           \/ file.records > 0 /\ Frame
  /\ UNCHANGED <<file, cancelled>>

(* One turn of the loop: cancellation is polled before every chunk; bytes  *)
(* too few for a chunk end the walk and are not counted as inspected.      *)
ScanChunk ==
  /\ pc = "scan"
  /\ \/ /\ \/ ~HasRoom /\ ScanReturns("InProgress")
           \/ HasRoom /\ cancelled /\ ScanReturns("Cancelled")
           \/ HasRoom /\ ~cancelled /\ framed = file.records /\ ScanReturns("Complete")
        /\ FrameNothing /\ UNCHANGED inspected
     \/ /\ HasRoom /\ ~cancelled /\ framed < file.records
        /\ inspected' = inspected + 1
        /\ \/ ScanReturns("SourceError") /\ FrameNothing
           \/ Frame
  /\ UNCHANGED <<file, cancelled>>

=============================================================================
