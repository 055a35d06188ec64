---------------------------- MODULE AacAdtsScanner ----------------------------
(***************************************************************************)
(* rules/aac_adts_scanner.cpp: ADTS frames are enumerated by following the *)
(* length each header declares; where no header follows, the scanner goes  *)
(* on byte by byte until it finds a header whose successors confirm it.    *)
(*                                                                         *)
(* A file says of each position which frame length a header there would    *)
(* declare, 0 where there is no syncword.  Headers with a CRC, which are   *)
(* longer, are left out.                                                   *)
(***************************************************************************)
EXTENDS BatchScan, FiniteSetsExt

CONSTANTS HeaderLength,  \* bytes of a header (7)
          PollEvery      \* inspected bytes between two looks at the token (1024)

ASSUME AdtsAssumption ==
  /\ Files \subseteq Seq(Nat)
  /\ {HeaderLength, PollEvery} \subseteq Nat \ {0}

VARIABLES cursor,        \* cursor_
          inspectedBytes,
          inSync,
          finished,
          failedRead     \* errorMessage of scanBatch() is not empty

adts == <<cursor, inspectedBytes, inSync, finished, failedRead>>

ScannerInit == /\ cursor = 0 /\ inspectedBytes = 0
               /\ inSync = TRUE /\ finished = FALSE /\ failedRead = FALSE

Size == Len(file)

FrameLength(p) == file[p + 1]

HasSyncword(p) == p < Size /\ FrameLength(p) > 0

(* parseHeaderAt(): all of the header is in the file, and its frame is at  *)
(* least as long as itself.                                                *)
HasHeader(p) == /\ p + HeaderLength <= Size
                /\ HasSyncword(p) /\ FrameLength(p) >= HeaderLength

(* The two bytes of a syncword; a file that ends before them refutes none. *)
MayHaveSyncword(p) == p + 1 < Size => HasSyncword(p)

(* verifyLookahead() when every read succeeds: the next frame has a header *)
(* and the one after it a syncword, as far as the file goes.               *)
Confirmed(p) ==
  LET next == p + FrameLength(p) IN
  next < Size =>
    IF next + HeaderLength > Size THEN MayHaveSyncword(next)
    ELSE HasHeader(next) /\ MayHaveSyncword(next + FrameLength(next))

(* verifyLookahead() with the reads it may need, any of which may fail: a  *)
(* failure in the next header refutes, one in a syncword confirms.         *)
Lookaheads(p) ==
  LET next == p + FrameLength(p)
      whole == next + HeaderLength <= Size
      afterNext == next + FrameLength(next)
      answers(holds, failed) == [holds |-> holds, failed |-> failed]
  IN  {answers(Confirmed(p), FALSE)}
      \cup {answers(FALSE, TRUE) : x \in {TRUE} \cap {next < Size /\ whole}}
      \cup {answers(TRUE, TRUE) : x \in {TRUE} \cap
              {next < Size /\ (whole => HasHeader(next) /\ afterNext < Size)}}

(* makeRecord(). *)
MakeRecord(p) == [at |-> p, length |-> FrameLength(p),
                  truncated |-> p + FrameLength(p) > Size]

FrameEnd(r) == r.at + r.length

-----------------------------------------------------------------------------
ScanReturns(s) == /\ scanStatus' = s /\ pc' = "scanned"
                  /\ finished' = (s = "Complete")

ScanGoesOn == pc' = "scan" /\ UNCHANGED <<scanStatus, finished>>

(* The head of scanBatch().  The token is not looked at here.              *)
EnterScan ==
  /\ pc = "enter"
  /\ inspected' = InspectedAtStart /\ failedRead' = FALSE
  /\ IF finished THEN ScanReturns("Complete") ELSE ScanGoesOn
  /\ UNCHANGED <<file, cancelled, batch, cursor, inspectedBytes, inSync>>

PollsToken == inspectedBytes % PollEvery = 0

(* The loop ends; what was read is returned whatever a lookahead said.     *)
ScanStops ==
  /\ \/ ~HasRoom /\ ScanReturns("InProgress")
     \/ HasRoom /\ cancelled /\ PollsToken /\ ScanReturns("Cancelled")
     \/ /\ HasRoom /\ ~(cancelled /\ PollsToken)
        /\ \/ cursor >= Size /\ ScanReturns("Complete")
           \/ cursor < Size /\ ScanReturns("SourceError")
  /\ UNCHANGED <<batch, cursor, inspectedBytes, inspected, inSync, failedRead>>

(* A frame joins the batch and the next one is expected at its end.        *)
EmitFrame ==
  /\ batch' = Append(batch, MakeRecord(cursor))
  /\ inspectedBytes' = inspectedBytes + HeaderLength
  /\ inspected' = inspected + 1
  /\ inSync' = TRUE
  /\ IF cursor + FrameLength(cursor) >= Size
     THEN cursor' = Size /\ ScanReturns("Complete")
     ELSE cursor' = cursor + FrameLength(cursor) /\ ScanGoesOn

(* Mutant: a byte skipped in search of a header keeps what was believed.   *)
SyncAfterSkip_Kept == inSync

SyncAfterSkip == FALSE

SkipByte ==
  /\ inSync' = SyncAfterSkip
  /\ cursor' = cursor + 1
  /\ inspectedBytes' = inspectedBytes + 1
  /\ inspected' = inspected + 1
  /\ ScanGoesOn /\ UNCHANGED batch

(* One position.  A read that failed in the lookahead before ends the scan *)
(* at the next position, if this call comes to it.                         *)
ScanPosition ==
  /\ HasRoom /\ ~(cancelled /\ PollsToken) /\ cursor < Size /\ ~failedRead
  /\ \/ inSync /\ HasHeader(cursor) /\ EmitFrame /\ UNCHANGED failedRead
     \/ ~HasHeader(cursor) /\ SkipByte /\ UNCHANGED failedRead
     \/ /\ ~inSync /\ HasHeader(cursor)
        /\ \E answer \in Lookaheads(cursor) :
             /\ failedRead' = answer.failed
             /\ IF answer.holds THEN EmitFrame ELSE SkipByte

ScanFrame == /\ pc = "scan"
             /\ ScanStops \/ ScanPosition
             /\ UNCHANGED <<file, cancelled>>

-----------------------------------------------------------------------------
(* What the records are to be, independently of batches and of reads that  *)
(* fail: the next frame is where the last one ends, or where the first     *)
(* confirmed header behind that is.                                        *)

NextFrames(p) ==
  IF HasHeader(p) THEN {p}
  ELSE LET found == {q \in (p + 1)..(Size - 1) : HasHeader(q) /\ Confirmed(q)}
       IN  IF found = {} THEN {} ELSE {Min(found)}

FramesFrom ==
  LET frames[p \in 0..Size] ==
        IF NextFrames(p) = {} THEN <<>>
        ELSE LET r == MakeRecord(Min(NextFrames(p)))
             IN  <<r>> \o IF FrameEnd(r) < Size THEN frames[FrameEnd(r)] ELSE <<>>
  IN  frames

Frames == FramesFrom[0]

=============================================================================
