---------------------------- MODULE CacheService ----------------------------
(***************************************************************************)
(* What the analysis cache promises its callers, without threads, queues   *)
(* or condition variables: requests are admitted into one log, performed   *)
(* against the page store one at a time in the order of their admission,   *)
(* and answered in that order.  Once the service stops admitting it still  *)
(* performs and answers everything it admitted; only then does it close.   *)
(* AnalysisCacheOwner implements this module.                              *)
(***************************************************************************)
EXTENDS Naturals, Sequences, PageStore

CONSTANT Requests               \* the requests callers make, a part of Request

VARIABLES phase,      \* "starting", "admitting", "draining" or "closed"
          log,        \* every admitted request with its reply, in order
          performed,  \* how many of them the store has carried out
          inHand,     \* the reply of the request performed but not answered
          store       \* the pages: [Keys -> Stored]

vars == <<phase, log, performed, inHand, store>>

(* Number of requests whose reply the caller can see. *)
Answered == IF inHand = Pending THEN performed ELSE performed - 1

Init == /\ phase = "starting"
        /\ log = <<>>
        /\ performed = 0
        /\ inHand = Pending
        /\ store \in [Keys -> Stored]

Start == /\ phase = "starting"
         /\ phase' \in {"admitting", "closed"}
         /\ UNCHANGED <<log, performed, inHand, store>>

(* An admitted request without its reply. *)
Entry(r) == [request |-> r, reply |-> Pending]

Admit == /\ phase = "admitting"
         /\ \E r \in Requests : log' = Append(log, Entry(r))
         /\ UNCHANGED <<phase, performed, inHand, store>>

(* The next request in line meets the store; the outcome is the store's.   *)
Perform == /\ phase \in {"admitting", "draining"}
           /\ inHand = Pending
           /\ performed < Len(log)
           /\ performed' = performed + 1
           /\ \E o \in Outcomes(log[performed + 1].request, store) :
                 /\ inHand' = o.reply
                 /\ store' = o.store
           /\ UNCHANGED <<phase, log>>

Answer == /\ inHand # Pending
          /\ log' = [log EXCEPT ![performed].reply = inHand]
          /\ inHand' = Pending
          /\ UNCHANGED <<phase, performed, store>>

StopAdmitting == /\ phase = "admitting"
                 /\ phase' = "draining"
                 /\ UNCHANGED <<log, performed, inHand, store>>

Close == /\ phase = "draining"
         /\ Answered = Len(log)
         /\ phase' = "closed"
         /\ UNCHANGED <<log, performed, inHand, store>>

Next == Start \/ Admit \/ Perform \/ Answer \/ StopAdmitting \/ Close

Spec == Init /\ [][Next]_vars
=============================================================================
