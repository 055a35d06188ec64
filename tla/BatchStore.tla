----------------------------- MODULE BatchStore -----------------------------
(***************************************************************************)
(* What PagedCache promises about commitBatch: a batch becomes visible in  *)
(* its namespace as a whole, at the moment the call succeeds; a call that  *)
(* fails, or whose process dies, changes no page.  PagedCache implements   *)
(* this module.                                                            *)
(***************************************************************************)
EXTENDS PageStore

CONSTANTS Owners,      \* cache instances
          Namespaces,
          Batches,     \* the page sets they commit
          Idle         \* an owner that is not inside commitBatch

VARIABLES pages,       \* [Namespaces -> [Keys -> Stored]]
          call         \* [Owners -> Idle or the batch being committed and where]

vars == <<pages, call>>

Calls == [space : Namespaces, batch : Batches]

Init == /\ pages \in [Namespaces -> [Keys -> Stored]]
        /\ call = [p \in Owners |-> Idle]

Begin(p) == /\ call[p] = Idle
            /\ \E c \in Calls : call' = [call EXCEPT ![p] = c]
            /\ UNCHANGED pages

Succeed(p) == /\ call[p] # Idle
              /\ pages' = [pages EXCEPT ![call[p].space] =
                             Overwrite(@, call[p].batch)]
              /\ call' = [call EXCEPT ![p] = Idle]

(* A storage error, or the death of the process.                           *)
Fail(p) == /\ call[p] # Idle
           /\ call' = [call EXCEPT ![p] = Idle]
           /\ UNCHANGED pages

Next == \E p \in Owners : Begin(p) \/ Succeed(p) \/ Fail(p)

Spec == Init /\ [][Next]_vars
=============================================================================
