---------------------------- MODULE MCPagedCache ----------------------------
(* Two instances contending for one database, two namespaces, two pages;   *)
(* batches of one and of two pages that overwrite each other.              *)
EXTENDS PagedCache, TLC

CONSTANTS o1, o2, n1, n2, k1, k2, v1, v2

MCOwners     == {o1, o2}
MCNamespaces == {n1, n2}
MCKeys       == {k1, k2}
MCValues     == {v1, v2}
MCBatches    == {(k1 :> v1), (k1 :> v2 @@ k2 :> v2)}

OwnersAndSpaces == Permutations(MCOwners) \cup Permutations(MCNamespaces)
=============================================================================
