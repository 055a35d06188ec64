------------------------ MODULE MCAnalysisCacheOwner ------------------------
(* A small instance of AnalysisCacheOwner: two client threads and one page *)
(* with two contents; one write fills half of the retained-byte budget,    *)
(* the other all of it, and a read retains nothing.                        *)
EXTENDS AnalysisCacheOwner, TLC

CONSTANTS c1, c2, k1, v1, v2

MCClients == {c1, c2}
MCKeys    == {k1}
MCValues  == {v1, v2}

SmallWrite == [op |-> "write", pages |-> (k1 :> v1)]
LargeWrite == [op |-> "write", pages |-> (k1 :> v2)]
ReadPage   == [op |-> "read", key |-> k1]

MCRequests == {SmallWrite, LargeWrite, ReadPage}
MCBytes    == (SmallWrite :> 1) @@ (LargeWrite :> 2) @@ (ReadPage :> 0)
=============================================================================
