----------------------------- MODULE MCDslVm -----------------------------
(***************************************************************************)
(* Structures with each construct of the language, alone and nested, on    *)
(* every source of a few bits.  A byte has two bits and the widest value   *)
(* four.                                                                   *)
(***************************************************************************)
EXTENDS DslVm

CONSTANTS
  MCPrograms,     \* "Plain" or "Revisited"
  MaxBits         \* of a source

Constrained ==
  <<[Bits("a", 2) EXCEPT !.range = {<<1, 2>>}], [Bits("b", 1) EXCEPT !.equals = {1}],
    ComputedField("s", Binary("add", Reference("a"), Reference("b"))),
    Assertion(Binary("less", Literal(1), Reference("s")), "a"),
    [Bits("c", 2) EXCEPT !.values = {0, 1, 3}]>>
Branches ==
  <<Bits("k", 2), Switch("k", <<<<Bits("a", 1)>>, <<Bits("b", 2)>>>>, {<<Bits("d", 1)>>}),
    Bits("f", 1), Conditional("f", <<Bits("x", 1)>>, <<>>),
    ComputedField("y", Binary("sub", OptionalValue("x", Literal(0)),
                                     OptionalValue("a", Literal(1))))>>
Counted ==
  <<Bits("n", 2),
    CountedRepeat("n", 2, <<Bits("f", 1), Conditional("f", <<Bits("x", 1)>>, <<>>)>>),
    Bits("z", 1)>>
Terminated == <<SentinelRepeat("t", 2, <<Bits("t", 1), Bits("u", 1)>>), Bits("z", 1)>>
Messages == <<WhileRepeat(2, <<Bits("a", 1), Bits("b", 1)>>), RbspTrailingBits>>
Encoded ==
  <<ExpGolomb("u", "ue"), [ExpGolomb("s", "se") EXCEPT !.range = {<<-1, 1>>}], FfCoded("v", 2),
    ComputedField("q", Binary("div", Reference("v"), Reference("u")))>>
Lazy ==
  <<Bits("w", 2), LazyRegion("r", Binary("sub", State("bytes"), Literal(1))),
    DynamicBits("v", Reference("w")), Conditional("w", <<ExpGolomb("g", "ue")>>, <<>>),
    ComputedField("more", State("more")), Conditional("more", <<RbspTrailingBits>>, <<>>)>>
Regions ==
  <<Bits("n", 2), LazyRegion("r", Reference("n")), ComputedField("on", State("aligned")),
    CompressedPayload>>
Oversized == <<Bits("n", 4), LazyRegion("r", Reference("n"))>>
Stopped ==
  <<Bits("f", 1), Conditional("f", <<Bits("g", 1), UnsupportedAt("g")>>, <<>>), Bits("z", 1)>>
Nested ==
  <<Bits("n", 1),
    SentinelRepeat("t", 2, <<Bits("t", 1), CountedRepeat("n", 1, <<Bits("x", 1)>>)>>)>>
(* Rejected: a field of a branch used after it, a lazy region that may not *)
(* start at a byte, a loop of nothing.                                     *)
Escaping ==
  <<Bits("f", 1), Conditional("f", <<Bits("x", 1)>>, <<>>), ComputedField("y", Reference("x"))>>
Unaligned ==
  <<Bits("f", 1), Conditional("f", <<Bits("x", 1)>>, <<>>), LazyRegion("r", Literal(1))>>
Empty == <<Bits("n", 1), CountedRepeat("n", 1, <<>>)>>

(* A check at the first field of an iteration.                             *)
Revisited ==
  <<WhileRepeat(2, <<Bits("a", 1), Assertion(Binary("equal", Reference("a"), Literal(1)), "a"),
                     Bits("b", 1)>>),
    RbspTrailingBits>>

ProgramsOf ==
  IF MCPrograms = "Revisited" THEN <<Revisited>>
  ELSE <<Constrained, Branches, Counted, Terminated, Messages, Encoded, Lazy, Regions,
         Oversized, Stopped, Nested, Escaping, Unaligned, Empty>>

AllInputs ==
  {Input(bits, fault) :
     bits \in UNION {[1..n -> {0, 1}] : n \in 0..MaxBits}, fault \in {2, MaxBits}}
AllLimits ==
  {[nodes |-> 8, instructions |-> 40, interval |-> 3],
   [nodes |-> 4, instructions |-> 9, interval |-> 2]}

=============================================================================
