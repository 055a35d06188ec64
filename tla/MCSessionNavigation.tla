------------------------ MODULE MCSessionNavigation ------------------------
(* A track whose container configures parameter sets, with samples that    *)
(* redefine one of them, add one that depends on it, and use them; and an  *)
(* opaque track.  One child format of the container.                       *)
EXTENDS SessionNavigation

Sps(n) == [kind |-> "sps", value |-> n]
Pps(n) == [kind |-> "pps", value |-> n]

Sound(from, imports, publishes, deps, values) ==
  [from |-> from, to |-> from + 1, header |-> TRUE, selects |-> "payload",
   maps |-> TRUE, payload |-> TRUE, imports |-> imports, publishes |-> publishes,
   deps |-> deps, values |-> values]

SpsUnit(from, values) == Sound(from, <<>>, Sps(0), <<>>, values)
PpsUnit(from, values) == Sound(from, <<>>, Pps(0), <<Sps(0)>>, values)
Slice(from) == Sound(from, <<Pps(0)>>, NoKey, <<>>, 0)
Sei(from) == Sound(from, <<[kind |-> "sps", value |-> AnyValue]>>, NoKey, <<>>, 0)
Delimiter(from) == [Sound(from, <<>>, NoKey, <<>>, 0) EXCEPT !.selects = "nothing"]
Unknown(from) == [Sound(from, <<>>, NoKey, <<>>, 0) EXCEPT !.selects = "unhandled"]
Broken(from) == [Slice(from) EXCEPT !.payload = FALSE]

Sample(units) == [units |-> units, defect |-> FALSE]

Video ==
  [prefixed |-> TRUE, configured |-> TRUE, config |-> <<SpsUnit(20, 1), PpsUnit(21, 1)>>,
   samples |-> <<Sample(<<SpsUnit(1, 2)>>),
                 Sample(<<Unknown(3), PpsUnit(4, 2)>>),
                 Sample(<<Slice(5), Broken(6)>>),
                 Sample(<<Delimiter(7), SpsUnit(8, 2), Sei(9)>>),
                 [Sample(<<Slice(10)>>) EXCEPT !.defect = TRUE]>>]

Audio ==
  [prefixed |-> FALSE, configured |-> TRUE, config |-> <<>>,
   samples |-> <<Sample(<<>>)>>]

MCTracks == "video" :> Video @@ "audio" :> Audio

MCChildren == {[format |-> "nal", node |-> 2, unit |-> SpsUnit(20, 1)]}

=============================================================================
