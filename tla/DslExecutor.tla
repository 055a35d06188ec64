---------------------------- MODULE DslExecutor ----------------------------
(***************************************************************************)
(* What one call of DslExecutor::decodeStruct does to the analysis tree,   *)
(* without the byte code: the structure node is appended below the parent, *)
(* then the lazy region the structure declares, if any; a failure stops    *)
(* in between and marks the structure, or the parent when there is no      *)
(* structure yet.  A box is what the source holds at one place: its form   *)
(* ("leaf", "table" with a window of entries, "container" with boxes       *)
(* inside), and the boxes or the number of entries within.                 *)
(***************************************************************************)
EXTENDS AnalysisTree, FiniteSets

(* Failures that condemn the piece of source, not the analysis. *)
ContentFailures == {"InvalidSyntax", "DependencyUnavailable", "Unsupported"}

Statuses == {"Materialized", "Cancelled", "ResourceLimit", "SourceError",
             "InvalidDefinition"} \cup ContentFailures

(* Nodes a structure consists of: itself and the region it may declare. *)
Parts(box) == IF box.form = "leaf" THEN 1 ELSE 2

PartialState(status) ==
  CASE status = "Cancelled"             -> "Cancelled"
    [] status = "DependencyUnavailable" -> "WaitingDependency"
    [] status = "Unsupported"           -> "Unsupported"
    [] OTHER                            -> "Invalid"

(* The ways a call can end, given whether cancellation was requested and   *)
(* how many nodes the budget has left: the status and the nodes created.   *)
(* A requested cancellation is seen on entry or, asked meanwhile, at a     *)
(* later check; the instruction budget can run out anywhere.               *)
Executions(t, parent, box, cancelled, budget) ==
  LET most == IF budget < Parts(box) THEN budget ELSE Parts(box)
      Partly(statuses, least) ==
        {[status |-> s, made |-> m] : s \in statuses, m \in least..most}
  IN  IF ~CanAppend(t, parent)
      THEN {[status |-> "InvalidDefinition", made |-> 0]}
      ELSE IF cancelled
      THEN Partly({"Cancelled"}, 0)
      ELSE Partly({"ResourceLimit"}, 0)
           \cup Partly({"SourceError"} \cup ContentFailures, 1)
           \cup {[status |-> "InvalidDefinition", made |-> 0]}
           \cup {[status |-> "Materialized", made |-> Parts(box)]
                   : n \in {Parts(box)} \cap 1..budget}

(* The region a structure declares: bounds known, contents not requested. *)
RegionOf(t, structure, box) ==
  AppendChild(t, structure, IF box.form = "table" THEN "window" ELSE "container",
              "Lazy", 0, box.room)

(* The tree after the call, tag being the index in the structure's name. *)
Decoded(t, parent, box, o, tag) ==
  LET structure == Len(t) + 1
      begun     == AppendChild(t, parent, "structure", "Indexing", tag, 0)
      grown     == IF o.made = 2 THEN RegionOf(begun, structure, box) ELSE begun
  IN  IF o.made = 0
      THEN IF o.status = "InvalidDefinition" THEN t
           ELSE MarkPartial(t, parent, PartialState(o.status), o.status)
      ELSE IF o.status = "Materialized"
      THEN Transition(grown, structure, "Materialized")
      ELSE MarkPartial(grown, structure, PartialState(o.status), o.status)

=============================================================================
