---------------------------- MODULE AnalysisTree ----------------------------
(***************************************************************************)
(* The analysis tree of core/analysis_model.cpp as a value.  A tree is the *)
(* sequence of its nodes; an identifier is a position in it, 1 is the root.*)
(* A node keeps its parent, its kind, its materialization state, the       *)
(* identifiers of its children, the codes of its diagnostics, and two      *)
(* fields standing for names and metadata: "tag", the index in the node's  *)
(* name, and "room", the number of entries a window has space for.         *)
(* Names, values, locations and messages are left out.                     *)
(***************************************************************************)
EXTENDS Naturals, Sequences

Active   == {"Lazy", "Indexing", "WaitingDependency"}
Terminal == {"Unsupported", "Invalid", "Materialized"}
States   == Active \cup Terminal \cup {"Cancelled"}

Kinds == {"root", "box", "record", "structure", "container", "window",
          "nal", "rbsp", "framing", "sample", "unit", "header", "payload",
          "field"}

Codes == {"Cancelled", "ResourceLimit", "SourceError", "InvalidSyntax",
          "DependencyUnavailable", "InvalidDefinition", "Unsupported"}

Node == [parent: Nat, kind: Kinds, state: States, children: Seq(Nat),
         codes: SUBSET Codes, tag: Nat, room: Nat]

NewNode(parent, kind, state, tag, room) ==
  [parent |-> parent, kind |-> kind, state |-> state, children |-> <<>>,
   codes |-> {}, tag |-> tag, room |-> room]

(* AnalysisTree::create: a tree is born with an indexing root. *)
RootId == 1
NewTree == <<NewNode(0, "root", "Indexing", 0, 0)>>

CanTransition(from, to) ==
  \/ from = to
  \/ from \in Active /\ to # "Lazy"
  \/ from = "Cancelled" /\ to = "Indexing"

(* transition(): a refused transition leaves the tree alone. *)
Transition(t, id, to) ==
  IF CanTransition(t[id].state, to) THEN [t EXCEPT ![id].state = to] ELSE t

(* Children are accepted only by a node that is being indexed. *)
CanAppend(t, parent) ==
  /\ parent \in DOMAIN t
  /\ t[parent].state = "Indexing"

(* appendChild(): the next identifier is the next free position. *)
AppendChild(t, parent, kind, state, tag, room) ==
  Append([t EXCEPT ![parent].children = Append(@, Len(t) + 1)],
         NewNode(parent, kind, state, tag, room))

(* markPartial(): the state changes first; the diagnostic needs it to. *)
MarkPartial(t, id, state, code) ==
  IF CanTransition(t[id].state, state)
  THEN [t EXCEPT ![id].state = state, ![id].codes = @ \cup {code}]
  ELSE t

(* addDiagnostic(): in whatever state the node is. *)
AddDiagnostic(t, id, code) == [t EXCEPT ![id].codes = @ \cup {code}]

(* resumeCancelled(): a cancelled node only; its own Cancelled diagnostics *)
(* go, those of its descendants stay.                                      *)
ResumeCancelled(t, id) ==
  IF t[id].state = "Cancelled"
  THEN [t EXCEPT ![id].state = "Indexing", ![id].codes = @ \ {"Cancelled"}]
  ELSE t

-----------------------------------------------------------------------------
(* snapshot() copies one node only; restore() cuts the tree back to its    *)
(* length and puts that node back.  Whatever was appended below any other  *)
(* old node leaves that node's children behind.                            *)

Snapshot(t, preserved) ==
  [count |-> Len(t), preserved |-> preserved, node |-> t[preserved]]

Restore(t, s) == [SubSeq(t, 1, s.count) EXCEPT ![s.preserved] = s.node]

-----------------------------------------------------------------------------
(* A tree whose links agree: every node but the root is the child of an    *)
(* older node, which lists it exactly once and lists nothing else.         *)

Positions(t, i) == {k \in DOMAIN t[t[i].parent].children :
                      t[t[i].parent].children[k] = i}

WellLinked(t) ==
  /\ Len(t) >= 1 /\ t[RootId].parent = 0
  /\ \A i \in DOMAIN t \ {RootId} :
       /\ t[i].parent \in 1..(i - 1)
       /\ \E k \in Positions(t, i) : Positions(t, i) = {k}
  /\ \A i \in DOMAIN t : \A k \in DOMAIN t[i].children :
       /\ t[i].children[k] \in DOMAIN t
       /\ t[t[i].children[k]].parent = i

=============================================================================
