---------------------------- MODULE PublishedTree ----------------------------
(***************************************************************************)
(* What whoever looks at an analysis tree between two calls of its         *)
(* analyzer may rely on: the tree only grows, an identifier once seen      *)
(* keeps naming the same node, children are only added behind the ones     *)
(* already seen, and a terminal node never changes its state again.  The   *)
(* tree views and the cache pages are built on this.                       *)
(***************************************************************************)
EXTENDS AnalysisTree

VARIABLE visible    \* the tree as it was when the analyzer last returned

CanMove(from, to) == \/ from = to
                     \/ from \notin Terminal /\ to # "Lazy"

(* A later sighting of the same node. *)
SameNode(old, new) ==
  /\ <<new.parent, new.kind, new.tag, new.room>> =
     <<old.parent, old.kind, old.tag, old.room>>
  /\ CanMove(old.state, new.state)
  /\ Len(old.children) <= Len(new.children)
  /\ SubSeq(new.children, 1, Len(old.children)) = old.children

Grows(old, new) ==
  /\ Len(old) <= Len(new)
  /\ \A i \in DOMAIN old : SameNode(old[i], new[i])
  /\ WellLinked(new)

Spec == visible = NewTree /\ [][Grows(visible, visible')]_visible

=============================================================================
