------------------------- MODULE AnalysisTree_proof -------------------------
(***************************************************************************)
(* What the operations of the analysis tree and the calls of the executor  *)
(* do to a tree, for every tree: the lemmas the proofs about the analyzers *)
(* rest on.  There is no state here, so nothing is temporal.               *)
(***************************************************************************)
EXTENDS DslExecutor, SequenceTheorems, FiniteSetTheorems, WellFoundedInduction, TLAPS

-----------------------------------------------------------------------------
(* A nonempty set of naturals has a least element: what stands in for      *)
(* induction, whose theorem takes an operator the provers cannot supply.   *)
LEMMA LeastNatural ==
  ASSUME NEW T \in SUBSET Nat, T # {}
  PROVE  \E x \in T : \A y \in T : x <= y
<1> DEFINE R == {ss \in Nat \X Nat : ss[1] < ss[2]}
<1>1. IsWellFoundedOn(R, Nat)
  BY NatLessThanWellFounded DEF OpToRel
<1>2. \E x \in T : \A y \in T : ~ (<<y, x>> \in R)
  <2> HIDE DEF R
  <2> QED BY <1>1, WFMin
<1>3. ASSUME NEW x \in T, NEW y \in T, ~ (<<y, x>> \in R)
      PROVE  x <= y
  <2>1. <<y, x>> \in Nat \X Nat /\ <<y, x>>[1] = y /\ <<y, x>>[2] = x
    OBVIOUS
  <2>2. ~ (y < x)
    BY <1>3, <2>1 DEF R
  <2> QED BY <2>2
<1> HIDE DEF R
<1> QED BY <1>2, <1>3

-----------------------------------------------------------------------------
(* Well-linked trees, with the links in first-order form. *)

Once(c, i) == \E k \in 1..Len(c) : /\ c[k] = i
                                   /\ \A m \in 1..Len(c) : c[m] = i => m = k

Linked(t) ==
  /\ Len(t) >= 1 /\ t[1].parent = 0
  /\ \A i \in 2..Len(t) : /\ t[i].parent \in 1..(i - 1)
                          /\ Once(t[t[i].parent].children, i)
  /\ \A i \in 1..Len(t) : \A k \in 1..Len(t[i].children) :
       /\ t[i].children[k] \in 1..Len(t)
       /\ t[t[i].children[k]].parent = i

Tree(t) == t \in Seq(Node) /\ WellLinked(t)

LEMMA NodeFields ==
  ASSUME NEW t \in Seq(Node), NEW i \in 1..Len(t)
  PROVE  /\ t[i] \in Node
         /\ t[i].parent \in Nat /\ t[i].state \in States
         /\ t[i].children \in Seq(Nat) /\ t[i].codes \in SUBSET Codes
         /\ DOMAIN t[i].children = 1..Len(t[i].children) /\ Len(t[i].children) \in Nat
<1>1. t[i] \in Node
  OBVIOUS
<1>2. /\ t[i].parent \in Nat /\ t[i].state \in States /\ t[i].children \in Seq(Nat)
      /\ t[i].codes \in SUBSET Codes
  BY <1>1 DEF Node
<1> QED BY <1>1, <1>2

LEMMA OnceIsPosition ==
  ASSUME NEW t \in Seq(Node), NEW i \in 1..Len(t), t[i].parent \in 1..Len(t)
  PROVE  (\E k \in Positions(t, i) : Positions(t, i) = {k})
         <=> Once(t[t[i].parent].children, i)
<1> DEFINE c == t[t[i].parent].children
<1>1. c \in Seq(Nat) /\ DOMAIN c = 1..Len(c)
  BY NodeFields
<1>2. Positions(t, i) = {k \in 1..Len(c) : c[k] = i}
  BY <1>1 DEF Positions
<1>3. Once(c, i) <=> \E k \in 1..Len(c) : /\ c[k] = i
                                         /\ \A m \in 1..Len(c) : c[m] = i => m = k
  BY DEF Once
<1> HIDE DEF c
<1>4. ASSUME Once(c, i)
      PROVE  \E k \in Positions(t, i) : Positions(t, i) = {k}
  BY <1>2, <1>3, <1>4
<1>5. ASSUME NEW k \in Positions(t, i), Positions(t, i) = {k}
      PROVE  Once(c, i)
  BY <1>2, <1>3, <1>5
<1> QED BY <1>4, <1>5 DEF c

LEMMA LinkedIsWellLinked ==
  ASSUME NEW t \in Seq(Node)
  PROVE  WellLinked(t) <=> Linked(t)
<1>1. DOMAIN t = 1..Len(t) /\ Len(t) \in Nat
  OBVIOUS
<1>2. \A i \in 1..Len(t) : DOMAIN t[i].children = 1..Len(t[i].children)
  BY NodeFields
<1>3. ASSUME WellLinked(t) PROVE Linked(t)
  <2>1. \A i \in 2..Len(t) : t[i].parent \in 1..(i - 1)
    BY <1>1, <1>3 DEF WellLinked, RootId
  <2>2. \A i \in 2..Len(t) : \E k \in Positions(t, i) : Positions(t, i) = {k}
    BY <1>1, <1>3 DEF WellLinked, RootId
  <2>3. \A i \in 2..Len(t) : i \in 1..Len(t) /\ t[i].parent \in 1..Len(t)
    BY <1>1, <2>1
  <2>4. \A i \in 2..Len(t) : Once(t[t[i].parent].children, i)
    BY <2>2, <2>3, OnceIsPosition
  <2> QED BY <1>1, <1>2, <1>3, <2>1, <2>4 DEF WellLinked, Linked, RootId
<1>4. ASSUME Linked(t) PROVE WellLinked(t)
  <2>1. \A i \in 2..Len(t) : t[i].parent \in 1..(i - 1)
    BY <1>4 DEF Linked
  <2>3. \A i \in 2..Len(t) : i \in 1..Len(t) /\ t[i].parent \in 1..Len(t)
    BY <1>1, <2>1
  <2>2. \A i \in 2..Len(t) : \E k \in Positions(t, i) : Positions(t, i) = {k}
    BY <1>4, <2>3, OnceIsPosition DEF Linked
  <2>4. DOMAIN t \ {RootId} = 2..Len(t)
    BY <1>1 DEF RootId
  <2> QED BY <1>1, <1>2, <1>4, <2>1, <2>2, <2>4 DEF WellLinked, Linked, RootId
<1> QED BY <1>3, <1>4

LEMMA Links ==
  ASSUME NEW t, Tree(t)
  PROVE  /\ t \in Seq(Node) /\ Len(t) \in Nat /\ Len(t) >= 1
         /\ RootId \in 1..Len(t) /\ DOMAIN t = 1..Len(t)
         /\ Linked(t)
  BY LinkedIsWellLinked DEF Tree, Linked, RootId

(* No node is the child of two nodes or twice the child of one, and the    *)
(* root is nobody's.                                                       *)
LEMMA ChildrenApart ==
  ASSUME NEW t, Tree(t), NEW i \in 1..Len(t),
         NEW j \in 1..Len(t[i].children), NEW k \in 1..Len(t[i].children)
  PROVE  /\ t[i].children[j] \in 2..Len(t)
         /\ t[i].children[j] = t[i].children[k] => j = k
<1> DEFINE c == t[i].children[j]
<1>1. Linked(t) /\ Len(t) \in Nat /\ Len(t) >= 1
  BY Links
<1>2. c \in 1..Len(t) /\ t[c].parent = i
  BY <1>1 DEF Linked
<1>3. c # 1
  BY <1>1, <1>2 DEF Linked
<1>4. c \in 2..Len(t)
  BY <1>1, <1>2, <1>3
<1>5. Once(t[i].children, c)
  BY <1>1, <1>2, <1>4 DEF Linked
<1> QED BY <1>4, <1>5 DEF Once

-----------------------------------------------------------------------------
(* Operations that leave the links alone. *)

(* u is t with another state and other codes at node id. *)
OnlyMarks(t, u, id) ==
  /\ u \in Seq(Node) /\ Len(u) = Len(t)
  /\ \A i \in 1..Len(t) : i # id => u[i] = t[i]
  /\ u[id].parent = t[id].parent /\ u[id].children = t[id].children
  /\ u[id].kind = t[id].kind /\ u[id].tag = t[id].tag /\ u[id].room = t[id].room

LEMMA MarksKeepTree ==
  ASSUME NEW t, Tree(t), NEW id \in 1..Len(t), NEW u, OnlyMarks(t, u, id)
  PROVE  Tree(u)
<1>1. Linked(t) /\ t \in Seq(Node)
  BY Links
<1>2. /\ u \in Seq(Node) /\ Len(u) = Len(t)
      /\ \A i \in 1..Len(t) : u[i].parent = t[i].parent /\ u[i].children = t[i].children
  BY DEF OnlyMarks
<1>3. 1 \in 1..Len(t)
  BY Links DEF RootId
<1>4. \A i \in 2..Len(t) : t[i].parent \in 1..Len(t) /\ i \in 1..Len(t)
  BY <1>1 DEF Linked
<1>5. Linked(u)
  <2>1. Len(u) >= 1 /\ u[1].parent = 0
    BY <1>1, <1>2, <1>3 DEF Linked
  <2>2. ASSUME NEW i \in 2..Len(u)
        PROVE  u[i].parent \in 1..(i - 1) /\ Once(u[u[i].parent].children, i)
    BY <1>1, <1>2, <1>4 DEF Linked
  <2>3. ASSUME NEW i \in 1..Len(u), NEW k \in 1..Len(u[i].children)
        PROVE  u[i].children[k] \in 1..Len(u) /\ u[u[i].children[k]].parent = i
    <3>1. u[i].children = t[i].children
      BY <1>2
    <3>2. t[i].children[k] \in 1..Len(t) /\ t[t[i].children[k]].parent = i
      BY <1>1, <1>2, <3>1 DEF Linked
    <3> QED BY <1>2, <3>1, <3>2
  <2> QED BY <2>1, <2>2, <2>3 DEF Linked
<1> QED BY <1>2, <1>5, LinkedIsWellLinked DEF Tree

Marked(t, id, state, codes) ==
  [t EXCEPT ![id] = [t[id] EXCEPT !.state = state, !.codes = codes]]

(* Setting state and codes of a node does nothing else. *)
LEMMA MarkNode ==
  ASSUME NEW t \in Seq(Node), NEW id \in 1..Len(t),
         NEW state \in States, NEW codes \in SUBSET Codes
  PROVE  /\ OnlyMarks(t, Marked(t, id, state, codes), id)
         /\ Marked(t, id, state, codes)[id].state = state
<1> DEFINE n == [t[id] EXCEPT !.state = state, !.codes = codes]
           u == [t EXCEPT ![id] = n]
<1>1. t[id] \in Node
  OBVIOUS
<1>2. /\ n \in Node /\ n.state = state
      /\ n.parent = t[id].parent /\ n.children = t[id].children
      /\ n.kind = t[id].kind /\ n.tag = t[id].tag /\ n.room = t[id].room
  BY <1>1 DEF Node
<1>0. u = Marked(t, id, state, codes)
  BY DEF Marked
<1> HIDE DEF n
<1>3. u \in Seq(Node) /\ Len(u) = Len(t) /\ u[id] = n
  BY <1>2
<1>4. \A i \in 1..Len(t) : i # id => u[i] = t[i]
  OBVIOUS
<1> HIDE DEF u
<1>5. OnlyMarks(t, u, id) /\ u[id].state = state
  BY <1>2, <1>3, <1>4 DEF OnlyMarks
<1> QED BY <1>0, <1>5

LEMMA NothingMarked ==
  ASSUME NEW t \in Seq(Node), NEW id \in 1..Len(t)
  PROVE  OnlyMarks(t, t, id)
  BY DEF OnlyMarks

LEMMA MarksCompose ==
  ASSUME NEW t \in Seq(Node), NEW id \in 1..Len(t), NEW u, NEW v,
         OnlyMarks(t, u, id), OnlyMarks(u, v, id)
  PROVE  OnlyMarks(t, v, id)
  BY DEF OnlyMarks

(* transition(): the state is the one asked for, or the old one. *)
LEMMA TransitionMarks ==
  ASSUME NEW t \in Seq(Node), NEW id \in 1..Len(t), NEW to \in States
  PROVE  /\ OnlyMarks(t, Transition(t, id, to), id)
         /\ Transition(t, id, to)[id].state
              = IF CanTransition(t[id].state, to) THEN to ELSE t[id].state
<1>1. t[id] \in Node /\ t[id].codes \in SUBSET Codes
  BY NodeFields
<1>2. [t EXCEPT ![id].state = to] = Marked(t, id, to, t[id].codes)
  BY <1>1 DEF Node, Marked
<1>3. CASE CanTransition(t[id].state, to)
  <2>1. Transition(t, id, to) = Marked(t, id, to, t[id].codes)
    BY <1>2, <1>3 DEF Transition
  <2> QED BY <1>1, <1>3, <2>1, MarkNode
<1>4. CASE ~CanTransition(t[id].state, to)
  BY <1>4, NothingMarked DEF Transition
<1> QED BY <1>3, <1>4

(* markPartial(): likewise. *)
LEMMA MarkPartialMarks ==
  ASSUME NEW t \in Seq(Node), NEW id \in 1..Len(t), NEW to \in States, NEW code \in Codes
  PROVE  /\ OnlyMarks(t, MarkPartial(t, id, to, code), id)
         /\ MarkPartial(t, id, to, code)[id].state
              = IF CanTransition(t[id].state, to) THEN to ELSE t[id].state
<1> DEFINE codes == t[id].codes \cup {code}
<1>1. t[id] \in Node /\ codes \in SUBSET Codes
  BY NodeFields
<1>2. [t EXCEPT ![id].state = to, ![id].codes = @ \cup {code}] = Marked(t, id, to, codes)
  BY <1>1 DEF Node, Marked
<1> HIDE DEF codes
<1>3. CASE CanTransition(t[id].state, to)
  <2>1. MarkPartial(t, id, to, code) = Marked(t, id, to, codes)
    BY <1>2, <1>3 DEF MarkPartial
  <2> QED BY <1>1, <1>3, <2>1, MarkNode
<1>4. CASE ~CanTransition(t[id].state, to)
  BY <1>4, NothingMarked DEF MarkPartial
<1> QED BY <1>3, <1>4

(* addDiagnostic(): the state stays. *)
LEMMA AddDiagnosticMarks ==
  ASSUME NEW t \in Seq(Node), NEW id \in 1..Len(t), NEW code \in Codes
  PROVE  /\ OnlyMarks(t, AddDiagnostic(t, id, code), id)
         /\ AddDiagnostic(t, id, code)[id].state = t[id].state
<1> DEFINE codes == t[id].codes \cup {code}
<1>1. t[id] \in Node /\ codes \in SUBSET Codes /\ t[id].state \in States
  BY NodeFields
<1>2. AddDiagnostic(t, id, code) = Marked(t, id, t[id].state, codes)
  BY <1>1 DEF Node, AddDiagnostic, Marked
<1> HIDE DEF codes
<1> QED BY <1>1, <1>2, MarkNode

(* resumeCancelled(): a cancelled node is indexed again. *)
LEMMA ResumeMarks ==
  ASSUME NEW t \in Seq(Node), NEW id \in 1..Len(t)
  PROVE  /\ OnlyMarks(t, ResumeCancelled(t, id), id)
         /\ ResumeCancelled(t, id)[id].state
              = IF t[id].state = "Cancelled" THEN "Indexing" ELSE t[id].state
<1> DEFINE codes == t[id].codes \ {"Cancelled"}
<1>1. t[id] \in Node /\ codes \in SUBSET Codes
  BY NodeFields
<1>2. [t EXCEPT ![id].state = "Indexing", ![id].codes = @ \ {"Cancelled"}]
        = Marked(t, id, "Indexing", codes)
  BY <1>1 DEF Node, Marked
<1>0. "Indexing" \in States
  BY DEF States, Active
<1> HIDE DEF codes
<1>3. CASE t[id].state = "Cancelled"
  <2>1. ResumeCancelled(t, id) = Marked(t, id, "Indexing", codes)
    BY <1>2, <1>3 DEF ResumeCancelled
  <2> QED BY <1>0, <1>1, <1>3, <2>1, MarkNode
<1>4. CASE t[id].state # "Cancelled"
  BY <1>4, NothingMarked DEF ResumeCancelled
<1> QED BY <1>3, <1>4

-----------------------------------------------------------------------------
(* A new tree is a tree, and stays one when a child is appended. *)

LEMMA NewTreeIsTree == Tree(NewTree) /\ Len(NewTree) = 1 /\ NewTree[1].children = <<>>
<1> DEFINE n == NewNode(0, "root", "Indexing", 0, 0)
<1>1. /\ n \in Node /\ n.parent = 0 /\ n.children = <<>>
  BY DEF NewNode, Node, Kinds, States, Active
<1> HIDE DEF n
<1>2. /\ NewTree = <<n>> /\ NewTree \in Seq(Node) /\ Len(NewTree) = 1 /\ NewTree[1] = n
  BY <1>1 DEF NewTree, n
<1>3. Linked(NewTree)
  BY <1>1, <1>2 DEF Linked
<1> QED BY <1>1, <1>2, <1>3, LinkedIsWellLinked DEF Tree

(* u is t with one more node, the youngest child of p. *)
Grafts(t, u, p, n) ==
  /\ u \in Seq(Node) /\ Len(u) = Len(t) + 1
  /\ u[Len(t) + 1] = n
  /\ \A i \in 1..Len(t) : i # p => u[i] = t[i]
  /\ u[p] = [t[p] EXCEPT !.children = Append(@, Len(t) + 1)]

LEMMA AppendGrafts ==
  ASSUME NEW t, Tree(t), NEW p \in 1..Len(t), NEW kind \in Kinds,
         NEW state \in States, NEW tag \in Nat, NEW room \in Nat
  PROVE  Grafts(t, AppendChild(t, p, kind, state, tag, room), p,
                NewNode(p, kind, state, tag, room))
<1> DEFINE n == NewNode(p, kind, state, tag, room)
           q == [t[p] EXCEPT !.children = Append(@, Len(t) + 1)]
           s == [t EXCEPT ![p] = q]
<1>1. t \in Seq(Node) /\ Len(t) \in Nat
  BY Links
<1>2. n \in Node
  BY <1>1 DEF NewNode, Node
<1>3. t[p] \in Node /\ t[p].children \in Seq(Nat)
  BY <1>1, NodeFields
<1>4. q \in Node
  <2>1. Append(t[p].children, Len(t) + 1) \in Seq(Nat)
    BY <1>1, <1>3
  <2> QED BY <1>3, <2>1 DEF Node
<1>5. AppendChild(t, p, kind, state, tag, room) = Append(s, n)
  BY DEF AppendChild
<1> HIDE DEF n, q
<1>6. s \in Seq(Node) /\ Len(s) = Len(t) /\ s[p] = q
  BY <1>1, <1>4
<1>7. \A i \in 1..Len(t) : i # p => s[i] = t[i]
  BY <1>1
<1> HIDE DEF s
<1>9. /\ Append(s, n) \in Seq(Node) /\ Len(Append(s, n)) = Len(t) + 1
      /\ Append(s, n)[Len(t) + 1] = n
      /\ \A i \in 1..Len(t) : Append(s, n)[i] = s[i]
  BY <1>1, <1>2, <1>6
<1>10. /\ \A i \in 1..Len(t) : i # p => Append(s, n)[i] = t[i]
       /\ Append(s, n)[p] = q
  BY <1>6, <1>7, <1>9
<1>8. Grafts(t, Append(s, n), p, n)
  BY <1>9, <1>10 DEF Grafts, q
<1> QED BY <1>5, <1>8 DEF n

(* The older children keep their places.                                   *)
LEMMA GraftedChildren ==
  ASSUME NEW t, Tree(t), NEW p \in 1..Len(t), NEW n, NEW u, Grafts(t, u, p, n)
  PROVE  /\ u[p].children = Append(t[p].children, Len(t) + 1)
         /\ Len(u[p].children) = Len(t[p].children) + 1
         /\ \A k \in 1..Len(t[p].children) : u[p].children[k] = t[p].children[k]
         /\ u[p].children[Len(t[p].children) + 1] = Len(t) + 1
         /\ u[p].parent = t[p].parent /\ u[p].state = t[p].state
         /\ u[p].kind = t[p].kind /\ u[p].tag = t[p].tag /\ u[p].room = t[p].room
<1>1. t \in Seq(Node) /\ Len(t) \in Nat
  BY Links
<1>2. t[p] \in Node /\ t[p].children \in Seq(Nat)
  BY <1>1, NodeFields
<1>3. /\ u[p].children = Append(t[p].children, Len(t) + 1)
      /\ u[p].parent = t[p].parent /\ u[p].state = t[p].state
      /\ u[p].kind = t[p].kind /\ u[p].tag = t[p].tag /\ u[p].room = t[p].room
  BY <1>2 DEF Grafts, Node
<1> QED BY <1>1, <1>2, <1>3

(* One more place in a sequence of identifiers. *)
LEMMA OnceMore ==
  ASSUME NEW c, NEW d, NEW i, NEW x, Len(c) \in Nat, Len(d) = Len(c) + 1,
         \A k \in 1..Len(c) : d[k] = c[k],
         d[Len(c) + 1] = x
  PROVE  /\ Once(c, i) /\ x # i => Once(d, i)
         /\ (\A k \in 1..Len(c) : c[k] # x) => Once(d, x)
<1> DEFINE m == Len(c)
<1>0. m \in Nat /\ 1..Len(d) = 1..m \cup {m + 1} /\ m + 1 \in 1..Len(d)
  OBVIOUS
<1>1. ASSUME Once(c, i), x # i PROVE Once(d, i)
  <2>1. PICK k \in 1..m : c[k] = i /\ \A j \in 1..m : c[j] = i => j = k
    BY <1>1 DEF Once
  <2>2. k \in 1..Len(d) /\ d[k] = i
    BY <1>0, <2>1
  <2>3. ASSUME NEW j \in 1..Len(d), d[j] = i PROVE j = k
    <3>1. j # m + 1
      BY <1>1, <2>3
    <3>2. j \in 1..m
      BY <1>0, <3>1
    <3> QED BY <2>1, <2>3, <3>2
  <2> QED BY <2>2, <2>3 DEF Once
<1>2. ASSUME \A k \in 1..m : c[k] # x PROVE Once(d, x)
  <2>1. ASSUME NEW j \in 1..Len(d), d[j] = x PROVE j = m + 1
    <3>1. j \notin 1..m
      BY <1>2, <2>1
    <3> QED BY <1>0, <3>1
  <2> QED BY <1>0, <2>1 DEF Once
<1> QED BY <1>1, <1>2

LEMMA GraftedTree ==
  ASSUME NEW t, Tree(t), NEW p \in 1..Len(t), NEW n, NEW u, Grafts(t, u, p, n),
         n.parent = p, n.children = <<>>
  PROVE  Tree(u)
<1> DEFINE L == Len(t)
           c == t[p].children
<1>1. /\ t \in Seq(Node) /\ L \in Nat /\ L >= 1 /\ 1 \in 1..L
      /\ Linked(t)
  BY Links DEF RootId
<1>2. /\ u \in Seq(Node) /\ Len(u) = L + 1 /\ u[L + 1] = n
      /\ \A i \in 1..L : i # p => u[i] = t[i]
  BY DEF Grafts
<1>3. /\ c \in Seq(Nat) /\ Len(c) \in Nat /\ Len(u[p].children) = Len(c) + 1
      /\ \A k \in 1..Len(c) : u[p].children[k] = c[k]
      /\ u[p].children[Len(c) + 1] = L + 1
      /\ u[p].parent = t[p].parent
  BY <1>1, GraftedChildren, NodeFields
<1>4. \A i \in 1..L : u[i].parent = t[i].parent
  BY <1>2, <1>3
<1>5. \A k \in 1..Len(c) : c[k] \in 1..L /\ t[c[k]].parent = p
  BY <1>1 DEF Linked
<1>6. \A i \in 2..L : /\ t[i].parent \in 1..(i - 1) /\ t[i].parent \in 1..L /\ i \in 1..L
                      /\ Once(t[t[i].parent].children, i)
  BY <1>1 DEF Linked
<1> HIDE DEF L, c
<1>7. ASSUME NEW i \in 2..(L + 1)
      PROVE  u[i].parent \in 1..(i - 1) /\ Once(u[u[i].parent].children, i)
  <2>1. CASE i = L + 1
    <3>1. u[i].parent = p /\ p \in 1..L
      BY <1>2, <2>1 DEF L
    <3>2. Once(u[p].children, L + 1)
      <4>1. \A k \in 1..Len(c) : c[k] # L + 1
        BY <1>1, <1>5
      <4> QED BY <1>3, <4>1, OnceMore
    <3> QED BY <1>1, <2>1, <3>1, <3>2
  <2>2. CASE i # L + 1
    <3>1. i \in 2..L
      BY <1>1, <2>2
    <3>2. u[i].parent = t[i].parent /\ t[i].parent \in 1..(i - 1) /\ t[i].parent \in 1..L
      BY <1>4, <1>6, <3>1
    <3>3. CASE t[i].parent = p
      <4>1. Once(c, i)
        BY <1>6, <3>1, <3>3 DEF c
      <4>2. Once(u[p].children, i)
        BY <1>3, <2>2, <4>1, OnceMore
      <4> QED BY <3>2, <3>3, <4>2
    <3>4. CASE t[i].parent # p
      BY <1>2, <1>6, <3>1, <3>2, <3>4
    <3> QED BY <3>3, <3>4
  <2> QED BY <2>1, <2>2
<1>8. ASSUME NEW i \in 1..(L + 1), NEW k \in 1..Len(u[i].children)
      PROVE  u[i].children[k] \in 1..(L + 1) /\ u[u[i].children[k]].parent = i
  <2>1. CASE i = L + 1
    BY <1>2, <2>1
  <2>2. CASE i = p
    <3>1. CASE k = Len(c) + 1
      BY <1>1, <1>2, <1>3, <2>2, <3>1
    <3>2. CASE k # Len(c) + 1
      <4>1. k \in 1..Len(c)
        BY <1>3, <2>2, <3>2
      <4>2. u[p].children[k] = c[k] /\ c[k] \in 1..L /\ t[c[k]].parent = p
        BY <1>3, <1>5, <4>1
      <4> QED BY <1>1, <1>4, <2>2, <4>2
    <3> QED BY <3>1, <3>2
  <2>3. CASE i # p /\ i # L + 1
    <3>1. i \in 1..L /\ u[i] = t[i]
      BY <1>1, <1>2, <2>3
    <3>2. t[i].children[k] \in 1..L /\ t[t[i].children[k]].parent = i
      BY <1>1, <3>1 DEF Linked, L
    <3> QED BY SMTT(30), <1>1, <1>4, <3>1, <3>2
  <2> QED BY <2>1, <2>2, <2>3
<1>9. Len(u) >= 1 /\ u[1].parent = 0
  BY <1>1, <1>2, <1>4 DEF Linked
<1>10. Linked(u)
  BY <1>2, <1>7, <1>8, <1>9 DEF Linked
<1> QED BY <1>2, <1>10, LinkedIsWellLinked DEF Tree

LEMMA AppendChildTree ==
  ASSUME NEW t, Tree(t), NEW p \in 1..Len(t), NEW kind \in Kinds,
         NEW state \in States, NEW tag \in Nat, NEW room \in Nat
  PROVE  /\ Tree(AppendChild(t, p, kind, state, tag, room))
         /\ Grafts(t, AppendChild(t, p, kind, state, tag, room), p,
                   NewNode(p, kind, state, tag, room))
<1>1. /\ NewNode(p, kind, state, tag, room).parent = p
      /\ NewNode(p, kind, state, tag, room).children = <<>>
  BY DEF NewNode
<1> QED BY <1>1, AppendGrafts, GraftedTree

-----------------------------------------------------------------------------
(* u has grown from t at node p and below it, and nowhere else: what a     *)
(* transaction on p may do to a tree.                                      *)

Below(t, u, p) ==
  /\ Tree(u) /\ Len(u) >= Len(t)
  /\ \A i \in 1..Len(t) : i # p => u[i] = t[i]
  /\ u[p].parent = t[p].parent /\ u[p].kind = t[p].kind
  /\ u[p].tag = t[p].tag /\ u[p].room = t[p].room
  /\ Len(u[p].children) >= Len(t[p].children)
  /\ \A k \in 1..Len(t[p].children) : u[p].children[k] = t[p].children[k]

LEMMA MarksBelow ==
  ASSUME NEW t, Tree(t), NEW p \in 1..Len(t), NEW u, OnlyMarks(t, u, p)
  PROVE  Below(t, u, p) /\ u[p].children = t[p].children
<1>1. t \in Seq(Node) /\ Len(t) \in Nat
  BY Links
<1>2. Len(t[p].children) \in Nat
  BY <1>1, NodeFields
<1> QED BY <1>1, <1>2, MarksKeepTree DEF Below, OnlyMarks

LEMMA GraftsBelow ==
  ASSUME NEW t, Tree(t), NEW p \in 1..Len(t), NEW n, NEW u, Grafts(t, u, p, n),
         n.parent = p, n.children = <<>>
  PROVE  Below(t, u, p)
<1>1. t \in Seq(Node) /\ Len(t) \in Nat
  BY Links
<1>2. Len(t[p].children) \in Nat
  BY <1>1, NodeFields
<1>3. Len(u) >= Len(t) /\ \A i \in 1..Len(t) : i # p => u[i] = t[i]
  BY <1>1 DEF Grafts
<1> QED BY <1>2, <1>3, GraftedTree, GraftedChildren DEF Below

LEMMA BelowComposes ==
  ASSUME NEW t, Tree(t), NEW p \in 1..Len(t), NEW u, NEW v,
         Below(t, u, p), Below(u, v, p)
  PROVE  Below(t, v, p)
<1>1. /\ t \in Seq(Node) /\ Len(t) \in Nat /\ Len(u) \in Nat /\ Len(v) \in Nat
      /\ u \in Seq(Node) /\ v \in Seq(Node)
  BY Links DEF Below
<1>2. /\ Len(t[p].children) \in Nat /\ Len(u[p].children) \in Nat
      /\ p \in 1..Len(u) /\ p \in 1..Len(v) /\ Len(v[p].children) \in Nat
  BY <1>1, NodeFields DEF Below
<1> QED BY <1>1, <1>2 DEF Below

(* What grows below a node that is itself new is below the old one.        *)
LEMMA BelowNewer ==
  ASSUME NEW t, Tree(t), NEW p \in 1..Len(t), NEW u, Below(t, u, p),
         NEW q \in 1..Len(u), q > Len(t), NEW v, Below(u, v, q)
  PROVE  Below(t, v, p) /\ v[p] = u[p]
<1>1. /\ t \in Seq(Node) /\ Len(t) \in Nat /\ Len(u) \in Nat /\ Len(v) \in Nat
      /\ u \in Seq(Node) /\ v \in Seq(Node)
  BY Links DEF Below
<1>2. /\ \A i \in 1..Len(t) : i \in 1..Len(u) /\ i # q
      /\ p # q /\ p \in 1..Len(u)
  BY <1>1 DEF Below
<1>3. v[p] = u[p] /\ \A i \in 1..Len(t) : v[i] = u[i]
  BY <1>1, <1>2 DEF Below
<1>4. Tree(v) /\ Len(v) >= Len(t)
  BY <1>1 DEF Below
<1> QED BY <1>3, <1>4 DEF Below

(* A transaction on p that is rolled back was never there: the copy of one *)
(* node and the length of the tree are enough.                             *)
LEMMA RestoreUndoes ==
  ASSUME NEW t, Tree(t), NEW p \in 1..Len(t), NEW u, Below(t, u, p)
  PROVE  Restore(u, Snapshot(t, p)) = t
<1> DEFINE cut == SubSeq(u, 1, Len(t))
<1>1. /\ t \in Seq(Node) /\ Len(t) \in Nat /\ u \in Seq(Node) /\ Len(u) \in Nat
      /\ Len(t) <= Len(u) /\ \A i \in 1..Len(t) : i # p => u[i] = t[i]
  BY Links DEF Below
<1>2. /\ cut \in Seq(Node) /\ Len(cut) = Len(t)
      /\ \A i \in 1..Len(t) : cut[i] = u[i]
  BY <1>1
<1>3. Restore(u, Snapshot(t, p)) = [cut EXCEPT ![p] = t[p]]
  BY DEF Restore, Snapshot
<1> HIDE DEF cut
<1>4. /\ DOMAIN [cut EXCEPT ![p] = t[p]] = 1..Len(t)
      /\ \A i \in 1..Len(t) : [cut EXCEPT ![p] = t[p]][i] = t[i]
  BY <1>1, <1>2
<1>5. t = [i \in 1..Len(t) |-> t[i]]
  BY <1>1
<1>6. [cut EXCEPT ![p] = t[p]] = [i \in 1..Len(t) |-> [cut EXCEPT ![p] = t[p]][i]]
  BY <1>2
<1> QED BY <1>3, <1>4, <1>5, <1>6

-----------------------------------------------------------------------------
(* The calls of the executor. *)

LEMMA OutcomeFacts ==
  ASSUME NEW t, NEW p, NEW box, NEW c \in BOOLEAN, NEW b \in Nat,
         NEW o \in Executions(t, p, box, c, b)
  PROVE  /\ o.status \in Statuses
         /\ o.made \in 0..2 /\ o.made <= Parts(box) /\ o.made <= b
         /\ o.status = "Cancelled" => c
         /\ o.made = 0 => o.status \in {"InvalidDefinition", "Cancelled", "ResourceLimit"}
         /\ o.status = "InvalidDefinition" => o.made = 0
         /\ o.status = "Materialized" => o.made = Parts(box)
         /\ o.made > 0 => CanAppend(t, p)
<1> DEFINE most == IF b < Parts(box) THEN b ELSE Parts(box)
           Partly(statuses, least) ==
             {[status |-> s, made |-> m] : s \in statuses, m \in least..most}
<1>1. Parts(box) \in {1, 2} /\ most \in 0..2 /\ most <= Parts(box) /\ most <= b
  BY DEF Parts
<1>2. CASE ~CanAppend(t, p)
  BY <1>1, <1>2 DEF Executions, Statuses, ContentFailures
<1>3. CASE CanAppend(t, p) /\ c
  <2>1. o \in Partly({"Cancelled"}, 0)
    BY <1>3 DEF Executions
  <2>2. o.status = "Cancelled" /\ o.made \in 0..most
    BY <2>1
  <2> HIDE DEF most
  <2> QED BY <1>1, <1>3, <2>2 DEF Statuses
<1>4. CASE CanAppend(t, p) /\ ~c
  <2>1. o \in Partly({"ResourceLimit"}, 0)
              \cup Partly({"SourceError"} \cup ContentFailures, 1)
              \cup {[status |-> "InvalidDefinition", made |-> 0]}
              \cup {[status |-> "Materialized", made |-> Parts(box)]
                      : n \in {Parts(box)} \cap 1..b}
    BY <1>4 DEF Executions
  <2>2. CASE o \in Partly({"ResourceLimit"}, 0)
    <3>1. o.status = "ResourceLimit" /\ o.made \in 0..most
      BY <2>2
    <3> HIDE DEF most
    <3> QED BY <1>1, <1>4, <3>1 DEF Statuses
  <2>3. CASE o \in Partly({"SourceError"} \cup ContentFailures, 1)
    <3>1. o.status \in {"SourceError"} \cup ContentFailures /\ o.made \in 1..most
      BY <2>3
    <3> HIDE DEF most
    <3> QED BY <1>1, <1>4, <3>1 DEF Statuses, ContentFailures
  <2>4. CASE o = [status |-> "InvalidDefinition", made |-> 0]
    BY <1>1, <1>4, <2>4 DEF Statuses
  <2>5. CASE o \in {[status |-> "Materialized", made |-> Parts(box)]
                      : n \in {Parts(box)} \cap 1..b}
    <3>1. o.status = "Materialized" /\ o.made = Parts(box) /\ Parts(box) <= b
      BY <2>5
    <3> QED BY <1>1, <1>4, <3>1 DEF Statuses
  <2> QED BY <2>1, <2>2, <2>3, <2>4, <2>5
<1> QED BY <1>2, <1>3, <1>4

IsBox(box) == box.form \in {"leaf", "table", "container"} /\ box.room \in Nat

LEMMA StatusIsCode ==
  ASSUME NEW s \in Statuses \ {"Materialized", "InvalidDefinition"}
  PROVE  s \in Codes /\ PartialState(s) \in States
  BY DEF Statuses, ContentFailures, Codes, PartialState, States, Active, Terminal

(* What a call leaves of its parent: unless it failed before it made a     *)
(* node, the state it had; with the structure as its youngest child.       *)
StateAfter(state, o) ==
  IF o.made = 0 /\ o.status # "InvalidDefinition" /\ CanTransition(state, PartialState(o.status))
  THEN PartialState(o.status) ELSE state

DecodedFrom(t, u, p, o) ==
  /\ Below(t, u, p)
  /\ Len(u) = Len(t) + o.made
  /\ u[p].state = StateAfter(t[p].state, o)
  /\ o.made = 0 => u[p].children = t[p].children
  /\ o.made > 0 => /\ u[p].children = Append(t[p].children, Len(t) + 1)
                   /\ u[Len(t) + 1].parent = p

LEMMA DecodedNothing ==
  ASSUME NEW t, Tree(t), NEW p \in 1..Len(t), NEW box, IsBox(box), NEW c \in BOOLEAN,
         NEW b \in Nat, NEW o \in Executions(t, p, box, c, b), NEW tag \in Nat, o.made = 0
  PROVE  DecodedFrom(t, Decoded(t, p, box, o, tag), p, o)
<1>0. t \in Seq(Node) /\ Len(t) \in Nat
  BY Links
<1>1. o.status \in {"InvalidDefinition", "Cancelled", "ResourceLimit"}
  BY OutcomeFacts
<1>2. CASE o.status = "InvalidDefinition"
  <2>1. Decoded(t, p, box, o, tag) = t
    BY <1>2 DEF Decoded
  <2>2. Below(t, t, p)
    BY <1>0, NothingMarked, MarksBelow
  <2> QED BY <1>0, <1>2, <2>1, <2>2 DEF DecodedFrom, StateAfter
<1>3. CASE o.status # "InvalidDefinition"
  <2> DEFINE u == MarkPartial(t, p, PartialState(o.status), o.status)
  <2>1. Decoded(t, p, box, o, tag) = u
    BY <1>3 DEF Decoded
  <2>2. o.status \in Codes /\ PartialState(o.status) \in States
    BY <1>1, <1>3 DEF Codes, PartialState, States, Terminal
  <2>3. /\ OnlyMarks(t, u, p)
        /\ u[p].state = IF CanTransition(t[p].state, PartialState(o.status))
                        THEN PartialState(o.status) ELSE t[p].state
    BY <1>0, <2>2, MarkPartialMarks
  <2> HIDE DEF u
  <2>4. Below(t, u, p) /\ u[p].children = t[p].children
    BY <2>3, MarksBelow
  <2>5. Len(u) = Len(t) + o.made
    BY <1>0, <2>3 DEF OnlyMarks
  <2> QED BY <1>3, <2>1, <2>3, <2>4, <2>5 DEF DecodedFrom, StateAfter
<1> QED BY <1>2, <1>3

LEMMA RegionBelow ==
  ASSUME NEW t, Tree(t), NEW s \in 1..Len(t), NEW box, IsBox(box)
  PROVE  /\ Below(t, RegionOf(t, s, box), s)
         /\ Len(RegionOf(t, s, box)) = Len(t) + 1
         /\ RegionOf(t, s, box)[s].state = t[s].state
<1> DEFINE kind == IF box.form = "table" THEN "window" ELSE "container"
           n == NewNode(s, kind, "Lazy", 0, box.room)
           u == RegionOf(t, s, box)
<1>1. kind \in Kinds /\ "Lazy" \in States /\ box.room \in Nat
  BY DEF Kinds, States, Active, IsBox
<1>2. u = AppendChild(t, s, kind, "Lazy", 0, box.room)
  BY DEF RegionOf
<1>3. n.parent = s /\ n.children = <<>>
  BY DEF NewNode
<1> HIDE DEF kind
<1>4. Grafts(t, u, s, n)
  BY <1>1, <1>2, AppendGrafts
<1> HIDE DEF u, n
<1>5. Below(t, u, s)
  BY <1>3, <1>4, GraftsBelow
<1>6. u[s].state = t[s].state
  BY <1>4, GraftedChildren
<1> QED BY <1>4, <1>5, <1>6 DEF Grafts, u

(* The structure node of a call that made one, and how it is left.         *)
LEMMA DecodedSomething ==
  ASSUME NEW t, Tree(t), NEW p \in 1..Len(t), NEW box, IsBox(box), NEW c \in BOOLEAN,
         NEW b \in Nat, NEW o \in Executions(t, p, box, c, b), NEW tag \in Nat, o.made # 0
  PROVE  LET u == Decoded(t, p, box, o, tag) IN
         /\ DecodedFrom(t, u, p, o)
         /\ u[Len(t) + 1].kind = "structure" /\ u[Len(t) + 1].tag = tag
         /\ u[Len(t) + 1].state = IF o.status = "Materialized" THEN "Materialized"
                                  ELSE PartialState(o.status)
<1> DEFINE L == Len(t)
           s == L + 1
           n == NewNode(p, "structure", "Indexing", tag, 0)
           begun == AppendChild(t, p, "structure", "Indexing", tag, 0)
           grown == IF o.made = 2 THEN RegionOf(begun, s, box) ELSE begun
           u == Decoded(t, p, box, o, tag)
<1>0. t \in Seq(Node) /\ L \in Nat
  BY Links
<1>1. o.made \in {1, 2} /\ o.status \in Statuses \ {"InvalidDefinition"}
  <2>1. /\ o.made \in 0..2 /\ o.status \in Statuses
        /\ o.status = "InvalidDefinition" => o.made = 0
    BY OutcomeFacts
  <2> QED BY <2>1
<1>2. u = IF o.status = "Materialized" THEN Transition(grown, s, "Materialized")
          ELSE MarkPartial(grown, s, PartialState(o.status), o.status)
  BY DEF Decoded
<1>3. "structure" \in Kinds /\ "Indexing" \in States /\ "Materialized" \in States
  BY DEF Kinds, States, Active, Terminal
<1>4. /\ n.parent = p /\ n.children = <<>> /\ n.state = "Indexing"
      /\ n.kind = "structure" /\ n.tag = tag
  BY DEF NewNode
<1>5. Tree(begun) /\ Grafts(t, begun, p, n)
  BY <1>3, AppendChildTree
<1> HIDE DEF n, begun
<1>6. Below(t, begun, p)
  BY <1>4, <1>5, GraftsBelow
<1>7. /\ Len(begun) = L + 1 /\ begun[s] = n /\ s \in 1..Len(begun) /\ s > L
      /\ begun[p].children = Append(t[p].children, L + 1)
      /\ begun[p].state = t[p].state
  BY <1>0, <1>5, GraftedChildren DEF Grafts
<1>8. /\ Below(begun, grown, s) /\ Len(grown) = L + o.made
      /\ grown[s].state = "Indexing"
  <2>1. CASE o.made = 2
    BY <1>0, <1>4, <1>5, <1>7, <2>1, RegionBelow
  <2>2. CASE o.made = 1
    <3>1. grown = begun /\ begun \in Seq(Node)
      BY <1>5, <2>2, Links
    <3>2. Below(begun, begun, s)
      BY <1>5, <1>7, <3>1, NothingMarked, MarksBelow
    <3> QED BY <1>4, <1>7, <2>2, <3>1, <3>2
  <2> QED BY <1>1, <2>1, <2>2
<1> HIDE DEF grown
<1>9. Tree(grown) /\ s \in 1..Len(grown) /\ grown \in Seq(Node)
  BY <1>0, <1>7, <1>8, Links DEF Below
<1>10. /\ OnlyMarks(grown, u, s)
       /\ u[s].state = IF o.status = "Materialized" THEN "Materialized"
                       ELSE PartialState(o.status)
  <2>1. CASE o.status = "Materialized"
    <3>1. CanTransition("Indexing", "Materialized")
      BY DEF CanTransition, Active
    <3> QED BY <1>2, <1>3, <1>8, <1>9, <2>1, <3>1, TransitionMarks
  <2>2. CASE o.status # "Materialized"
    <3>1. o.status \in Codes /\ PartialState(o.status) \in States
      BY <1>1, <2>2, StatusIsCode
    <3>2. CanTransition("Indexing", PartialState(o.status))
      BY DEF CanTransition, Active, PartialState
    <3> QED BY <1>2, <1>8, <1>9, <2>2, <3>1, <3>2, MarkPartialMarks
  <2> QED BY <2>1, <2>2
<1> HIDE DEF u
<1>11. Below(grown, u, s)
  BY <1>9, <1>10, MarksBelow
<1>12. Below(begun, u, s)
  BY <1>5, <1>7, <1>8, <1>11, BelowComposes
<1>13. Below(t, u, p) /\ u[p] = begun[p]
  BY <1>6, <1>7, <1>12, BelowNewer
<1>14. Len(u) = L + o.made
  BY <1>8, <1>10 DEF OnlyMarks
<1>15. u[s].parent = p /\ u[s].kind = "structure" /\ u[s].tag = tag
  BY <1>4, <1>7, <1>12 DEF Below
<1>16. DecodedFrom(t, u, p, o)
  BY <1>1, <1>7, <1>13, <1>14, <1>15 DEF DecodedFrom, StateAfter
<1> QED BY <1>10, <1>15, <1>16 DEF u

LEMMA DecodedBelow ==
  ASSUME NEW t, Tree(t), NEW p \in 1..Len(t), NEW box, IsBox(box), NEW c \in BOOLEAN,
         NEW b \in Nat, NEW o \in Executions(t, p, box, c, b), NEW tag \in Nat
  PROVE  DecodedFrom(t, Decoded(t, p, box, o, tag), p, o)
<1>1. CASE o.made = 0
  BY <1>1, DecodedNothing
<1>2. CASE o.made # 0
  BY <1>2, DecodedSomething
<1> QED BY <1>1, <1>2

(* The region a structure declares: new, and nothing has been asked of it. *)
LEMMA DecodedRegion ==
  ASSUME NEW t, Tree(t), NEW p \in 1..Len(t), NEW box, IsBox(box), NEW c \in BOOLEAN,
         NEW b \in Nat, NEW o \in Executions(t, p, box, c, b), NEW tag \in Nat, o.made = 2
  PROVE  Decoded(t, p, box, o, tag)[Len(t) + 2]
           = NewNode(Len(t) + 1, IF box.form = "table" THEN "window" ELSE "container",
                     "Lazy", 0, box.room)
<1> DEFINE s == Len(t) + 1
           kind == IF box.form = "table" THEN "window" ELSE "container"
           n == NewNode(s, kind, "Lazy", 0, box.room)
           begun == AppendChild(t, p, "structure", "Indexing", tag, 0)
           grown == RegionOf(begun, s, box)
           u == Decoded(t, p, box, o, tag)
<1>1. Len(t) \in Nat /\ kind \in Kinds /\ "structure" \in Kinds /\ box.room \in Nat
      /\ "Lazy" \in States /\ "Indexing" \in States /\ "Materialized" \in States
  BY Links DEF Kinds, IsBox, States, Active, Terminal
<1>2. u = IF o.status = "Materialized" THEN Transition(grown, s, "Materialized")
          ELSE MarkPartial(grown, s, PartialState(o.status), o.status)
  BY DEF Decoded
<1>3. grown = AppendChild(begun, s, kind, "Lazy", 0, box.room)
  BY DEF RegionOf
<1> DEFINE m == NewNode(p, "structure", "Indexing", tag, 0)
<1>0. Tree(begun) /\ Grafts(t, begun, p, m)
  BY <1>1, AppendChildTree
<1> HIDE DEF begun, kind, m
<1>4. Tree(begun) /\ Len(begun) = Len(t) + 1
  BY <1>0 DEF Grafts
<1>5. s \in 1..Len(begun)
  BY <1>1, <1>4
<1>6. Tree(grown) /\ Grafts(begun, grown, s, n)
  BY <1>1, <1>3, <1>4, <1>5, AppendChildTree
<1> HIDE DEF grown, n
<1>7. /\ grown[Len(t) + 2] = n /\ Len(grown) = Len(t) + 2 /\ grown \in Seq(Node)
      /\ s \in 1..Len(grown) /\ Len(t) + 2 \in 1..Len(grown) /\ Len(t) + 2 # s
  BY <1>1, <1>4, <1>6 DEF Grafts
<1>8. OnlyMarks(grown, u, s)
  <2>1. o.status \in Statuses /\ o.status # "InvalidDefinition"
    <3>1. /\ o.status \in Statuses
          /\ o.status = "InvalidDefinition" => o.made = 0
      BY OutcomeFacts
    <3> QED BY <3>1
  <2>2. CASE o.status = "Materialized"
    BY <1>1, <1>2, <1>7, <2>2, TransitionMarks
  <2>3. CASE o.status # "Materialized"
    <3>1. o.status \in Codes /\ PartialState(o.status) \in States
      BY <2>1, <2>3, StatusIsCode
    <3> QED BY <1>2, <1>7, <2>3, <3>1, MarkPartialMarks
  <2> QED BY <2>2, <2>3
<1> HIDE DEF u
<1>9. u[Len(t) + 2] = n
  BY <1>7, <1>8 DEF OnlyMarks
<1> QED BY <1>9 DEF u, n, kind

-----------------------------------------------------------------------------
(* The records of an analyzer that publishes them one by one are the       *)
(* children of the root.                                                   *)

StateIn(t, k) == t[t[RootId].children[k]].state

SameRecords(t, u) ==
  /\ u[RootId].children = t[RootId].children
  /\ \A k \in 1..Len(t[RootId].children) : StateIn(u, k) = StateIn(t, k)

LEMMA RecordNodes ==
  ASSUME NEW t, Tree(t)
  PROVE  /\ Len(t[RootId].children) \in Nat
         /\ \A k \in 1..Len(t[RootId].children) : t[RootId].children[k] \in 2..Len(t)
         /\ \A j, k \in 1..Len(t[RootId].children) :
              t[RootId].children[j] = t[RootId].children[k] => j = k
<1>1. RootId \in 1..Len(t) /\ t \in Seq(Node)
  BY Links
<1> QED BY <1>1, NodeFields, ChildrenApart

(* What is marked at the root does not concern the records.                *)
LEMMA RecordsUnmarked ==
  ASSUME NEW t, Tree(t), NEW u, OnlyMarks(t, u, RootId)
  PROVE  Tree(u) /\ SameRecords(t, u)
<1>1. RootId \in 1..Len(t) /\ Len(t) \in Nat
  BY Links
<1>2. Tree(u) /\ u[RootId].children = t[RootId].children
  BY <1>1, MarksBelow DEF Below
<1>3. ASSUME NEW k \in 1..Len(t[RootId].children)
      PROVE  u[t[RootId].children[k]] = t[t[RootId].children[k]]
  <2>1. t[RootId].children[k] \in 2..Len(t)
    BY RecordNodes
  <2>2. t[RootId].children[k] \in 1..Len(t) /\ t[RootId].children[k] # RootId
    BY <1>1, <2>1 DEF RootId
  <2> QED BY <2>2 DEF OnlyMarks
<1> QED BY <1>2, <1>3 DEF SameRecords, StateIn

(* A record that is appended is the youngest child, and being indexed.     *)
LEMMA RecordAppended ==
  ASSUME NEW t, Tree(t), NEW tag \in Nat,
         NEW u, u = AppendChild(t, RootId, "record", "Indexing", tag, 0)
  PROVE  /\ Tree(u) /\ Len(u[RootId].children) = Len(t[RootId].children) + 1
         /\ \A k \in 1..Len(t[RootId].children) : StateIn(u, k) = StateIn(t, k)
         /\ StateIn(u, Len(t[RootId].children) + 1) = "Indexing"
<1> DEFINE n == NewNode(RootId, "record", "Indexing", tag, 0)
           kids == t[RootId].children
<1>0. RootId \in 1..Len(t) /\ Len(t) \in Nat /\ RootId = 1 /\ Len(kids) \in Nat
  BY Links, RecordNodes DEF RootId
<1>1. "record" \in Kinds /\ "Indexing" \in States /\ 0 \in Nat
  BY DEF Kinds, States, Active
<1>2. n.state = "Indexing" /\ n.parent = RootId /\ n.children = <<>>
  BY DEF NewNode
<1>3. Tree(u) /\ Grafts(t, u, RootId, n)
  BY <1>0, <1>1, AppendChildTree
<1> HIDE DEF n
<1>4. /\ Len(u[RootId].children) = Len(kids) + 1
      /\ \A k \in 1..Len(kids) : u[RootId].children[k] = kids[k]
      /\ u[RootId].children[Len(kids) + 1] = Len(t) + 1
  BY <1>0, <1>3, GraftedChildren
<1>5. u[Len(t) + 1] = n /\ \A i \in 2..Len(t) : u[i] = t[i]
  BY <1>0, <1>3 DEF Grafts
<1>6. \A k \in 1..Len(kids) : kids[k] \in 2..Len(t)
  BY RecordNodes
<1>7. ASSUME NEW k \in 1..Len(kids) PROVE StateIn(u, k) = StateIn(t, k)
  BY <1>4, <1>5, <1>6 DEF StateIn
<1>8. StateIn(u, Len(kids) + 1) = "Indexing"
  BY <1>2, <1>4, <1>5 DEF StateIn
<1> QED BY <1>3, <1>4, <1>7, <1>8

(* Node id is settled, whatever came of decoding it, and is called         *)
(* cancelled only when decoding was cancelled, as it may only be if c.     *)
SettledBy(t, u, id, s, c) ==
  /\ Below(t, u, id)
  /\ u[id].state \notin Active
  /\ u[id].state = "Cancelled" <=> s = "Cancelled"
  /\ s = "Cancelled" => c

(* How a record is left that the executor has decoded with status s.       *)
LeftAs(v, u, id, s) ==
  IF s = "Materialized" THEN u = Transition(v, id, s)
  ELSE \E code \in Codes :
         u = MarkPartial(v, id, IF s \in {"Cancelled", "Unsupported"} THEN s ELSE "Invalid", code)

LEMMA OutcomeSettles ==
  ASSUME NEW t, Tree(t), NEW id \in 1..Len(t), t[id].state = "Indexing",
         NEW box, IsBox(box), Parts(box) = 1, NEW c \in BOOLEAN,
         NEW o \in Executions(t, id, box, c, Parts(box)),
         NEW u, LeftAs(Decoded(t, id, box, o, 0), u, id, o.status)
  PROVE  SettledBy(t, u, id, o.status, c)
<1> DEFINE v == Decoded(t, id, box, o, 0)
           s == o.status
<1>1. LeftAs(v, u, id, s)
  OBVIOUS
<1>2. /\ s \in Statuses
      /\ s = "Cancelled" => c
      /\ o.made = 0 => s \in {"InvalidDefinition", "Cancelled", "ResourceLimit"}
      /\ s = "Materialized" => o.made = 1
  <2>1. o \in Executions(t, id, box, c, 1) /\ 1 \in Nat
    OBVIOUS
  <2>2. s \in Statuses
    BY <2>1, OutcomeFacts
  <2>3. s = "Cancelled" => c
    BY <2>1, OutcomeFacts
  <2>4. o.made = 0 => s \in {"InvalidDefinition", "Cancelled", "ResourceLimit"}
    BY <2>1, OutcomeFacts
  <2>5. s = "Materialized" => o.made = 1
    BY ZenonT(30), <2>1, OutcomeFacts
  <2> QED BY <2>2, <2>3, <2>4, <2>5
<1>3. DecodedFrom(t, v, id, o)
  BY DecodedBelow
<1> HIDE DEF v
<1>4. /\ Below(t, v, id) /\ Tree(v) /\ v \in Seq(Node) /\ id \in 1..Len(v)
      /\ v[id].state = StateAfter("Indexing", o)
  <2>1. Below(t, v, id) /\ Tree(v) /\ v[id].state = StateAfter("Indexing", o) /\ Len(v) >= Len(t)
    BY <1>3 DEF DecodedFrom, Below
  <2> QED BY <2>1, Links
<1>5. CASE s = "Materialized"
  <2>1. v[id].state = "Indexing"
    BY <1>2, <1>4, <1>5 DEF StateAfter
  <2>2. u = Transition(v, id, "Materialized") /\ "Materialized" \in States
    BY <1>1, <1>5 DEF LeftAs, States, Terminal
  <2>3. OnlyMarks(v, u, id) /\ u[id].state = "Materialized"
    BY <1>4, <2>1, <2>2, TransitionMarks DEF CanTransition, Active
  <2>4. Below(t, u, id)
    BY <1>4, <2>3, MarksBelow, BelowComposes
  <2> QED BY <1>2, <1>5, <2>3, <2>4 DEF SettledBy, Active
<1>6. CASE s # "Materialized"
  <2> DEFINE to == IF s \in {"Cancelled", "Unsupported"} THEN s ELSE "Invalid"
  <2>1. PICK code \in Codes : u = MarkPartial(v, id, to, code)
    BY <1>1, <1>6 DEF LeftAs
  <2>2. to \in States
    BY DEF States, Terminal
  <2>3. CanTransition(v[id].state, to)
    BY <1>2, <1>4, <1>6 DEF StateAfter, PartialState, CanTransition, Active
  <2>4. to \notin Active /\ (to = "Cancelled" <=> s = "Cancelled")
    BY DEF Active
  <2> HIDE DEF to
  <2>5. OnlyMarks(v, u, id) /\ u[id].state = to
    BY <1>4, <2>1, <2>2, <2>3, MarkPartialMarks
  <2>6. Below(t, u, id)
    BY <1>4, <2>5, MarksBelow, BelowComposes
  <2> QED BY <1>2, <2>4, <2>5, <2>6 DEF SettledBy
<1> QED BY <1>2, <1>5, <1>6

(* When it is the youngest record, the others keep their states.           *)
YoungestIs(t, u, n, s, c) ==
  /\ Tree(u) /\ u[RootId].children = t[RootId].children
  /\ \A k \in 1..(n - 1) : StateIn(u, k) = StateIn(t, k)
  /\ StateIn(u, n) \notin Active
  /\ StateIn(u, n) = "Cancelled" <=> s = "Cancelled"
  /\ s = "Cancelled" => c

LEMMA YoungestSettled ==
  ASSUME NEW t, Tree(t), NEW n \in Nat \ {0}, n = Len(t[RootId].children),
         NEW s, NEW c, NEW u, SettledBy(t, u, t[RootId].children[n], s, c)
  PROVE  YoungestIs(t, u, n, s, c)
<1> DEFINE kids == t[RootId].children
           id == kids[n]
<1>0. RootId \in 1..Len(t) /\ Len(t) \in Nat /\ RootId = 1 /\ n \in 1..n
  BY Links DEF RootId
<1>1. /\ \A k \in 1..n : kids[k] \in 2..Len(t)
      /\ \A j, k \in 1..n : kids[j] = kids[k] => j = k
  BY RecordNodes
<1>2. id \in 2..Len(t)
  BY <1>0, <1>1
<1> HIDE DEF id
<1>3. /\ Tree(u) /\ Below(t, u, id) /\ u[id].state \notin Active
      /\ u[id].state = "Cancelled" <=> s = "Cancelled"
      /\ s = "Cancelled" => c
  BY DEF SettledBy, Below, id
<1>4. \A i \in 1..Len(t) : i # id => u[i] = t[i]
  BY <1>3 DEF Below
<1>5. u[RootId] = t[RootId]
  BY <1>0, <1>2, <1>4
<1>6. \A k \in 1..(n - 1) : kids[k] \in 1..Len(t) /\ kids[k] # id
  BY <1>0, <1>1 DEF id
<1>7. \A k \in 1..(n - 1) : StateIn(u, k) = StateIn(t, k)
  BY <1>4, <1>5, <1>6 DEF StateIn
<1>8. StateIn(u, n) = u[id].state
  BY <1>5 DEF StateIn, id
<1> QED BY <1>3, <1>5, <1>7, <1>8 DEF YoungestIs

=============================================================================
