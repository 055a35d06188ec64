----------------------- MODULE Mp4IsobmffAnalyzer_proof -----------------------
(***************************************************************************)
(* Proofs about Mp4IsobmffAnalyzer and its WindowDecoder for any boxes,    *)
(* limits, pages and numbers of cancellations.  IInv is the inductive      *)
(* invariant.  Nearly all of it is said of one tree, Base: what the tree   *)
(* would be if the record in progress failed.  No step inside a record     *)
(* changes it, the last one moves it forward by a whole record, and every  *)
(* call returns a tree that is it.                                         *)
(***************************************************************************)
EXTENDS Mp4IsobmffAnalyzer, AnalysisTree_proof

InRecord == pc \in {"header", "open", "drill", "box", "dequeue", "rollback"}

Base == IF InRecord THEN Restore(nodes, checkpoint.tree) ELSE nodes

(* The boxes published in it.                                              *)
Count == IF InRecord THEN checkpoint.nextBox ELSE nextBox

-----------------------------------------------------------------------------
(* What a tree and the decoder's index of its windows say of each other.   *)

IsEntry(t, w, i, id) ==
  /\ id \in 1..Len(t)
  /\ t[id].parent = w /\ t[id].tag = i
  /\ t[id].kind = "structure" /\ t[id].state = "Materialized"

Indexed(t, e, w) ==
  /\ DOMAIN e[w] \subseteq 0..(t[w].room - 1)
  /\ \A i \in DOMAIN e[w] : IsEntry(t, w, i, e[w][i])
  /\ \A k \in 1..Len(t[w].children) : \E i \in DOMAIN e[w] : t[w].children[k] = e[w][i]
  /\ t[w].state = "Materialized" => DOMAIN e[w] = 0..(t[w].room - 1)

(* A window nobody has asked for.                                          *)
Untouched(node) == node.children = <<>> /\ node.state # "Materialized"

WindowsAgree(t, e) ==
  /\ \A w \in DOMAIN e : w \in 1..Len(t) /\ t[w].kind = "window" /\ Indexed(t, e, w)
  /\ \A w \in 1..Len(t) : t[w].kind = "window" /\ w \notin DOMAIN e => Untouched(t[w])

(* The root's children are the first n boxes.                              *)
FirstBoxes(t, n) ==
  /\ Len(t[RootId].children) = n
  /\ \A k \in 1..n : t[t[RootId].children[k]].tag = k - 1

(* What whoever saw t sees of it in u, in first-order form.                *)
MayMove(from, to) == from = to \/ (from \notin Terminal /\ to # "Lazy")

Keeps(old, new) ==
  /\ new.parent = old.parent /\ new.kind = old.kind
  /\ new.tag = old.tag /\ new.room = old.room
  /\ MayMove(old.state, new.state)
  /\ Len(old.children) <= Len(new.children)
  /\ \A k \in 1..Len(old.children) : new.children[k] = old.children[k]

Extends(t, u) == Len(t) <= Len(u) /\ \A i \in 1..Len(t) : Keeps(t[i], u[i])

-----------------------------------------------------------------------------
(* The inductive invariant. *)

OpenBox == [node : Nat, inside : Seq(AnyBox)]

Failures == {"Cancelled", "ResourceLimit", "SourceError", "InvalidRule"}

Shape ==
  /\ Tree(nodes) /\ Tree(shown) /\ Tree(Base) /\ Base[RootId].kind = "root"
  /\ queued \in Seq(Nat) /\ drill \in Seq(OpenBox) /\ Len(drill) <= MaxNesting + 1
  /\ remaining \in 0..MaxNodes /\ cancelled \in BOOLEAN /\ cancels \in 0..MaxCancels
  /\ scanned \in 0..Len(Boxes) /\ fetched \in 0..MaxRecords
  /\ nextBox \in 0..Len(Boxes)

Modes ==
  /\ pc \in {"idle", "scan", "publish", "header", "open", "drill", "box",
             "dequeue", "rollback", "window", "entry"}
  /\ deferred \in {"none", "InProgress", "Complete", "Cancelled", "SourceError"}
  /\ status \in {"InProgress", "Complete", "InvalidRule"} \cup Statuses
  /\ pc \notin {"idle", "window", "entry"} => status = "InProgress"
  /\ pc = "rollback" => failure \in Failures
  /\ pc = "header" => drill = <<>>
  /\ pc \in {"open", "drill"} => drill # <<>>
  /\ pc = "drill" => Len(drill) <= MaxNesting

(* The boxes scanned are published or queued, in order; the record in      *)
(* progress is still at the head of the queue.                             *)
BoxesInOrder ==
  /\ Count \in Nat /\ Count <= scanned /\ FirstBoxes(Base, Count)
  /\ Len(queued) = scanned - Count
  /\ \A k \in 1..Len(queued) : queued[k] = Count + k
  /\ InRecord => queued # <<>>
  /\ deferred = "Complete" => scanned = Len(Boxes)
  /\ status = "Complete" => Count = Len(Boxes)

(* What a record has made of tree b so far: t, all of it below the root.   *)
Work(b, t) ==
  /\ Below(b, t, RootId) /\ t[RootId].state = b[RootId].state
  /\ \A i \in (Len(b) + 1)..Len(t) : t[i].kind = "window" => Untouched(t[i])

(* Its own node is the first of the new ones.                              *)
BoxMade(b, t, n) ==
  /\ Len(t) > Len(b)
  /\ t[RootId].children = Append(b[RootId].children, Len(b) + 1)
  /\ t[Len(b) + 1].kind = "box" /\ t[Len(b) + 1].tag = n

(* The containers being drilled are new ones, too.                         *)
Drilled(b, t, d) ==
  \A k \in 1..Len(d) : /\ d[k].node \in (Len(b) + 1)..Len(t)
                       /\ t[d[k].node].kind = "container"

Transaction ==
  InRecord => /\ checkpoint.tree = Snapshot(Base, RootId)
              /\ Work(Base, nodes) /\ Drilled(Base, nodes, drill)
              /\ pc # "rollback" => nextBox = Count + 1 /\ BoxMade(Base, nodes, Count)

(* The page being decoded lies within its window.                          *)
Paging ==
  pc \in {"window", "entry"} =>
    /\ call \in [window : Nat, next : Nat, end : Nat]
    /\ call.window \in DOMAIN entries
    /\ call.next <= call.end /\ call.end <= nodes[call.window].room
    /\ pc = "entry" => call.next < call.end /\ call.next \notin DOMAIN entries[call.window]

IInv == /\ Shape /\ Modes /\ BoxesInOrder /\ Transaction /\ Paging
        /\ WindowsAgree(Base, entries) /\ Extends(shown, Base)

-----------------------------------------------------------------------------
(* What is seen of a tree later on. *)

LEMMA MovesCompose ==
  ASSUME NEW a, NEW b, NEW c, MayMove(a, b), MayMove(b, c)
  PROVE  MayMove(a, c)
  BY DEF MayMove

LEMMA TransitionsMove ==
  ASSUME NEW a, NEW b, CanTransition(a, b)
  PROVE  MayMove(a, b)
  BY DEF CanTransition, MayMove, Active, Terminal

LEMMA ExtendsItself == ASSUME NEW t, Tree(t) PROVE Extends(t, t)
<1>1. t \in Seq(Node) /\ Len(t) \in Nat
  BY Links
<1>2. \A i \in 1..Len(t) : Len(t[i].children) \in Nat
  BY <1>1, NodeFields
<1> QED BY <1>1, <1>2 DEF Extends, Keeps, MayMove

LEMMA ExtendsComposes ==
  ASSUME NEW t, NEW u, NEW v, Tree(t), Tree(u), Tree(v), Extends(t, u), Extends(u, v)
  PROVE  Extends(t, v)
<1>1. /\ t \in Seq(Node) /\ u \in Seq(Node) /\ v \in Seq(Node)
      /\ Len(t) \in Nat /\ Len(u) \in Nat /\ Len(v) \in Nat
  BY Links
<1>2. Len(t) <= Len(u) /\ Len(u) <= Len(v)
  BY DEF Extends
<1>3. ASSUME NEW i \in 1..Len(t) PROVE Keeps(t[i], v[i])
  <2>1. i \in 1..Len(u) /\ i \in 1..Len(v)
    BY <1>1, <1>2
  <2>2. Keeps(t[i], u[i]) /\ Keeps(u[i], v[i])
    BY <2>1 DEF Extends
  <2>3. /\ Len(t[i].children) \in Nat /\ Len(u[i].children) \in Nat
        /\ Len(v[i].children) \in Nat
    BY <1>1, <2>1, NodeFields
  <2>4. MayMove(t[i].state, v[i].state)
    BY <2>2, MovesCompose DEF Keeps
  <2> QED BY SMTT(30), <2>2, <2>3, <2>4 DEF Keeps
<1> QED BY <1>1, <1>2, <1>3 DEF Extends

LEMMA BelowExtends ==
  ASSUME NEW t, Tree(t), NEW p \in 1..Len(t), NEW u, Below(t, u, p),
         MayMove(t[p].state, u[p].state)
  PROVE  Extends(t, u)
<1>1. t \in Seq(Node) /\ Len(t) \in Nat /\ Len(u) \in Nat /\ Len(t) <= Len(u)
  BY Links DEF Below
<1>2. ASSUME NEW i \in 1..Len(t) PROVE Keeps(t[i], u[i])
  <2>1. Len(t[i].children) \in Nat
    BY <1>1, NodeFields
  <2>2. CASE i = p
    BY <2>1, <2>2 DEF Below, Keeps
  <2>3. CASE i # p
    BY <2>1, <2>3 DEF Below, Keeps, MayMove
  <2> QED BY <2>2, <2>3
<1> QED BY <1>1, <1>2 DEF Extends

LEMMA MarksExtend ==
  ASSUME NEW t, Tree(t), NEW p \in 1..Len(t), NEW u, OnlyMarks(t, u, p),
         MayMove(t[p].state, u[p].state)
  PROVE  Extends(t, u)
  BY MarksBelow, BelowExtends

-----------------------------------------------------------------------------
(* Windows and their index. *)

(* An entry is a child of its window; and it is neither a window nor one   *)
(* of the other nodes that children are added to.                          *)
LEMMA IndexedKept ==
  ASSUME NEW t, NEW u, NEW e, NEW w, Indexed(t, e, w), Len(t) \in Nat, Len(u) \in Nat,
         Len(t) <= Len(u), u[w].children = t[w].children, u[w].room = t[w].room,
         u[w].state = "Materialized" => DOMAIN e[w] = 0..(t[w].room - 1),
         \A i \in 1..Len(t) : t[i].kind = "structure" => u[i] = t[i]
  PROVE  Indexed(u, e, w)
  BY SMTT(30) DEF Indexed, IsEntry

LEMMA WindowsBelow ==
  ASSUME NEW t, Tree(t), NEW e, WindowsAgree(t, e), NEW p \in 1..Len(t),
         t[p].kind \notin {"window", "structure"}, NEW u, Below(t, u, p),
         \A i \in (Len(t) + 1)..Len(u) : u[i].kind = "window" => Untouched(u[i])
  PROVE  WindowsAgree(u, e)
<1>1. /\ Len(t) \in Nat /\ Len(u) \in Nat /\ Len(t) <= Len(u) /\ u[p].kind = t[p].kind
      /\ \A i \in 1..Len(t) : i # p => u[i] = t[i]
  BY Links DEF Below
<1>2. ASSUME NEW w \in DOMAIN e
      PROVE  w \in 1..Len(u) /\ u[w].kind = "window" /\ Indexed(u, e, w)
  <2>1. w \in 1..Len(t) /\ t[w].kind = "window" /\ Indexed(t, e, w)
    BY DEF WindowsAgree
  <2>2. u[w] = t[w] /\ w \in 1..Len(u)
    BY <1>1, <2>1
  <2>3. u[w].state = "Materialized" => DOMAIN e[w] = 0..(t[w].room - 1)
    BY <2>1, <2>2 DEF Indexed
  <2> QED BY <1>1, <2>1, <2>2, <2>3, IndexedKept
<1>3. ASSUME NEW w \in 1..Len(u), u[w].kind = "window", w \notin DOMAIN e
      PROVE  Untouched(u[w])
  <2>1. CASE w \in 1..Len(t)
    BY <1>1, <1>3, <2>1 DEF WindowsAgree
  <2>2. CASE w \notin 1..Len(t)
    BY <1>1, <1>3, <2>2
  <2> QED BY <2>1, <2>2
<1> QED BY <1>2, <1>3 DEF WindowsAgree

LEMMA WindowMarked ==
  ASSUME NEW t, Tree(t), NEW e, WindowsAgree(t, e), NEW w \in DOMAIN e,
         NEW u, OnlyMarks(t, u, w),
         u[w].state = "Materialized" => DOMAIN e[w] = 0..(t[w].room - 1)
  PROVE  WindowsAgree(u, e)
<1>1. /\ Len(t) \in Nat /\ Len(u) = Len(t)
      /\ \A i \in 1..Len(t) : i # w => u[i] = t[i]
      /\ u[w].kind = t[w].kind /\ u[w].children = t[w].children /\ u[w].room = t[w].room
  BY Links DEF OnlyMarks
<1>2. \A v \in DOMAIN e : v \in 1..Len(t) /\ t[v].kind = "window" /\ Indexed(t, e, v)
  BY DEF WindowsAgree
<1>3. \A i \in 1..Len(t) : t[i].kind = "structure" => u[i] = t[i]
  BY <1>1, <1>2
<1>4. ASSUME NEW v \in DOMAIN e
      PROVE  v \in 1..Len(u) /\ u[v].kind = "window" /\ Indexed(u, e, v)
  <2>1. u[v].children = t[v].children /\ u[v].room = t[v].room /\ u[v].kind = t[v].kind
    BY <1>1, <1>2
  <2>2. u[v].state = "Materialized" => DOMAIN e[v] = 0..(t[v].room - 1)
    BY <1>1, <1>2 DEF Indexed
  <2>3. Indexed(u, e, v)
    BY <1>1, <1>2, <1>3, <2>1, <2>2, IndexedKept
  <2> QED BY <1>1, <1>2, <2>1, <2>3
<1>5. ASSUME NEW v \in 1..Len(u), u[v].kind = "window", v \notin DOMAIN e
      PROVE  Untouched(u[v])
  BY <1>1, <1>5 DEF WindowsAgree
<1> QED BY <1>4, <1>5 DEF WindowsAgree

(* A window that is asked for the first time has an empty index.           *)
LEMMA WindowEntered ==
  ASSUME NEW t, Tree(t), NEW e, WindowsAgree(t, e), NEW w \in 1..Len(t),
         t[w].kind = "window", NEW x, x = IF w \in DOMAIN e THEN e[w] ELSE << >>
  PROVE  WindowsAgree(t, Put(e, w, x))
<1> DEFINE f == Put(e, w, x)
<1>1. /\ DOMAIN f = DOMAIN e \cup {w} /\ f[w] = x
      /\ \A v \in DOMAIN e : f[v] = e[v]
  BY DEF Put
<1> HIDE DEF f
<1>2. ASSUME NEW v \in DOMAIN f
      PROVE  v \in 1..Len(t) /\ t[v].kind = "window" /\ Indexed(t, f, v)
  <2>1. CASE v \in DOMAIN e
    BY SMTT(30), <1>1, <2>1 DEF WindowsAgree, Indexed
  <2>2. CASE v \notin DOMAIN e
    <3>1. v = w /\ f[v] = << >> /\ Untouched(t[w])
      BY <1>1, <2>2 DEF WindowsAgree
    <3>2. DOMAIN f[v] = {}
      BY <3>1
    <3> QED BY <3>1, <3>2 DEF Indexed, Untouched
  <2> QED BY <2>1, <2>2
<1>3. \A v \in 1..Len(t) : t[v].kind = "window" /\ v \notin DOMAIN f => Untouched(t[v])
  BY <1>1 DEF WindowsAgree
<1>4. WindowsAgree(t, f)
  BY <1>2, <1>3 DEF WindowsAgree
<1> QED BY <1>4 DEF f

(* A decoded entry joins the index of its window.                          *)
LEMMA EntryAdded ==
  ASSUME NEW t, Tree(t), NEW e, WindowsAgree(t, e), NEW w \in DOMAIN e,
         NEW i \in 0..(t[w].room - 1), i \notin DOMAIN e[w],
         NEW u, Below(t, u, w), CanAppend(t, w),
         Len(u) = Len(t) + 1, u[w].state = t[w].state,
         u[w].children = Append(t[w].children, Len(t) + 1),
         IsEntry(u, w, i, Len(t) + 1)
  PROVE  WindowsAgree(u, [e EXCEPT ![w] = Put(@, i, Len(t) + 1)])
<1> DEFINE x == Put(e[w], i, Len(t) + 1)
           f == [e EXCEPT ![w] = x]
<1>1. /\ t \in Seq(Node) /\ Len(t) \in Nat
      /\ \A j \in 1..Len(t) : j # w => u[j] = t[j]
      /\ u[w].kind = t[w].kind /\ u[w].room = t[w].room
  BY Links DEF Below
<1>2. /\ DOMAIN x = DOMAIN e[w] \cup {i} /\ x[i] = Len(t) + 1
      /\ \A j \in DOMAIN e[w] : j # i => x[j] = e[w][j]
  BY DEF Put
<1> HIDE DEF x
<1>3. /\ DOMAIN f = DOMAIN e /\ f[w] = x
      /\ \A v \in DOMAIN e : v # w => f[v] = e[v]
  OBVIOUS
<1> HIDE DEF f
<1>4. \A v \in DOMAIN e : v \in 1..Len(t) /\ t[v].kind = "window" /\ Indexed(t, e, v)
  BY DEF WindowsAgree
<1>5. \A j \in 1..Len(t) : t[j].kind = "structure" => u[j] = t[j]
  BY <1>1, <1>4
<1>6. t[w].state = "Indexing"
  BY DEF CanAppend
<1>7. Indexed(u, f, w)
  <2>1. DOMAIN f[w] \subseteq 0..(u[w].room - 1)
    BY <1>1, <1>2, <1>3, <1>4 DEF Indexed
  <2>2. ASSUME NEW j \in DOMAIN f[w] PROVE IsEntry(u, w, j, f[w][j])
    <3>1. CASE j = i
      BY <1>2, <1>3, <3>1
    <3>2. CASE j # i
      <4>1. j \in DOMAIN e[w] /\ f[w][j] = e[w][j]
        BY <1>2, <1>3, <3>2
      <4>2. IsEntry(t, w, j, e[w][j])
        BY <1>4, <4>1 DEF Indexed
      <4> QED BY <1>1, <1>5, <4>1, <4>2 DEF IsEntry
    <3> QED BY <3>1, <3>2
  <2>3. ASSUME NEW k \in 1..Len(u[w].children)
        PROVE  \E j \in DOMAIN f[w] : u[w].children[k] = f[w][j]
    <3>0. w \in 1..Len(t)
      BY <1>4
    <3>1. t[w].children \in Seq(Nat) /\ Len(t[w].children) \in Nat
      BY <1>1, <3>0, NodeFields
    <3>2. CASE k = Len(t[w].children) + 1
      <4>1. u[w].children[k] = Len(t) + 1
        BY <1>1, <3>1, <3>2
      <4> QED BY <1>2, <1>3, <4>1
    <3>3. CASE k # Len(t[w].children) + 1
      <4>1. k \in 1..Len(t[w].children) /\ u[w].children[k] = t[w].children[k]
        BY <1>1, <3>1, <3>3
      <4>2. PICK j \in DOMAIN e[w] : t[w].children[k] = e[w][j]
        BY <1>4, <4>1 DEF Indexed
      <4> QED BY <1>2, <1>3, <4>1, <4>2
    <3> QED BY <3>2, <3>3
  <2>4. u[w].state # "Materialized"
    BY <1>6
  <2> QED BY <2>1, <2>2, <2>3, <2>4 DEF Indexed
<1>8. ASSUME NEW v \in DOMAIN f
      PROVE  v \in 1..Len(u) /\ u[v].kind = "window" /\ Indexed(u, f, v)
  <2>0. v \in 1..Len(u) /\ u[v].kind = "window"
    BY <1>1, <1>3, <1>4
  <2>1. CASE v # w
    <3>1. u[v] = t[v] /\ Indexed(t, e, v) /\ f[v] = e[v]
      BY <1>1, <1>3, <1>4, <2>1
    <3>2. u[v].state = "Materialized" => DOMAIN e[v] = 0..(t[v].room - 1)
      BY <3>1 DEF Indexed
    <3>3. Indexed(u, e, v)
      BY <1>1, <1>5, <3>1, <3>2, IndexedKept
    <3> QED BY <2>0, <3>1, <3>3 DEF Indexed
  <2> QED BY <1>7, <2>0, <2>1
<1>9. ASSUME NEW v \in 1..Len(u), u[v].kind = "window", v \notin DOMAIN f
      PROVE  Untouched(u[v])
  <2>1. v # w /\ v # Len(t) + 1
    BY <1>3, <1>9 DEF IsEntry
  <2>2. v \in 1..Len(t) /\ u[v] = t[v]
    BY <1>1, <2>1
  <2> QED BY <1>3, <1>9, <2>2 DEF WindowsAgree
<1>10. WindowsAgree(u, f)
  BY <1>8, <1>9 DEF WindowsAgree
<1> QED BY <1>10 DEF f, x

-----------------------------------------------------------------------------
(* What a record does below the root. *)

LEMMA WorkMarked ==
  ASSUME NEW b, Tree(b), NEW t, Tree(t), Work(b, t), NEW q \in (Len(b) + 1)..Len(t),
         t[q].kind # "window", NEW u, OnlyMarks(t, u, q)
  PROVE  /\ Work(b, u)
         /\ \A n : BoxMade(b, t, n) => BoxMade(b, u, n)
         /\ \A d : Drilled(b, t, d) => Drilled(b, u, d)
<1>1. /\ Len(b) \in Nat /\ Len(b) >= 1 /\ Len(t) \in Nat /\ t \in Seq(Node)
      /\ RootId \in 1..Len(b) /\ q \in 1..Len(t) /\ q > Len(b)
  BY Links
<1>2. Below(b, u, RootId) /\ u[RootId] = t[RootId]
  <2>1. Below(t, u, q)
    BY <1>1, MarksBelow
  <2> QED BY <1>1, <2>1, BelowNewer DEF Work
<1>3. /\ Len(u) = Len(t) /\ \A i \in 1..Len(t) : u[i].kind = t[i].kind /\ u[i].tag = t[i].tag
      /\ \A i \in 1..Len(t) : i # q => u[i] = t[i]
  BY DEF OnlyMarks
<1>4. Work(b, u)
  BY <1>1, <1>2, <1>3 DEF Work
<1>5. ASSUME NEW n, BoxMade(b, t, n) PROVE BoxMade(b, u, n)
  BY <1>1, <1>2, <1>3, <1>5 DEF BoxMade
<1>6. ASSUME NEW d, Drilled(b, t, d) PROVE Drilled(b, u, d)
  BY <1>1, <1>3, <1>6 DEF Drilled
<1> QED BY <1>4, <1>5, <1>6

LEMMA WorkDecoded ==
  ASSUME NEW b, Tree(b), NEW t, Tree(t), Work(b, t), NEW q \in (Len(b) + 1)..Len(t),
         t[q].kind # "window", NEW box, IsBox(box), NEW c \in BOOLEAN,
         NEW m \in Nat, NEW o \in Executions(t, q, box, c, m),
         NEW u, u = Decoded(t, q, box, o, 0)
  PROVE  /\ Work(b, u) /\ Len(u) = Len(t) + o.made
         /\ \A n : BoxMade(b, t, n) => BoxMade(b, u, n)
         /\ \A d : Drilled(b, t, d) => Drilled(b, u, d)
         /\ o.status = "Materialized" /\ box.form = "container"
              => /\ Len(t) + 2 \in (Len(b) + 1)..Len(u)
                 /\ u[Len(t) + 2].kind = "container"
<1>1. /\ Len(b) \in Nat /\ Len(b) >= 1 /\ Len(t) \in Nat /\ t \in Seq(Node)
      /\ RootId \in 1..Len(b) /\ q \in 1..Len(t) /\ q > Len(b) /\ Len(b) <= Len(t)
  BY Links
<1>2. /\ DecodedFrom(t, u, q, o)
      /\ o.made \in 0..2
      /\ o.status = "Materialized" => o.made = Parts(box)
  <2>1. DecodedFrom(t, u, q, o)
    BY <1>1, DecodedBelow
  <2>2. o.made \in 0..2
    BY OutcomeFacts
  <2>3. o.status = "Materialized" => o.made = Parts(box)
    BY ZenonT(30), OutcomeFacts
  <2> QED BY <2>1, <2>2, <2>3
<1>3. /\ Below(t, u, q) /\ Len(u) = Len(t) + o.made
      /\ u[q].kind = t[q].kind /\ u[q].tag = t[q].tag
      /\ \A i \in 1..Len(t) : i # q => u[i] = t[i]
  BY <1>2 DEF DecodedFrom, Below
<1>4. Below(b, u, RootId) /\ u[RootId] = t[RootId]
  BY <1>1, <1>3, BelowNewer DEF Work
<1>5. o.made # 0 => u[Len(t) + 1].kind = "structure"
  <2>1. ASSUME o.made # 0 PROVE Decoded(t, q, box, o, 0)[Len(t) + 1].kind = "structure"
    BY <1>1, <2>1, DecodedSomething
  <2> QED BY <2>1
<1>6. o.made = 2 =>
        u[Len(t) + 2] = NewNode(Len(t) + 1, IF box.form = "table" THEN "window"
                                            ELSE "container", "Lazy", 0, box.room)
  BY <1>1, DecodedRegion
<1>7. o.made = 2 => /\ box.form # "table" => u[Len(t) + 2].kind = "container"
                    /\ Untouched(u[Len(t) + 2])
  BY <1>6 DEF NewNode, Untouched
<1>8. ASSUME NEW i \in (Len(b) + 1)..Len(u), u[i].kind = "window"
      PROVE  Untouched(u[i])
  <2>1. i \in 1..Len(t) \/ (o.made # 0 /\ i = Len(t) + 1) \/ (o.made = 2 /\ i = Len(t) + 2)
    <3>1. i \in Nat /\ i >= 1 /\ i <= Len(t) + o.made /\ o.made \in {0, 1, 2}
      BY <1>1, <1>2, <1>3
    <3> QED BY SMTT(30), <1>1, <3>1
  <2>2. CASE i \in 1..Len(t)
    <3>1. i # q /\ u[i] = t[i]
      BY <1>3, <1>8, <2>2
    <3> QED BY <1>1, <1>8, <2>2, <3>1 DEF Work
  <2> QED BY <1>5, <1>7, <1>8, <2>1, <2>2
<1>9. Work(b, u)
  BY <1>4, <1>8 DEF Work
<1>10. ASSUME NEW n, BoxMade(b, t, n) PROVE BoxMade(b, u, n)
  <2>1. Len(b) + 1 \in 1..Len(t) /\ Len(u) > Len(b)
    BY <1>1, <1>2, <1>3, <1>10 DEF BoxMade
  <2>2. u[Len(b) + 1].kind = t[Len(b) + 1].kind /\ u[Len(b) + 1].tag = t[Len(b) + 1].tag
    BY <1>3, <2>1
  <2> QED BY <1>4, <1>10, <2>1, <2>2 DEF BoxMade
<1>11. ASSUME NEW d, Drilled(b, t, d) PROVE Drilled(b, u, d)
  <2>1. \A i \in (Len(b) + 1)..Len(t) : i \in (Len(b) + 1)..Len(u) /\ u[i].kind = t[i].kind
    BY SMTT(30), <1>1, <1>2, <1>3
  <2> QED BY <1>11, <2>1 DEF Drilled
<1>12. ASSUME o.status = "Materialized", box.form = "container"
       PROVE  Len(t) + 2 \in (Len(b) + 1)..Len(u) /\ u[Len(t) + 2].kind = "container"
  <2>1. o.made = 2
    BY <1>2, <1>12 DEF Parts
  <2> QED BY <1>1, <1>3, <1>7, <1>12, <2>1
<1> QED BY <1>3, <1>9, <1>10, <1>11, <1>12

-----------------------------------------------------------------------------
(* Three kinds of steps.  Each lemma also says that what is shown only     *)
(* grows.                                                                  *)

Advances == IInv' /\ Extends(shown, shown')

LEMMA FirstBoxesKept ==
  ASSUME NEW t, Tree(t), NEW u, Extends(t, u), u[RootId].children = t[RootId].children,
         NEW n \in Nat, FirstBoxes(t, n)
  PROVE  FirstBoxes(u, n)
<1>1. RootId \in 1..Len(t) /\ Linked(t)
  BY Links
<1>2. ASSUME NEW k \in 1..n PROVE u[u[RootId].children[k]].tag = k - 1
  <2>1. k \in 1..Len(t[RootId].children) /\ t[t[RootId].children[k]].tag = k - 1
    BY DEF FirstBoxes
  <2>2. t[RootId].children[k] \in 1..Len(t)
    BY <1>1, <2>1 DEF Linked
  <2> QED BY <2>1, <2>2 DEF Extends, Keeps
<1> QED BY <1>2 DEF FirstBoxes

(* A step that does not end within a record, and publishes none.           *)
LEMMA Onward ==
  ASSUME IInv, ~InRecord', Tree(nodes'), Extends(Base, nodes'),
         nodes'[RootId].children = Base[RootId].children, nextBox' = Count,
         UNCHANGED <<scanned, queued>>, WindowsAgree(nodes', entries'),
         shown' = shown \/ shown' = nodes',
         Modes', Paging', drill' \in Seq(OpenBox), Len(drill') <= MaxNesting + 1,
         remaining' \in 0..MaxNodes, cancelled' \in BOOLEAN, cancels' \in 0..MaxCancels,
         fetched' \in 0..MaxRecords,
         deferred' = "Complete" => scanned = Len(Boxes),
         status' = "Complete" => Count = Len(Boxes)
  PROVE  Advances
<1>0. /\ Tree(Base) /\ Tree(shown) /\ Base[RootId].kind = "root" /\ Extends(shown, Base)
      /\ queued \in Seq(Nat) /\ scanned \in 0..Len(Boxes) /\ Count \in Nat
      /\ FirstBoxes(Base, Count) /\ RootId \in 1..Len(Base)
  BY Links DEF IInv, Shape, BoxesInOrder
<1>1. Base' = nodes' /\ Count' = Count
  <2>1. Base' = nodes'
    BY DEF Base
  <2>2. Count' = nextBox'
    BY DEF Count
  <2> QED BY <2>1, <2>2
<1>2. Extends(shown, nodes')
  BY <1>0, ExtendsComposes
<1>3. Extends(nodes', nodes')
  BY ExtendsItself
<1>4. /\ Tree(shown') /\ Extends(shown', Base') /\ Extends(shown, shown')
  <2>1. CASE shown' = shown
    BY <1>0, <1>1, <1>2, <2>1, ExtendsItself
  <2>2. CASE shown' = nodes'
    BY <1>1, <1>2, <1>3, <2>2
  <2> QED BY <2>1, <2>2
<1>5. Base'[RootId].kind = "root"
  BY <1>0, <1>1 DEF Extends, Keeps
<1>11. nextBox' \in 0..Len(Boxes)
  <2>1. Count <= scanned /\ Len(Boxes) \in Nat
    BY AnalyzerAssumption DEF IInv, BoxesInOrder
  <2> QED BY <1>0, <2>1
<1>6. Shape'
  BY <1>0, <1>1, <1>4, <1>5, <1>11 DEF Shape
<1>7. FirstBoxes(Base', Count')
  BY <1>0, <1>1, FirstBoxesKept
<1>8. BoxesInOrder'
  BY <1>1, <1>7 DEF IInv, BoxesInOrder
<1>9. Transaction'
  BY DEF Transaction
<1>10. WindowsAgree(Base', entries')
  BY <1>1
<1> QED BY <1>4, <1>6, <1>8, <1>9, <1>10 DEF IInv, Advances

(* A step within a record: the tree it would be rolled back to stays.      *)
LEMMA Within ==
  ASSUME IInv, InRecord, InRecord',
         UNCHANGED <<entries, shown, scanned, deferred, queued, status, checkpoint, nextBox>>,
         Work(Base, nodes'), Drilled(Base, nodes', drill'),
         pc' # "rollback" => pc # "rollback" /\ BoxMade(Base, nodes', Count),
         Modes', drill' \in Seq(OpenBox), Len(drill') <= MaxNesting + 1,
         remaining' \in 0..MaxNodes, cancelled' \in BOOLEAN, cancels' \in 0..MaxCancels,
         fetched' \in 0..MaxRecords
  PROVE  Advances
<1>0. /\ Tree(Base) /\ Tree(shown) /\ checkpoint.tree = Snapshot(Base, RootId)
      /\ RootId \in 1..Len(Base) /\ Below(Base, nodes', RootId) /\ Tree(nodes')
      /\ pc # "rollback" => nextBox = Count + 1
  BY Links DEF IInv, Shape, Transaction, Work, Below
<1>1. Restore(nodes', checkpoint.tree) = Base
  BY <1>0, RestoreUndoes
<1>2. Base' = Restore(nodes', checkpoint'.tree)
  BY DEF Base
<1>3. Base' = Base /\ Count' = Count
  <2>1. Base' = Base
    BY <1>1, <1>2
  <2>2. Count' = Count
    BY DEF Count
  <2> QED BY <2>1, <2>2
<1>4. Shape'
  BY <1>0, <1>3 DEF IInv, Shape
<1>5. BoxesInOrder'
  BY <1>3 DEF IInv, BoxesInOrder
<1>6. Transaction'
  BY <1>0, <1>3 DEF Transaction
<1>7. Paging'
  BY DEF Paging, InRecord
<1>8. WindowsAgree(Base', entries') /\ Extends(shown', Base')
  BY <1>3 DEF IInv
<1>9. Extends(shown, shown')
  BY <1>0, ExtendsItself
<1> QED BY <1>4, <1>5, <1>6, <1>7, <1>8, <1>9 DEF IInv, Advances

-----------------------------------------------------------------------------
(* Between records. *)

LEMMA Outside ==
  ASSUME IInv, ~InRecord
  PROVE  /\ Base = nodes /\ Count = nextBox /\ Tree(nodes) /\ nodes[RootId].kind = "root"
         /\ Len(nodes) \in Nat /\ RootId \in 1..Len(nodes) /\ nodes \in Seq(Node)
         /\ Extends(Base, nodes) /\ WindowsAgree(nodes, entries)
<1>1. Base = nodes /\ Count = nextBox
  BY DEF Base, Count
<1>2. Tree(nodes) /\ nodes[RootId].kind = "root" /\ WindowsAgree(nodes, entries)
  BY <1>1 DEF IInv, Shape
<1>3. Extends(nodes, nodes)
  BY <1>2, ExtendsItself
<1> QED BY <1>1, <1>2, <1>3, Links

(* A mark on the root is seen there and nowhere else.                      *)
LEMMA RootMarked ==
  ASSUME IInv, NEW u, OnlyMarks(Base, u, RootId), MayMove(Base[RootId].state, u[RootId].state)
  PROVE  /\ Tree(u) /\ Extends(Base, u) /\ u[RootId].children = Base[RootId].children
         /\ WindowsAgree(u, entries)
<1>1. /\ Tree(Base) /\ RootId \in 1..Len(Base) /\ Len(Base) \in Nat
      /\ Base[RootId].kind = "root" /\ WindowsAgree(Base, entries)
  BY Links DEF IInv, Shape
<1>2. Below(Base, u, RootId) /\ u[RootId].children = Base[RootId].children
  BY <1>1, MarksBelow
<1>3. Len(u) = Len(Base)
  BY DEF OnlyMarks
<1>4. WindowsAgree(u, entries)
  BY <1>1, <1>2, <1>3, WindowsBelow
<1>5. Extends(Base, u)
  BY <1>1, <1>2, BelowExtends
<1> QED BY <1>2, <1>4, <1>5 DEF Below

LEMMA TerminalizedRoot ==
  ASSUME NEW t, Tree(t), NEW s \in Failures,
         NEW u, u = MarkPartial(t, RootId, RootState(s), Code(s))
  PROVE  OnlyMarks(t, u, RootId) /\ MayMove(t[RootId].state, u[RootId].state)
<1>1. t \in Seq(Node) /\ RootId \in 1..Len(t)
  BY Links
<1>2. RootState(s) \in States /\ Code(s) \in Codes
  BY DEF Failures, RootState, Code, States, Terminal, Codes
<1>3. /\ OnlyMarks(t, u, RootId)
      /\ u[RootId].state = IF CanTransition(t[RootId].state, RootState(s))
                           THEN RootState(s) ELSE t[RootId].state
  BY <1>1, <1>2, MarkPartialMarks
<1> QED BY <1>3, TransitionsMove DEF MayMove

LEMMA AnalyzeBatchStep == ASSUME IInv, AnalyzeBatch PROVE Advances
<1>0. /\ ~InRecord /\ ~InRecord' /\ pc' \in {"scan", "publish"} /\ status = "InProgress"
      /\ fetched' = 0
      /\ UNCHANGED <<nodes, remaining, cancelled, cancels, entries, call, shown,
                     scanned, deferred, queued, status, nextBox, drill>>
  BY DEF AnalyzeBatch, InRecord, Terminated, record
<1>1. Modes' /\ Paging' /\ fetched' \in 0..MaxRecords
  BY <1>0, AnalyzerAssumption DEF IInv, Modes, Paging
<1>2. /\ drill' \in Seq(OpenBox) /\ Len(drill') <= MaxNesting + 1
      /\ remaining' \in 0..MaxNodes /\ cancelled' \in BOOLEAN /\ cancels' \in 0..MaxCancels
  BY <1>0 DEF IInv, Shape
<1>3. /\ deferred' = "Complete" => scanned = Len(Boxes)
      /\ status' = "Complete" => Count = Len(Boxes)
  BY <1>0 DEF IInv, BoxesInOrder
<1> QED BY <1>0, <1>1, <1>2, <1>3, Outside, Onward

LEMMA ScanEndsStep == ASSUME IInv, ScanEnds PROVE Advances
<1>0. /\ ~InRecord /\ ~InRecord' /\ pc = "scan" /\ pc' = "publish"
      /\ deferred' = ScanStatus \/ deferred' = "SourceError"
      /\ UNCHANGED <<nodes, remaining, cancelled, cancels, entries, call, shown,
                     scanned, fetched, queued, status, nextBox, drill>>
  BY DEF ScanEnds, InRecord, record
<1>1. Modes' /\ Paging'
  BY <1>0 DEF IInv, Modes, Paging, ScanStatus
<1>2. /\ drill' \in Seq(OpenBox) /\ Len(drill') <= MaxNesting + 1 /\ fetched' \in 0..MaxRecords
      /\ remaining' \in 0..MaxNodes /\ cancelled' \in BOOLEAN /\ cancels' \in 0..MaxCancels
  BY <1>0 DEF IInv, Shape
<1>3. /\ deferred' = "Complete" => scanned = Len(Boxes)
      /\ status' = "Complete" => Count = Len(Boxes)
  BY <1>0 DEF IInv, BoxesInOrder, ScanStatus
<1> QED BY <1>0, <1>1, <1>2, <1>3, Outside, Onward

LEMMA ScanBoxStep == ASSUME IInv, ScanBox PROVE Advances
<1>0. /\ ~InRecord /\ ~InRecord' /\ pc = "scan" /\ scanned < Len(Boxes)
      /\ fetched < MaxRecords /\ scanned' = scanned + 1 /\ fetched' = fetched + 1
      /\ queued' = Append(queued, scanned + 1)
      /\ UNCHANGED <<nodes, remaining, cancelled, cancels, pc, entries, call,
                     shown, deferred, status, nextBox, drill>>
  BY DEF ScanBox, Scanning, InRecord, record
<1>1. /\ Base = nodes /\ Base' = nodes' /\ Count = nextBox /\ Count' = nextBox'
  BY <1>0 DEF Base, Count
<1>2. Base' = Base /\ Count' = Count
  BY <1>0, <1>1
<1>3. /\ queued \in Seq(Nat) /\ scanned \in 0..Len(Boxes) /\ Len(Boxes) \in Nat
      /\ fetched \in 0..MaxRecords /\ MaxRecords \in Nat /\ Count \in Nat
      /\ Len(queued) = scanned - Count /\ \A k \in 1..Len(queued) : queued[k] = Count + k
      /\ Count <= scanned
  BY AnalyzerAssumption DEF IInv, Shape, BoxesInOrder
<1>4. scanned' \in 0..Len(Boxes) /\ fetched' \in 0..MaxRecords
  BY <1>0, <1>3
<1>5. /\ queued' \in Seq(Nat) /\ Len(queued') = Len(queued) + 1
      /\ \A k \in 1..Len(queued) : queued'[k] = queued[k]
      /\ queued'[Len(queued) + 1] = scanned + 1
  BY <1>0, <1>3
<1>6. ASSUME NEW k \in 1..Len(queued') PROVE queued'[k] = Count + k
  <2>1. CASE k = Len(queued) + 1
    BY <1>3, <1>5, <2>1
  <2>2. CASE k # Len(queued) + 1
    <3>1. k \in 1..Len(queued)
      BY <1>3, <1>5, <2>2
    <3> QED BY <1>3, <1>5, <3>1
  <2> QED BY <2>1, <2>2
<1>7. Shape'
  BY <1>0, <1>2, <1>4, <1>5 DEF IInv, Shape
<1>8. deferred = "Complete" => FALSE
  BY <1>0, <1>3 DEF IInv, BoxesInOrder
<1>9. status = "InProgress"
  BY <1>0 DEF IInv, Modes
<1>10. FirstBoxes(Base', Count') /\ WindowsAgree(Base', entries') /\ Extends(shown', Base')
  BY <1>0, <1>2 DEF IInv, BoxesInOrder
<1>11. Count' <= scanned' /\ Len(queued') = scanned' - Count'
  BY <1>0, <1>2, <1>3, <1>5
<1>12. BoxesInOrder'
  BY <1>0, <1>2, <1>3, <1>6, <1>8, <1>9, <1>10, <1>11 DEF BoxesInOrder
<1>13. Modes' /\ Transaction' /\ Paging'
  BY <1>0 DEF IInv, Modes, Transaction, Paging
<1>14. Extends(shown, shown')
  BY <1>0, ExtendsItself DEF IInv, Shape
<1> QED BY <1>7, <1>10, <1>12, <1>13, <1>14 DEF IInv, Advances

LEMMA FinishBatchStep == ASSUME IInv, FinishBatch PROVE Advances
<1>0. /\ ~InRecord /\ ~InRecord' /\ pc = "publish" /\ pc' = "idle" /\ queued = <<>>
      /\ deferred' = "none" \/ (deferred' = deferred /\ deferred # "Complete")
      /\ shown' = nodes'
      /\ UNCHANGED <<remaining, cancelled, cancels, entries, call, scanned, fetched,
                     queued, nextBox, drill>>
  BY DEF FinishBatch, InRecord, Return, AfterPublishing
<1>1. /\ Base = nodes /\ Count = nextBox /\ Tree(nodes) /\ nodes \in Seq(Node)
      /\ RootId \in 1..Len(nodes) /\ status = "InProgress"
  BY <1>0, Outside DEF IInv, Modes
<1>2. \/ nodes' = nodes /\ status' = status
      \/ /\ OnlyMarks(nodes, nodes', RootId)
         /\ MayMove(nodes[RootId].state, nodes'[RootId].state)
         /\ \/ status' = "Complete" /\ deferred = "Complete"
            \/ status' \in Failures
  <2>1. CASE deferred = "Complete"
    <3>1. nodes' = Transition(nodes, RootId, "Materialized") /\ status' = "Complete"
      BY <2>1 DEF FinishBatch
    <3>2. "Materialized" \in States
      BY DEF States, Terminal
    <3>3. /\ OnlyMarks(nodes, nodes', RootId)
          /\ nodes'[RootId].state = IF CanTransition(nodes[RootId].state, "Materialized")
                                    THEN "Materialized" ELSE nodes[RootId].state
      BY <1>1, <3>1, <3>2, TransitionMarks
    <3>4. MayMove(nodes[RootId].state, nodes'[RootId].state)
      BY <3>3, TransitionsMove DEF MayMove
    <3> QED BY <2>1, <3>1, <3>3, <3>4
  <2>2. CASE deferred = "InProgress"
    BY <2>2 DEF FinishBatch
  <2>3. CASE deferred \in {"Cancelled", "SourceError"}
    <3>1. /\ nodes' = MarkPartial(nodes, RootId, RootState(deferred), Code(deferred))
          /\ status' = deferred /\ deferred \in Failures
      BY <2>3 DEF FinishBatch, Terminalize, Failures
    <3> QED BY <1>1, <3>1, TerminalizedRoot
  <2> QED BY <2>1, <2>2, <2>3 DEF FinishBatch
<1>3. /\ Tree(nodes') /\ Extends(Base, nodes') /\ WindowsAgree(nodes', entries')
      /\ nodes'[RootId].children = Base[RootId].children
  <2>1. CASE nodes' = nodes
    BY <1>0, <1>1, <2>1, Outside
  <2>2. CASE /\ OnlyMarks(nodes, nodes', RootId)
             /\ MayMove(nodes[RootId].state, nodes'[RootId].state)
    BY <1>0, <1>1, <2>2, RootMarked
  <2> QED BY <1>2, <2>1, <2>2
<1>4. Modes' /\ Paging'
  BY <1>0, <1>1, <1>2 DEF IInv, Modes, Paging, Failures, Statuses
<1>5. /\ drill' \in Seq(OpenBox) /\ Len(drill') <= MaxNesting + 1 /\ fetched' \in 0..MaxRecords
      /\ remaining' \in 0..MaxNodes /\ cancelled' \in BOOLEAN /\ cancels' \in 0..MaxCancels
  BY <1>0 DEF IInv, Shape
<1>6. /\ Len(queued) = scanned - Count /\ Count \in Nat /\ scanned \in 0..Len(Boxes)
      /\ Len(queued) = 0
      /\ deferred = "Complete" => scanned = Len(Boxes)
      /\ status = "Complete" => Count = Len(Boxes)
  BY <1>0 DEF IInv, Shape, BoxesInOrder
<1>7. /\ deferred' = "Complete" => scanned = Len(Boxes)
      /\ status' = "Complete" => Count = Len(Boxes)
  <2>1. scanned = Count /\ Len(Boxes) \in Nat
    BY <1>6, AnalyzerAssumption
  <2> QED BY <1>0, <1>1, <1>2, <1>6, <2>1 DEF Failures
<1> QED BY <1>0, <1>1, <1>3, <1>4, <1>5, <1>7, Onward

LEMMA ResumeStep == ASSUME IInv, ResumeAfterCancellation PROVE Advances
<1>0. /\ ~InRecord /\ ~InRecord' /\ pc = "idle" /\ pc' = "idle" /\ status' = "InProgress"
      /\ nodes' = ResumeCancelled(nodes, RootId) /\ shown' = nodes' /\ cancelled' = FALSE
      /\ deferred' = deferred \/ deferred' = "InProgress"
      /\ UNCHANGED <<remaining, cancels, entries, call, scanned, fetched, queued,
                     nextBox, drill>>
  BY DEF ResumeAfterCancellation, InRecord, Return, ResumedScan, Resumed, record
<1>1. /\ Base = nodes /\ Count = nextBox /\ Tree(nodes) /\ nodes \in Seq(Node)
      /\ RootId \in 1..Len(nodes)
  BY <1>0, Outside
<1>2. /\ OnlyMarks(nodes, nodes', RootId)
      /\ nodes'[RootId].state = IF nodes[RootId].state = "Cancelled" THEN "Indexing"
                                ELSE nodes[RootId].state
  BY <1>0, <1>1, ResumeMarks
<1>3. MayMove(nodes[RootId].state, nodes'[RootId].state)
  BY <1>2 DEF MayMove, Terminal
<1>4. /\ Tree(nodes') /\ Extends(Base, nodes') /\ WindowsAgree(nodes', entries')
      /\ nodes'[RootId].children = Base[RootId].children
  BY <1>0, <1>1, <1>2, <1>3, RootMarked
<1>5. Modes' /\ Paging'
  BY <1>0 DEF IInv, Modes, Paging
<1>6. /\ drill' \in Seq(OpenBox) /\ Len(drill') <= MaxNesting + 1 /\ fetched' \in 0..MaxRecords
      /\ remaining' \in 0..MaxNodes /\ cancelled' \in BOOLEAN /\ cancels' \in 0..MaxCancels
  BY <1>0 DEF IInv, Shape
<1>7. /\ deferred' = "Complete" => scanned = Len(Boxes)
      /\ status' = "Complete" => Count = Len(Boxes)
  BY <1>0 DEF IInv, BoxesInOrder
<1> QED BY <1>0, <1>1, <1>4, <1>5, <1>6, <1>7, Onward

LEMMA RequestCancellationStep == ASSUME IInv, RequestCancellation PROVE Advances
<1>0. /\ cancelled' = TRUE /\ cancels' = cancels + 1 /\ cancels < MaxCancels
      /\ UNCHANGED <<nodes, remaining, pc, entries, call, shown, scanned, fetched,
                     deferred, queued, status, nextBox, checkpoint, drill, failure>>
  BY DEF RequestCancellation, scanner, record
<1>1. Modes' /\ Paging'
  BY <1>0 DEF IInv, Modes, Paging
<1>2. /\ drill' \in Seq(OpenBox) /\ Len(drill') <= MaxNesting + 1 /\ fetched' \in 0..MaxRecords
      /\ remaining' \in 0..MaxNodes /\ cancelled' \in BOOLEAN
  BY <1>0 DEF IInv, Shape
<1>3. cancels' \in 0..MaxCancels
  BY <1>0, WindowAssumption DEF IInv, Shape
<1>4. CASE InRecord
  <2>1. InRecord'
    BY <1>0, <1>4 DEF InRecord
  <2>2. /\ Work(Base, nodes') /\ Drilled(Base, nodes', drill')
        /\ pc' # "rollback" => pc # "rollback" /\ BoxMade(Base, nodes', Count)
    BY <1>0, <1>4 DEF IInv, Transaction
  <2> QED BY <1>0, <1>1, <1>2, <1>3, <1>4, <2>1, <2>2, Within
<1>5. CASE ~InRecord
  <2>1. ~InRecord'
    BY <1>0, <1>5 DEF InRecord
  <2>2. /\ deferred' = "Complete" => scanned = Len(Boxes)
        /\ status' = "Complete" => Count = Len(Boxes)
    BY <1>0 DEF IInv, BoxesInOrder
  <2> QED BY <1>0, <1>1, <1>2, <1>3, <1>5, <2>1, <2>2, Outside, Onward
<1> QED BY <1>4, <1>5

-----------------------------------------------------------------------------
(* Windows. *)

LEMMA EnterIndexingMarks ==
  ASSUME NEW t, Tree(t), NEW w \in 1..Len(t), NEW u, u = EnterIndexing(t, w)
  PROVE  /\ OnlyMarks(t, u, w) /\ MayMove(t[w].state, u[w].state)
         /\ u[w].state = "Materialized" => t[w].state = "Materialized"
<1>1. t \in Seq(Node) /\ "Indexing" \in States
  BY Links DEF States, Active
<1>2. CASE t[w].state = "Cancelled"
  <2>1. u = ResumeCancelled(t, w)
    BY <1>2 DEF EnterIndexing
  <2>2. OnlyMarks(t, u, w) /\ u[w].state = "Indexing"
    BY <1>1, <1>2, <2>1, ResumeMarks
  <2> QED BY <1>2, <2>2 DEF MayMove, Terminal
<1>3. CASE t[w].state # "Cancelled"
  <2>1. u = Transition(t, w, "Indexing")
    BY <1>3 DEF EnterIndexing
  <2>2. /\ OnlyMarks(t, u, w)
        /\ u[w].state = IF CanTransition(t[w].state, "Indexing") THEN "Indexing"
                        ELSE t[w].state
    BY <1>1, <2>1, TransitionMarks
  <2> QED BY <2>2, TransitionsMove DEF MayMove
<1> QED BY <1>2, <1>3

LEMMA DecodeWindowStep ==
  ASSUME IInv, NEW w \in DOMAIN nodes, NEW p \in Pages, DecodeWindow(w, p[1], p[2]),
         UNCHANGED analyzer
  PROVE  Advances
<1> DEFINE start == p[1] * p[2]
           room == nodes[w].room
           end == IF start + p[2] < room THEN start + p[2] ELSE room
<1>0. /\ pc = "idle" /\ nodes[w].kind = "window" /\ start < room
      /\ nodes' = nodes \/ nodes' = EnterIndexing(nodes, w)
      /\ entries' = Put(entries, w, StateOf(w))
      /\ \/ pc' = "idle" /\ shown' = nodes'
         \/ /\ pc' = "window" /\ shown' = shown
            /\ call' = [window |-> w, next |-> start, end |-> end]
      /\ UNCHANGED <<remaining, cancelled, cancels, scanned, fetched, deferred, queued,
                     status, nextBox, drill>>
  BY DEF DecodeWindow, IsWindow, Return, analyzer, scanner, record
<1>1. ~InRecord /\ ~InRecord'
  BY <1>0 DEF InRecord
<1>2. /\ Base = nodes /\ Count = nextBox /\ Tree(nodes) /\ nodes[RootId].kind = "root"
      /\ w \in 1..Len(nodes) /\ nodes \in Seq(Node) /\ WindowsAgree(nodes, entries)
      /\ RootId \in 1..Len(nodes)
  BY <1>1, Outside
<1>3. room \in Nat /\ start \in Nat /\ p[2] \in Nat
  <2>0. p \in (0..MaxNodes) \X PageSizes
    BY DEF Pages
  <2>1. p[1] \in Nat /\ p[2] \in Nat
    <3>1. PICK i \in 0..MaxNodes, n \in PageSizes : p = <<i, n>>
      BY <2>0
    <3>2. i \in Nat /\ n \in Nat
      BY <3>1, WindowAssumption
    <3> QED BY <3>1, <3>2
  <2>2. start \in Nat
    BY <2>1
  <2>3. nodes[w] \in Node
    BY <1>2
  <2> QED BY <2>1, <2>2, <2>3 DEF Node
<1>4. start <= end /\ end <= room /\ end \in Nat
  <2> HIDE DEF start, room
  <2> QED BY <1>0, <1>3
<1>5. WindowsAgree(nodes, entries')
  BY <1>0, <1>2, WindowEntered DEF StateOf
<1>6. w \in DOMAIN entries'
  BY <1>0 DEF Put
<1>7. /\ OnlyMarks(nodes, nodes', w) /\ MayMove(nodes[w].state, nodes'[w].state)
      /\ nodes'[w].state = "Materialized" => nodes[w].state = "Materialized"
  BY <1>0, <1>2, NothingMarked, EnterIndexingMarks DEF MayMove
<1>8. nodes'[w].state = "Materialized" => DOMAIN (entries'[w]) = 0..(nodes[w].room - 1)
  BY <1>5, <1>6, <1>7 DEF WindowsAgree, Indexed
<1>9. WindowsAgree(nodes', entries')
  BY <1>2, <1>5, <1>6, <1>7, <1>8, WindowMarked
<1>10. /\ Tree(nodes') /\ Extends(Base, nodes')
       /\ nodes'[RootId].children = Base[RootId].children
  BY <1>2, <1>7, MarksKeepTree, MarksExtend DEF OnlyMarks
<1>11. Modes'
  BY <1>0 DEF IInv, Modes
<1>12. Paging'
  <2>1. nodes'[w].room = room
    BY <1>7 DEF OnlyMarks
  <2>2. CASE pc' = "idle"
    BY <2>2 DEF Paging
  <2>3. CASE pc' = "window"
    <3>1. /\ call'.window = w /\ call'.next = start /\ call'.end = end
          /\ call' \in [window : Nat, next : Nat, end : Nat]
      <4> HIDE DEF start, end, room
      <4> QED BY <1>0, <1>2, <1>3, <1>4, <2>3
    <3> HIDE DEF start, end, room
    <3> QED BY <1>3, <1>4, <1>6, <2>1, <2>3, <3>1 DEF Paging
  <2> QED BY <1>0, <2>2, <2>3
<1>13. /\ drill' \in Seq(OpenBox) /\ Len(drill') <= MaxNesting + 1 /\ fetched' \in 0..MaxRecords
       /\ remaining' \in 0..MaxNodes /\ cancelled' \in BOOLEAN /\ cancels' \in 0..MaxCancels
  BY <1>0 DEF IInv, Shape
<1>14. /\ deferred' = "Complete" => scanned = Len(Boxes)
       /\ status' = "Complete" => Count = Len(Boxes)
  BY <1>0 DEF IInv, BoxesInOrder
<1>15. nextBox' = Count /\ UNCHANGED <<scanned, queued>> /\ (shown' = shown \/ shown' = nodes')
  BY <1>0, <1>2
<1> QED BY <1>1, <1>9, <1>10, <1>11, <1>12, <1>13, <1>14, <1>15, Onward

(* The steps of a page that leave the tree alone.                          *)
LEMMA PageOnward ==
  ASSUME IInv, pc \in {"window", "entry"}, pc' \in {"window", "entry", "idle"}, Paging',
         UNCHANGED <<nodes, remaining, cancelled, cancels, entries>>,
         shown' = shown \/ shown' = nodes', UNCHANGED analyzer
  PROVE  Advances
<1>0. /\ ~InRecord /\ ~InRecord'
      /\ UNCHANGED <<scanned, fetched, deferred, queued, status, nextBox, drill>>
  BY DEF InRecord, analyzer, scanner, record
<1>1. Modes'
  BY <1>0 DEF IInv, Modes
<1>2. /\ drill' \in Seq(OpenBox) /\ Len(drill') <= MaxNesting + 1 /\ fetched' \in 0..MaxRecords
      /\ remaining' \in 0..MaxNodes /\ cancelled' \in BOOLEAN /\ cancels' \in 0..MaxCancels
  BY <1>0 DEF IInv, Shape
<1>3. /\ deferred' = "Complete" => scanned = Len(Boxes)
      /\ status' = "Complete" => Count = Len(Boxes)
  BY <1>0 DEF IInv, BoxesInOrder
<1> QED BY <1>0, <1>1, <1>2, <1>3, Outside, Onward

LEMMA ReuseEntryStep == ASSUME IInv, ReuseEntry, UNCHANGED analyzer PROVE Advances
<1>0. /\ pc = "window" /\ pc' = "window" /\ call.next < call.end
      /\ call' = [call EXCEPT !.next = @ + 1]
      /\ UNCHANGED <<nodes, remaining, cancelled, cancels, entries, shown>>
  BY DEF ReuseEntry
<1>1. /\ call.window \in DOMAIN entries /\ call \in [window : Nat, next : Nat, end : Nat]
      /\ call.end <= nodes[call.window].room
  BY <1>0 DEF IInv, Paging
<1>2. Paging'
  BY <1>0, <1>1 DEF Paging
<1> QED BY <1>0, <1>2, PageOnward

LEMMA StopPageStep == ASSUME IInv, StopPage, UNCHANGED analyzer PROVE Advances
<1>0. /\ pc = "window" /\ pc' = "idle" /\ shown' = nodes'
      /\ UNCHANGED <<nodes, remaining, cancelled, cancels, entries>>
  BY DEF StopPage, MustDecode, Return
<1>1. Paging'
  BY <1>0 DEF Paging
<1> QED BY <1>0, <1>1, PageOnward

LEMMA BeginEntryStep == ASSUME IInv, BeginEntry, UNCHANGED analyzer PROVE Advances
<1>0. /\ pc = "window" /\ pc' = "entry" /\ call.next < call.end
      /\ call.next \notin DOMAIN entries[call.window]
      /\ UNCHANGED <<nodes, remaining, cancelled, cancels, entries, call, shown>>
  BY DEF BeginEntry, MustDecode
<1>1. Paging'
  BY <1>0 DEF IInv, Paging
<1> QED BY <1>0, <1>1, PageOnward

LEMMA PageWindow ==
  ASSUME IInv, pc \in {"window", "entry"}
  PROVE  /\ ~InRecord /\ Base = nodes /\ Count = nextBox /\ Tree(nodes) /\ nodes \in Seq(Node)
         /\ WindowsAgree(nodes, entries) /\ call.window \in DOMAIN entries
         /\ call.window \in 1..Len(nodes) /\ RootId \in 1..Len(nodes)
         /\ nodes[call.window].kind = "window" /\ call.window # RootId
         /\ nodes[call.window].room \in Nat /\ remaining \in Nat /\ cancelled \in BOOLEAN
         /\ call \in [window : Nat, next : Nat, end : Nat]
<1>1. ~InRecord
  BY DEF InRecord
<1>2. /\ Base = nodes /\ Count = nextBox /\ Tree(nodes) /\ nodes[RootId].kind = "root"
      /\ nodes \in Seq(Node) /\ WindowsAgree(nodes, entries) /\ RootId \in 1..Len(nodes)
  BY <1>1, Outside
<1>3. call.window \in DOMAIN entries /\ call \in [window : Nat, next : Nat, end : Nat]
  BY DEF IInv, Paging
<1>4. call.window \in 1..Len(nodes) /\ nodes[call.window].kind = "window"
  BY <1>2, <1>3 DEF WindowsAgree
<1>5. nodes[call.window].room \in Nat
  <2>1. nodes[call.window] \in Node
    BY <1>2, <1>4
  <2> QED BY <2>1 DEF Node
<1>6. remaining \in Nat /\ cancelled \in BOOLEAN
  BY DEF IInv, Shape
<1> QED BY <1>1, <1>2, <1>3, <1>4, <1>5, <1>6

LEMMA DecodeEntryStep == ASSUME IInv, DecodeEntry, UNCHANGED analyzer PROVE Advances
<1> DEFINE w == call.window
           next == call.next
<1>0. /\ pc = "entry"
      /\ UNCHANGED <<cancelled, cancels, scanned, fetched, deferred, queued, status,
                     nextBox, drill>>
  BY DEF DecodeEntry, analyzer, scanner, record
<1>1. PICK o \in Executions(nodes, w, Entry, cancelled, remaining) :
        /\ remaining' = remaining - o.made
        /\ IF o.status = "Materialized"
           THEN /\ nodes' = Decoded(nodes, w, Entry, o, next)
                /\ entries' = [entries EXCEPT ![w] = Put(@, next, Len(nodes) + 1)]
                /\ call' = [call EXCEPT !.next = @ + 1]
                /\ pc' = "window" /\ shown' = shown
           ELSE /\ nodes' = Restore(Decoded(nodes, w, Entry, o, next), Snapshot(nodes, w))
                /\ call' = NoCall
                /\ entries' = entries
                /\ pc' = "idle" /\ shown' = nodes'
  BY DEF DecodeEntry, EntryAnchor, Return
<1>2. /\ ~InRecord /\ Base = nodes /\ Count = nextBox /\ Tree(nodes) /\ nodes \in Seq(Node)
      /\ WindowsAgree(nodes, entries) /\ w \in DOMAIN entries
      /\ w \in 1..Len(nodes) /\ RootId \in 1..Len(nodes) /\ w # RootId
      /\ nodes[w].kind = "window" /\ nodes[w].room \in Nat /\ remaining \in Nat
      /\ cancelled \in BOOLEAN /\ call \in [window : Nat, next : Nat, end : Nat]
  BY <1>0, PageWindow
<1>3. /\ next \in Nat /\ call.end \in Nat /\ next < call.end /\ call.end <= nodes[w].room
      /\ next \notin DOMAIN entries[w]
  BY <1>0, <1>2 DEF IInv, Paging
<1>4. IsBox(Entry) /\ Parts(Entry) = 1
  BY DEF IsBox, Entry, Parts
<1> DEFINE u == Decoded(nodes, w, Entry, o, next)
<1> HIDE DEF w, next
<1>5. DecodedFrom(nodes, u, w, o)
  BY <1>2, <1>3, <1>4, DecodedBelow
<1>6. /\ o.made \in 0..2 /\ o.made <= remaining
      /\ (o.status = "Materialized" => o.made = 1)
      /\ (o.made > 0 => CanAppend(nodes, w))
  <2>1. cancelled \in BOOLEAN /\ remaining \in Nat
    BY <1>2
  <2>2. o.made \in 0..2 /\ o.made <= remaining
    BY <2>1, OutcomeFacts
  <2>3. o.status = "Materialized" => o.made = Parts(Entry)
    BY SMTT(30), <2>1, OutcomeFacts
  <2>4. o.made > 0 => CanAppend(nodes, w)
    BY <2>1, OutcomeFacts
  <2> QED BY <1>4, <2>2, <2>3, <2>4
<1>7. remaining' \in 0..MaxNodes
  <2>1. remaining \in 0..MaxNodes /\ MaxNodes \in Nat /\ remaining' = remaining - o.made
    BY <1>1, WindowAssumption DEF IInv, Shape
  <2> QED BY <1>6, <2>1
<1>8. ~InRecord' /\ Modes'
  BY <1>0, <1>1 DEF IInv, Modes, InRecord
<1>9. /\ drill' \in Seq(OpenBox) /\ Len(drill') <= MaxNesting + 1 /\ fetched' \in 0..MaxRecords
      /\ cancelled' \in BOOLEAN /\ cancels' \in 0..MaxCancels
  BY <1>0 DEF IInv, Shape
<1>10. /\ deferred' = "Complete" => scanned = Len(Boxes)
       /\ status' = "Complete" => Count = Len(Boxes)
  BY <1>0 DEF IInv, BoxesInOrder
<1>11. nextBox' = Count /\ UNCHANGED <<scanned, queued>> /\ (shown' = shown \/ shown' = nodes')
  BY <1>0, <1>1, <1>2
<1>12. CASE o.status = "Materialized"
  <2>1. /\ nodes' = u /\ o.made = 1 /\ CanAppend(nodes, w)
        /\ entries' = [entries EXCEPT ![w] = Put(@, next, Len(nodes) + 1)]
        /\ call' = [call EXCEPT !.next = @ + 1] /\ pc' = "window"
    BY <1>1, <1>6, <1>12
  <2>2. /\ u[Len(nodes) + 1].kind = "structure" /\ u[Len(nodes) + 1].tag = next
        /\ u[Len(nodes) + 1].state = "Materialized"
    BY <1>2, <1>3, <1>4, <1>12, <2>1, DecodedSomething
  <2> HIDE DEF u
  <2>3. /\ Below(nodes, u, w) /\ Len(u) = Len(nodes) + 1 /\ u[w].state = nodes[w].state
        /\ u[w].children = Append(nodes[w].children, Len(nodes) + 1)
        /\ u[Len(nodes) + 1].parent = w
    BY <1>5, <2>1 DEF DecodedFrom, StateAfter
  <2>4. IsEntry(u, w, next, Len(nodes) + 1)
    <3>1. Len(nodes) \in Nat
      BY <1>2
    <3> QED BY <2>2, <2>3, <3>1 DEF IsEntry
  <2>5. next \in 0..(nodes[w].room - 1)
    BY <1>2, <1>3
  <2>6. WindowsAgree(nodes', entries')
    BY <1>2, <1>3, <2>1, <2>3, <2>4, <2>5, EntryAdded
  <2>7. Tree(nodes') /\ Extends(Base, nodes')
    BY <1>2, <2>1, <2>3, BelowExtends DEF Below, MayMove
  <2>8. nodes'[RootId].children = Base[RootId].children
    BY <1>2, <2>1, <2>3 DEF Below
  <2>9. Paging'
    <3>1. /\ call'.window = w /\ call'.next = next + 1 /\ call'.end = call.end
          /\ call' \in [window : Nat, next : Nat, end : Nat]
      BY <1>2, <1>3, <2>1 DEF w, next
    <3>2. w \in DOMAIN entries' /\ nodes'[w].room = nodes[w].room
      BY <1>2, <2>1, <2>3 DEF Below
    <3> QED BY <1>3, <2>1, <3>1, <3>2 DEF Paging
  <2> QED BY <1>7, <1>8, <1>9, <1>10, <1>11, <2>6, <2>7, <2>8, <2>9, Onward
<1>13. CASE o.status # "Materialized"
  <2>1. /\ nodes' = Restore(u, Snapshot(nodes, w)) /\ entries' = entries /\ pc' = "idle"
    BY <1>1, <1>13
  <2> HIDE DEF u
  <2>2. nodes' = nodes
    BY <1>2, <1>5, <2>1, RestoreUndoes DEF DecodedFrom
  <2>3. Paging'
    BY <2>1 DEF Paging
  <2>4. /\ Tree(nodes') /\ Extends(Base, nodes') /\ WindowsAgree(nodes', entries')
        /\ nodes'[RootId].children = Base[RootId].children
    BY <1>2, <2>1, <2>2, ExtendsItself
  <2> QED BY <1>7, <1>8, <1>9, <1>10, <1>11, <2>3, <2>4, Onward
<1> QED BY <1>12, <1>13

LEMMA FinishPageStep == ASSUME IInv, FinishPage, UNCHANGED analyzer PROVE Advances
<1> DEFINE w == call.window
<1>0. /\ pc = "window" /\ pc' = "idle" /\ shown' = nodes'
      /\ \/ nodes' = nodes
         \/ AllDecoded(w) /\ nodes' = Transition(nodes, w, "Materialized")
      /\ UNCHANGED <<remaining, cancelled, cancels, entries, scanned, fetched, deferred,
                     queued, status, nextBox, drill>>
  BY DEF FinishPage, Return, analyzer, scanner, record
<1>1. /\ ~InRecord /\ Base = nodes /\ Count = nextBox /\ Tree(nodes) /\ nodes \in Seq(Node)
      /\ WindowsAgree(nodes, entries) /\ w \in DOMAIN entries
      /\ w \in 1..Len(nodes) /\ RootId \in 1..Len(nodes) /\ w # RootId
      /\ nodes[w].kind = "window" /\ nodes[w].room \in Nat
  BY <1>0, PageWindow
<1>2. AllDecoded(w) => DOMAIN entries[w] = 0..(nodes[w].room - 1)
  <2>1. DOMAIN entries[w] \subseteq 0..(nodes[w].room - 1)
    BY <1>1 DEF WindowsAgree, Indexed
  <2>2. /\ IsFiniteSet(0..(nodes[w].room - 1))
        /\ Cardinality(0..(nodes[w].room - 1)) = nodes[w].room
    <3>1. PICK n \in Nat : n = nodes[w].room
      BY <1>1
    <3>2. IsFiniteSet(0..(n - 1)) /\ Cardinality(0..(n - 1)) = n
      <4>1. 0 \in Int /\ n - 1 \in Int
        OBVIOUS
      <4>2. /\ IsFiniteSet(0..(n - 1))
            /\ Cardinality(0..(n - 1)) = IF 0 > n - 1 THEN 0 ELSE (n - 1) - 0 + 1
        BY <4>1, FS_Interval
      <4> QED BY <4>2
    <3> QED BY <3>1, <3>2
  <2>3. ASSUME AllDecoded(w)
        PROVE  Cardinality(DOMAIN entries[w]) = Cardinality(0..(nodes[w].room - 1))
    BY <2>2, <2>3 DEF AllDecoded
  <2> QED BY <2>1, <2>2, <2>3, FS_Subset
<1> HIDE DEF w
<1>3. /\ OnlyMarks(nodes, nodes', w) /\ MayMove(nodes[w].state, nodes'[w].state)
      /\ nodes'[w].state = "Materialized" => DOMAIN entries[w] = 0..(nodes[w].room - 1)
  <2>1. CASE nodes' = nodes
    <3>1. nodes[w].state = "Materialized" => DOMAIN entries[w] = 0..(nodes[w].room - 1)
      BY <1>1 DEF WindowsAgree, Indexed
    <3> QED BY <1>1, <2>1, <3>1, NothingMarked DEF MayMove
  <2>2. CASE AllDecoded(w) /\ nodes' = Transition(nodes, w, "Materialized")
    <3>1. "Materialized" \in States
      BY DEF States, Terminal
    <3>2. /\ OnlyMarks(nodes, nodes', w)
          /\ nodes'[w].state = IF CanTransition(nodes[w].state, "Materialized")
                               THEN "Materialized" ELSE nodes[w].state
      BY <1>1, <2>2, <3>1, TransitionMarks
    <3>3. MayMove(nodes[w].state, nodes'[w].state)
      BY <3>2, TransitionsMove DEF MayMove
    <3> QED BY <1>2, <2>2, <3>2, <3>3
  <2> QED BY <1>0, <2>1, <2>2
<1>4. WindowsAgree(nodes', entries')
  BY <1>0, <1>1, <1>3, WindowMarked
<1>5. /\ Tree(nodes') /\ Extends(Base, nodes')
      /\ nodes'[RootId].children = Base[RootId].children
  BY <1>1, <1>3, MarksKeepTree, MarksExtend DEF OnlyMarks
<1>6. ~InRecord' /\ Modes' /\ Paging'
  BY <1>0 DEF IInv, Modes, Paging, InRecord
<1>7. /\ drill' \in Seq(OpenBox) /\ Len(drill') <= MaxNesting + 1 /\ fetched' \in 0..MaxRecords
      /\ remaining' \in 0..MaxNodes /\ cancelled' \in BOOLEAN /\ cancels' \in 0..MaxCancels
  BY <1>0 DEF IInv, Shape
<1>8. /\ deferred' = "Complete" => scanned = Len(Boxes)
      /\ status' = "Complete" => Count = Len(Boxes)
  BY <1>0 DEF IInv, BoxesInOrder
<1> QED BY <1>0, <1>1, <1>4, <1>5, <1>6, <1>7, <1>8, Onward

-----------------------------------------------------------------------------
(* Records. *)

LEMMA Inside ==
  ASSUME IInv, InRecord
  PROVE  /\ Tree(Base) /\ Tree(nodes) /\ nodes \in Seq(Node)
         /\ Len(Base) \in Nat /\ Len(Base) >= 1 /\ Len(nodes) \in Nat
         /\ Work(Base, nodes) /\ Drilled(Base, nodes, drill)
         /\ drill \in Seq(OpenBox) /\ Len(drill) \in Nat /\ Len(drill) <= MaxNesting + 1
         /\ (pc # "rollback" => /\ nextBox = Count + 1 /\ BoxMade(Base, nodes, Count)
                                /\ Len(Base) + 1 \in (Len(Base) + 1)..Len(nodes)
                                /\ BoxNode = Len(Base) + 1)
<1>1. /\ Tree(Base) /\ Tree(nodes) /\ drill \in Seq(OpenBox) /\ Len(drill) <= MaxNesting + 1
      /\ Work(Base, nodes) /\ Drilled(Base, nodes, drill)
      /\ checkpoint.tree = Snapshot(Base, RootId)
      /\ (pc # "rollback" => nextBox = Count + 1 /\ BoxMade(Base, nodes, Count))
  BY DEF IInv, Shape, Transaction
<1>2. /\ nodes \in Seq(Node) /\ Len(Base) \in Nat /\ Len(Base) >= 1 /\ Len(nodes) \in Nat
      /\ Len(drill) \in Nat
  BY <1>1, Links
<1>3. checkpoint.tree.count = Len(Base)
  BY <1>1 DEF Snapshot
<1>4. BoxNode = Len(Base) + 1
  BY <1>3 DEF BoxNode
<1>5. pc # "rollback" => Len(Base) + 1 \in (Len(Base) + 1)..Len(nodes)
  BY <1>1, <1>2 DEF BoxMade
<1> QED BY <1>1, <1>2, <1>4, <1>5

(* The record in progress is the next box of the file.                     *)
LEMMA HeadOfQueue ==
  ASSUME IInv, queued # <<>>
  PROVE  /\ Head(queued) = Count + 1 /\ Count + 1 <= scanned
         /\ Head(queued) \in 1..Len(Boxes) /\ Boxes[Head(queued)] \in AnyBox
<1>1. /\ queued \in Seq(Nat) /\ Count \in Nat /\ scanned \in 0..Len(Boxes)
      /\ Len(queued) = scanned - Count
      /\ \A k \in 1..Len(queued) : queued[k] = Count + k
      /\ Boxes \in Seq(AnyBox) /\ Len(Boxes) \in Nat
  BY AnalyzerAssumption DEF IInv, Shape, BoxesInOrder
<1>2. Len(queued) >= 1 /\ Head(queued) = queued[1]
  BY <1>1, EmptySeq
<1>3. Head(queued) = Count + 1 /\ Count + 1 <= scanned
  BY <1>1, <1>2
<1>4. Head(queued) \in 1..Len(Boxes)
  BY <1>1, <1>3
<1> QED BY <1>1, <1>3, <1>4

LEMMA DecodeStep ==
  ASSUME IInv, InRecord, pc # "rollback",
         NEW parent \in (Len(Base) + 1)..Len(nodes), nodes[parent].kind # "window",
         NEW box \in AnyBox, NEW opened \in Seq(OpenBox), Drilled(Base, nodes, opened),
         Len(opened) <= MaxNesting, NEW whole \in {"box", "drill"},
         NEW partly \in {"dequeue", "drill"},
         "drill" \in {whole, partly} => opened # <<>>,
         Decode(parent, box, opened, whole, partly),
         UNCHANGED <<cancelled, cancels, entries, shown, scanned, fetched, deferred,
                     queued, status, nextBox, checkpoint>>
  PROVE  Advances
<1>1. PICK o \in Executions(nodes, parent, box, cancelled, remaining) :
        /\ nodes' = Decoded(nodes, parent, box, o, 0)
        /\ remaining' = remaining - o.made
        /\ \/ /\ o.status \in ContentFailures
              /\ drill' = opened /\ pc' = partly
           \/ /\ o.status = "Materialized" /\ box.form = "container"
              /\ drill' = Append(opened, Opened(box)) /\ pc' = "open"
           \/ /\ o.status = "Materialized" /\ drill' = opened /\ pc' = whole
           \/ /\ o.status \notin ContentFailures \cup {"Materialized"}
              /\ failure' = Stops(o.status) /\ pc' = "rollback" /\ drill' = drill
  <2>1. PICK o \in Executions(nodes, parent, box, cancelled, remaining) :
    /\ nodes' = Decoded(nodes, parent, box, o, 0)
    /\ remaining' = remaining - o.made
    /\ CASE o.status \in ContentFailures ->
              /\ drill' = opened /\ pc' = partly /\ UNCHANGED failure
         [] o.status = "Materialized" ->
              /\ drill' = IF box.form = "container"
                          THEN Append(opened, Opened(box)) ELSE opened
              /\ pc' = IF box.form = "container" THEN "open" ELSE whole
              /\ UNCHANGED failure
         [] OTHER -> Fail(Stops(o.status)) /\ UNCHANGED drill
    BY DEF Decode
  <2>2. "Materialized" \notin ContentFailures
    BY DEF ContentFailures
  <2>3. CASE o.status \in ContentFailures
    BY <2>1, <2>2, <2>3
  <2>4. CASE o.status = "Materialized"
    BY <2>1, <2>2, <2>4
  <2>5. CASE o.status \notin ContentFailures \cup {"Materialized"}
    BY <2>1, <2>5 DEF Fail
  <2> QED BY <2>3, <2>4, <2>5
<1>2. /\ Tree(Base) /\ Tree(nodes) /\ nodes \in Seq(Node)
      /\ Len(Base) \in Nat /\ Len(nodes) \in Nat /\ parent \in 1..Len(nodes)
      /\ Work(Base, nodes) /\ Drilled(Base, nodes, drill)
      /\ drill \in Seq(OpenBox) /\ Len(drill) <= MaxNesting + 1
      /\ BoxMade(Base, nodes, Count)
  BY Inside
<1>3. remaining \in 0..MaxNodes /\ MaxNodes \in Nat /\ cancelled \in BOOLEAN /\ remaining \in Nat
  BY WindowAssumption DEF IInv, Shape
<1>4. IsBox(box) /\ box.inside \in Seq(AnyBox)
  BY AnalyzerAssumption DEF IsBox
<1>5. o.status \in Statuses /\ o.made \in 0..2 /\ o.made <= remaining
  <2>1. o.status \in Statuses
    BY <1>3, OutcomeFacts
  <2>2. o.made \in 0..2 /\ o.made <= remaining
    BY <1>3, OutcomeFacts
  <2> QED BY <2>1, <2>2
<1>6. remaining' \in 0..MaxNodes
  BY <1>1, <1>3, <1>5
<1>7. /\ Work(Base, nodes') /\ BoxMade(Base, nodes', Count)
      /\ Drilled(Base, nodes', drill) /\ Drilled(Base, nodes', opened)
      /\ (o.status = "Materialized" /\ box.form = "container"
            => /\ Len(nodes) + 2 \in (Len(Base) + 1)..Len(nodes')
               /\ nodes'[Len(nodes) + 2].kind = "container")
  <2>1. nodes' = Decoded(nodes, parent, box, o, 0)
    BY <1>1
  <2> QED BY <1>2, <1>3, <1>4, <2>1, WorkDecoded
<1>8. Opened(box) \in OpenBox /\ Opened(box).node = Len(nodes) + 2
  BY <1>2, <1>4 DEF Opened, OpenBox
<1>9. /\ Len(opened) \in Nat /\ Append(opened, Opened(box)) \in Seq(OpenBox)
      /\ Len(Append(opened, Opened(box))) = Len(opened) + 1
      /\ \A k \in 1..Len(opened) : Append(opened, Opened(box))[k] = opened[k]
      /\ Append(opened, Opened(box))[Len(opened) + 1] = Opened(box)
  BY <1>8
<1>10. Drilled(Base, nodes', drill')
  <2>1. CASE drill' \in {drill, opened}
    BY <1>7, <2>1
  <2>2. CASE /\ o.status = "Materialized" /\ box.form = "container"
             /\ drill' = Append(opened, Opened(box))
    <3>1. ASSUME NEW k \in 1..Len(drill')
          PROVE  /\ drill'[k].node \in (Len(Base) + 1)..Len(nodes')
                 /\ nodes'[drill'[k].node].kind = "container"
      <4>1. CASE k = Len(opened) + 1
        BY <1>7, <1>8, <1>9, <2>2, <4>1
      <4>2. CASE k # Len(opened) + 1
        <5>1. k \in 1..Len(opened) /\ drill'[k] = opened[k]
          BY <1>9, <2>2, <4>2
        <5> QED BY <1>7, <5>1 DEF Drilled
      <4> QED BY <4>1, <4>2
    <3> QED BY <3>1 DEF Drilled
  <2> QED BY <1>1, <2>1, <2>2
<1>11. drill' \in Seq(OpenBox) /\ Len(drill') <= MaxNesting + 1
  <2>1. MaxNesting \in Nat
    BY AnalyzerAssumption
  <2>2. CASE drill' = drill
    BY <1>2, <2>2
  <2>3. CASE drill' = opened
    BY <1>9, <2>1, <2>3
  <2>4. CASE drill' = Append(opened, Opened(box))
    BY <1>9, <2>1, <2>4
  <2> QED BY <1>1, <2>2, <2>3, <2>4
<1>12. InRecord'
  BY <1>1 DEF InRecord
<1>13. Modes'
  <2>1. pc' = "rollback" => failure' \in Failures
    BY <1>1, <1>5 DEF Stops, Statuses, ContentFailures, Failures
  <2>2. pc' \in {"open", "drill"} => drill' # <<>>
    <3>1. Append(opened, Opened(box)) # <<>>
      BY <1>9
    <3> QED BY <1>1, <3>1
  <2>3. pc' = "drill" => Len(drill') <= MaxNesting
    BY <1>1
  <2>4. pc' \in {"box", "drill", "dequeue", "open", "rollback"}
    BY <1>1
  <2>5. status = "InProgress"
    BY DEF IInv, Modes, InRecord
  <2> QED BY <2>1, <2>2, <2>3, <2>4, <2>5 DEF IInv, Modes
<1>14. cancelled' \in BOOLEAN /\ cancels' \in 0..MaxCancels /\ fetched' \in 0..MaxRecords
  BY DEF IInv, Shape
<1> QED BY <1>6, <1>7, <1>10, <1>11, <1>12, <1>13, <1>14, Within

LEMMA DecodeHeaderStep == ASSUME IInv, DecodeHeader PROVE Advances
<1>0. /\ pc = "header" /\ InRecord
      /\ Decode(BoxNode, Boxes[Head(queued)], <<>>, "box", "dequeue")
      /\ UNCHANGED <<cancelled, cancels, entries, shown, scanned, fetched, deferred,
                     queued, status, nextBox, checkpoint>>
  BY DEF DecodeHeader, InRecord, scanner
<1>1. /\ BoxNode \in (Len(Base) + 1)..Len(nodes) /\ nodes[BoxNode].kind # "window"
  BY <1>0, Inside DEF BoxMade
<1>2. Boxes[Head(queued)] \in AnyBox
  BY <1>0, HeadOfQueue DEF IInv, BoxesInOrder
<1>3. /\ <<>> \in Seq(OpenBox) /\ Drilled(Base, nodes, <<>>) /\ Len(<<>>) <= MaxNesting
  BY AnalyzerAssumption DEF Drilled
<1> QED BY <1>0, <1>1, <1>2, <1>3, DecodeStep

LEMMA InnermostFacts ==
  ASSUME IInv, InRecord, drill # <<>>
  PROVE  /\ Len(drill) \in 1..Len(drill) /\ Innermost \in OpenBox
         /\ Innermost.node \in (Len(Base) + 1)..Len(nodes) /\ Innermost.node \in Nat
         /\ nodes[Innermost.node].kind = "container" /\ Innermost.inside \in Seq(AnyBox)
<1>1. drill \in Seq(OpenBox) /\ Len(drill) \in Nat /\ Drilled(Base, nodes, drill)
  BY Inside
<1>2. Len(drill) \in 1..Len(drill)
  BY <1>1, EmptySeq
<1>3. Innermost \in OpenBox
  BY <1>1, <1>2 DEF Innermost
<1> QED BY <1>1, <1>2, <1>3 DEF Innermost, Drilled, OpenBox

(* A node of the record is marked: nothing else.                           *)
LEMMA MarkStep ==
  ASSUME IInv, InRecord, pc # "rollback", InRecord', Modes',
         NEW q \in (Len(Base) + 1)..Len(nodes), nodes[q].kind # "window",
         nodes' = nodes \/ OnlyMarks(nodes, nodes', q),
         drill' \in Seq(OpenBox), Len(drill') <= Len(drill),
         \A k \in 1..Len(drill') : drill'[k].node = drill[k].node,
         UNCHANGED <<remaining, cancelled, cancels, entries, shown, scanned, fetched,
                     deferred, queued, status, nextBox, checkpoint>>
  PROVE  Advances
<1>1. /\ Tree(Base) /\ Tree(nodes) /\ nodes \in Seq(Node) /\ Work(Base, nodes)
      /\ Drilled(Base, nodes, drill) /\ BoxMade(Base, nodes, Count)
      /\ Len(drill) \in Nat /\ Len(drill) <= MaxNesting + 1 /\ Len(drill') \in Nat
  BY Inside
<1>2. /\ Work(Base, nodes') /\ BoxMade(Base, nodes', Count) /\ Drilled(Base, nodes', drill)
  <2>1. CASE nodes' = nodes
    BY <1>1, <2>1
  <2>2. CASE OnlyMarks(nodes, nodes', q)
    BY <1>1, <2>2, WorkMarked
  <2> QED BY <2>1, <2>2
<1>3. Drilled(Base, nodes', drill')
  BY SMTT(30), <1>1, <1>2 DEF Drilled
<1>4. Len(drill') <= MaxNesting + 1
  BY <1>1, AnalyzerAssumption
<1>5. /\ cancelled' \in BOOLEAN /\ cancels' \in 0..MaxCancels /\ fetched' \in 0..MaxRecords
      /\ remaining' \in 0..MaxNodes
  BY DEF IInv, Shape
<1> QED BY <1>2, <1>3, <1>4, <1>5, Within

LEMMA OpenContainerStep == ASSUME IInv, OpenContainer PROVE Advances
<1>0. /\ pc = "open" /\ InRecord /\ InRecord' /\ drill # <<>>
      /\ \/ failure' = "ResourceLimit" /\ pc' = "rollback" /\ nodes' = nodes
         \/ /\ nodes' = Transition(nodes, Innermost.node, "Indexing")
            /\ pc' = "drill" /\ ~(Len(drill) > MaxNesting)
      /\ UNCHANGED <<remaining, cancelled, cancels, entries, shown, scanned, fetched,
                     deferred, queued, status, nextBox, checkpoint, drill>>
  BY DEF OpenContainer, InRecord, Fail, scanner, IInv, Modes
<1>1. /\ drill \in Seq(OpenBox) /\ Len(drill) \in Nat /\ nodes \in Seq(Node)
      /\ Len(Base) \in Nat /\ Len(nodes) \in Nat
  BY <1>0, Inside
<1>2. /\ Innermost.node \in (Len(Base) + 1)..Len(nodes) /\ Innermost.node \in 1..Len(nodes)
      /\ nodes[Innermost.node].kind # "window"
  BY <1>0, <1>1, InnermostFacts
<1>3. nodes' = nodes \/ OnlyMarks(nodes, nodes', Innermost.node)
  <2>1. "Indexing" \in States
    BY DEF States, Active
  <2> QED BY <1>0, <1>1, <1>2, <2>1, TransitionMarks
<1>4. MaxNesting \in Nat
  BY AnalyzerAssumption
<1>5. Modes'
  BY <1>0, <1>1, <1>4 DEF IInv, Modes, Failures
<1>6. pc # "rollback" /\ drill' \in Seq(OpenBox) /\ Len(drill') <= Len(drill)
      /\ \A k \in 1..Len(drill') : drill'[k].node = drill[k].node
  BY <1>0, <1>1
<1> QED BY <1>0, <1>2, <1>3, <1>5, <1>6, MarkStep

LEMMA DrillBoxStep == ASSUME IInv, DrillBox PROVE Advances
<1> DEFINE opened == [drill EXCEPT ![Len(drill)].inside = Tail(@)]
<1>0. /\ pc = "drill" /\ InRecord /\ drill # <<>> /\ Len(drill) <= MaxNesting
      /\ Innermost.inside # <<>>
      /\ \/ /\ failure' \in Failures /\ pc' = "rollback"
            /\ UNCHANGED <<nodes, remaining, drill>>
         \/ Decode(Innermost.node, Head(Innermost.inside), opened, "drill", "drill")
      /\ UNCHANGED <<cancelled, cancels, entries, shown, scanned, fetched, deferred,
                     queued, status, nextBox, checkpoint>>
  BY DEF DrillBox, InRecord, Fail, Failures, scanner, IInv, Modes
<1>1. /\ drill \in Seq(OpenBox) /\ Len(drill) \in Nat /\ Len(drill) \in 1..Len(drill)
      /\ Drilled(Base, nodes, drill)
      /\ Innermost \in OpenBox /\ Innermost.inside \in Seq(AnyBox)
      /\ Innermost.node \in (Len(Base) + 1)..Len(nodes)
      /\ nodes[Innermost.node].kind = "container"
  BY <1>0, Inside, InnermostFacts
<1>2. CASE failure' \in Failures /\ pc' = "rollback" /\ UNCHANGED <<nodes, remaining, drill>>
  <2>1. InRecord' /\ pc # "rollback"
    BY <1>0, <1>2 DEF InRecord
  <2>2. Modes'
    BY <1>0, <1>2 DEF IInv, Modes
  <2>3. drill' \in Seq(OpenBox) /\ Len(drill') <= Len(drill)
        /\ \A k \in 1..Len(drill') : drill'[k].node = drill[k].node
    BY <1>1, <1>2
  <2> QED BY <1>0, <1>1, <1>2, <2>1, <2>2, <2>3, MarkStep
<1>3. CASE Decode(Innermost.node, Head(Innermost.inside), opened, "drill", "drill")
  <2> DEFINE last == [Innermost EXCEPT !.inside = Tail(@)]
  <2>1. Head(Innermost.inside) \in AnyBox /\ Tail(Innermost.inside) \in Seq(AnyBox)
    BY <1>0, <1>1
  <2>2. last \in OpenBox /\ last.node = Innermost.node
    BY <1>1, <2>1 DEF OpenBox
  <2>3. opened = [drill EXCEPT ![Len(drill)] = last]
    BY DEF Innermost
  <2> HIDE DEF last
  <2>4. /\ opened \in Seq(OpenBox) /\ Len(opened) = Len(drill)
        /\ \A k \in 1..Len(drill) : opened[k].node = drill[k].node
    <3>1. /\ opened \in Seq(OpenBox) /\ Len(opened) = Len(drill)
          /\ opened[Len(drill)] = last
          /\ \A k \in 1..Len(drill) : k # Len(drill) => opened[k] = drill[k]
      <4> HIDE DEF opened
      <4> QED BY <1>1, <2>2, <2>3
    <3> HIDE DEF opened
    <3> QED BY <2>2, <3>1 DEF Innermost
  <2> HIDE DEF opened
  <2>5. Drilled(Base, nodes, opened) /\ opened # <<>>
    BY <1>1, <2>4 DEF Drilled
  <2>6. pc # "rollback" /\ Len(opened) <= MaxNesting
    BY <1>0, <2>4
  <2> QED BY <1>0, <1>1, <1>3, <2>1, <2>4, <2>5, <2>6, DecodeStep
<1> QED BY <1>0, <1>2, <1>3

LEMMA CloseContainerStep == ASSUME IInv, CloseContainer PROVE Advances
<1>0. /\ pc = "drill" /\ InRecord /\ InRecord' /\ drill # <<>> /\ Len(drill) <= MaxNesting
      /\ nodes' = Transition(nodes, Innermost.node, "Materialized")
      /\ drill' = SubSeq(drill, 1, Len(drill) - 1)
      /\ pc' = IF Len(drill) = 1 THEN "box" ELSE "drill"
      /\ UNCHANGED <<remaining, cancelled, cancels, entries, shown, scanned, fetched,
                     deferred, queued, status, nextBox, checkpoint>>
  BY DEF CloseContainer, InRecord, scanner, IInv, Modes
<1>1. /\ drill \in Seq(OpenBox) /\ Len(drill) \in Nat /\ nodes \in Seq(Node)
      /\ Len(Base) \in Nat /\ Len(nodes) \in Nat /\ Len(drill) \in 1..Len(drill)
      /\ Innermost.node \in (Len(Base) + 1)..Len(nodes)
      /\ nodes[Innermost.node].kind = "container"
  BY <1>0, Inside, InnermostFacts
<1>2. OnlyMarks(nodes, nodes', Innermost.node)
  <2>1. "Materialized" \in States /\ Innermost.node \in 1..Len(nodes)
    BY <1>1 DEF States, Terminal
  <2> QED BY <1>0, <1>1, <2>1, TransitionMarks
<1>3. /\ drill' \in Seq(OpenBox) /\ Len(drill') = Len(drill) - 1
      /\ \A k \in 1..Len(drill') : drill'[k] = drill[k]
  <2>0. Len(drill) - 1 \in Nat /\ Len(drill) - 1 <= Len(drill)
    BY <1>1
  <2>1. PICK n \in Nat : n = Len(drill) - 1 /\ n <= Len(drill)
    BY <2>0
  <2>2. /\ SubSeq(drill, 1, n) \in Seq(OpenBox) /\ Len(SubSeq(drill, 1, n)) = n
        /\ \A k \in 1..n : SubSeq(drill, 1, n)[k] = drill[k]
    BY <1>1, <2>1
  <2> QED BY <1>0, <2>1, <2>2
<1>4. MaxNesting \in Nat
  BY AnalyzerAssumption
<1>5. Modes'
  <2>1. pc' = "drill" => Len(drill') >= 1
    BY <1>0, <1>1, <1>3
  <2>2. pc' = "drill" => drill' # <<>>
    BY <2>1
  <2>3. Len(drill') <= MaxNesting
    BY <1>0, <1>1, <1>3, <1>4
  <2> QED BY <1>0, <2>2, <2>3 DEF IInv, Modes
<1>6. pc # "rollback" /\ Len(drill') <= Len(drill)
      /\ \A k \in 1..Len(drill') : drill'[k].node = drill[k].node
  BY <1>0, <1>1, <1>3
<1> QED BY <1>0, <1>1, <1>2, <1>3, <1>5, <1>6, MarkStep

(* From here on the record is worked on below the tree it began with.      *)
LEMMA BeginRecordStep == ASSUME IInv, BeginRecord PROVE Advances
<1>0. /\ pc = "publish" /\ queued # <<>> /\ drill' = <<>> /\ ~InRecord /\ InRecord'
      /\ checkpoint'.tree = Snapshot(nodes, RootId) /\ checkpoint'.nextBox = nextBox
      /\ \/ /\ failure' \in Failures /\ pc' = "rollback"
            /\ UNCHANGED <<nodes, remaining, nextBox>>
         \/ /\ nodes' = AppendChild(nodes, RootId, "box", "Indexing", nextBox, 0)
            /\ nextBox' = nextBox + 1
            /\ remaining' = remaining - 1 /\ remaining # 0
            /\ pc' = "header"
      /\ UNCHANGED <<cancelled, cancels, entries, shown, scanned, fetched, deferred,
                     queued, status>>
  BY DEF BeginRecord, InRecord, Fail, Failures, BoxCharged, scanner
<1>1. /\ Base = nodes /\ Count = nextBox /\ Tree(nodes) /\ nodes[RootId].kind = "root"
      /\ Len(nodes) \in Nat /\ RootId \in 1..Len(nodes) /\ nodes \in Seq(Node)
      /\ Count \in Nat /\ Tree(shown) /\ remaining \in 0..MaxNodes /\ MaxNodes \in Nat
  BY <1>0, Outside, WindowAssumption DEF IInv, Shape, BoxesInOrder
<1>2. Work(nodes, nodes') /\ (pc' # "rollback" => BoxMade(nodes, nodes', Count))
  <2>1. CASE nodes' = nodes /\ pc' = "rollback"
    <3>1. Below(nodes, nodes, RootId)
      BY <1>1, NothingMarked, MarksBelow
    <3> QED BY <1>1, <2>1, <3>1 DEF Work
  <2>2. CASE nodes' = AppendChild(nodes, RootId, "box", "Indexing", nextBox, 0)
    <3> DEFINE n == NewNode(RootId, "box", "Indexing", nextBox, 0)
    <3>1. "box" \in Kinds /\ "Indexing" \in States /\ nextBox \in Nat /\ 0 \in Nat
      BY <1>1 DEF Kinds, States, Active
    <3>2. n.parent = RootId /\ n.children = <<>> /\ n.kind = "box" /\ n.tag = nextBox
      BY DEF NewNode
    <3>3. Grafts(nodes, nodes', RootId, n)
      BY <1>1, <2>2, <3>1, AppendChildTree
    <3> HIDE DEF n
    <3>4. Below(nodes, nodes', RootId)
      BY <1>1, <3>2, <3>3, GraftsBelow
    <3>5. /\ nodes'[RootId].children = Append(nodes[RootId].children, Len(nodes) + 1)
          /\ nodes'[RootId].state = nodes[RootId].state
      <4>1. nodes[RootId] \in Node
        BY <1>1
      <4>2. nodes'[RootId] = [nodes[RootId] EXCEPT !.children = Append(@, Len(nodes) + 1)]
        BY <3>3 DEF Grafts
      <4> QED BY <4>1, <4>2 DEF Node
    <3>6. Len(nodes') = Len(nodes) + 1 /\ nodes'[Len(nodes) + 1] = n
      BY <3>3 DEF Grafts
    <3>7. \A i \in (Len(nodes) + 1)..Len(nodes') : nodes'[i].kind = "window" =>
            Untouched(nodes'[i])
      BY <1>1, <3>2, <3>6
    <3>8. Work(nodes, nodes')
      BY <3>4, <3>5, <3>7 DEF Work
    <3>9. BoxMade(nodes, nodes', Count)
      BY <1>1, <3>2, <3>5, <3>6 DEF BoxMade
    <3> QED BY <3>8, <3>9
  <2> QED BY <1>0, <2>1, <2>2
<1>3. Base' = nodes /\ Count' = nextBox
  <2>1. Base' = Restore(nodes', checkpoint'.tree)
    BY <1>0 DEF Base
  <2>2. Restore(nodes', Snapshot(nodes, RootId)) = nodes
    BY <1>1, <1>2, RestoreUndoes DEF Work
  <2>3. Count' = checkpoint'.nextBox
    BY <1>0 DEF Count
  <2> QED BY <1>0, <2>1, <2>2, <2>3
<1>4. /\ Tree(nodes') /\ Tree(shown') /\ Extends(shown, shown')
      /\ <<>> \in Seq(OpenBox) /\ Len(<<>>) <= MaxNesting + 1
  BY <1>0, <1>1, <1>2, ExtendsItself, AnalyzerAssumption DEF Work, Below
<1>5. nextBox' \in 0..Len(Boxes) /\ remaining' \in 0..MaxNodes
  <2>1. Count + 1 <= scanned /\ scanned \in 0..Len(Boxes) /\ Len(Boxes) \in Nat
    BY <1>0, HeadOfQueue, AnalyzerAssumption DEF IInv, Shape
  <2> QED BY <1>0, <1>1, <2>1
<1>6. Shape'
  BY <1>0, <1>1, <1>3, <1>4, <1>5 DEF IInv, Shape
<1>7. /\ FirstBoxes(Base', Count') /\ WindowsAgree(Base', entries') /\ Extends(shown', Base')
  BY <1>0, <1>1, <1>3 DEF IInv, BoxesInOrder
<1>8. BoxesInOrder'
  BY <1>0, <1>1, <1>3, <1>7 DEF IInv, BoxesInOrder
<1>9. Transaction'
  <2>1. Drilled(Base', nodes', drill')
    BY <1>0 DEF Drilled
  <2>2. pc' # "rollback" => nextBox' = Count' + 1
    BY <1>0, <1>3
  <2> QED BY <1>0, <1>1, <1>2, <1>3, <2>1, <2>2 DEF Transaction
<1>10. Modes' /\ Paging'
  BY <1>0 DEF IInv, Modes, Paging
<1> QED BY <1>4, <1>6, <1>7, <1>8, <1>9, <1>10 DEF IInv, Advances

(* The tree goes back, the record stays in the queue.                      *)
LEMMA RollBackStep == ASSUME IInv, RollBack PROVE Advances
<1>0. /\ pc = "rollback" /\ InRecord /\ pc' = "idle" /\ ~InRecord' /\ shown' = nodes'
      /\ nodes' = MarkPartial(Restore(nodes, checkpoint.tree), RootId, RootState(failure),
                              Code(failure))
      /\ status' = failure /\ failure \in Failures /\ drill' = <<>>
      /\ nextBox' = checkpoint.nextBox
      /\ UNCHANGED <<remaining, cancelled, cancels, entries, call, scanned, fetched,
                     deferred, queued>>
  BY DEF RollBack, Terminalize, Return, RestoredIndex, KeptRecords, InRecord, scanner,
         IInv, Modes
<1>1. /\ Base = Restore(nodes, checkpoint.tree) /\ Count = checkpoint.nextBox
  BY <1>0 DEF Base, Count
<1>2. nodes' = MarkPartial(Base, RootId, RootState(failure), Code(failure))
  BY <1>0, <1>1
<1>3. OnlyMarks(Base, nodes', RootId) /\ MayMove(Base[RootId].state, nodes'[RootId].state)
  BY <1>0, <1>2, TerminalizedRoot DEF IInv, Shape
<1>4. /\ Tree(nodes') /\ Extends(Base, nodes') /\ WindowsAgree(nodes', entries')
      /\ nodes'[RootId].children = Base[RootId].children
  BY <1>0, <1>3, RootMarked
<1>5. Modes' /\ Paging'
  BY <1>0 DEF IInv, Modes, Paging, Failures, Statuses
<1>6. /\ drill' \in Seq(OpenBox) /\ Len(drill') <= MaxNesting + 1 /\ fetched' \in 0..MaxRecords
      /\ remaining' \in 0..MaxNodes /\ cancelled' \in BOOLEAN /\ cancels' \in 0..MaxCancels
  BY <1>0, AnalyzerAssumption DEF IInv, Shape
<1>7. /\ deferred' = "Complete" => scanned = Len(Boxes)
      /\ status' = "Complete" => Count = Len(Boxes)
  BY <1>0 DEF IInv, BoxesInOrder, Failures
<1> QED BY <1>0, <1>1, <1>4, <1>5, <1>6, <1>7, Onward

(* The record is published: the tree it began with is left behind.         *)
LEMMA FinishRecordStep == ASSUME IInv, FinishRecord PROVE Advances
<1>0. /\ pc \in {"box", "dequeue"} /\ InRecord /\ pc' = "publish" /\ ~InRecord'
      /\ queued' = Tail(queued)
      /\ \/ nodes' = Transition(nodes, BoxNode, "Materialized")
         \/ nodes' = nodes
      /\ UNCHANGED <<remaining, cancelled, cancels, entries, call, shown, scanned, fetched,
                     deferred, status, nextBox, drill>>
  BY DEF FinishRecord, InRecord, scanner, record
<1> DEFINE b == Len(Base) + 1
           c == Base[RootId].children
<1>1. /\ Tree(Base) /\ Tree(nodes) /\ nodes \in Seq(Node) /\ Len(Base) \in Nat
      /\ Len(Base) >= 1 /\ Len(nodes) \in Nat /\ Work(Base, nodes)
      /\ BoxMade(Base, nodes, Count) /\ nextBox = Count + 1
      /\ BoxNode = b /\ b \in (Len(Base) + 1)..Len(nodes)
  BY <1>0, Inside
<1>2. Work(Base, nodes') /\ BoxMade(Base, nodes', Count)
  <2>1. CASE nodes' = nodes
    BY <1>1, <2>1
  <2>2. CASE nodes' = Transition(nodes, BoxNode, "Materialized")
    <3>1. b \in 1..Len(nodes) /\ "Materialized" \in States /\ nodes[b].kind # "window"
      BY <1>1 DEF States, Terminal, BoxMade
    <3>2. OnlyMarks(nodes, nodes', b)
      BY <1>1, <2>2, <3>1, TransitionMarks
    <3> QED BY <1>1, <3>1, <3>2, WorkMarked
  <2> QED BY <1>0, <2>1, <2>2
<1>3. Base' = nodes' /\ Count' = nextBox
  BY <1>0 DEF Base, Count
<1>4. /\ Tree(nodes') /\ Below(Base, nodes', RootId)
      /\ RootId \in 1..Len(Base) /\ Base[RootId].kind = "root"
      /\ nodes'[RootId].kind = "root" /\ Tree(shown) /\ Extends(shown, Base)
      /\ WindowsAgree(Base, entries)
  BY <1>1, <1>2, Links DEF IInv, Shape, Work, Below
<1>5. Extends(Base, nodes')
  BY <1>1, <1>2, <1>4, BelowExtends DEF Work, MayMove
<1>6. Extends(shown', Base') /\ Extends(shown, shown') /\ Tree(shown')
  BY <1>0, <1>1, <1>3, <1>4, <1>5, ExtendsComposes, ExtendsItself
<1>7. WindowsAgree(Base', entries')
  <2>1. WindowsAgree(nodes', entries)
    BY <1>1, <1>2, <1>4, WindowsBelow DEF Work
  <2> QED BY <1>0, <1>3, <2>1
<1>8. /\ queued \in Seq(Nat) /\ queued # <<>> /\ Count \in Nat /\ Len(queued) = scanned - Count
      /\ \A k \in 1..Len(queued) : queued[k] = Count + k
      /\ FirstBoxes(Base, Count) /\ scanned \in 0..Len(Boxes) /\ Len(Boxes) \in Nat
      /\ Count + 1 <= scanned
  <2>1. queued # <<>>
    BY <1>0 DEF IInv, BoxesInOrder
  <2>2. Count + 1 <= scanned
    BY <2>1, HeadOfQueue
  <2> QED BY <2>1, <2>2, AnalyzerAssumption DEF IInv, Shape, BoxesInOrder
<1>9. /\ queued' \in Seq(Nat) /\ Len(queued') = Len(queued) - 1
      /\ \A k \in 1..Len(queued') : queued'[k] = queued[k + 1]
  BY <1>0, <1>8, EmptySeq
<1>10. \A k \in 1..Len(queued') : queued'[k] = nextBox + k
  <2>1. Len(queued) \in Nat
    BY <1>8
  <2>2. ASSUME NEW k \in 1..Len(queued') PROVE queued'[k] = nextBox + k
    <3>1. k + 1 \in 1..Len(queued) /\ queued'[k] = queued[k + 1]
      BY <1>9, <2>1
    <3> QED BY <1>1, <1>8, <3>1
  <2> QED BY <2>2
<1>11. FirstBoxes(nodes', nextBox)
  <2>1. /\ c \in Seq(Nat) /\ Len(c) = Count /\ nodes'[RootId].children = Append(c, b)
        /\ \A k \in 1..Count : Base[c[k]].tag = k - 1
    <3>1. Base \in Seq(Node)
      BY <1>1, Links
    <3> QED BY <1>2, <1>4, <1>8, <3>1, NodeFields DEF FirstBoxes, BoxMade
  <2>2. /\ Len(nodes'[RootId].children) = Count + 1
        /\ nodes'[RootId].children[Count + 1] = b
        /\ \A k \in 1..Count : nodes'[RootId].children[k] = c[k]
    BY <1>8, <2>1
  <2>3. ASSUME NEW k \in 1..nextBox PROVE nodes'[nodes'[RootId].children[k]].tag = k - 1
    <3>1. CASE k = Count + 1
      BY SMTT(30), <1>2, <1>8, <2>2, <3>1 DEF BoxMade
    <3>2. CASE k # Count + 1
      <4>1. k \in 1..Count
        BY <1>1, <1>8, <3>2
      <4>2. k \in 1..Len(c) /\ Base[c[k]].tag = k - 1 /\ nodes'[RootId].children[k] = c[k]
        BY <2>1, <2>2, <4>1
      <4>3. c[k] \in 1..Len(Base)
        BY <1>1, <1>4, <4>2, Links DEF Linked
      <4> QED BY <1>5, <4>2, <4>3 DEF Extends, Keeps
    <3> QED BY <3>1, <3>2
  <2> QED BY <1>1, <2>2, <2>3 DEF FirstBoxes
<1> HIDE DEF b, c
<1>12. status = "InProgress"
  BY <1>0 DEF IInv, Modes
<1>13. BoxesInOrder'
  <2>1. /\ Count' \in Nat /\ Count' <= scanned' /\ Len(queued') = scanned' - Count'
        /\ FirstBoxes(Base', Count')
        /\ \A k \in 1..Len(queued') : queued'[k] = Count' + k
    BY <1>0, <1>1, <1>3, <1>8, <1>9, <1>10, <1>11
  <2> QED BY <1>0, <1>12, <2>1 DEF IInv, BoxesInOrder
<1>14. Shape'
  BY <1>0, <1>1, <1>3, <1>4, <1>6, <1>8, <1>9 DEF IInv, Shape
<1>15. Modes' /\ Paging' /\ Transaction'
  BY <1>0 DEF IInv, Modes, Paging, Transaction
<1> QED BY <1>6, <1>7, <1>13, <1>14, <1>15 DEF IInv, Advances

-----------------------------------------------------------------------------
(* The invariant holds, and what is shown only grows. *)

LEMMA InitInv == Init => IInv
<1> SUFFICES ASSUME Init PROVE IInv
  OBVIOUS
<1> USE DEF Init, DecoderInit
<1>1. /\ pc = "idle" /\ nodes = NewTree /\ shown = NewTree /\ entries = << >> /\ nextBox = 0
      /\ ~InRecord
  BY DEF InRecord
<1>2. Base = NewTree /\ Count = 0
  BY <1>1 DEF Base, Count
<1>3. /\ Tree(NewTree) /\ Len(NewTree) = 1 /\ NewTree[1].children = <<>>
      /\ NewTree[1].kind = "root"
  BY NewTreeIsTree DEF NewTree, NewNode
<1>4. WindowsAgree(NewTree, << >>)
  <2>1. DOMAIN << >> = {}
    OBVIOUS
  <2>2. \A w \in 1..Len(NewTree) : NewTree[w].kind # "window"
    BY <1>3
  <2> QED BY <2>1, <2>2 DEF WindowsAgree
<1>5. FirstBoxes(NewTree, 0)
  BY <1>3 DEF FirstBoxes, RootId
<1>6. Extends(NewTree, NewTree)
  BY <1>3, ExtendsItself
<1>7. /\ MaxRecords \in Nat /\ MaxNesting \in Nat /\ MaxNodes \in Nat /\ MaxCancels \in Nat
      /\ Len(Boxes) \in Nat
  BY AnalyzerAssumption, WindowAssumption
<1>8. Shape
  <2>1. /\ queued \in Seq(Nat) /\ drill \in Seq(OpenBox) /\ Len(drill) <= MaxNesting + 1
        /\ cancelled \in BOOLEAN /\ nextBox \in 0..Len(Boxes)
    <3>1. queued = <<>> /\ drill = <<>> /\ cancelled = FALSE /\ nextBox = 0
      OBVIOUS
    <3>2. queued \in Seq(Nat)
      BY <3>1
    <3>3. drill \in Seq(OpenBox)
      BY <3>1
    <3>4. Len(drill) = 0
      BY <3>1
    <3>5. Len(drill) <= MaxNesting + 1 /\ nextBox \in 0..Len(Boxes)
      BY <1>7, <3>1, <3>4
    <3> QED BY <3>1, <3>2, <3>3, <3>5
  <2>2. /\ remaining \in 0..MaxNodes /\ cancels \in 0..MaxCancels
        /\ scanned \in 0..Len(Boxes) /\ fetched \in 0..MaxRecords
    BY <1>7
  <2>3. Tree(Base) /\ Base[RootId].kind = "root"
    BY <1>2, <1>3 DEF RootId
  <2> QED BY <1>1, <1>3, <2>1, <2>2, <2>3 DEF Shape
<1>9. Modes /\ Transaction /\ Paging
  BY <1>1 DEF Modes, Transaction, Paging
<1>10. BoxesInOrder
  BY <1>1, <1>2, <1>5, <1>7 DEF BoxesInOrder
<1> QED BY <1>1, <1>2, <1>4, <1>6, <1>8, <1>9, <1>10 DEF IInv

LEMMA StutterStep == ASSUME IInv, UNCHANGED vars PROVE Advances
<1>0. UNCHANGED <<nodes, remaining, cancelled, cancels, pc, entries, call, shown,
                  scanned, fetched, queued, deferred, status, nextBox,
                  checkpoint, drill, failure>>
  BY DEF vars
<1>1. UNCHANGED <<Base, Count>> /\ InRecord' = InRecord
  BY <1>0 DEF Base, Count, InRecord
<1>2. Shape' /\ Modes' /\ BoxesInOrder'
  BY <1>0, <1>1 DEF IInv, Shape, Modes, BoxesInOrder
<1>3. Transaction' /\ Paging'
  BY <1>0, <1>1 DEF IInv, Transaction, Paging
<1>4. WindowsAgree(Base', entries') /\ Extends(shown', Base')
  BY <1>0, <1>1 DEF IInv
<1>5. Extends(shown, shown')
  BY <1>0, ExtendsItself DEF IInv, Shape
<1> QED BY <1>2, <1>3, <1>4, <1>5 DEF IInv, Advances

LEMMA EveryStepAdvances == ASSUME IInv, [Next]_vars PROVE Advances
<1>1. CASE AnalyzeBatch
  BY <1>1, AnalyzeBatchStep
<1>2. CASE ScanBox
  BY <1>2, ScanBoxStep
<1>3. CASE ScanEnds
  BY <1>3, ScanEndsStep
<1>4. CASE BeginRecord
  BY <1>4, BeginRecordStep
<1>5. CASE DecodeHeader
  BY <1>5, DecodeHeaderStep
<1>6. CASE OpenContainer
  BY <1>6, OpenContainerStep
<1>7. CASE DrillBox
  BY <1>7, DrillBoxStep
<1>8. CASE CloseContainer
  BY <1>8, CloseContainerStep
<1>9. CASE FinishRecord
  BY <1>9, FinishRecordStep
<1>10. CASE RollBack
  BY <1>10, RollBackStep
<1>11. CASE FinishBatch
  BY <1>11, FinishBatchStep
<1>12. CASE WindowCall /\ UNCHANGED analyzer
  <2>1. PICK w \in DOMAIN nodes, p \in Pages : DecodeWindow(w, p[1], p[2])
    BY <1>12 DEF WindowCall
  <2> QED BY <1>12, <2>1, DecodeWindowStep
<1>13. CASE ReuseEntry /\ UNCHANGED analyzer
  BY <1>13, ReuseEntryStep
<1>14. CASE StopPage /\ UNCHANGED analyzer
  BY <1>14, StopPageStep
<1>15. CASE BeginEntry /\ UNCHANGED analyzer
  BY <1>15, BeginEntryStep
<1>16. CASE DecodeEntry /\ UNCHANGED analyzer
  BY <1>16, DecodeEntryStep
<1>17. CASE FinishPage /\ UNCHANGED analyzer
  BY <1>17, FinishPageStep
<1>18. CASE ResumeAfterCancellation
  BY <1>18, ResumeStep
<1>19. CASE RequestCancellation
  BY <1>19, RequestCancellationStep
<1>20. CASE UNCHANGED vars
  BY <1>20, StutterStep
<1> QED BY <1>1, <1>2, <1>3, <1>4, <1>5, <1>6, <1>7, <1>8, <1>9, <1>10, <1>11, <1>12,
           <1>13, <1>14, <1>15, <1>16, <1>17, <1>18, <1>19, <1>20
        DEF Next, BatchStep, RecordStep, PageStep

(* The strengthened invariant holds in every reachable state, for any      *)
(* boxes, limits and pages, whatever fails or is cancelled.                *)
THEOREM Invariance == Spec => []IInv
<1>1. IInv /\ [Next]_vars => IInv'
  BY EveryStepAdvances DEF Advances
<1> QED BY <1>1, InitInv, PTL DEF Spec

-----------------------------------------------------------------------------
(* What the runs check. *)

(* Also within a record the index is right of the tree as it is.           *)
LEMMA WindowsAgreeNow == ASSUME IInv PROVE WindowsAgree(nodes, entries)
<1>1. CASE InRecord
  <2>1. /\ Tree(Base) /\ WindowsAgree(Base, entries) /\ Base[RootId].kind = "root"
        /\ Work(Base, nodes) /\ RootId \in 1..Len(Base)
    BY <1>1, Links DEF IInv, Shape, Transaction
  <2> QED BY <2>1, WindowsBelow DEF Work
<1>2. CASE ~InRecord
  BY <1>2, Outside
<1> QED BY <1>1, <1>2

(* Every variable keeps its shape: the budget of all calls together is     *)
(* never overdrawn and no index leaves its window.                         *)
THEOREM TypeCorrect == Spec => []TypeOK
<1>1. ASSUME IInv PROVE TypeOK
  <2>1. nodes \in Seq(Node) /\ DOMAIN nodes = 1..Len(nodes)
    BY <1>1, Links DEF IInv, Shape
  <2>2. ASSUME NEW i \in DOMAIN nodes
        PROVE  /\ nodes[i].kind \in Kinds /\ nodes[i].state \in States
               /\ nodes[i].codes \subseteq Codes
    <3>1. nodes[i] \in Node
      BY <2>1
    <3> QED BY <3>1 DEF Node
  <2>3. \A w \in DOMAIN entries : DOMAIN entries[w] \subseteq 0..(nodes[w].room - 1)
    BY <1>1, WindowsAgreeNow DEF WindowsAgree, Indexed
  <2> QED BY <1>1, <2>2, <2>3 DEF TypeOK, IInv, Shape, Modes
<1> QED BY <1>1, Invariance, PTL

(* A window and its decoder's index agree, however often its entries and   *)
(* later records fail and are rolled back.                                 *)
THEOREM EntriesInPlaceAlways == Spec => []EntriesInPlace
<1>1. ASSUME IInv PROVE EntriesInPlace
  <2>1. /\ Tree(nodes) /\ Linked(nodes) /\ nodes \in Seq(Node) /\ Len(nodes) \in Nat
        /\ DOMAIN nodes = 1..Len(nodes) /\ WindowsAgree(nodes, entries)
    BY <1>1, Links, WindowsAgreeNow DEF IInv, Shape
  <2>2. ASSUME NEW w \in DOMAIN entries
        PROVE  /\ IsWindow(w)
               /\ \A i \in DOMAIN entries[w] : IsEntry(nodes, w, i, entries[w][i])
               /\ {nodes[w].children[k] : k \in DOMAIN nodes[w].children} =
                    {entries[w][i] : i \in DOMAIN entries[w]}
               /\ nodes[w].state = "Materialized" =>
                    DOMAIN entries[w] = 0..(nodes[w].room - 1)
    <3>1. w \in 1..Len(nodes) /\ nodes[w].kind = "window" /\ Indexed(nodes, entries, w)
      BY <2>1 DEF WindowsAgree
    <3>2. DOMAIN nodes[w].children = 1..Len(nodes[w].children)
      BY <2>1, <3>1, NodeFields
    <3>3. ASSUME NEW i \in DOMAIN entries[w]
          PROVE  \E k \in 1..Len(nodes[w].children) : nodes[w].children[k] = entries[w][i]
      <4>1. PICK id \in 1..Len(nodes) : id = entries[w][i] /\ nodes[id].parent = w
        BY <3>1 DEF Indexed, IsEntry
      <4>2. id # 1
        BY <2>1, <3>1, <4>1 DEF Linked
      <4>3. id \in 2..Len(nodes)
        BY <2>1, <4>2
      <4>4. Once(nodes[nodes[id].parent].children, id)
        BY <2>1, <4>3 DEF Linked
      <4>5. Once(nodes[w].children, id)
        BY <4>1, <4>4
      <4> QED BY <4>1, <4>5 DEF Once
    <3>4. \A k \in 1..Len(nodes[w].children) :
            \E i \in DOMAIN entries[w] : nodes[w].children[k] = entries[w][i]
      BY <3>1 DEF Indexed
    <3>5. {nodes[w].children[k] : k \in DOMAIN nodes[w].children} =
            {entries[w][i] : i \in DOMAIN entries[w]}
      <4> DEFINE c == nodes[w].children
                 e == entries[w]
      <4>1. /\ DOMAIN c = 1..Len(c)
            /\ \A i \in DOMAIN e : \E k \in 1..Len(c) : c[k] = e[i]
            /\ \A k \in 1..Len(c) : \E i \in DOMAIN e : c[k] = e[i]
        BY <3>2, <3>3, <3>4
      <4> HIDE DEF c, e
      <4>2. {c[k] : k \in DOMAIN c} = {e[i] : i \in DOMAIN e}
        BY <4>1
      <4> QED BY <4>2 DEF c, e
    <3> QED BY <2>1, <3>1, <3>5 DEF IsWindow, Indexed
  <2>3. ASSUME NEW w \in DOMAIN entries, NEW i \in DOMAIN entries[w]
        PROVE  LET id == entries[w][i] IN
               /\ id \in DOMAIN nodes
               /\ nodes[id].parent = w /\ nodes[id].tag = i
               /\ nodes[id].kind = "structure" /\ nodes[id].state = "Materialized"
    <3>1. IsEntry(nodes, w, i, entries[w][i])
      BY <2>2
    <3> QED BY <2>1, <3>1 DEF IsEntry
  <2> QED BY <2>2, <2>3 DEF EntriesInPlace
<1> QED BY <1>1, Invariance, PTL

(* No cancellation or failure loses, repeats or reorders a box.            *)
THEOREM NoRecordLostAlways == Spec => []NoRecordLost
<1>1. ASSUME IInv PROVE NoRecordLost
  <2> SUFFICES ASSUME pc \in {"idle", "scan", "publish", "window", "entry"}
               PROVE  /\ [k \in DOMAIN nodes[RootId].children |->
                            nodes[nodes[RootId].children[k]].tag]
                           = [k \in 1..nextBox |-> k - 1]
                      /\ queued = [k \in 1..(scanned - nextBox) |-> nextBox + k]
                      /\ status = "Complete" => nextBox = Len(Boxes)
    BY DEF NoRecordLost
  <2>1. ~InRecord
    BY DEF InRecord
  <2>2. /\ Base = nodes /\ Count = nextBox /\ nodes \in Seq(Node) /\ RootId \in 1..Len(nodes)
    BY <1>1, <2>1, Outside
  <2>3. DOMAIN nodes[RootId].children = 1..Len(nodes[RootId].children)
    BY <2>2, NodeFields
  <2>4. /\ Len(nodes[RootId].children) = nextBox
        /\ \A k \in 1..nextBox : nodes[nodes[RootId].children[k]].tag = k - 1
    BY <1>1, <2>2 DEF IInv, BoxesInOrder, FirstBoxes
  <2>5. queued \in Seq(Nat) /\ Len(queued) = scanned - nextBox
        /\ \A k \in 1..Len(queued) : queued[k] = nextBox + k
    BY <1>1, <2>2 DEF IInv, Shape, BoxesInOrder
  <2>6. queued = [k \in 1..Len(queued) |-> queued[k]]
    BY <2>5
  <2>7. queued = [k \in 1..(scanned - nextBox) |-> nextBox + k]
    BY <2>5, <2>6
  <2>8. status = "Complete" => nextBox = Len(Boxes)
    BY <1>1, <2>2 DEF IInv, BoxesInOrder
  <2> QED BY <2>3, <2>4, <2>7, <2>8
<1> QED BY <1>1, Invariance, PTL

LEMMA ExtendsIsGrows ==
  ASSUME NEW t, NEW u, Tree(t), Tree(u), Extends(t, u)
  PROVE  Published!Grows(t, u)
<1>1. /\ t \in Seq(Node) /\ u \in Seq(Node) /\ Len(t) \in Nat /\ Len(u) \in Nat
      /\ Len(t) <= Len(u)
  BY Links DEF Extends
<1>2. ASSUME NEW i \in DOMAIN t PROVE Published!SameNode(t[i], u[i])
  <2>1. i \in 1..Len(t) /\ i \in 1..Len(u) /\ Keeps(t[i], u[i])
    BY <1>1 DEF Extends
  <2>2. t[i].children \in Seq(Nat) /\ u[i].children \in Seq(Nat)
    BY <1>1, <2>1, NodeFields
  <2>3. Published!CanMove(t[i].state, u[i].state)
    BY <2>1 DEF Keeps, MayMove, Published!CanMove, Terminal, Published!Terminal
  <2>4. SubSeq(u[i].children, 1, Len(t[i].children)) = t[i].children
    <3> DEFINE c == t[i].children
               d == u[i].children
    <3>1. /\ c \in Seq(Nat) /\ d \in Seq(Nat) /\ Len(c) \in Nat /\ Len(d) \in Nat
          /\ Len(c) <= Len(d) /\ \A k \in 1..Len(c) : d[k] = c[k]
      BY <2>1, <2>2 DEF Keeps
    <3> HIDE DEF c, d
    <3>2. /\ SubSeq(d, 1, Len(c)) \in Seq(Nat) /\ Len(SubSeq(d, 1, Len(c))) = Len(c)
          /\ \A k \in 1..Len(c) : SubSeq(d, 1, Len(c))[k] = c[k]
      BY <3>1
    <3>3. SubSeq(d, 1, Len(c)) = c
      BY <3>1, <3>2, SeqEqual
    <3> QED BY <3>3 DEF c, d
  <2> QED BY <2>1, <2>3, <2>4 DEF Keeps, Published!SameNode
<1>3. Published!WellLinked(u)
  BY DEF Tree, WellLinked, Positions, RootId, Published!WellLinked, Published!Positions,
         Published!RootId
<1> QED BY <1>1, <1>2, <1>3 DEF Published!Grows

(* The analyzer implements PublishedTree: nothing that a caller has seen   *)
(* is ever taken back, and nothing rolled back is ever seen.               *)
THEOREM AnalyzerPublishes == Spec => PublicationSpec
<1>1. Init => shown = Published!NewTree
  BY DEF Init, NewTree, NewNode, Published!NewTree, Published!NewNode
<1>2. IInv /\ IInv' /\ [Next]_vars => [Published!Grows(shown, shown')]_shown
  <2> SUFFICES ASSUME IInv, IInv', [Next]_vars PROVE Published!Grows(shown, shown')
    OBVIOUS
  <2>1. Extends(shown, shown')
    BY EveryStepAdvances DEF Advances
  <2>2. Tree(shown) /\ Tree(shown')
    BY DEF IInv, Shape
  <2> QED BY <2>1, <2>2, ExtendsIsGrows
<1> QED BY <1>1, <1>2, Invariance, PTL DEF Spec, PublicationSpec, Published!Spec

=============================================================================
