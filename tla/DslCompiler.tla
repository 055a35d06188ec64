---------------------------- MODULE DslCompiler ----------------------------
(***************************************************************************)
(* rules/dsl_ir.cpp: a structure is flattened into a list of typed fields, *)
(* each with the conditions under which it is there, and the checks that   *)
(* stand between them; loops are unrolled to their maximum.  The byte code *)
(* reads the fields in order, each check at its position.  What cannot be  *)
(* decided is kept away from the virtual machine: a field is only used     *)
(* where it must have been read, a lazy region only starts where a byte    *)
(* does.  Any diagnostic rejects the structure; which it is, and the rules *)
(* for types, names and annotations, are left out.                         *)
(***************************************************************************)
EXTENDS DslSource

-----------------------------------------------------------------------------
(* Where the next field starts: the offset, the offset in a byte and       *)
(* whether it is a byte boundary, as far as they are known.                *)

Unknown == -1
Tracker(exact, modulo, aligned) == [exact |-> exact, modulo |-> modulo, aligned |-> aligned]

Advanced(t, width) ==
  LET from == IF t.exact # Unknown THEN t.exact ELSE t.modulo
      modulo == (from + width) % ByteBits
  IN  IF from # Unknown
      THEN Tracker(IF t.exact = Unknown THEN Unknown ELSE t.exact + width,
                   modulo, modulo = 0)
      ELSE [t EXCEPT !.aligned = @ /\ width % ByteBits = 0]

AnyOffset(t) == [t EXCEPT !.exact = Unknown, !.aligned = FALSE]
AnyByte(t) == [t EXCEPT !.exact = Unknown]

Common(values) == IF \E v \in values : values = {v} THEN CHOOSE v \in values : TRUE ELSE Unknown

Joined(ts) ==
  Tracker(Common({t.exact : t \in ts}), Common({t.modulo : t \in ts}), \A t \in ts : t.aligned)

-----------------------------------------------------------------------------
(* Conditions, on the value of a field or on the data that is left.        *)

Condition(index, op, value) ==
  [on |-> "field", index |-> index, op |-> op, value |-> value, negated |-> FALSE]
Negated(condition) == [condition EXCEPT !.negated = TRUE]
DataLeft == [on |-> "data", index |-> 0, op |-> "equal", value |-> 1, negated |-> FALSE]

(* Something with the conditions required is there wherever those given hold. *)
Guaranteed(required, given) == ToSet(required) \subseteq ToSet(given)

(* The compiler's state: the typed fields, the declarations in scope with  *)
(* their index and conditions, the checks, the depth of loops, the tracker *)
(* and whether there has been no diagnostic.                               *)
NewStruct ==
  [fields |-> <<>>, declared |-> <<>>, bounds |-> <<>>, sentinels |-> <<>>, whiles |-> <<>>,
   asserts |-> <<>>, stops |-> <<>>, depth |-> 0, tracker |-> Tracker(0, 0, TRUE), ok |-> TRUE]

Following(c) == Len(c.fields) + 1

Known(c, name) == \E i \in DOMAIN c.declared : c.declared[i].name = name
Lookup(c, name) ==
  c.declared[Max({i \in DOMAIN c.declared : c.declared[i].name = name})]

Declare(c, item, conds) ==
  Append(c.declared, [name |-> item.name, index |-> Following(c), conds |-> conds,
                      enc |-> IF item.kind = "field" THEN item.enc ELSE "computed",
                      width |-> IF item.kind = "field" THEN item.width ELSE 0])

Available_Declared(c, name, conds) == Known(c, name)
Available(c, name, conds) == Known(c, name) /\ Guaranteed(Lookup(c, name).conds, conds)

Scalar(c, name) == Known(c, name) /\ Lookup(c, name).enc # "se"

(* resolveController() and resolveConditionValue().                        *)
Controls(c, name, conds) == Scalar(c, name) /\ Available(c, name, conds)
Fits(declared, value) ==
  /\ declared.width # 0 => value < 2^declared.width
  /\ declared.enc = "ue" => value < MaxValue

RECURSIVE Resolvable(_, _, _), Resolved(_, _)
Resolvable(e, conds, c) ==
  CASE e.op = "field"    -> Scalar(c, e.ref) /\ Available(c, e.ref, conds)
    [] e.op = "optional" -> Scalar(c, e.ref) /\ Resolvable(e.default, conds, c)
    [] e.op \in {"literal", "more", "aligned", "bytes"} -> TRUE
    [] e.op = "not"      -> Resolvable(e.left, conds, c)
    [] OTHER             -> Resolvable(e.left, conds, c) /\ Resolvable(e.right, conds, c)

Resolved(e, c) ==
  CASE e.op = "field"    -> [e EXCEPT !.ref = Lookup(c, e.ref).index]
    [] e.op = "optional" -> [e EXCEPT !.ref = Lookup(c, e.ref).index,
                                      !.default = Resolved(e.default, c)]
    [] e.op \in {"literal", "more", "aligned", "bytes"} -> e
    [] e.op = "not"      -> [e EXCEPT !.left = Resolved(e.left, c)]
    [] OTHER             -> [e EXCEPT !.left = Resolved(e.left, c),
                                      !.right = Resolved(e.right, c)]

-----------------------------------------------------------------------------
(* Items that become one typed field.                                      *)

ValidField(f) ==
  /\ f.enc = "bits" /\ f.size = {} => f.width \in 1..MaxWidth
  /\ f.enc = "ff" => f.max >= 1
  /\ f.size # {} => f.equals = {} /\ f.values = {}
  /\ f.enc = "se" => f.equals = {}
  /\ \A v \in f.equals \cup f.values \cup {r[2] : r \in f.range} :
       Fits(f, v)

Typed(c, item, conds) == Append(c.fields, [conds |-> conds] @@ item)

AfterField(t, f) ==
  IF f.enc = "ff" THEN AnyByte(t)
  ELSE IF f.enc # "bits" \/ f.size # {} THEN AnyOffset(t)
  ELSE Advanced(t, f.width)

CompileField(f, conds, c) ==
  LET sized == [f EXCEPT !.size = {Resolved(e, c) : e \in f.size}]
  IN  IF ~ValidField(f) \/ \E e \in f.size : ~Resolvable(e, conds, c)
      THEN [c EXCEPT !.ok = FALSE]
      ELSE [c EXCEPT !.fields = Typed(c, sized, conds), !.declared = Declare(c, f, conds),
                     !.tracker = AfterField(@, f)]

CompileComputed(item, conds, c) ==
  IF ~Resolvable(item.expr, conds, c) THEN [c EXCEPT !.ok = FALSE]
  ELSE [c EXCEPT !.fields = Typed(c, [item EXCEPT !.expr = Resolved(@, c)], conds),
                 !.declared = Declare(c, item, conds)]

CompileLazyRegion(item, conds, c) ==
  IF ~c.tracker.aligned \/ ~Resolvable(item.expr, conds, c) THEN [c EXCEPT !.ok = FALSE]
  ELSE [c EXCEPT !.fields = Typed(c, [item EXCEPT !.expr = Resolved(@, c)], conds),
                 !.tracker = AnyByte(@)]

CompileCompressedPayload(item, conds, c) ==
  IF conds # <<>> \/ c.depth # 0 THEN [c EXCEPT !.ok = FALSE]
  ELSE [c EXCEPT !.fields = Typed(c, item, conds), !.tracker = AnyOffset(@)]

(* A field for the stop bit and for each bit that may be needed after it.  *)
CompileTrailingBits(conds, c) ==
  LET bit(j) == [kind |-> IF j = 1 THEN "stop" ELSE "zero", conds |-> conds]
  IN  [c EXCEPT !.fields = @ \o [j \in 1..ByteBits |-> bit(j)],
                !.tracker = Tracker(Unknown, 0, TRUE)]

Anchored(c, item, conds) == Available(c, item.anchor, conds) /\ Lookup(c, item.anchor).enc # "computed"

CompileAssertion(item, conds, c) ==
  IF ~Anchored(c, item, conds) \/ ~Resolvable(item.expr, conds, c)
     \/ (conds # <<>> /\ c.depth = 0)
  THEN [c EXCEPT !.ok = FALSE]
  ELSE [c EXCEPT !.asserts = Append(@, [expr |-> Resolved(item.expr, c), position |-> Following(c),
                                        anchor |-> Lookup(c, item.anchor).index, conds |-> conds])]

CompileUnsupported(item, conds, c) ==
  IF ~Anchored(c, item, conds) \/ c.depth # 0 THEN [c EXCEPT !.ok = FALSE]
  ELSE [c EXCEPT !.stops = Append(@, [position |-> Following(c), conds |-> conds,
                                      anchor |-> Lookup(c, item.anchor).index])]

-----------------------------------------------------------------------------
(* Branches and loops: the items inside, under further conditions.         *)

RECURSIVE CompileItems(_, _, _)

(* The arms are compiled one after the other, all from the same tracker.   *)
RECURSIVE CompileArms(_, _, _, _)
CompileArms(arms, from, done, c) ==
  LET arm   == CompileItems(Head(arms).items, Head(arms).conds, [c EXCEPT !.tracker = from])
  IN  IF arms = <<>> THEN [c EXCEPT !.tracker = Joined(done)]
      ELSE CompileArms(Tail(arms), from, done \cup {arm.tracker}, arm)

CompileConditional(item, conds, c) ==
  LET holds == Condition(Lookup(c, item.name).index, "equal", item.value)
      arms  == <<[items |-> item.then, conds |-> Append(conds, holds)],
                 [items |-> item.else, conds |-> Append(conds, Negated(holds))]>>
  IN  IF ~Controls(c, item.name, conds) \/ ~Fits(Lookup(c, item.name), item.value)
      THEN [c EXCEPT !.ok = FALSE]
      ELSE CompileArms(arms, c.tracker, {}, c)

CompileSwitch_OpenDefault(item, conds, c) ==
  LET guards == [i \in DOMAIN item.arms |->
                   Condition(Lookup(c, item.name).index, "equal", item.arms[i].value)]
      arms   == [i \in DOMAIN item.arms |->
                   [items |-> item.arms[i].items, conds |-> Append(conds, guards[i])]]
      rest   == SetToSeq({[items |-> items, conds |-> conds] : items \in item.default})
  IN  IF ~Controls(c, item.name, conds)
         \/ \E i \in DOMAIN item.arms : ~Fits(Lookup(c, item.name), item.arms[i].value)
      THEN [c EXCEPT !.ok = FALSE]
      ELSE CompileArms(arms \o rest, c.tracker, IF rest = <<>> THEN {c.tracker} ELSE {}, c)

(* Without a default, none of the arms may be taken.                       *)
CompileSwitch(item, conds, c) ==
  LET guards == [i \in DOMAIN item.arms |->
                   Condition(Lookup(c, item.name).index, "equal", item.arms[i].value)]
      others == conds \o [i \in DOMAIN guards |-> Negated(guards[i])]
      arms   == [i \in DOMAIN item.arms |->
                   [items |-> item.arms[i].items, conds |-> Append(conds, guards[i])]]
      rest   == SetToSeq({[items |-> items, conds |-> others] : items \in item.default})
  IN  IF ~Controls(c, item.name, conds)
         \/ \E i \in DOMAIN item.arms : ~Fits(Lookup(c, item.name), item.arms[i].value)
      THEN [c EXCEPT !.ok = FALSE]
      ELSE CompileArms(arms \o rest, c.tracker, IF rest = <<>> THEN {c.tracker} ELSE {}, c)

(* One iteration: what it declares is forgotten when it ends.              *)
Iteration(body, conds, c) == CompileItems(body, conds, [c EXCEPT !.depth = @ + 1])

Closed(c, inside) ==
  [inside EXCEPT !.depth = c.depth, !.declared = c.declared,
                 !.ok = @ /\ Len(inside.fields) > Len(c.fields)]

CompileIteration(body, conds, c) == Closed(c, Iteration(body, conds, c))

RECURSIVE CompileTimes(_, _, _, _, _)
CompileTimes(item, i, conds, trackers, c) ==
  LET exceeds == Condition(Lookup(c, item.count).index, "exceeds", i)
  IN  IF i = item.max THEN [c EXCEPT !.tracker = AnyByte(Joined(trackers \cup {@}))]
      ELSE CompileTimes(item, i + 1, conds, trackers \cup {c.tracker},
                        CompileIteration(item.body, Append(conds, exceeds), c))

CompileRepeat(item, conds, c) ==
  LET bound == [controller |-> Lookup(c, item.count).index, position |-> Following(c),
                max |-> item.max, conds |-> conds]
      width == Lookup(c, item.count).width
  IN  IF ~Controls(c, item.count, conds) \/ item.max = 0 \/ (width # 0 /\ item.max >= 2^width)
      THEN [c EXCEPT !.ok = FALSE]
      ELSE CompileTimes(item, 0, conds, {}, [c EXCEPT !.bounds = Append(@, bound)])

ValidSentinel(item) ==
  \E i \in DOMAIN item.body :
    LET f == item.body[i]
    IN  /\ f.kind = "field" /\ f.name = item.field /\ f.size = {} /\ f.enc \in {"bits", "ue"}
        /\ Fits(f, item.value)

(* Each iteration is there unless an earlier one had the sentinel.         *)
RECURSIVE CompileUntil(_, _, _, _, _)
AfterSentinel(item, found, c, sentinel) ==
  [indices |-> Append(found.indices, sentinel), firsts |-> Append(found.firsts, Following(c)),
   conds |-> Append(found.conds, Negated(Condition(sentinel, "equal", item.value)))]

Sentineled(item, i, conds, found, c, inside) ==
  CompileUntil(item, i + 1, conds,
               AfterSentinel(item, found, c, Lookup(inside, item.field).index),
               Closed(c, inside))

CompileUntil(item, i, conds, found, c) ==
  LET repeat == [sentinels |-> found.indices, firsts |-> found.firsts, value |-> item.value,
                 position |-> Following(c), conds |-> conds]
  IN  IF i = item.max
      THEN [c EXCEPT !.sentinels = Append(@, repeat), !.tracker = AnyOffset(@)]
      ELSE Sentineled(item, i, conds, found, c, Iteration(item.body, found.conds, c))

CompileSentinelRepeat(item, conds, c) ==
  IF item.max = 0 \/ ~ValidSentinel(item) THEN [c EXCEPT !.ok = FALSE]
  ELSE CompileUntil(item, 0, conds, [indices |-> <<>>, firsts |-> <<>>, conds |-> conds], c)

RECURSIVE CompileWhile(_, _, _, _, _)
CompileWhile(item, i, conds, firsts, c) ==
  LET repeat == [firsts |-> firsts, max |-> item.max, position |-> Following(c), conds |-> conds]
  IN  IF i = item.max THEN [c EXCEPT !.whiles = Append(@, repeat)]
      ELSE CompileWhile(item, i + 1, conds, Append(firsts, Following(c)),
                        CompileIteration(item.body, Append(conds, DataLeft),
                                         [c EXCEPT !.tracker = Tracker(Unknown, 0, TRUE)]))

CompileWhileRepeat(item, conds, c) ==
  IF item.max = 0 THEN [c EXCEPT !.ok = FALSE]
  ELSE [CompileWhile(item, 0, conds, <<>>, c) EXCEPT !.tracker = AnyOffset(c.tracker)]

CompileItem(item, conds, c) ==
  CASE item.kind = "field"       -> CompileField(item, conds, c)
    [] item.kind = "computed"    -> CompileComputed(item, conds, c)
    [] item.kind = "lazy"        -> CompileLazyRegion(item, conds, c)
    [] item.kind = "payload"     -> CompileCompressedPayload(item, conds, c)
    [] item.kind = "trailing"    -> CompileTrailingBits(conds, c)
    [] item.kind = "assert"      -> CompileAssertion(item, conds, c)
    [] item.kind = "unsupported" -> CompileUnsupported(item, conds, c)
    [] item.kind = "if"          -> CompileConditional(item, conds, c)
    [] item.kind = "switch"      -> CompileSwitch(item, conds, c)
    [] item.kind = "repeat"      -> CompileRepeat(item, conds, c)
    [] item.kind = "until"       -> CompileSentinelRepeat(item, conds, c)
    [] item.kind = "while"       -> CompileWhileRepeat(item, conds, c)

CompileItems(items, conds, c) ==
  IF items = <<>> \/ ~c.ok THEN c
  ELSE CompileItems(Tail(items), conds, CompileItem(Head(items), conds, c))

(* validateTerminals(), of the parser and the compiler: compressed_payload  *)
(* is the last item of a structure, rbsp_trailing_bits that of a structure *)
(* or of a branch, and there are not both.                                 *)
Bodies(item) ==
  CASE item.kind = "if"     -> {item.then, item.else}
    [] item.kind = "switch" -> {item.arms[a].items : a \in DOMAIN item.arms} \cup item.default
    [] item.kind \in {"repeat", "until", "while"} -> {item.body}
    [] OTHER -> {}

RECURSIVE TerminalsLast(_, _), Mentions(_, _)
TerminalsLast(items, last) ==
  \A i \in DOMAIN items :
    /\ items[i].kind \in {"payload", "trailing"} => i = Len(items) /\ items[i].kind \in last
    /\ \A body \in Bodies(items[i]) :
         TerminalsLast(body, IF items[i].kind \in {"if", "switch"} THEN {"trailing"} ELSE {})

Mentions(items, kind) ==
  \E i \in DOMAIN items : items[i].kind = kind
                           \/ \E body \in Bodies(items[i]) : Mentions(body, kind)

ValidTerminals(items) ==
  /\ TerminalsLast(items, {"payload", "trailing"})
  /\ ~(Mentions(items, "payload") /\ Mentions(items, "trailing"))

-----------------------------------------------------------------------------
(* The byte code: at each position what terminates loops, the assertions,  *)
(* the unsupported statements and the bounds of loops, then the field and  *)
(* what is required of its value.                                          *)

Instruction(op, operand) == <<[op |-> op, operand |-> operand]>>

ChecksAt(op, checks, position) ==
  LET here == {i \in DOMAIN checks : checks[i].position = position}
  IN  [n \in 1..Cardinality(here) |->
         [op |-> op, operand |-> Min(here) + n - 1]]

ReadOpcode(f) ==
  CASE f.kind = "field" -> "Read"       [] f.kind = "computed" -> "Compute"
    [] f.kind = "lazy"  -> "Lazy"       [] f.kind = "payload"  -> "Payload"
    [] f.kind = "stop"  -> "Trailing"

FieldCode(c, i) ==
  LET f == c.fields[i]
      test(op, wanted) == IF wanted = {} THEN <<>> ELSE Instruction(op, i)
  IN  IF f.kind = "zero" THEN <<>>
      ELSE Instruction(ReadOpcode(f), i)
           \o IF f.kind # "field" THEN <<>>
              ELSE test("Equals", f.equals) \o test("Minimum", f.range)
                   \o test("Maximum", f.range)

PositionCode(c, i) ==
  ChecksAt("Sentinel", c.sentinels, i) \o ChecksAt("While", c.whiles, i)
    \o ChecksAt("Assert", c.asserts, i) \o ChecksAt("Unsupported", c.stops, i)
    \o ChecksAt("Bound", c.bounds, i)
    \o IF i \in DOMAIN c.fields THEN FieldCode(c, i) ELSE <<>>

ByteCode(c) ==
  Instruction("Begin", 0) \o FlattenSeq([i \in 1..Following(c) |-> PositionCode(c, i)])
    \o Instruction("End", 0)

(* A program that was accepted (ok), with its byte code, or a rejection.   *)
Emitted(c, ok) == [ok |-> ok, code |-> IF ok THEN ByteCode(c) ELSE <<>>] @@ c

Compiled(items) ==
  LET c == CompileItems(items, <<>>, NewStruct)
  IN  Emitted(c, c.ok /\ ValidTerminals(items))

=============================================================================
