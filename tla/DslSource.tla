---------------------------- MODULE DslSource ----------------------------
(***************************************************************************)
(* The format language of rules/dsl.cpp: what the parser makes of the      *)
(* statements of a structure, how a field is read from bits and how an     *)
(* expression is evaluated, which the compiler and the virtual machine     *)
(* build upon; and what a structure means, as a direct reading of its      *)
(* items from the first to the last (Reading).  The latter is the abstract *)
(* specification of a run: the virtual machine never sees how the items    *)
(* are nested.                                                             *)
(*                                                                         *)
(* An item is a record with a kind:                                        *)
(*   field    name, enc ("bits", "ue", "se" or "ff"), width (of bits), max *)
(*            (bytes of ff), size (the expression of a dynamic width),     *)
(*            equals, range and values (of an enum); the last four are     *)
(*            sets, empty when the field has none                          *)
(*   computed name, expr            lazy      name, expr (bytes)           *)
(*   assert   expr, anchor          unsupported  anchor                    *)
(*   payload  name                  trailing                               *)
(*   if       name, value, then, else                                      *)
(*   switch   name, arms (value, items), default (a set of item sequences) *)
(*   repeat   count, max, body      until  field, value, max, body         *)
(*   while    max, body                                                    *)
(* A byte has ByteBits bits and a number MaxWidth; truth values are 0 and  *)
(* 1.  Arrays, byte orders, names of iterations, scalar types, values of   *)
(* other structures and all that is only shown are left out.               *)
(***************************************************************************)
EXTENDS Integers, Sequences, SequencesExt

CONSTANTS
  ByteBits,       \* for 8
  MaxWidth        \* for 64, the bits of the widest value

ASSUME WidthsAssumption == /\ ByteBits \in Nat \ {0, 1}
                           /\ MaxWidth \in Nat \ {0}

MaxValue == 2^MaxWidth - 1

(* The source: its bits, and the position reads fail to get past.          *)
Input(bits, fault) == [bits |-> bits, fault |-> fault]

Remaining(input, at) == Len(input.bits) - at

-----------------------------------------------------------------------------
(* Reading bits.  A result has a status, a value and the position after.   *)

Failure(status) == [status |-> status, value |-> 0, to |-> 0]
Success(value, to) == [status |-> "Ok", value |-> value, to |-> to]

ReadBits(input, at, width) ==
  IF at + width > Len(input.bits) THEN Failure("TruncatedSource")
  ELSE IF at + width > input.fault THEN Failure("SourceError")
  ELSE Success(FoldLeft(LAMBDA v, b : 2 * v + b, 0, SubSeq(input.bits, at + 1, at + width)),
               at + width)

(* Zeros up to the first one, then as many bits as there were zeros.       *)
ReadExpGolomb(input, at) ==
  LET ones    == {p \in at..Len(input.bits) - 1 : input.bits[p + 1] = 1}
      zeros   == (IF ones = {} THEN Len(input.bits) ELSE Min(ones)) - at
      readable == Min({input.fault, Len(input.bits)}) - at
      suffix  == ReadBits(input, at + zeros + 1, zeros)
  IN  IF zeros >= MaxWidth /\ readable >= MaxWidth THEN Failure("InvalidSyntax")
      ELSE IF zeros >= readable THEN ReadBits(input, at + Max({readable, 0}), 1)
      ELSE IF suffix.status # "Ok" THEN suffix
      ELSE Success(2^zeros - 1 + suffix.value, suffix.to)

SignedValue(code) == IF code % 2 = 1 THEN (code + 1) \div 2 ELSE -(code \div 2)

ReadSignedExpGolomb(input, at) ==
  [ReadExpGolomb(input, at) EXCEPT !.value = SignedValue(@)]

(* Bytes are summed up to and including the first that is not all ones.    *)
RECURSIVE ReadFfCoded(_, _, _)
ReadFfCoded(input, at, max) ==
  LET byte == ReadBits(input, at, ByteBits)
      rest == ReadFfCoded(input, byte.to, max - 1)
  IN  IF max = 0 THEN Failure("InvalidSyntax")
      ELSE IF byte.status # "Ok" \/ byte.value # 2^ByteBits - 1 THEN byte
      ELSE [rest EXCEPT !.value = @ + byte.value]

(* more_rbsp_data(): whether anything precedes the trailing bits.          *)
MoreData(input, at) ==
  LET left == Remaining(input, at)
      tail == ReadBits(input, at, left)
  IN  IF left = 0 THEN Success(0, at)
      ELSE IF left > ByteBits THEN Success(1, at)
      ELSE IF tail.status # "Ok" THEN tail
      ELSE Success(IF tail.value # 2^(left - 1) THEN 1 ELSE 0, at)

(* rbsp_trailing_bits: a one, then zeros to the next byte boundary, for    *)
(* as many nodes as there is room for.                                     *)
TrailingBits(input, at, room) ==
  LET wanted == 1 + ((-(at + 1)) % ByteBits)
      bit(j) == ReadBits(input, at + j, 1)
      wrong(j) == bit(j).value # (IF j = 0 THEN 1 ELSE 0)
      stop == Min({wanted} \cup {j \in 0..wanted - 1 :
                     j >= room \/ bit(j).status # "Ok" \/ wrong(j)})
      status == IF stop = wanted THEN "Ok"
                ELSE IF stop >= room THEN "ResourceLimit"
                ELSE IF bit(stop).status # "Ok" THEN bit(stop).status
                ELSE "InvalidSyntax"
      read == IF status = "InvalidSyntax" THEN stop + 1 ELSE stop
  IN  [status |-> status, to |-> at + read,
       bits |-> [j \in 1..read |-> bit(j - 1).value]]

-----------------------------------------------------------------------------
(* What the parser makes of each statement: an item, or an expression.     *)

Literal(value) == [op |-> "literal", value |-> value]
Reference(name) == [op |-> "field", ref |-> name]
OptionalValue(name, default) == [op |-> "optional", ref |-> name, default |-> default]
State(op) == [op |-> op]        \* "more", "aligned" and "bytes", of the source
Not(e) == [op |-> "not", left |-> e]
Binary(op, l, r) == [op |-> op, left |-> l, right |-> r]

Bits(name, width) ==
  [kind |-> "field", name |-> name, enc |-> "bits", width |-> width, max |-> 0, size |-> {},
   equals |-> {}, range |-> {}, values |-> {}]
DynamicBits(name, expr) == [Bits(name, 0) EXCEPT !.size = {expr}]
ExpGolomb(name, enc) == [Bits(name, 0) EXCEPT !.enc = enc]
FfCoded(name, max) == [Bits(name, 0) EXCEPT !.enc = "ff", !.max = max]
ComputedField(name, expr) == [kind |-> "computed", name |-> name, expr |-> expr]
LazyRegion(name, expr) == [kind |-> "lazy", name |-> name, expr |-> expr]
CompressedPayload == [kind |-> "payload", name |-> "payload"]
RbspTrailingBits == [kind |-> "trailing"]
Assertion(expr, anchor) == [kind |-> "assert", expr |-> expr, anchor |-> anchor]
UnsupportedAt(anchor) == [kind |-> "unsupported", anchor |-> anchor]
Conditional(name, then, else) ==
  [kind |-> "if", name |-> name, value |-> 1, then |-> then, else |-> else]
Switch(name, arms, default) ==
  [kind |-> "switch", name |-> name, default |-> default,
   arms |-> [i \in DOMAIN arms |-> [value |-> i, items |-> arms[i]]]]
CountedRepeat(count, max, body) == [kind |-> "repeat", count |-> count, max |-> max, body |-> body]
SentinelRepeat(field, max, body) ==
  [kind |-> "until", field |-> field, value |-> 0, max |-> max, body |-> body]
WhileRepeat(max, body) == [kind |-> "while", max |-> max, body |-> body]

-----------------------------------------------------------------------------
(* Expressions, over the values of the fields they refer to, by name in a  *)
(* structure and by index in a program.                                    *)

Operate(op, l, r) ==
  CASE op = "add"   -> IF l + r > MaxValue THEN Failure("InvalidSyntax")
                       ELSE Success(l + r, 0)
    [] op = "sub"   -> IF l < r THEN Failure("InvalidSyntax") ELSE Success(l - r, 0)
    [] op = "div"   -> IF r = 0 THEN Failure("InvalidSyntax") ELSE Success(l \div r, 0)
    [] op = "equal" -> Success(IF l = r THEN 1 ELSE 0, 0)
    [] op = "less"  -> Success(IF l < r THEN 1 ELSE 0, 0)

RECURSIVE Eval(_, _, _, _)
Eval(e, values, input, at) ==
  LET of(operand) == Eval(operand, values, input, at)
  IN  CASE e.op = "literal"  -> Success(e.value, 0)
        [] e.op = "field"    -> IF e.ref \in DOMAIN values THEN Success(values[e.ref], 0)
                                ELSE Failure("InvalidDefinition")
        [] e.op = "optional" -> IF e.ref \in DOMAIN values THEN Success(values[e.ref], 0)
                                ELSE of(e.default)
        [] e.op = "more"     -> MoreData(input, at)
        [] e.op = "aligned"  -> Success(IF at % ByteBits = 0 THEN 1 ELSE 0, 0)
        [] e.op = "bytes"    -> Success(Remaining(input, at) \div ByteBits, 0)
        [] e.op = "not"      -> IF of(e.left).status # "Ok" THEN of(e.left)
                                ELSE Success(1 - of(e.left).value, 0)
        [] OTHER ->
             LET l == of(e.left)
                 r == of(e.right)
             IN  IF l.status # "Ok" THEN l
                 ELSE IF (e.op = "and" /\ l.value = 0) \/ (e.op = "or" /\ l.value = 1) THEN l
                 ELSE IF r.status # "Ok" \/ e.op \in {"and", "or"} THEN r
                 ELSE Operate(e.op, l.value, r.value)

(* The width a field of bits is read with.                                 *)
DynamicWidth(size) ==
  IF size.status = "Ok" /\ size.value \notin 1..MaxWidth THEN Failure("InvalidSyntax") ELSE size

WidthOf(f, values, input, at) ==
  IF f.enc # "bits" \/ f.size = {} THEN Success(f.width, 0)
  ELSE DynamicWidth(Eval(CHOOSE e \in f.size : TRUE, values, input, at))

ReadEncoded(f, width, input, at) ==
  CASE f.enc = "bits" -> ReadBits(input, at, width)
    [] f.enc = "ue"   -> ReadExpGolomb(input, at)
    [] f.enc = "se"   -> ReadSignedExpGolomb(input, at)
    [] f.enc = "ff"   -> ReadFfCoded(input, at, f.max)

InEnum(f, value) == f.values = {} \/ value \in f.values
Equal(f, value) == f.equals \subseteq {value}
InRange(f, value) == \A r \in f.range : value \in r[1]..r[2]

-----------------------------------------------------------------------------
(* What a structure means.  r is what has been read so far: the position,  *)
(* the values by name, the nodes, the indexes of the nodes with a warning, *)
(* and "Ok" or the failure that ended it.                                  *)

Node(kind, name, value, from, to) ==
  [kind |-> kind, name |-> name, value |-> value, from |-> from, to |-> to]

Stop(r, status) == [r EXCEPT !.status = status]

FieldRead(f, r, got) ==
  LET grown == [r EXCEPT !.at = got.to, !.values = (f.name :> got.value) @@ @,
                         !.nodes = Append(@, Node("field", f.name, got.value, r.at, got.to))]
  IN  IF got.status # "Ok" THEN Stop(r, got.status)
      ELSE IF ~InEnum(f, got.value) \/ ~Equal(f, got.value) THEN Stop(grown, "InvalidSyntax")
      ELSE IF InRange(f, got.value) THEN grown
      ELSE [grown EXCEPT !.warned = @ \cup {Len(grown.nodes)}]

SizedRead(f, width, input, r) ==
  IF width.status # "Ok" THEN Stop(r, width.status)
  ELSE FieldRead(f, r, ReadEncoded(f, width.value, input, r.at))

ReadField(f, input, r) == SizedRead(f, WidthOf(f, r.values, input, r.at), input, r)

ComputedRead(item, r, got) ==
  IF got.status # "Ok" THEN Stop(r, got.status)
  ELSE [r EXCEPT !.values = (item.name :> got.value) @@ @,
                 !.nodes = Append(@, Node("computed", item.name, got.value, r.at, r.at))]

ReadComputed(item, input, r) ==
  ComputedRead(item, r, Eval(item.expr, r.values, input, r.at))

LazyRead(item, input, r, bytes) ==
  LET to == r.at + bytes.value * ByteBits
  IN  IF bytes.status # "Ok" THEN Stop(r, bytes.status)
      ELSE IF bytes.value > MaxValue \div ByteBits THEN Stop(r, "InvalidSyntax")
      ELSE IF to > Len(input.bits) THEN Stop(r, "TruncatedSource")
      ELSE [r EXCEPT !.at = to, !.nodes = Append(@, Node("lazy", item.name, 0, r.at, to))]

ReadLazy(item, input, r) == LazyRead(item, input, r, Eval(item.expr, r.values, input, r.at))

ReadPayload(item, input, r) ==
  LET to == Len(input.bits)
  IN  [r EXCEPT !.at = to, !.nodes = Append(@, Node("payload", item.name, 0, r.at, to))]

TrailingNodes(at, t) ==
  [j \in 1..Len(t.bits) |->
     Node("field", IF j = 1 THEN "stop" ELSE "zero", t.bits[j], at + j - 1, at + j)]

TrailingRead(r, t) ==
  [r EXCEPT !.at = t.to, !.status = t.status, !.nodes = @ \o TrailingNodes(r.at, t)]

(* What a condition evaluates to decides; a failure to evaluate it is its. *)
Asserted(r, holds) ==
  IF holds.status # "Ok" THEN Stop(r, holds.status)
  ELSE IF holds.value = 1 THEN r ELSE Stop(r, "InvalidSyntax")

(* The arm a switch selects.                                               *)
Selected(item, value) ==
  LET arms == {i \in DOMAIN item.arms : item.arms[i].value = value}
  IN  IF arms # {} THEN item.arms[CHOOSE i \in arms : TRUE].items
      ELSE IF item.default # {} THEN CHOOSE items \in item.default : TRUE ELSE <<>>

RECURSIVE ReadItems(_, _, _), ReadTimes(_, _, _, _), ReadUntil(_, _, _, _), ReadWhile(_, _, _, _)

ReadItem(item, input, r) ==
  CASE item.kind = "field"       -> ReadField(item, input, r)
    [] item.kind = "computed"    -> ReadComputed(item, input, r)
    [] item.kind = "lazy"        -> ReadLazy(item, input, r)
    [] item.kind = "payload"     -> ReadPayload(item, input, r)
    [] item.kind = "trailing"    -> TrailingRead(r, TrailingBits(input, r.at, ByteBits))
    [] item.kind = "assert"      -> Asserted(r, Eval(item.expr, r.values, input, r.at))
    [] item.kind = "unsupported" -> Stop(r, "Unsupported")
    [] item.kind = "if"     -> ReadItems(IF r.values[item.name] = item.value
                                         THEN item.then ELSE item.else, input, r)
    [] item.kind = "switch" -> ReadItems(Selected(item, r.values[item.name]), input, r)
    [] item.kind = "repeat" -> IF r.values[item.count] > item.max
                               THEN Stop(r, "InvalidSyntax")
                               ELSE ReadTimes(item.body, r.values[item.count], input, r)
    [] item.kind = "until"  -> ReadUntil(item, item.max, input, r)
    [] item.kind = "while"  -> ReadWhile(item, item.max, input, r)

ReadItems(items, input, r) ==
  IF items = <<>> \/ r.status # "Ok" THEN r
  ELSE ReadItems(Tail(items), input, ReadItem(Head(items), input, r))

(* The names of an iteration do not escape it.                             *)
Iterated(body, input, r) ==
  [ReadItems(body, input, r) EXCEPT !.values = r.values]

ReadTimes(body, n, input, r) ==
  IF n = 0 \/ r.status # "Ok" THEN r
  ELSE ReadTimes(body, n - 1, input, Iterated(body, input, r))

(* r is what was read before an iteration, after what was read with it.    *)
Until(item, n, input, r, after) ==
  IF after.status = "Ok" /\ after.values[item.field] = item.value
  THEN [after EXCEPT !.values = r.values]
  ELSE ReadUntil(item, n - 1, input, [after EXCEPT !.values = r.values])

ReadUntil(item, n, input, r) ==
  IF r.status # "Ok" THEN r
  ELSE IF n = 0 THEN Stop(r, "InvalidSyntax")
  ELSE Until(item, n, input, r, ReadItems(item.body, input, r))

While(item, n, input, r, more) ==
  IF more.status # "Ok" THEN Stop(r, more.status)
  ELSE IF more.value = 0 THEN r
  ELSE IF n = 0 THEN Stop(r, "InvalidSyntax")
  ELSE ReadWhile(item, n - 1, input, Iterated(item.body, input, r))

ReadWhile(item, n, input, r) ==
  IF r.status # "Ok" THEN r ELSE While(item, n, input, r, MoreData(input, r.at))

Reading(items, input) ==
  [ReadItems(items, input,
             [at |-> 0, values |-> <<>>, nodes |-> <<>>, warned |-> {}, status |-> "Ok"])
     EXCEPT !.status = IF @ = "Ok" THEN "Materialized" ELSE @]

=============================================================================
