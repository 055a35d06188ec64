------------------------------ MODULE DslVm ------------------------------
(***************************************************************************)
(* rules/dsl_vm.cpp: executeStruct() checks the typed structure it is      *)
(* given, then executes its byte code within its resource limits: a        *)
(* node for each field that is there, in the order of the fields.  Each    *)
(* action is one instruction.  A run ends Materialized, or with a failure  *)
(* that is marked on the structure it has begun, or on the node it was to  *)
(* begin it under.  Contexts, nested views, the depth of nodes and the     *)
(* deferred transition of a header are left out.                           *)
(***************************************************************************)
EXTENDS DslCompiler

CONSTANTS
  Programs,       \* the structures, as sequences of items
  Inputs,         \* the sources they are run on
  Limits          \* of nodes, instructions and the interval between polls

ASSUME LimitsAssumption ==
  \A l \in Limits : l.nodes >= 1 /\ l.instructions >= 1 /\ l.interval >= 1

VARIABLES
  job,            \* the items of a structure, the program, its input and limits
  requested,      \* the instructions executed when cancellation was requested
  run,            \* what executeStruct() has done so far
  tree            \* the states of the parent and of the structure

vars == <<job, requested, run, tree>>

Never == -1

Program == job.program
Field(i) == Program.fields[i]

-----------------------------------------------------------------------------
(* The checks before the first instruction.                                *)

Reads(f, enc) == f.kind = "field" /\ f.enc \in enc
Fixed(f) == Reads(f, {"bits"}) /\ f.size = {}
Controller(f) == Fixed(f) \/ Reads(f, {"ue", "ff"}) \/ f.kind = "computed"
Holds(f, value) == /\ Fixed(f) => value < 2^f.width
                   /\ Reads(f, {"ue"}) => value < MaxValue

ValidConditions(p, conds, subject) ==
  \A k \in DOMAIN conds :
    LET on == p.fields[conds[k].index]
    IN  \/ conds[k].on = "data"
        \/ /\ conds[k].index < subject
           /\ Controller(on) /\ Holds(on, conds[k].value)
           /\ Guaranteed(on.conds, SubSeq(conds, 1, k - 1))

RECURSIVE ValidExpression(_, _, _, _)
ValidExpression(p, e, subject, conds) ==
  LET valid(operand) == ValidExpression(p, operand, subject, conds)
      earlier == e.ref < subject /\ (Controller(p.fields[e.ref]) \/ Reads(p.fields[e.ref], {"bits"}))
  IN  CASE e.op = "field"    -> earlier /\ Guaranteed(p.fields[e.ref].conds, conds)
        [] e.op = "optional" -> earlier /\ valid(e.default)
        [] e.op \in {"literal", "more", "aligned", "bytes"} -> TRUE
        [] e.op = "not"      -> valid(e.left)
        [] OTHER             -> valid(e.left) /\ valid(e.right)

ExecutableField(p, i) ==
  LET f == p.fields[i]
      expressions == IF f.kind = "field" THEN f.size
                     ELSE IF f.kind \in {"computed", "lazy"} THEN {f.expr} ELSE {}
  IN  /\ ValidConditions(p, f.conds, i)
      /\ \A e \in expressions : ValidExpression(p, e, i, f.conds)
      /\ f.kind = "payload" => i = Len(p.fields) /\ f.conds = <<>>

ValidBound(p, b) ==
  LET controller == p.fields[b.controller]
  IN  /\ b.controller < b.position
      /\ Controller(controller) /\ (Fixed(controller) => b.max < 2^controller.width)
      /\ Guaranteed(controller.conds, b.conds) /\ ValidConditions(p, b.conds, b.position)

(* All that a loop was unrolled to is under its guard: up to the next      *)
(* iteration, or the check after the last one.                             *)
Projected(p, loop, k, guard) ==
  LET end == IF k < Len(loop.firsts) THEN loop.firsts[k + 1] ELSE loop.position
  IN  \A i \in loop.firsts[k]..end - 1 : IsPrefix(guard, p.fields[i].conds)

ValidSentinelRepeat(p, s) ==
  LET guard(k) == s.conds \o [n \in 1..k - 1 |->
                     Negated(Condition(s.sentinels[n], "equal", s.value))]
  IN  /\ \A k \in DOMAIN s.sentinels :
           LET f == p.fields[s.sentinels[k]]
           IN  /\ Projected(p, s, k, guard(k)) /\ f.conds = guard(k)
               /\ (Fixed(f) \/ Reads(f, {"ue"})) /\ Holds(f, s.value)
      /\ ValidConditions(p, s.conds, s.sentinels[1])

ValidWhileRepeat(p, w) ==
  /\ \A k \in DOMAIN w.firsts : Projected(p, w, k, Append(w.conds, DataLeft))
  /\ ValidConditions(p, w.conds, w.firsts[1])

ValidAnchor(p, check, encodings) ==
  LET anchor == p.fields[check.anchor]
  IN  /\ check.anchor < check.position
      /\ Reads(anchor, encodings) /\ Guaranteed(anchor.conds, check.conds)
      /\ ValidConditions(p, check.conds, check.position)

(* When there are assertions or unsupported statements, each check must be *)
(* in the byte code at its position, in the order of its kind, and nothing *)
(* that comes after it there may stand before it.                          *)
FieldOpcodes == {"Read", "Compute", "Lazy", "Payload", "Trailing"}

Before(p, k, opcodes) == Cardinality({j \in 1..k - 1 : p.code[j].op \in opcodes})
PositionAt(p, k) == 1 + Before(p, k, FieldOpcodes) + (ByteBits - 1) * Before(p, k, {"Trailing"})

ChecksOf(p) ==
  [Sentinel |-> p.sentinels, While |-> p.whiles, Assert |-> p.asserts,
   Unsupported |-> p.stops, Bound |-> p.bounds]

Pending(p, k, op) ==
  \E i \in DOMAIN ChecksOf(p)[op] :
    i > Before(p, k, {op}) /\ ChecksOf(p)[op][i].position <= PositionAt(p, k)

Preceding(op) ==
  CASE op = "Assert"                  -> {"Sentinel", "While"}
    [] op \in {"Unsupported", "Bound"} -> {"Sentinel", "While", "Assert"}
    [] op \in FieldOpcodes \cup {"End"} -> {"Sentinel", "While", "Assert", "Unsupported", "Bound"}
    [] OTHER                          -> {}

PositionedCode(p) ==
  p.asserts # <<>> \/ p.stops # <<>> =>
    \A k \in DOMAIN p.code :
      LET i == p.code[k]
      IN  /\ \A op \in Preceding(i.op) : ~Pending(p, k, op)
          /\ i.op \in DOMAIN ChecksOf(p) =>
               /\ i.operand = Before(p, k, {i.op}) + 1
               /\ ChecksOf(p)[i.op][i.operand].position = PositionAt(p, k)

(* The bounds of a range follow what reads its field, once each.           *)
RangeCode(p) ==
  /\ \A k \in DOMAIN p.code :
       LET i == p.code[k]
           follows(op) == p.code[k - 1] = [op |-> op, operand |-> i.operand]
       IN  /\ i.op = "Minimum" => follows(IF p.fields[i.operand].equals = {} THEN "Read"
                                          ELSE "Equals")
           /\ i.op = "Maximum" => follows("Minimum")
  /\ \A i \in DOMAIN p.fields, op \in {"Minimum", "Maximum"} :
       p.fields[i].kind = "field" /\ p.fields[i].range # {}
         => Cardinality({k \in DOMAIN p.code : p.code[k] = [op |-> op, operand |-> i]}) = 1

CompressedTail(p) ==
  \A i \in DOMAIN p.fields :
    p.fields[i].kind = "payload" =>
      SubSeq(p.code, Len(p.code) - 1, Len(p.code)) = Instruction("Payload", i) \o Instruction("End", 0)

Executable(p) ==
  /\ \A i \in DOMAIN p.fields : ExecutableField(p, i)
  /\ \A b \in ToSet(p.bounds) : ValidBound(p, b)
  /\ \A s \in ToSet(p.sentinels) : ValidSentinelRepeat(p, s)
  /\ \A w \in ToSet(p.whiles) : ValidWhileRepeat(p, w)
  /\ \A a \in ToSet(p.asserts) :
       ValidAnchor(p, a, {"bits", "ue", "se"}) /\ ValidExpression(p, a.expr, a.position, a.conds)
  /\ \A u \in ToSet(p.stops) : ValidAnchor(p, u, {"bits", "ue", "se", "ff"})
  /\ PositionedCode(p) /\ RangeCode(p) /\ CompressedTail(p)

-----------------------------------------------------------------------------
(* Whether something under conditions is there: they are tested in order,  *)
(* up to the first that does not hold.  Data left is only looked for when  *)
(* the subject is the first field of an iteration; what was found then     *)
(* stands for the rest of it.                                              *)

LoopsAround(subject) ==
  {w \in DOMAIN Program.whiles :
     Program.whiles[w].firsts[1] <= subject /\ subject < Program.whiles[w].position}

Starts(w, subject) == subject \in ToSet(Program.whiles[w].firsts)

Compare(condition, value) ==
  (IF condition.op = "equal" THEN value = condition.value ELSE value > condition.value)
    # condition.negated

FieldHolds(condition, r, found) ==
  IF condition.index \notin DOMAIN r.values THEN [found EXCEPT !.status = "InvalidDefinition"]
  ELSE [found EXCEPT !.there = Compare(condition, r.values[condition.index])]

DataHolds(subject, r, found) ==
  LET w    == Min(LoopsAround(subject))
      more == MoreData(job.input, r.at)
      look == LoopsAround(subject) = {} \/ (Starts(w, subject) /\ ~found.loops[w].ended)
      active == IF look THEN more.value = 1
                ELSE ~Starts(w, subject) /\ found.loops[w].active
  IN  IF look /\ more.status # "Ok" THEN [found EXCEPT !.status = more.status]
      ELSE IF LoopsAround(subject) = {} THEN [found EXCEPT !.there = active]
      ELSE [found EXCEPT !.there = active, !.loops[w].active = active,
                         !.loops[w].ended = @ \/ ~active]

Present(conds, subject, r) ==
  FoldLeft(LAMBDA found, condition :
             IF found.status # "Ok" \/ ~found.there THEN found
             ELSE IF condition.on = "data" THEN DataHolds(subject, r, found)
             ELSE FieldHolds(condition, r, found),
           [status |-> "Ok", there |-> TRUE, loops |-> r.loops], conds)

-----------------------------------------------------------------------------
(* What an instruction does to a run.                                      *)

Finish(r, status) == [r EXCEPT !.status = status]

(* executed is what r becomes under the conditions of its subject; if they *)
(* do not hold the next field is absent.                                   *)
Under(found, r, absent, executed) ==
  LET after == IF found.status # "Ok" THEN Finish(r, found.status)
               ELSE IF found.there THEN executed
               ELSE [r EXCEPT !.next = absent, !.skipped = absent # r.next]
  IN  [after EXCEPT !.loops = found.loops]

Guarded(conds, subject, r, absent, executed) ==
  Under(Present(conds, subject, r), r, absent, executed)

InPlace(operand, r) == operand = r.next

Room(r) == job.limits.nodes - 1 - Len(r.nodes)

(* The next field has been read: its node, and its value if it has one.    *)
Materialize(r, node, value) ==
  [r EXCEPT !.at = node.to, !.next = @ + 1, !.skipped = FALSE, !.nodes = Append(@, node),
            !.values = IF value = {} THEN @ ELSE (r.next :> CHOOSE v \in value : TRUE) @@ @]

(* f is the next field; a value of the enum or not, it has its node.       *)
Obtained(f, got, r) ==
  LET after == Materialize(r, Node("field", f.name, got.value, r.at, got.to),
                           IF f.enc = "se" THEN {} ELSE {got.value})
  IN  IF got.status # "Ok" THEN Finish(r, got.status)
      ELSE IF ~InEnum(f, got.value) THEN Finish(after, "InvalidSyntax") ELSE after

ReadSized(f, width, r) ==
  IF width.status # "Ok" THEN Finish(r, width.status)
  ELSE IF Room(r) <= 0 THEN Finish(r, "ResourceLimit")
  ELSE Obtained(f, ReadEncoded(f, width.value, job.input, r.at), r)

Read(r) ==
  ReadSized(Field(r.next), WidthOf(Field(r.next), r.values, job.input, r.at), r)

Compute(r) ==
  LET f == Field(r.next)
      got == Eval(f.expr, r.values, job.input, r.at)
      node == Node("computed", f.name, got.value, r.at, r.at)
  IN  IF Room(r) <= 0 THEN Finish(r, "ResourceLimit")
      ELSE IF got.status # "Ok" THEN Finish(r, got.status)
      ELSE Materialize(r, node, {got.value})

RegisterLazyBytes(r) ==
  LET f  == Field(r.next)
      bytes == Eval(f.expr, r.values, job.input, r.at)
      to == r.at + bytes.value * ByteBits
  IN  IF bytes.status # "Ok" THEN Finish(r, bytes.status)
      ELSE IF bytes.value > MaxValue \div ByteBits THEN Finish(r, "InvalidSyntax")
      ELSE IF r.at % ByteBits # 0 THEN Finish(r, "InvalidDefinition")
      ELSE IF to > Len(job.input.bits) THEN Finish(r, "TruncatedSource")
      ELSE IF Room(r) <= 0 THEN Finish(r, "ResourceLimit")
      ELSE Materialize(r, Node("lazy", f.name, 0, r.at, to), {})

RegisterCompressedPayload(r) ==
  IF Room(r) <= 0 THEN Finish(r, "ResourceLimit")
  ELSE Materialize(r, Node("payload", Field(r.next).name, 0, r.at, Len(job.input.bits)), {})

TrailingMaterialized(r, t) ==
  [r EXCEPT !.at = t.to, !.nodes = @ \o TrailingNodes(r.at, t),
            !.next = @ + ByteBits, !.skipped = FALSE,
            !.status = IF t.status = "Ok" THEN @ ELSE t.status]

ReadTrailingBits(r) == TrailingMaterialized(r, TrailingBits(job.input, r.at, Room(r)))

(* The value of the field before, which the constraint is about.           *)
Latest(r) == r.nodes[Len(r.nodes)].value

AssertEquals(i, r) ==
  IF r.skipped \/ Equal(Field(i), Latest(r)) THEN r ELSE Finish(r, "InvalidSyntax")

AssertRange(i, low, high, r) ==
  IF Field(i).enc = "ff" THEN Finish(r, "InvalidDefinition")
  ELSE IF r.skipped \/ Latest(r) \in low..high THEN r
  ELSE [r EXCEPT !.warned = @ \cup {Len(r.nodes)}]

RepeatCount(b, r) ==
  IF b.controller \notin DOMAIN r.values THEN Finish(r, "InvalidDefinition")
  ELSE IF r.values[b.controller] <= b.max THEN r ELSE Finish(r, "InvalidSyntax")

(* Looked for in the iterations up to the first that has it.               *)
SentinelTerminated(s, r) ==
  LET index(k) == s.sentinels[k]
      stop == Min({k \in DOMAIN s.sentinels : index(k) \notin DOMAIN r.values
                                              \/ r.values[index(k)] = s.value}
                  \cup {Len(s.sentinels) + 1})
  IN  IF stop > Len(s.sentinels) THEN Finish(r, "InvalidSyntax")
      ELSE IF index(stop) \notin DOMAIN r.values THEN Finish(r, "InvalidDefinition") ELSE r

WhileTerminated(r) ==
  LET more == MoreData(job.input, r.at)
  IN  IF more.status # "Ok" THEN Finish(r, more.status)
      ELSE IF more.value = 1 THEN Finish(r, "InvalidSyntax") ELSE r

AssertExpression(a, r) ==
  LET holds == Eval(a.expr, r.values, job.input, r.at)
  IN  IF holds.status # "Ok" THEN Finish(r, holds.status)
      ELSE IF holds.value = 1 THEN r ELSE Finish(r, "InvalidSyntax")

-----------------------------------------------------------------------------
(* The state of a node a failure is marked on.                             *)
StateOf(status) ==
  CASE status = "Cancelled"    -> "Cancelled"
    [] status = "Unsupported"  -> "Unsupported"
    [] status = "Materialized" -> "Materialized"
    [] OTHER                   -> "Invalid"

MarkFailure(status) ==
  IF tree.structure = "Absent" THEN [tree EXCEPT !.parent = StateOf(status)]
  ELSE [tree EXCEPT !.structure = StateOf(status)]

Start(items, program, input, limits) ==
  /\ job = [items |-> items, program |-> program, input |-> input, limits |-> limits]
  /\ run = [pc |-> 0, executed |-> 0, next |-> 1, at |-> 0, values |-> <<>>, skipped |-> FALSE,
            loops |-> [w \in DOMAIN program.whiles |-> [active |-> FALSE, ended |-> FALSE]],
            nodes |-> <<>>, warned |-> {}, status |-> "Ready"]

Init == /\ \E i \in DOMAIN Programs, input \in Inputs, limits \in Limits :
             LET program == Compiled(Programs[i])
             IN  program.ok /\ Start(Programs[i], program, input, limits)
        /\ requested = Never
        /\ tree = [parent |-> "Indexing", structure |-> "Absent"]

Ended == run.status \notin {"Ready", "Running"}

(* The user cancels; another thread may do so between any two steps.       *)
RequestCancellation ==
  /\ ~Ended /\ requested = Never
  /\ requested' = run.executed
  /\ UNCHANGED <<job, run, tree>>

End(status) ==
  /\ run' = Finish(run, status)
  /\ tree' = MarkFailure(status)
  /\ UNCHANGED <<job, requested>>

Preflight ==
  /\ run.status = "Ready"
  /\ IF requested # Never THEN End("Cancelled")
     ELSE IF ~Executable(Program) THEN End("InvalidDefinition")
     ELSE /\ run' = [run EXCEPT !.status = "Running", !.pc = 1]
          /\ UNCHANGED <<job, requested, tree>>

(* consumeInstruction(): the budget first, then, now and then, the token.  *)
Exhausted == run.executed >= job.limits.instructions
Polled == requested # Never /\ run.executed % job.limits.interval = 0

ConsumeInstruction ==
  /\ run.status = "Running"
  /\ \/ Exhausted /\ End("ResourceLimit")
     \/ ~Exhausted /\ Polled /\ End("Cancelled")

Current == Program.code[run.pc]

Execute(opcodes, after) ==
  /\ run.status = "Running" /\ ~Exhausted /\ ~Polled
  /\ Current.op \in opcodes
  /\ run' = [after EXCEPT !.pc = @ + 1, !.executed = @ + 1]
  /\ UNCHANGED <<job, requested>>

Settle == tree' = IF run'.status = "Running" THEN tree ELSE MarkFailure(run'.status)

BeginStructure ==
  /\ Execute({"Begin"}, run)
  /\ tree' = [tree EXCEPT !.structure = "Indexing"]

(* The instructions of a field, which must be the next.                    *)
FieldInstruction ==
  LET f == Field(run.next)
      width == IF f.kind = "stop" THEN ByteBits ELSE 1
      executed == CASE f.kind = "field"    -> Read(run)
                    [] f.kind = "computed" -> Compute(run)
                    [] f.kind = "lazy"     -> RegisterLazyBytes(run)
                    [] f.kind = "payload"  -> RegisterCompressedPayload(run)
                    [] f.kind = "stop"     -> ReadTrailingBits(run)
  IN  /\ Execute(FieldOpcodes,
                 IF ~InPlace(Current.operand, run) THEN Finish(run, "InvalidDefinition")
                 ELSE Guarded(f.conds, run.next, run, run.next + width, executed))
      /\ Settle

Equals == Execute({"Equals"}, AssertEquals(Current.operand, run)) /\ Settle

RangeBound(r) ==
  LET bounds == CHOOSE b \in Field(Current.operand).range : TRUE
  IN  IF Current.op = "Minimum" THEN AssertRange(Current.operand, bounds[1], MaxValue, r)
      ELSE AssertRange(Current.operand, -MaxValue, bounds[2], r)

RangeBounds == Execute({"Minimum", "Maximum"}, RangeBound(run)) /\ Settle

(* The checks between fields, about the field they are anchored at.        *)
Check(opcode, check, subject, executed) ==
  /\ Execute({opcode}, IF ~InPlace(check.position, run) THEN Finish(run, "InvalidDefinition")
                       ELSE Guarded(check.conds, subject, run, run.next, executed))
  /\ Settle

AssertRepeatCount ==
  LET b == Program.bounds[Current.operand]
  IN  Check("Bound", b, b.controller, RepeatCount(b, run))

AssertSentinelTerminated ==
  LET s == Program.sentinels[Current.operand]
  IN  Check("Sentinel", s, s.sentinels[1], SentinelTerminated(s, run))

AssertWhileRepeatTerminated ==
  LET w == Program.whiles[Current.operand]
  IN  Check("While", w, w.firsts[1], WhileTerminated(run))

AssertCondition ==
  LET a == Program.asserts[Current.operand]
  IN  Check("Assert", a, a.anchor, AssertExpression(a, run))

MarkUnsupported ==
  LET u == Program.stops[Current.operand]
  IN  Check("Unsupported", u, u.anchor, Finish(run, "Unsupported"))

EndStructure ==
  /\ Execute({"End"}, Finish(run, IF run.next = Following(Program) THEN "Materialized"
                                  ELSE "InvalidDefinition"))
  /\ Settle

Next ==
  \/ RequestCancellation \/ Preflight \/ ConsumeInstruction \/ BeginStructure
  \/ FieldInstruction \/ Equals \/ RangeBounds \/ AssertRepeatCount \/ AssertSentinelTerminated
  \/ AssertWhileRepeatTerminated \/ AssertCondition \/ MarkUnsupported \/ EndStructure

Spec == Init /\ [][Next]_vars

-----------------------------------------------------------------------------
Structure == IF tree.structure = "Absent" THEN 0 ELSE 1

(* What is decoded is what the structure says: at each moment the nodes    *)
(* are the first of those a reading of its items from the first to the     *)
(* last gives, and unless it is cut short the run ends as that does, with  *)
(* the same nodes and warnings - though the byte code knows no nesting.    *)
(* However it ends, the one node that tells is the structure, or its       *)
(* parent when it has not begun.                                           *)
DecodesAsWritten ==
  /\ LET meant == Reading(job.items, job.input)
     IN  /\ IsPrefix(run.nodes, meant.nodes) /\ run.warned \subseteq meant.warned
         /\ Ended /\ run.status \notin {"ResourceLimit", "Cancelled"}
              => <<run.status, run.nodes, run.warned>>
                   = <<meant.status, meant.nodes, meant.warned>>
  /\ Ended => IF tree.structure = "Absent"
              THEN tree.parent = StateOf(run.status) /\ run.nodes = <<>>
              ELSE tree = [parent |-> "Indexing", structure |-> StateOf(run.status)]

(* What the compiler accepts the virtual machine executes: no program it   *)
(* emits is found malformed, before or during the run.                     *)
AcceptedIsExecutable == run.status # "InvalidDefinition"

(* The fields of an iteration that has begun are decoded with it, whatever *)
(* data is left once its first field has been read.                        *)
IterationsWhole ==
  run.status = "Materialized" =>
    \A w \in ToSet(Program.whiles) : \A k \in DOMAIN w.firsts :
      LET own == {i \in DOMAIN Program.fields :
                    /\ Program.fields[i].conds = Append(w.conds, DataLeft)
                    /\ w.firsts[k] <= i
                    /\ i < IF k < Len(w.firsts) THEN w.firsts[k + 1] ELSE w.position}
      IN  own \subseteq DOMAIN run.values \/ own \cap DOMAIN run.values = {}

=============================================================================
