---------------------------- MODULE RuleSession ----------------------------
(***************************************************************************)
(* rules/rule_execution_session.cpp and rules/compound_structural_runner   *)
(* .cpp: decoding a unit as a header structure and the payload structure   *)
(* the header selects, with the definitions it imports from a directory    *)
(* and publishes to it when, and only when, everything has been decoded.   *)
(*                                                                         *)
(* A unit is what the source holds at a span: whether its header and its   *)
(* payload are well formed, which payload the header selects, what the     *)
(* payload imports and what it publishes (a key, the keys it depends on and*)
(* the exported values).  A structure is one node of the tree; its fields, *)
(* the instructions and the inspected bytes are left out, so the node      *)
(* budget stands for the three budgets, which are kept alike.              *)
(***************************************************************************)
EXTENDS AnalysisTree, ContextDirectory

CONSTANT MaxClosure    \* RuleImportedContext::maximumDefinitions

NoKey == [kind |-> "none", value |-> 0]
AnyValue == -1            \* an import that names a kind only

Unit == [from: Nat, to: Nat, header: BOOLEAN,
         selects: {"payload", "nothing", "unhandled"}, maps: BOOLEAN, payload: BOOLEAN,
         imports: Seq([kind: STRING, value: Int]),
         publishes: [kind: STRING, value: Int],
         deps: Seq([kind: STRING, value: Int]), values: Nat]

(* A session: the directory, for each definition the structure and values  *)
(* it was published with, and the budget of all its executions.            *)
NewSession(limit) ==
  [dir |-> EmptyDirectory, payloads |-> <<>>, limit |-> limit, spent |-> 0]

(* publishedDefinitionCount(): what a cached result is compared with.      *)
Generation(session) == Len(session.payloads)

(* beginTransaction() with limits of its own: what is done afterwards is   *)
(* charged to them alone; rolling back restores all that was saved.        *)
BeginTransaction(session, limit) == [session EXCEPT !.limit = limit, !.spent = 0]

-----------------------------------------------------------------------------
(* An execution is interrupted when a poll finds it cancelled, or a read   *)
(* fails, at one of the places where the code looks.                       *)

Undisturbed == [status |-> "None", at |-> "nowhere"]

Interruptions ==
  [status: {"Cancelled"}, at: {"start", "header", "between", "payload", "commit"}]
    \cup [status: {"SourceError"}, at: {"header", "between", "payload"}]

StateForFailure(status) ==
  CASE status = "Cancelled"             -> "Cancelled"
    [] status = "DependencyUnavailable" -> "WaitingDependency"
    [] status = "Unsupported"           -> "Unsupported"
    [] OTHER                            -> "Invalid"

-----------------------------------------------------------------------------
(* Imports: the definition found at the start of the unit, and all it      *)
(* depends on, as long as that is not too much.                            *)

ImportLookup(session, unit, i) ==
  IF unit.imports[i].value = AnyValue
  THEN ResolveLatestBefore(session.dir, unit.imports[i].kind, unit.from)
  ELSE ResolveBefore(session.dir, unit.imports[i], unit.from)

Closure(dir, id) ==
  LET From[d \in 1..id] ==
        {d} \cup UNION {From[dir.defs[d].deps[i]] : i \in DOMAIN dir.defs[d].deps}
  IN  From[id]

ImportStatus(session, found) ==
  IF found.status # "Found" THEN "DependencyUnavailable"
  ELSE IF Cardinality(Closure(session.dir, found.id)) > MaxClosure
  THEN "ResourceLimit" ELSE "None"

FirstFailing(status) ==
  LET failed == {i \in DOMAIN status : status[i] # "None"}
  IN  IF failed = {} THEN "None" ELSE status[Min(failed)]

(* The values are asked for in the order of the imports.                   *)
ImportFailure(session, unit) ==
  FirstFailing([i \in DOMAIN unit.imports |->
                  ImportStatus(session, ImportLookup(session, unit, i))])

-----------------------------------------------------------------------------
(* Staging what a unit publishes, in a copy of the directory.              *)

Staged(status, dir, payloads) == [status |-> status, dir |-> dir, payloads |-> payloads]

(* An overlapping definition of the same structure at the same span is     *)
(* either the same definition again, or a stale one to be replaced.        *)
Republishes(session, conflict, spec, unit) ==
  LET old == session.dir.defs[conflict]
  IN  /\ SameSpans(old, spec) /\ old.baseline = spec.baseline
      /\ session.payloads[conflict].structure = unit.publishes.kind

SameContents_Values(session, conflict, spec, unit) ==
  session.payloads[conflict].values = unit.values

SameContents(session, conflict, spec, unit) ==
  /\ session.dir.defs[conflict].deps = spec.deps
  /\ session.payloads[conflict].values = unit.values

Unchanged(session, status) == Staged(status, session.dir, session.payloads)

Entered(session, unit, result) ==
  IF result.status = "Registered"
  THEN Staged("None", result.dir,
              Append(session.payloads,
                     [structure |-> unit.publishes.kind, values |-> unit.values]))
  ELSE Unchanged(session, IF result.status = "DependencyUnavailable" THEN result.status
                          ELSE "InvalidDefinition")

(* first is what registering it as a new definition comes to.              *)
Settled(session, unit, spec, first) ==
  IF first.status # "DuplicateDefinition" \/ ~Republishes(session, first.conflict, spec, unit)
  THEN Entered(session, unit, first)
  ELSE IF SameContents(session, first.conflict, spec, unit) THEN Unchanged(session, "None")
  ELSE Entered(session, unit, Register(session.dir, first.conflict, spec))

Published(session, unit, spec) ==
  Settled(session, unit, spec, Register(session.dir, NoId, spec))

Bound(session, unit, node, baseline, lookups) ==
  IF \E i \in DOMAIN lookups : lookups[i].status # "Found"
  THEN Unchanged(session, "DependencyUnavailable")
  ELSE Published(session, unit,
                 Definition(unit.publishes, unit.from, unit.to, node,
                            [i \in DOMAIN lookups |-> lookups[i].id], baseline))

Staging(session, unit, node, baseline) ==
  IF unit.publishes = NoKey \/ unit.selects # "payload" THEN Unchanged(session, "None")
  ELSE Bound(session, unit, node, baseline,
             [i \in DOMAIN unit.deps |->
                ResolveBefore(session.dir, unit.deps[i], unit.from)])

-----------------------------------------------------------------------------
(* CompoundStructuralRunner::execute as the hurdles a unit has to take, in *)
(* order: the failure, if the hurdle is not taken, and the nodes there are *)
(* by then (1 the header, 2 the payload below it as well).  With no header *)
(* yet the parent is what the caller marks, with the same failure.  A      *)
(* header imports and publishes nothing of its own.                        *)

Hurdle(failure, made) == [failure |-> failure, made |-> made]
Unless(ok, failure) == IF ok THEN "None" ELSE failure
StoppedAt(stop, place) == IF stop.at = place THEN stop.status ELSE "None"

(* Between the two: the token, and what the header has left of the budget. *)
PayloadBudget(left, stop) ==
  << Hurdle(StoppedAt(stop, "between"), 1),
     Hurdle(Unless(left > 1, "ResourceLimit"), 1) >>

PayloadHurdles(session, unit, left, stop) ==
  PayloadBudget(left, stop) \o
  << Hurdle(Unless(unit.maps, "InvalidSyntax"), 1),
     Hurdle(StoppedAt(stop, "payload"), 2),
     Hurdle(ImportFailure(session, unit), 2),
     Hurdle(Unless(unit.payload, "InvalidSyntax"), 2) >>

Hurdles(session, unit, staged, left, stop) ==
  << Hurdle(Unless(session.spent < session.limit, "ResourceLimit"), 0),
     Hurdle(StoppedAt(stop, "start"), 0),
     Hurdle(Unless(left > 0, "ResourceLimit"), 0),
     Hurdle(StoppedAt(stop, "header"), 1),
     Hurdle(Unless(unit.header, "InvalidSyntax"), 1),
     Hurdle(Unless(unit.selects # "unhandled", "Unsupported"), 1) >>
  \o (IF unit.selects = "payload"
      THEN PayloadHurdles(session, unit, left, stop) ELSE <<>>)
  \o LET all == IF unit.selects = "payload" THEN 2 ELSE 1
     IN  << Hurdle(StoppedAt(stop, "commit"), all),
            Hurdle(staged.status, all) >>

FirstFailure(hurdles) ==
  LET missed == {i \in DOMAIN hurdles : hurdles[i].failure # "None"}
  IN  IF missed = {} THEN Hurdle("Materialized", hurdles[Len(hurdles)].made)
      ELSE hurdles[Min(missed)]

Structures_HeaderOpen(t, parent, made, state) ==
  LET header  == AppendChild(t, parent, "header",
                             IF made = 2 /\ state # "Materialized" THEN "Indexing" ELSE state,
                             0, 0)
      payload == [header EXCEPT ![Len(header)].children = <<Len(header) + 1>>]
  IN  IF made = 0 THEN t
      ELSE IF made = 1 THEN header
      ELSE Append(payload, NewNode(Len(header), "payload", state, 0, 0))

(* The nodes as a failure or success leaves them: both in the same state.  *)
(* Which of them holds the diagnostic is left out.                         *)
Structures(t, parent, made, state) ==
  LET header  == AppendChild(t, parent, "header", state, 0, 0)
      payload == [header EXCEPT ![Len(header)].children = <<Len(header) + 1>>]
  IN  IF made = 0 THEN t
      ELSE IF made = 1 THEN header
      ELSE Append(payload, NewNode(Len(header), "payload", state, 0, 0))

Min2(a, b) == IF a < b THEN a ELSE b

(* RuleExecutionSession::runCompound: the budget that is left, the         *)
(* execution, which is charged whatever its outcome, and the definitions,  *)
(* which take effect only if everything succeeded.                         *)
Remaining(session, limit) ==
  Min2(limit, IF session.spent >= session.limit THEN 0 ELSE session.limit - session.spent)

Charged(session, made) == [session EXCEPT !.spent = @ + made]

Outcome(session, t, parent, staged, at) ==
  [status |-> at.failure, made |-> at.made,
   tree |-> Structures(t, parent, at.made,
                       IF at.failure = "Materialized" THEN at.failure
                       ELSE StateForFailure(at.failure)),
   session |-> IF at.failure = "Materialized"
               THEN [Charged(session, at.made) EXCEPT
                       !.dir = staged.dir, !.payloads = staged.payloads]
               ELSE Charged(session, at.made)]

Executed(session, t, parent, unit, staged, left, stop) ==
  Outcome(session, t, parent, staged, FirstFailure(Hurdles(session, unit, staged, left, stop)))

RunCompound(session, t, parent, unit, baseline, limit, stop) ==
  Executed(session, t, parent, unit, Staging(session, unit, Len(t) + 2, baseline),
           Remaining(session, limit), stop)

=============================================================================
