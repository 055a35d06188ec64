------------------------- MODULE SessionNavigation -------------------------
(***************************************************************************)
(* AnalysisSession::enterSample, enterChildFormat and returnToParent       *)
(* (app/analysis_session.cpp) with SamplePayloadRunner::run.               *)
(*                                                                         *)
(* A track has its samples, each a sequence of units, and what its sample  *)
(* description binds: configuration units, which every sample may rely on, *)
(* for samples made of length-prefixed units; or one configuration, that   *)
(* is decoded or not, for samples that stay opaque.  Everything decoded for*)
(* a track goes into one tree and one rule session that are kept; a sample *)
(* is decoded again when definitions have been registered since.           *)
(*                                                                         *)
(* One step is one poll of the cancellation token to the next: a call      *)
(* primes the configuration units one by one, frames the sample, decodes   *)
(* its units and closes.  At each step it may be interrupted.              *)
(***************************************************************************)
EXTENDS RuleSession

CONSTANTS Tracks,        \* the tracks of the container: id -> track
          Children,      \* nodes of the container tree with a target format
          Fields,        \* computed fields of a sample node, 7 in the code
          MaxRetained,   \* bound on all nodes kept, 100000 in the code
          SessionLimit,  \* default budget of a rule session, 100000 in the code
          WorkingLimit,  \* the caller's bound on the nodes of one call
          MaxUnits,      \* maximumUnitsPerSample
          MaxDepth,      \* bound: frames on the navigation stack
          MaxFaults      \* bound: interruptions

(* The units of a sample lie one behind the other and none is empty; one   *)
(* that selects no payload imports nothing.                                *)
InStreamOrder(units) ==
  \A u \in DOMAIN units :
    /\ units[u].from < units[u].to
    /\ \A v \in 1..(u - 1) : units[v].to <= units[u].from
    /\ units[u].selects # "payload" => units[u].imports = <<>>

ASSUME NavigationAssumption ==
  /\ Fields \in Nat /\ MaxUnits \in Nat \ {0}
  /\ IsFiniteSet(DOMAIN Tracks)
  /\ \A t \in DOMAIN Tracks :
       /\ Tracks[t].prefixed \in BOOLEAN /\ Tracks[t].configured \in BOOLEAN
       /\ Tracks[t].config \in Seq(Unit)
       /\ Tracks[t].samples \in Seq([units: Seq(Unit), defect: BOOLEAN])
       /\ \A s \in DOMAIN Tracks[t].samples : InStreamOrder(Tracks[t].samples[s].units)
       /\ ~Tracks[t].prefixed =>
            \A s \in DOMAIN Tracks[t].samples : Tracks[t].samples[s].units = <<>>
  /\ \A c \in Children : c.unit \in Unit
  /\ MaxRetained \in Nat /\ WorkingLimit \in Nat \ {0} /\ SessionLimit \in Nat

VARIABLES
  container,   \* the root of the container tree: its materialization state
  indexed,     \* sampleIndicesBuilt_
  sessions,    \* sampleSessions_: what is kept for a track
  children,    \* subFormatSessions_: what is kept for a child format
  call,        \* the enterSample() under way
  stack,       \* navigationStack_
  faults       \* bookkeeping: interruptions so far

navigation == <<container, indexed, sessions, children, call, stack, faults>>

NoCall == [pc |-> "idle"]

SampleIndices(track) == DOMAIN Tracks[track].samples
UnitsOf(track, sample) == Tracks[track].samples[sample].units

NavigationInit ==
  /\ container = "Indexing" /\ indexed = FALSE
  /\ sessions = <<>> /\ children = <<>>
  /\ call = NoCall /\ stack = <<>> /\ faults = 0

With(map, key, value) ==
  [k \in DOMAIN map \cup {key} |-> IF k = key THEN value ELSE map[k]]

Idle == call.pc = "idle"

(* A step is undisturbed, or interrupted as long as that is allowed.       *)
Stops(places) ==
  {Undisturbed} \cup {i \in Interruptions : i.at \in places /\ faults < MaxFaults}
Counted(stop) == faults' = IF stop = Undisturbed THEN faults ELSE faults + 1

-----------------------------------------------------------------------------
(* The container, whose analysis ends well or not, and can then be asked   *)
(* for its sample tables.                                                  *)

AnalysisEnds(state) ==
  /\ Idle /\ container = "Indexing" /\ container' = state
  /\ UNCHANGED <<indexed, sessions, children, call, stack, faults>>

(* ensureSampleIndices(): everything or, when a table cannot be read,      *)
(* nothing; what is built once is kept.                                    *)
BuildIndices ==
  /\ Idle /\ ~indexed
  /\ container = "Materialized"
  /\ indexed' = TRUE
  /\ UNCHANGED <<container, sessions, children, call, stack, faults>>

-----------------------------------------------------------------------------
(* enterSample(), up to the first execution.                               *)

Retained == MapThenFoldSet(LAMBDA a, b : a + b, 0,
                           LAMBDA k : Len(sessions[k].tree),
                           LAMBDA s : CHOOSE x \in s : TRUE, DOMAIN sessions)

Cached_AnyGeneration(track, sample) ==
  track \in DOMAIN sessions /\ sample \in DOMAIN sessions[track].samples

(* A result is used again only in the generation it was decoded in.        *)
Cached(track, sample) ==
  /\ track \in DOMAIN sessions
  /\ sample \in DOMAIN sessions[track].samples
  /\ sessions[track].samples[sample].generation = Generation(sessions[track].rules)

(* A frame: the tree that becomes active, the node presented in it and, for*)
(* a child format, the node of the container it was entered from.          *)
SampleFrame(track, sample, node) ==
  [kind |-> "sample", key |-> track, sample |-> sample, node |-> node, parent |-> 0]
ChildFrame(child, node) ==
  [kind |-> "child", key |-> child.format, sample |-> 0, node |-> node,
   parent |-> child.node]

CanEnter == Idle /\ Len(stack) < MaxDepth

PresentCached(track, sample) ==
  /\ CanEnter /\ indexed
  /\ Cached(track, sample)
  /\ stack' = Append(stack, SampleFrame(track, sample, sessions[track].samples[sample].node))
  /\ UNCHANGED <<container, indexed, sessions, children, call, faults>>

Budget_PerCall == WorkingLimit

(* The nodes this call may create; a new session needs one for its root.   *)
Budget == Min2(WorkingLimit, MaxRetained - Retained)

NewTrackSession(limit) ==
  [tree |-> NewTree, rules |-> NewSession(limit), samples |-> <<>>]

(* Refusals that leave everything as it is: no budget, or an opaque track  *)
(* whose configuration is missing or cannot be decoded.                    *)
Opens(track) ==
  /\ Budget > 0
  /\ Tracks[track].prefixed \/ Tracks[track].configured

OpenCall(track, sample) ==
  LET created == track \notin DOMAIN sessions
      limit   == IF created THEN Budget - 1 ELSE Budget
      primes  == created /\ Tracks[track].prefixed
  IN  /\ CanEnter /\ indexed
      /\ ~Cached(track, sample) /\ Opens(track)
      /\ sessions' = IF created THEN With(sessions, track, NewTrackSession(limit))
                     ELSE sessions
      /\ call' = [pc |-> IF primes THEN "prime" ELSE "frame", track |-> track,
                  sample |-> sample, created |-> created, next |-> 1, limit |-> limit,
                  before |-> sessions]
      /\ UNCHANGED <<container, indexed, children, stack, faults>>

-----------------------------------------------------------------------------
(* The call gives up: the session it created goes, in another one the tree *)
(* is restored, and the rule session is what it was when the run began.    *)

Without(track) == [k \in DOMAIN sessions \ {track} |-> sessions[k]]

RolledBack_TreeOnly ==
  IF call.created THEN Without(call.track)
  ELSE [sessions EXCEPT ![call.track].tree = Restore(@, call.snapshot)]

RolledBack ==
  IF call.created THEN Without(call.track)
  ELSE [sessions EXCEPT ![call.track].tree = Restore(@, call.snapshot),
                        ![call.track].rules = call.saved]

GiveUp ==
  /\ sessions' = RolledBack
  /\ call' = NoCall
  /\ UNCHANGED stack

(* A configuration unit is decoded below the root, as a baseline; any      *)
(* failure takes the session with it.                                      *)
Prime(stop) ==
  LET session == sessions[call.track]
      units   == Tracks[call.track].config
      run     == RunCompound(session.rules, session.tree, RootId, units[call.next],
                             TRUE, call.limit, stop)
  IN  /\ call.pc = "prime" /\ call.next <= Len(units)
      /\ Counted(stop)
      /\ IF run.status = "Materialized"
         THEN /\ sessions' = [sessions EXCEPT ![call.track].tree = run.tree,
                                              ![call.track].rules = run.session]
              /\ call' = [call EXCEPT !.next = @ + 1, !.limit = @ - run.made]
              /\ UNCHANGED stack
         ELSE GiveUp
      /\ UNCHANGED <<container, indexed, children>>

Primed ==
  /\ call.pc = "prime" /\ call.next > Len(Tracks[call.track].config)
  /\ call' = [call EXCEPT !.pc = "frame"]
  /\ UNCHANGED <<container, indexed, sessions, children, stack, faults>>

-----------------------------------------------------------------------------
(* SamplePayloadRunner::run.                                               *)

EnvelopeNodes(track) ==
  IF Tracks[track].prefixed THEN 1 + Fields ELSE 3 + Fields

AppendFields(t, parent, n) ==
  [t EXCEPT ![parent].children = @ \o [i \in 1..n |-> Len(t) + i]]
    \o [i \in 1..n |-> NewNode(parent, "field", "Materialized", 0, 0)]

(* What framing finds before it interprets a unit; each gives the sample   *)
(* up.  "start" is the poll before and in framing, "header" a failed read  *)
(* of a length prefix.                                                     *)
FramingFails(stop) ==
  \/ stop # Undisturbed
  \/ call.limit < EnvelopeNodes(call.track)
  \/ Tracks[call.track].prefixed
       /\ \/ Tracks[call.track].samples[call.sample].defect
          \/ Len(UnitsOf(call.track, call.sample)) > MaxUnits

(* The tree and the rule session are saved before the sample node and its  *)
(* fields are appended; an opaque sample gets its payload and the fields   *)
(* about its configuration, too.                                           *)
FrameSample(stop) ==
  LET session == sessions[call.track]
      sample  == Len(session.tree) + 1
      opened  == AppendChild(session.tree, RootId, "sample", "Indexing", call.sample, 0)
      fields  == EnvelopeNodes(call.track) - 1
      started == [session EXCEPT
                    !.tree = AppendFields(opened, sample, fields),
                    !.rules = IF Tracks[call.track].prefixed
                              THEN BeginTransaction(@, call.limit) ELSE @]
  IN  /\ call.pc = "frame"
      /\ Counted(stop)
      /\ IF FramingFails(stop)
         THEN /\ sessions' = IF call.created THEN Without(call.track) ELSE sessions
              /\ call' = NoCall
         ELSE /\ sessions' = [sessions EXCEPT ![call.track] = started]
              /\ call' = [pc |-> "units", track |-> call.track, sample |-> call.sample,
                          created |-> call.created, next |-> 1, limit |-> call.limit,
                          before |-> call.before, node |-> sample, units |-> <<>>,
                          bound |-> <<>>,
                          snapshot |-> Snapshot(session.tree, RootId),
                          saved |-> session.rules]
      /\ UNCHANGED <<container, indexed, children, stack>>

(* Conditions of the run, not of the unit, that end the sample.            *)
RunTerminating == {"Cancelled", "SourceError", "ResourceLimit"}

(* What a call has left: its limit less the nodes since the snapshot.      *)
NodesLeft(tree) == call.limit - (Len(tree) - call.snapshot.count)

(* History: what a unit was decoded against, and with what outcome.        *)
Binding(rules, source, status) ==
  [status |-> status,
   ids |-> [i \in DOMAIN source.imports |-> ImportLookup(rules, source, i).id]]

(* One unit: its node with the length prefix, then its structures below.   *)
RunUnit(stop) ==
  LET session == sessions[call.track]
      unit    == Len(session.tree) + 1
      framed  == AppendFields(AppendChild(session.tree, call.node, "unit", "Indexing",
                                          call.next, 0), unit, 1)
      source  == UnitsOf(call.track, call.sample)[call.next]
      run     == RunCompound(session.rules, framed, unit, source, FALSE,
                             NodesLeft(framed), stop)
      closed  == IF run.status = "Materialized"
                 THEN Transition(run.tree, unit, "Materialized")
                 ELSE MarkPartial(run.tree, unit, StateForFailure(run.status), run.status)
  IN  /\ call.pc = "units" /\ Tracks[call.track].prefixed
      /\ call.next <= Len(UnitsOf(call.track, call.sample))
      /\ Counted(stop)
      /\ IF NodesLeft(session.tree) < 2 \/ run.status \in RunTerminating
         THEN GiveUp
         ELSE /\ sessions' = [sessions EXCEPT ![call.track].tree = closed,
                                              ![call.track].rules = run.session]
              /\ call' = [call EXCEPT !.next = @ + 1, !.units = Append(@, unit),
                                      !.bound = Append(@, Binding(session.rules, source,
                                                                  run.status))]
              /\ UNCHANGED stack
      /\ UNCHANGED <<container, indexed, children>>

(* The sample closes: the transaction commits, which keeps the counters of *)
(* this run, the result is kept and the sample presented.                  *)
CloseSample ==
  LET session == sessions[call.track]
      result  == [node |-> call.node, units |-> call.units, bound |-> call.bound,
                  generation |-> Generation(session.rules)]
  IN  /\ call.pc = "units"
      /\ Tracks[call.track].prefixed => call.next > Len(UnitsOf(call.track, call.sample))
      /\ sessions' = [sessions EXCEPT
                        ![call.track].tree = Transition(@, call.node, "Materialized"),
                        ![call.track].samples = With(@, call.sample, result)]
      /\ stack' = Append(stack, SampleFrame(call.track, call.sample, call.node))
      /\ call' = NoCall
      /\ UNCHANGED <<container, indexed, children, faults>>

-----------------------------------------------------------------------------
(* enterChildFormat() from a node of the container tree, and the return    *)
(* from whatever was entered last.                                         *)

NewChildSession == [tree |-> NewTree, rules |-> NewSession(SessionLimit)]

EnterChild(child, stop) ==
  LET known   == child.format \in DOMAIN children
      session == IF known THEN children[child.format] ELSE NewChildSession
      run     == RunCompound(session.rules, session.tree, RootId, child.unit, FALSE,
                             SessionLimit, stop)
      entered == run.status = "Materialized"
  IN  /\ CanEnter /\ stack = <<>>
      /\ Counted(stop)
      /\ children' = With(children, child.format,
                          [tree |-> IF entered THEN run.tree ELSE session.tree,
                           rules |-> run.session])
      /\ stack' = IF entered THEN <<ChildFrame(child, Len(session.tree) + 1)>> ELSE stack
      /\ UNCHANGED <<container, indexed, sessions, call>>

ReturnToParent ==
  /\ Idle /\ stack # <<>>
  /\ stack' = Front(stack)
  /\ UNCHANGED <<container, indexed, sessions, children, call, faults>>

-----------------------------------------------------------------------------

AllPlaces == {"start", "header", "between", "payload", "commit"}

Open == \E track \in DOMAIN Tracks : \E sample \in SampleIndices(track) :
          PresentCached(track, sample) \/ OpenCall(track, sample)

Proceed ==
  \/ Primed \/ CloseSample
  \/ \E stop \in Stops({"start", "header"}) : FrameSample(stop)
  \/ \E stop \in Stops(AllPlaces) : Prime(stop) \/ RunUnit(stop)

NavigationNext ==
  \/ \E state \in {"Materialized", "Invalid", "Cancelled"} : AnalysisEnds(state)
  \/ BuildIndices
  \/ Open \/ Proceed
  \/ \E child \in Children, stop \in Stops(AllPlaces) : EnterChild(child, stop)
  \/ ReturnToParent

NavigationSpec == NavigationInit /\ [][NavigationNext]_navigation

-----------------------------------------------------------------------------
(* Properties *)

(* The nodes kept for all tracks never exceed the bound that each call     *)
(* works out from what the others have kept, nor a child format's tree the *)
(* budget of its session, whichever calls fail and are repeated.           *)
RetentionBounded ==
  /\ Retained <= MaxRetained
  /\ \A f \in DOMAIN children : Len(children[f].tree) <= 1 + SessionLimit

(* docs/adr/0113, "Configuration and Sample Transactions", and the comment *)
(* of enterSample: a call that fails leaves no definition, no charge, no   *)
(* node and no session behind, wherever it fails.                          *)
FailureLeavesNoTrace ==
  [][(~Idle /\ Idle' /\ stack' = stack) => sessions' = call.before]_navigation

(* docs/adr/0113: "Repeated navigation reuses results only while their     *)
(* context dependencies remain valid".  A result that would be presented   *)
(* again was decoded against what its units would find now, and those that *)
(* found nothing still would not.                                          *)
ReusedIsCurrent ==
  \A t \in DOMAIN sessions : \A s \in DOMAIN sessions[t].samples :
    Cached(t, s) =>
      \A u \in DOMAIN UnitsOf(t, s) :
        LET unit == UnitsOf(t, s)[u]
            was  == sessions[t].samples[s].bound[u]
            now  == Binding(sessions[t].rules, unit, was.status)
        IN  /\ was = now
            /\ was.status = "Materialized" => ImportFailure(sessions[t].rules, unit) = "None"

(* The reference: a track decoded from the first sample to the last, with  *)
(* nothing in the way.                                                     *)
AllUnits(track) ==
  FlattenSeq([s \in SampleIndices(track) |->
                IF Tracks[track].samples[s].defect THEN <<>> ELSE UnitsOf(track, s)])

DecodeAll(session, units, baseline) ==
  FoldLeft(LAMBDA rules, unit :
             RunCompound(rules, NewTree, RootId, unit, baseline, 2, Undisturbed).session,
           session, units)

InOrder ==
  [t \in {t \in DOMAIN Tracks : Tracks[t].prefixed} |->
     DecodeAll(DecodeAll(NewSession(1000), Tracks[t].config, TRUE), AllUnits(t), FALSE)]

(* What a definition says, by its contents and not by its identifier.      *)
Meaning(rules, id) ==
  LET Of[d \in 1..id] ==
        [from |-> rules.dir.defs[d].from, to |-> rules.dir.defs[d].to,
         payload |-> rules.payloads[d],
         deps |-> [i \in DOMAIN rules.dir.defs[d].deps |-> Of[rules.dir.defs[d].deps[i]]]]
  IN  Of[id]

Contents(rules) ==
  [key \in DOMAIN rules.dir.byKey |->
     [i \in DOMAIN rules.dir.byKey[key] |-> Meaning(rules, rules.dir.byKey[key][i])]]

(* docs/adr/0113, "Rebinding Stale Definitions": however samples are       *)
(* visited, once all of them are current the directory says what decoding  *)
(* the track from start to end says.  For tracks as the run has them: the  *)
(* samples lie in stream order and do not overlap, and what a definition   *)
(* depends on depends on nothing itself, like the parameter sets of H.264. *)
(* In a longer chain, a definition made before its dependency went stale   *)
(* may stay in the directory as a stale one, where decoding in order makes *)
(* none; lookups find neither.                                             *)
SweepHeals ==
  \A t \in DOMAIN sessions :
    (/\ Idle /\ Tracks[t].prefixed
     /\ \A s \in SampleIndices(t) : Cached(t, s) \/ Tracks[t].samples[s].defect)
      => Contents(sessions[t].rules) = Contents(InOrder[t])

(* sample_payload_runner.cpp: "a half-built sub-tree never presents itself *)
(* as complete".  Nothing below a presented node is still being indexed,   *)
(* and the trees of all frames keep the nodes that were presented.         *)
TreeOf(frame) ==
  IF frame.kind = "sample" THEN sessions[frame.key].tree ELSE children[frame.key].tree

PresentedIsSettled ==
  \A i \in DOMAIN stack :
    LET t == TreeOf(stack[i])
    IN  /\ WellLinked(t)
        /\ stack[i].node \in DOMAIN t
        /\ t[stack[i].node].state = "Materialized"
        /\ Idle => \A n \in DOMAIN t \ {RootId} : t[n].state # "Indexing"

(* docs/adr/0028: a definition is seen by what follows it only.  Whatever  *)
(* is registered from the stream, lookups at or before the start of its    *)
(* span give what they gave, replaced definitions included.                *)
PastUnaffected ==
  [][\A t \in DOMAIN sessions \cap DOMAIN sessions' :
       LET old == sessions[t].rules.dir
           new == sessions[t]'.rules.dir
       IN  (call.pc = "units" /\ Len(new.defs) > Len(old.defs)) =>
             LET added == new.defs[Len(new.defs)]
             IN  \A key \in DOMAIN old.byKey : \A pos \in 0..added.from :
                   ResolveBefore(new, key, pos) = ResolveBefore(old, key, pos)]_navigation

=============================================================================
