-------------------------- MODULE ContextDirectory --------------------------
(***************************************************************************)
(* core/context_directory.cpp as a value: the definitions that units of a  *)
(* stream publish for later units to import (H.264 parameter sets).        *)
(*                                                                         *)
(* A directory keeps every definition ever registered, its identifier being*)
(* its position, and for each key the identifiers that lookups consider,   *)
(* ordered by the end of their source span.  A definition is visible from  *)
(* the end of its span on, a baseline definition (taken from the container)*)
(* everywhere, and only as long as the definitions it depends on are still *)
(* the ones a lookup gives.                                                *)
(*                                                                         *)
(* A key is a kind and a value.  Scopes and metadata are left out: a rule  *)
(* session uses one scope, and registers nodes that exist at spans that are*)
(* not empty.  A list of spans is the interval from its start to its end.  *)
(***************************************************************************)
EXTENDS Integers, FiniteSetsExt, SequencesExt

CONSTANT MaxDependencyDepth  \* ContextDirectory::maximumDependencyDepth

Definition(key, from, to, node, deps, baseline) ==
  [key |-> key, from |-> from, to |-> to, node |-> node, deps |-> deps,
   baseline |-> baseline]

EmptyDirectory == [defs |-> <<>>, byKey |-> <<>>]

IdsFor(dir, key) ==
  IF key \in DOMAIN dir.byKey THEN dir.byKey[key] ELSE <<>>

-----------------------------------------------------------------------------
(* Lookups.  NoId is the absence of an identifier.                         *)

NoId == 0

VisibleCandidate_FromStart(defs, ids, pos) ==
  LET Rightmost(Fits(_)) ==
        Max({i \in DOMAIN ids : Fits(defs[ids[i]])} \cup {0})
      inBand   == Rightmost(LAMBDA d : ~d.baseline /\ d.from <= pos)
      baseline == Rightmost(LAMBDA d : d.baseline)
  IN  IF inBand # 0 THEN ids[inBand]
      ELSE IF baseline # 0 THEN ids[baseline] ELSE NoId

(* visibleCandidate(): the last definition that ends at or before the      *)
(* position, or else the last baseline definition.                         *)
VisibleCandidate(defs, ids, pos) ==
  LET Rightmost(Fits(_)) ==
        Max({i \in DOMAIN ids : Fits(defs[ids[i]])} \cup {0})
      inBand   == Rightmost(LAMBDA d : ~d.baseline /\ d.to <= pos)
      baseline == Rightmost(LAMBDA d : d.baseline)
  IN  IF inBand # 0 THEN ids[inBand]
      ELSE IF baseline # 0 THEN ids[baseline] ELSE NoId

Candidate(dir, key, pos) == VisibleCandidate(dir.defs, IdsFor(dir, key), pos)

(* Whether a candidate can be used at a position: each dependency must be  *)
(* what a lookup of its key gives there, and the chain must not be too     *)
(* long.  A definition depends on older ones only, so no lookup comes back *)
(* to a definition it has already met.                                     *)
Usable(dir, id, pos) ==
  LET Height[d \in 1..id] ==
        1 + Max({Height[dir.defs[d].deps[i]] : i \in DOMAIN dir.defs[d].deps} \cup {0})
      Current[d \in 1..id] ==
        /\ Height[d] <= MaxDependencyDepth
        /\ \A i \in DOMAIN dir.defs[d].deps :
             LET dep == dir.defs[d].deps[i]
             IN  Candidate(dir, dir.defs[dep].key, pos) = dep /\ Current[dep]
  IN  Current[id]

Lookup(dir, id, pos) ==
  [status |-> IF id = NoId THEN "NotFound"
              ELSE IF Usable(dir, id, pos) THEN "Found" ELSE "DependencyUnavailable",
   id |-> id]

ResolveBefore(dir, key, pos) == Lookup(dir, Candidate(dir, key, pos), pos)

(* resolveLatestBefore(): among the keys of a kind, the candidate that ends*)
(* last, a definition of the stream before any baseline.                   *)
EndingLast(dir, among) ==
  IF among = {} THEN NoId
  ELSE CHOOSE id \in among : \A other \in among : dir.defs[other].to <= dir.defs[id].to

StreamFirst(dir, found) ==
  LET own == {id \in found : ~dir.defs[id].baseline}
  IN  IF own # {} THEN own ELSE found

ResolveLatestBefore(dir, kind, pos) ==
  LET found == {Candidate(dir, key, pos) : key \in {k \in DOMAIN dir.byKey : k.kind = kind}}
  IN  Lookup(dir, EndingLast(dir, StreamFirst(dir, found \ {NoId})), pos)

-----------------------------------------------------------------------------
(* Registration.                                                           *)

SameSpans(d, e) == d.from = e.from /\ d.to = e.to
Overlap(d, e) == d.from < e.to /\ e.from < d.to

(* The first dependency that is wrong decides how a registration fails.    *)
DependencyFailure(dir, spec) ==
  LET Malformed(i) ==
        \/ spec.deps[i] \notin DOMAIN dir.defs
        \/ dir.defs[spec.deps[i]].key = spec.key
        \/ \E j \in 1..(i - 1) : spec.deps[j] = spec.deps[i]
      Stale(i) ==
        ResolveBefore(dir, dir.defs[spec.deps[i]].key, spec.from)
          # [status |-> "Found", id |-> spec.deps[i]]
      wrong == {i \in DOMAIN spec.deps : Malformed(i) \/ Stale(i)}
  IN  IF wrong = {} THEN "None"
      ELSE IF Malformed(Min(wrong)) THEN "InvalidDefinition"
      ELSE "DependencyUnavailable"

(* What may replace a definition: the same span and visibility, other      *)
(* dependencies, and the old one must be what lookups would give, if it    *)
(* were not stale.                                                         *)
MayReplace(dir, previous, spec) ==
  LET old == dir.defs[previous]
  IN  /\ old.key = spec.key
      /\ SameSpans(old, spec)
      /\ old.baseline = spec.baseline
      /\ old.deps # spec.deps
      /\ ResolveBefore(dir, spec.key, spec.to)
           = [status |-> "DependencyUnavailable", id |-> previous]

(* Where a new identifier goes among those of its key: before the first    *)
(* that does not end earlier.                                              *)
InsertById(dir, ids, id, to) ==
  LET before == Cardinality({i \in DOMAIN ids : dir.defs[ids[i]].to < to})
  IN  InsertAt(ids, before + 1, id)

WithKey(byKey, key, ids) ==
  [k \in DOMAIN byKey \cup {key} |-> IF k = key THEN ids ELSE byKey[k]]

Refused(dir, status, conflict) ==
  [status |-> status, id |-> NoId, conflict |-> conflict, dir |-> dir]

(* registerDefinition(), with previous = NoId, and replaceStaleDefinition()*)
Register(dir, previous, spec) ==
  LET ids       == IdsFor(dir, spec.key)
      id        == Len(dir.defs) + 1
      overlaps  == {i \in DOMAIN ids : ids[i] # previous /\ Overlap(dir.defs[ids[i]], spec)}
      failure   == DependencyFailure(dir, spec)
      newIds    == IF previous = NoId THEN InsertById(dir, ids, id, spec.to)
                   ELSE [i \in DOMAIN ids |-> IF ids[i] = previous THEN id ELSE ids[i]]
  IN  IF previous # NoId /\ ~MayReplace(dir, previous, spec)
      THEN Refused(dir, "InvalidDefinition", NoId)
      ELSE IF failure # "None" THEN Refused(dir, failure, NoId)
      ELSE IF overlaps # {} THEN Refused(dir, "DuplicateDefinition", ids[Min(overlaps)])
      ELSE [status |-> "Registered", id |-> id, conflict |-> NoId,
            dir |-> [defs  |-> Append(dir.defs, spec),
                     byKey |-> WithKey(dir.byKey, spec.key, newIds)]]

=============================================================================
