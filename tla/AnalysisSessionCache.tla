------------------------ MODULE AnalysisSessionCache ------------------------
(***************************************************************************)
(* The write path of one AnalysisSession (src/app/analysis_session.cpp) on *)
(* top of the cache service: activation, publication of the progressive    *)
(* index and of the materialized result after each batch, the nonblocking  *)
(* poll of the write futures, format override and destruction.             *)
(*                                                                         *)
(* The session runs on the application thread; the worker of the owner is  *)
(* a CacheService that performs and answers between any two of its steps.  *)
(* What the analyzer finds is abstracted to whether a batch carries a new  *)
(* index update and whether it is the terminal one.                        *)
(***************************************************************************)
EXTENDS Naturals, Sequences, PageStore

CONSTANTS Rules,          \* rule identities the catalog resolves
          IndexedRules,   \* those of the H.264 analyzer, which reports updates
          MaxUpdates      \* bound: index updates of one analysis

ASSUME RulesAssumption == IndexedRules \subseteq Rules /\ MaxUpdates \in Nat

(* A page key with the namespace its owner was started for; a page content *)
(* is named after the update or the result it was encoded from.            *)
IndexPage(rule, n) == <<rule, "index", n>>
ResultPage(rule)   == <<rule, "result", 0>>
PageNames == {IndexPage(r, n) : r \in IndexedRules, n \in 0..MaxUpdates}
               \cup {ResultPage(r) : r \in Rules}

ASSUME PagesAssumption == Keys = PageNames /\ Values = PageNames

Write(key, content) == [op |-> "write", pages |-> [k \in {key} |-> content]]
Writes == {Write(k, v) : k \in Keys, v \in Values}

VARIABLES
  status,      \* cacheStatus_
  owner,       \* cacheOwner_ is set
  pending,     \* pendingCacheWrites_: positions in the log of the owner
  nextIndex,   \* nextProgressiveCachePageIndex_
  submitted,   \* materializedCacheSubmitted_
  started,     \* analysisStarted_
  finished,    \* the analyzer is terminal
  produced,    \* how many index updates the analyzer has reported
  rule,        \* ruleIdentity()
  spc,         \* "ready", or the operation that waits for the owner to close
  phase, log, performed, inHand, store   \* the service behind cacheOwner_

analysis == <<started, finished, produced, rule>>
writing  == <<status, pending, nextIndex, submitted>>
service  == <<phase, log, performed, inHand, store>>
vars     == <<writing, owner, analysis, spc, service>>

Service == INSTANCE CacheService WITH Requests <- Writes

(* Types, and the pending writes are requests of the present owner.        *)
TypeOK ==
  /\ status \in {"Disabled", "Active", "Failed"}
  /\ owner \in BOOLEAN /\ submitted \in BOOLEAN
  /\ started \in BOOLEAN /\ finished \in BOOLEAN
  /\ nextIndex \in Nat /\ produced \in 0..MaxUpdates
  /\ rule \in Rules
  /\ spc \in {"ready", "override", "enable", "destroy", "gone"}
  /\ phase \in {"starting", "admitting", "draining", "closed"}
  /\ log \in Seq([request : Writes, reply : Reply \cup {Pending}])
  /\ pending \subseteq DOMAIN log
  /\ performed \in Nat
  /\ inHand \in Reply \cup {Pending}
  /\ store \in [Keys -> Stored]

(* setupSessionCache: without options the cache stays disabled; otherwise  *)
(* the fingerprint, the namespace or the start of the owner may fail.      *)
CacheSetups == {[status |-> "Active", owner |-> TRUE,  phase |-> "admitting"],
                [status |-> "Failed", owner |-> FALSE, phase |-> "closed"]}

NoCache == [status |-> "Disabled", owner |-> FALSE, phase |-> "closed"]

Init ==
  /\ \E s \in CacheSetups \cup {NoCache} :
        status = s.status /\ owner = s.owner /\ phase = s.phase
  /\ pending = {} /\ nextIndex = 0 /\ submitted = FALSE
  /\ started = FALSE /\ finished = FALSE /\ produced = 0
  /\ rule \in Rules
  /\ spc = "ready"
  /\ log = <<>> /\ performed = 0 /\ inHand = Pending
  /\ store = [k \in Keys |-> Missing]

-----------------------------------------------------------------------------
(* pollCacheWrites: the ready futures are consumed; a failed one disables  *)
(* an active cache.                                                        *)
(* Mutant: only the committed ones leave the list.                         *)
Answered_Committed ==
  {i \in pending : log[i].reply # Pending /\ log[i].reply.status = "Committed"}

Answered == {i \in pending : log[i].reply # Pending}

(* Mutant: the results of the writes are dropped unseen.                   *)
StatusAfterPoll_Blind == status

StatusAfterPoll ==
  IF status = "Active" /\ \E i \in Answered : log[i].reply.status # "Committed"
  THEN "Failed" ELSE status

PollCacheWrites ==
  /\ spc = "ready"
  /\ status' = StatusAfterPoll
  /\ pending' = pending \ Answered
  /\ UNCHANGED <<nextIndex, submitted, owner, analysis, spc, service>>

(* What one analyzer batch may bring: an H.264 analysis that has not ended *)
(* may report an update, and any analysis may end, by completion, error,   *)
(* limit or cancellation.  A finished analyzer only repeats its status.    *)
Batches == {b \in [update : BOOLEAN, terminal : BOOLEAN] :
              /\ b.update => /\ ~finished /\ rule \in IndexedRules
                             /\ produced < MaxUpdates
              /\ finished => b.terminal}

(* acceptCacheWrite: a refusal (queue full, preflight) disables the cache. *)
(* Mutant: a refused page is skipped and the cache stays active.           *)
StatusAfterWrite_Ignored(accepted, current) == current

StatusAfterWrite(accepted, current) == IF accepted THEN current ELSE "Failed"

(* The result is due once, when the analysis has ended and the cache is    *)
(* still active after the index page of the same batch.                    *)
ResultDue(current, terminal) ==
  current = "Active" /\ owner /\ terminal /\ ~submitted

(* analyzeBatch: poll, analyze, then publishCachePages (or its copy for    *)
(* the other analyzers).  exported is the outcome of the result export,    *)
(* indexIn and resultIn are the answers of the owner to the submissions.   *)
AnalyzeBatch ==
  /\ spc = "ready"
  /\ started' = TRUE
  /\ \E b \in Batches, indexIn, exported, resultIn \in BOOLEAN :
       LET polled     == StatusAfterPoll
           writeIndex == b.update /\ polled = "Active" /\ owner
           indexed    == writeIndex /\ indexIn
           current    == IF writeIndex THEN StatusAfterWrite(indexIn, polled)
                                       ELSE polled
           due        == ResultDue(current, b.terminal)
           resulted   == due /\ exported /\ resultIn
           admitted   ==
             (IF indexed
              THEN <<Service!Entry(Write(IndexPage(rule, nextIndex),
                                         IndexPage(rule, produced)))>> ELSE <<>>)
             \o (IF resulted
                 THEN <<Service!Entry(Write(ResultPage(rule), ResultPage(rule)))>>
                 ELSE <<>>)
       IN /\ produced' = IF b.update THEN produced + 1 ELSE produced
          /\ finished' = b.terminal
          /\ nextIndex' = IF indexed THEN nextIndex + 1 ELSE nextIndex
          /\ submitted' = (submitted \/ due)
          /\ status' = IF due /\ ~resulted THEN "Failed" ELSE current
          /\ log' = log \o admitted
          /\ pending' = (pending \ Answered)
                          \cup (Len(log) + 1)..(Len(log) + Len(admitted))
  /\ UNCHANGED <<owner, rule, spc, phase, performed, inHand, store>>

-----------------------------------------------------------------------------
(* cacheOwner_.reset(): the destructor stops admission and joins the       *)
(* worker; the session goes on when the service has closed.                *)
ResetOwner(operation) ==
  /\ spc' = operation
  /\ phase' = IF phase = "admitting" THEN "draining" ELSE phase
  /\ UNCHANGED <<writing, owner, analysis, log, performed, inHand, store>>

OwnerClosed(operation) == spc = operation /\ phase = "closed"

(* The log of a new owner is empty. *)
NewService == log' = <<>> /\ performed' = 0 /\ inHand' = Pending

(* overrideFormat, once the rule is resolved and its analyzer created; a   *)
(* failure before that changes nothing.                                    *)
OverrideFormat == spc = "ready" /\ ResetOwner("override")

(* Mutant: the futures of the previous owner are kept.                     *)
ResetPublication_KeepsWrites ==
  submitted' = FALSE /\ nextIndex' = 0 /\ UNCHANGED pending

ResetPublication == submitted' = FALSE /\ nextIndex' = 0 /\ pending' = {}

FinishOverride ==
  /\ OwnerClosed("override")
  /\ owner' = FALSE
  /\ status' = "Disabled"
  /\ ResetPublication
  /\ started' = FALSE /\ finished' = FALSE /\ produced' = 0
  /\ rule' \in Rules
  /\ spc' = "ready"
  /\ NewService
  /\ UNCHANGED <<phase, store>>

(* enableCache, with a database path: an active cache stays; after the     *)
(* first batch it is too late; otherwise the old owner, if any, goes first.*)
(* Mutant: activation is accepted at any time.                             *)
TooLateToEnable_Never == FALSE

TooLateToEnable == started

EnableCache ==
  /\ spc = "ready"
  /\ status # "Active"
  /\ IF TooLateToEnable
     THEN /\ status' = "Failed"
          /\ UNCHANGED <<pending, nextIndex, submitted, owner, analysis, spc, service>>
     ELSE ResetOwner("enable")

FinishEnable ==
  /\ OwnerClosed("enable")
  /\ \E s \in CacheSetups :
        status' = s.status /\ owner' = s.owner /\ phase' = s.phase
  /\ pending' = {}
  /\ spc' = "ready"
  /\ NewService
  /\ UNCHANGED <<nextIndex, submitted, analysis, store>>

(* ~AnalysisSession. *)
Destroy == spc = "ready" /\ ResetOwner("destroy")

FinishDestroy ==
  /\ OwnerClosed("destroy")
  /\ owner' = FALSE
  /\ spc' = "gone"
  /\ UNCHANGED <<writing, analysis, service>>

-----------------------------------------------------------------------------
(* The worker of the owner. *)
Worker == /\ owner
          /\ Service!Perform \/ Service!Answer \/ Service!Close
          /\ UNCHANGED <<writing, owner, analysis, spc>>

Finish == FinishOverride \/ FinishEnable \/ FinishDestroy

Next == \/ AnalyzeBatch \/ PollCacheWrites
        \/ OverrideFormat \/ EnableCache \/ Destroy
        \/ Finish
        \/ Worker

Spec == Init /\ [][Next]_vars

(* The event loop schedules the next batch until the analysis ends, then   *)
(* polls while writes are pending (MainWindow::advanceAnalysis and         *)
(* pollAnalysisCache); the worker thread and a waiting destructor go on.   *)
Fairness == /\ WF_vars(~finished /\ AnalyzeBatch)
            /\ WF_vars(finished /\ pending # {} /\ PollCacheWrites)
            /\ WF_vars(Finish)
            /\ WF_vars(Worker)

FairSpec == Spec /\ Fairness

-----------------------------------------------------------------------------
(* Properties.                                                             *)

(* Page i of a rule's index holds update i of an analysis under that rule, *)
(* and nothing else: late activation, a skipped refusal, an override or a  *)
(* second owner never shifts or mixes the index on disk.                   *)
IndexPagesGenuine ==
  \A r \in IndexedRules, n \in 0..MaxUpdates :
     store[IndexPage(r, n)] \in {Missing, IndexPage(r, n)}

(* The contents of the log, without the replies. *)
Submitted == {log[i].request : i \in DOMAIN log}

(* An active cache is a complete write path: every update the analyzer has *)
(* reported was accepted for the current rule, and once the analysis has   *)
(* ended the result was accepted too.                                      *)
ActiveIsComplete ==
  status = "Active" /\ spc = "ready" =>
     /\ \A n \in 0..(produced - 1) :
           Write(IndexPage(rule, n), IndexPage(rule, n)) \in Submitted
     /\ finished => Write(ResultPage(rule), ResultPage(rule)) \in Submitted

(* A write that failed becomes visible in the session: an active cache     *)
(* with a failed write does not stay so while the session lives.           *)
FailureSurfaces ==
  (status = "Active" /\ \E i \in pending :
      log[i].reply # Pending /\ log[i].reply.status # "Committed")
    ~> (status # "Active" \/ spc = "gone")

(* Every accepted write is eventually collected, also after the analysis,  *)
(* unless the session is destroyed first.                                  *)
WritesAreCollected == pending # {} ~> (pending = {} \/ spc = "gone")
=============================================================================
