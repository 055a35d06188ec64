------------------------- MODULE AnalysisCacheOwner -------------------------
(***************************************************************************)
(* The background owner of one page cache (src/rules/analysis_cache_owner).*)
(* Client threads call submit, flush and shutdown; one worker thread opens *)
(* the cache, takes requests from a bounded queue and performs them, then  *)
(* accounts, fulfils and completes each one in steps of their own.  A step *)
(* is what one thread does while it holds mutex_, or one notification, or  *)
(* one piece of unlocked work.  A thread asleep on a condition variable    *)
(* moves only when it is notified; a spurious wakeup re-tests the same     *)
(* predicate under the lock and goes back to sleep, so it is a stutter.    *)
(***************************************************************************)
EXTENDS Integers, Sequences, FiniteSetsExt, PageStore

CONSTANTS Clients,          \* threads that hold the owner
          Requests,         \* the requests they submit, already preflighted
          Bytes,            \* [Requests -> Nat]: encoded bytes a request retains
          MaxOutstanding,   \* options_.maximumOutstandingRequests
          MaxRetained,      \* options_.maximumRetainedWriteBytes
          MaxRequests       \* bound: submissions explored in one life of the owner

ASSUME OptionsAssumption ==
  /\ MaxOutstanding \in Nat \ {0}
  /\ MaxRetained \in Nat \ {0}
  /\ MaxRequests \in Nat

ASSUME OwnerRequestsAssumption ==
  /\ Requests \subseteq Request
  /\ Bytes \in [Requests -> Nat]

ASSUME PendingAssumption == Pending \notin Reply

VARIABLES
  accepting, shutdownRequested, stopped, ready,   \* the flags under mutex_
  tasks,               \* tasks_: sequence numbers of the queued requests
  acceptedSequence, completedSequence,
  outstanding,         \* outstandingRequests_
  retained,            \* outstandingRetainedBytes_
  promises,            \* shared states of the futures: request and reply
  wpc,                 \* what the worker does next
  current,             \* sequence of the task the worker holds, 0 for none
  result,              \* its reply, before the promise is set
  cacheOpen,           \* the worker owns an open PagedCache
  store,               \* the pages of the namespace
  start,               \* what start() has returned: "launched", "asleep",
                       \* "Started" or "CacheOpenFailed"
  once,                \* shutdownOnce_: "idle", "running" or "done"
  cpc,                 \* what each client thread does next
  target,              \* the sequence its latest flush waits for
  flushed              \* what its latest flush returned

flags    == <<accepting, shutdownRequested, stopped, ready>>
counters == <<acceptedSequence, completedSequence, outstanding, retained>>
worker   == <<wpc, current, result, cacheOpen, store>>
clients  == <<once, cpc, target, flushed>>
vars     == <<flags, tasks, counters, promises, worker, start, clients>>

WorkerSteps == {"open", "notifyReady", "take", "waiting", "execute", "account",
                "fulfil", "complete", "notifyDrain", "close", "stop",
                "notifyStopped", "exited"}
ClientSteps == {"ready", "asleep", "notified", "notifyWork", "joining", "onceWait"}

TypeOK ==
  /\ accepting \in BOOLEAN /\ shutdownRequested \in BOOLEAN
  /\ stopped \in BOOLEAN   /\ ready \in BOOLEAN
  /\ tasks \in Seq(Nat)
  /\ acceptedSequence \in Nat /\ completedSequence \in Nat
  /\ outstanding \in Int /\ retained \in Int
  /\ promises \in Seq([request : Requests, reply : Reply \cup {Pending}])
  /\ wpc \in WorkerSteps
  /\ current \in Nat
  /\ result \in Reply \cup {Pending}
  /\ cacheOpen \in BOOLEAN
  /\ store \in [Keys -> Stored]
  /\ start \in {"launched", "asleep", "Started", "CacheOpenFailed"}
  /\ once \in {"idle", "running", "done"}
  /\ cpc \in [Clients -> ClientSteps]
  /\ target \in [Clients -> Nat]
  /\ flushed \in [Clients -> {"none", "Drained", "ShutDown"}]

Init ==
  /\ accepting = FALSE /\ shutdownRequested = FALSE
  /\ stopped = FALSE   /\ ready = FALSE
  /\ tasks = <<>>
  /\ acceptedSequence = 0 /\ completedSequence = 0
  /\ outstanding = 0 /\ retained = 0
  /\ promises = <<>>
  /\ wpc = "open" /\ current = 0 /\ result = Pending /\ cacheOpen = FALSE
  /\ store \in [Keys -> Stored]
  /\ start = "launched"
  /\ once = "idle"
  /\ cpc = [c \in Clients |-> "ready"]
  /\ target = [c \in Clients |-> 0]
  /\ flushed = [c \in Clients |-> "none"]

-----------------------------------------------------------------------------
(* start(): waitUntilReady tests ready_ under the lock, else sleeps on     *)
(* readyCondition_; the opened status decides what start returns.          *)
AwaitReady ==
  /\ start = "launched"
  /\ start' = CASE ~ready                -> "asleep"
                [] ready /\ stopped      -> "CacheOpenFailed"
                [] ready /\ ~stopped     -> "Started"
  /\ UNCHANGED <<flags, tasks, counters, promises, worker, clients>>

(* A client's view: the owner exists once start() has returned it.         *)
CanCall(c) == start = "Started" /\ cpc[c] = "ready"

(* Mutants: the bytes of the request itself are not counted; the admission *)
(* flag is forgotten.                                                      *)
HasCapacity_WithoutItself(r) == /\ outstanding < MaxOutstanding
                                /\ retained <= MaxRetained

HasCapacity(r) == /\ outstanding < MaxOutstanding
                  /\ Bytes[r] <= MaxRetained - retained

Admits_IgnoresShutdown(r) == ready /\ HasCapacity(r)

Admits(r) == accepting /\ HasCapacity(r)

(* workCondition_.notify_one: a sleeping worker goes back to its queue.    *)
(* Mutant: the notification is forgotten.                                  *)
WakeWorker_Forgotten == wpc

WakeWorker == IF wpc = "waiting" THEN "take" ELSE wpc

(* submit(): under the lock, an admitted request gets the next sequence,   *)
(* is charged against both bounds and wakes the worker.  A refusal         *)
(* (ShuttingDown, QueueFull) changes nothing and is not a step.            *)
Submit(c, r) ==
  /\ CanCall(c)
  /\ acceptedSequence < MaxRequests
  /\ Admits(r)
  /\ acceptedSequence' = acceptedSequence + 1
  /\ promises' = Append(promises, [request |-> r, reply |-> Pending])
  /\ tasks' = Append(tasks, acceptedSequence')
  /\ outstanding' = outstanding + 1
  /\ retained' = retained + Bytes[r]
  /\ wpc' = WakeWorker
  /\ UNCHANGED <<flags, completedSequence, current, result, cacheOpen, store,
                 start, clients>>

(* Mutant: waiting until nothing is outstanding instead.                   *)
Reached_NothingOutstanding(goal) == outstanding = 0

Reached(goal) == completedSequence >= goal

(* The wait of flush(): return when the target is completed or the worker  *)
(* has stopped, otherwise sleep on drainCondition_.                        *)
FlushTest(c, goal) ==
  IF Reached(goal) \/ stopped
  THEN /\ flushed' = [flushed EXCEPT ![c] =
            IF Reached(goal) THEN "Drained" ELSE "ShutDown"]
       /\ cpc' = [cpc EXCEPT ![c] = "ready"]
  ELSE /\ cpc' = [cpc EXCEPT ![c] = "asleep"]
       /\ flushed' = [flushed EXCEPT ![c] = "none"]

(* flush(): after the stop it refuses; before it, the goal is fixed to     *)
(* what has been accepted so far.                                          *)
Flush(c) ==
  /\ CanCall(c)
  /\ IF stopped
     THEN /\ flushed' = [flushed EXCEPT ![c] = "ShutDown"]
          /\ UNCHANGED <<cpc, target>>
     ELSE /\ target' = [target EXCEPT ![c] = acceptedSequence]
          /\ FlushTest(c, acceptedSequence)
  /\ UNCHANGED <<flags, tasks, counters, promises, worker, start, once>>

FlushWake(c) ==
  /\ cpc[c] = "notified"
  /\ FlushTest(c, target[c])
  /\ UNCHANGED <<flags, tasks, counters, promises, worker, start, once, target>>

(* shutdown(): the first caller runs the call_once body, any other waits   *)
(* for it.  The body stops admission under the lock, then notifies the     *)
(* worker, then joins it.                                                  *)
Shutdown(c) ==
  /\ CanCall(c)
  /\ once = "idle"
  /\ once' = "running"
  /\ accepting' = FALSE
  /\ shutdownRequested' = TRUE
  /\ cpc' = [cpc EXCEPT ![c] = "notifyWork"]
  /\ UNCHANGED <<stopped, ready, tasks, counters, promises, worker, start,
                 target, flushed>>

ShutdownAgain(c) ==
  /\ CanCall(c)
  /\ once = "running"
  /\ cpc' = [cpc EXCEPT ![c] = "onceWait"]
  /\ UNCHANGED <<flags, tasks, counters, promises, worker, start, once,
                 target, flushed>>

NotifyWork(c) ==
  /\ cpc[c] = "notifyWork"
  /\ wpc' = WakeWorker
  /\ cpc' = [cpc EXCEPT ![c] = "joining"]
  /\ UNCHANGED <<flags, tasks, counters, promises, current, result, cacheOpen,
                 store, start, once, target, flushed>>

Join(c) ==
  /\ cpc[c] = "joining"
  /\ wpc = "exited"
  /\ once' = "done"
  /\ cpc' = [cpc EXCEPT ![c] = "ready"]
  /\ UNCHANGED <<flags, tasks, counters, promises, worker, start, target, flushed>>

OnceReturns(c) ==
  /\ cpc[c] = "onceWait"
  /\ once = "done"
  /\ cpc' = [cpc EXCEPT ![c] = "ready"]
  /\ UNCHANGED <<flags, tasks, counters, promises, worker, start, once,
                 target, flushed>>

-----------------------------------------------------------------------------
(* run(): the worker thread.                                               *)

(* PagedCache::open on the worker, its outcome published under the lock.   *)
RunOpen ==
  /\ wpc = "open"
  /\ \E opened \in BOOLEAN :
        /\ cacheOpen' = opened
        /\ accepting' = opened
        /\ stopped' = ~opened
  /\ ready' = TRUE
  /\ wpc' = "notifyReady"
  /\ UNCHANGED <<shutdownRequested, tasks, counters, promises, current, result,
                 store, start, clients>>

NotifyReady ==
  /\ wpc = "notifyReady"
  /\ start' = IF start = "asleep" THEN "launched" ELSE start
  /\ wpc' = IF cacheOpen THEN "take" ELSE "notifyStopped"
  /\ UNCHANGED <<flags, tasks, counters, promises, current, result, cacheOpen,
                 store, clients>>

(* Mutant: a requested shutdown abandons the queue.                        *)
HasTask_DropsOnShutdown == tasks # <<>> /\ ~shutdownRequested

HasTask == tasks # <<>>

(* The wait on workCondition_: a queued task is taken even after shutdown  *)
(* was requested, an empty queue ends the loop only then.                  *)
RunTake ==
  /\ wpc = "take"
  /\ \/ /\ HasTask
        /\ current' = Head(tasks)
        /\ tasks' = Tail(tasks)
        /\ wpc' = "execute"
     \/ /\ ~HasTask
        /\ wpc' = IF shutdownRequested THEN "close" ELSE "waiting"
        /\ UNCHANGED <<tasks, current>>
  /\ UNCHANGED <<flags, counters, promises, result, cacheOpen, store, start, clients>>

(* task.execute, without the lock.  An exception it throws is answered by  *)
(* task.fail with the same storage error.                                  *)
(* Mutant: the future is made ready where the request is executed.         *)
RunExecute_AnswersAtOnce ==
  /\ wpc = "execute"
  /\ \E o \in Outcomes(promises[current].request, store) :
        /\ result' = o.reply
        /\ store' = o.store
        /\ promises' = [promises EXCEPT ![current].reply = o.reply]
  /\ wpc' = "account"
  /\ UNCHANGED <<flags, tasks, counters, current, cacheOpen, start, clients>>

RunExecute ==
  /\ wpc = "execute"
  /\ \E o \in Outcomes(promises[current].request, store) :
        /\ result' = o.reply
        /\ store' = o.store
  /\ wpc' = "account"
  /\ UNCHANGED <<flags, tasks, counters, promises, current, cacheOpen, start, clients>>

(* The request's share of both bounds is returned before its future is     *)
(* ready, so that a caller that sees its reply can submit again.           *)
RunAccount ==
  /\ wpc = "account"
  /\ outstanding' = outstanding - 1
  /\ retained' = retained - Bytes[promises[current].request]
  /\ wpc' = "fulfil"
  /\ UNCHANGED <<flags, tasks, acceptedSequence, completedSequence, promises,
                 current, result, cacheOpen, store, start, clients>>

RunFulfil ==
  /\ wpc = "fulfil"
  /\ promises' = [promises EXCEPT ![current].reply = result]
  /\ result' = Pending
  /\ wpc' = "complete"
  /\ UNCHANGED <<flags, tasks, counters, current, cacheOpen, store, start, clients>>

RunComplete ==
  /\ wpc = "complete"
  /\ completedSequence' = current
  /\ wpc' = "notifyDrain"
  /\ UNCHANGED <<flags, tasks, acceptedSequence, outstanding, retained, promises,
                 current, result, cacheOpen, store, start, clients>>

(* drainCondition_.notify_all: every sleeping flush re-tests its wait.     *)
(* Mutant: notify_one wakes a single one of them.                          *)
WakeFlushers_One ==
  IF \A c \in Clients : cpc[c] # "asleep" THEN UNCHANGED cpc
  ELSE \E c \in Clients : cpc[c] = "asleep" /\ cpc' = [cpc EXCEPT ![c] = "notified"]

WakeFlushers == cpc' = [c \in Clients |->
                          IF cpc[c] = "asleep" THEN "notified" ELSE cpc[c]]

NotifyDrain ==
  /\ wpc = "notifyDrain"
  /\ WakeFlushers
  /\ current' = 0
  /\ wpc' = "take"
  /\ UNCHANGED <<flags, tasks, counters, promises, result, cacheOpen, store,
                 start, once, target, flushed>>

RunClose ==
  /\ wpc = "close"
  /\ cacheOpen' = FALSE
  /\ wpc' = "stop"
  /\ UNCHANGED <<flags, tasks, counters, promises, current, result, store,
                 start, clients>>

RunStop ==
  /\ wpc = "stop"
  /\ stopped' = TRUE
  /\ wpc' = "notifyStopped"
  /\ UNCHANGED <<accepting, shutdownRequested, ready, tasks, counters, promises,
                 current, result, cacheOpen, store, start, clients>>

NotifyStopped ==
  /\ wpc = "notifyStopped"
  /\ WakeFlushers
  /\ wpc' = "exited"
  /\ UNCHANGED <<flags, tasks, counters, promises, current, result, cacheOpen,
                 store, start, once, target, flushed>>

-----------------------------------------------------------------------------
Run == \/ RunOpen \/ NotifyReady \/ RunTake \/ RunExecute \/ RunAccount
       \/ RunFulfil \/ RunComplete \/ NotifyDrain
       \/ RunClose \/ RunStop \/ NotifyStopped

Call(c) == \/ \E r \in Requests : Submit(c, r)
           \/ Flush(c) \/ Shutdown(c) \/ ShutdownAgain(c)

(* A thread already inside a call goes on by itself.                       *)
Resume(c) == FlushWake(c) \/ NotifyWork(c) \/ Join(c) \/ OnceReturns(c)

Next == \/ AwaitReady
        \/ Run
        \/ \E c \in Clients : Call(c) \/ Resume(c)

Spec == Init /\ [][Next]_vars

(* Threads that can run do run; nobody is obliged to call anything.        *)
Fairness == /\ WF_vars(Run)
            /\ WF_vars(AwaitReady)
            /\ \A c \in Clients : WF_vars(Resume(c))

FairSpec == Spec /\ Fairness
-----------------------------------------------------------------------------
(* Properties.                                                             *)

(* Requests whose share of the bounds has not been returned: the queued    *)
(* ones and the one being executed.                                        *)
Charged == {tasks[i] : i \in DOMAIN tasks}
             \cup (IF wpc \in {"execute", "account"} THEN {current} ELSE {})

ChargedBytes == MapThenSumSet(LAMBDA s : Bytes[promises[s].request], Charged)

(* The queue is bounded by both limits with the executing request counted  *)
(* in, and the two unsigned counters that submit() tests are exact: they   *)
(* never drift and never wrap below zero, however calls and worker steps   *)
(* interleave.                                                             *)
QueueBounded ==
  /\ outstanding = Cardinality(Charged)  /\ outstanding <= MaxOutstanding
  /\ retained = ChargedBytes             /\ retained <= MaxRetained

(* A caller that has seen the replies of all its requests is not refused   *)
(* for requests it knows to be finished: nothing answered is still charged.*)
AnsweredNotCharged ==
  \A s \in Charged : promises[s].reply = Pending

(* flush() returned Drained: the future of every request accepted before   *)
(* the call is ready, not merely executed.                                 *)
DrainedMeansAnswered ==
  \A c \in Clients : flushed[c] = "Drained" =>
     \A s \in 1..target[c] : promises[s].reply # Pending

(* A flush that waits is never cut off by a shutdown of another thread:    *)
(* the worker drains what was accepted before it stops.                    *)
WaitingFlushDrains ==
  [][\A c \in Clients :
        cpc[c] = "notified" => flushed'[c] # "ShutDown"]_vars

(* When shutdown() returns to whichever caller, every accepted request has *)
(* been answered, nothing is queued or charged, and the worker has         *)
(* destroyed the cache, so that its database can be opened again.          *)
ShutdownDrains ==
  once = "done" =>
     /\ \A s \in DOMAIN promises : promises[s].reply # Pending
     /\ tasks = <<>> /\ outstanding = 0
     /\ ~cacheOpen /\ stopped

(* No notification is lost: a sleeping worker has no work, and if shutdown *)
(* was requested its notification is still to come; a sleeping flush whose *)
(* target is reached, or whose worker has stopped, is about to be woken.   *)
NoLostWakeup ==
  /\ wpc = "waiting" =>
       /\ tasks = <<>>
       /\ shutdownRequested => \E c \in Clients : cpc[c] = "notifyWork"
  /\ \A c \in Clients : cpc[c] = "asleep" =>
       /\ completedSequence >= target[c] => wpc = "notifyDrain"
       /\ stopped => wpc = "notifyStopped"

(* Every accepted request is eventually answered, whatever the store does. *)
RequestsAnswered ==
  \A s \in 1..MaxRequests :
     (s \in DOMAIN promises) ~> (s \in DOMAIN promises /\ promises[s].reply # Pending)

(* Every flush and every shutdown returns, whoever else is calling.        *)
CallsReturn ==
  \A c \in Clients : cpc[c] # "ready" ~> cpc[c] = "ready"

ServicePhase ==
  IF ~ready THEN "starting"
  ELSE IF accepting THEN "admitting"
  ELSE IF cacheOpen THEN "draining" ELSE "closed"

ServicePerformed ==
  IF wpc \in {"account", "fulfil", "complete", "notifyDrain"} THEN current
  ELSE IF wpc = "execute" THEN current - 1
  ELSE acceptedSequence - Len(tasks)

Service == INSTANCE CacheService WITH
  phase <- ServicePhase, log <- promises, performed <- ServicePerformed,
  inHand <- result

(* The owner is a CacheService: admitted requests meet the store one at a  *)
(* time and in order, are answered in that order, and all of them before   *)
(* the cache closes.                                                       *)
ServiceSpec == Service!Spec
=============================================================================
