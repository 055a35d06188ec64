------------------------- MODULE AnalysisCache_proof -------------------------
(***************************************************************************)
(* Proofs about the cache of an analysis on both sides of its store: the   *)
(* thread that owns it, and the database below.                            *)
(*                                                                         *)
(* AnalysisCacheOwner, for any number of clients, any request set, any     *)
(* queue bounds and any number of submissions: IInv, its inductive         *)
(* invariant, ties the position of the worker to the queue, to the         *)
(* counters and to the replies already given.                              *)
(*                                                                         *)
(* PagedCache, for any number of instances, namespaces, pages, batches,    *)
(* crashes and statement failures: CacheInv says that whoever is not       *)
(* closed holds the live lock, so at most one instance is at work, and     *)
(* that what its open transaction holds can be told from the database on   *)
(* disk, the batch and the keys still to be written.                       *)
(***************************************************************************)
EXTENDS AnalysisCacheOwner, PagedCache, FiniteSetTheorems, WellFoundedInduction, TLAPS

(* Requests the worker has taken off the queue so far.                     *)
Taken == acceptedSequence - Len(tasks)

Holding(steps) == IF wpc \in steps THEN 1 ELSE 0

(* The queue is exactly the sequences accepted and not yet taken, in order.*)
QueueInOrder ==
  /\ acceptedSequence = Len(promises)
  /\ Len(tasks) <= acceptedSequence
  /\ \A i \in 1..Len(tasks) : tasks[i] = Taken + i

(* The task in hand is the last one taken.                                 *)
TaskInHand ==
  /\ wpc \in {"execute", "account", "fulfil", "complete", "notifyDrain"} =>
       current = Taken /\ current >= 1
  /\ wpc \in {"account", "fulfil"} <=> result # Pending

(* The replies given are a prefix of the admissions; completedSequence     *)
(* trails it by the step between fulfil and complete.                      *)
AnswersInOrder ==
  /\ completedSequence
       = Taken - Holding({"execute", "account", "fulfil", "complete"})
  /\ \A s \in 1..Len(promises) :
       promises[s].reply = Pending
         <=> s > Taken - Holding({"execute", "account", "fulfil"})

(* Both bounds hold for what is charged at this moment.                    *)
WithinBounds ==
  /\ outstanding = Len(tasks) + Holding({"execute", "account"})
  /\ outstanding <= MaxOutstanding
  /\ retained <= MaxRetained

(* The flags say where the worker is in its life.                          *)
WorkerLife ==
  /\ ready <=> wpc # "open"
  /\ stopped <=> \/ wpc \in {"notifyStopped", "exited"}
                 \/ wpc = "notifyReady" /\ ~cacheOpen
  /\ accepting <=> ready /\ cacheOpen /\ ~shutdownRequested
  /\ wpc \in {"open", "stop", "notifyStopped", "exited"} => ~cacheOpen
  /\ wpc \in {"take", "waiting", "execute", "account", "fulfil", "complete",
              "notifyDrain", "close"} => cacheOpen
  /\ wpc \in {"open", "waiting", "close", "stop", "notifyStopped", "exited"}
       => tasks = <<>>
  /\ ~cacheOpen => tasks = <<>>
  /\ wpc \in {"close", "stop"} => shutdownRequested

(* Calls exist only after start() and shutdown only through call_once.     *)
CallLife ==
  /\ start # "Started" => /\ \A c \in Clients : cpc[c] = "ready"
                          /\ once = "idle"
  /\ start = "Started" => ready
  /\ shutdownRequested <=> once # "idle"
  /\ \A c \in Clients : cpc[c] \in {"notifyWork", "joining"} => once # "idle"
  /\ once = "done" => wpc = "exited"

FlushGoals ==
  \A c \in Clients : /\ target[c] <= acceptedSequence
                     /\ flushed[c] = "Drained" => target[c] <= completedSequence
                     /\ cpc[c] \in {"asleep", "notified"} => flushed[c] = "none"

IInv == /\ TypeOK
        /\ QueueInOrder /\ TaskInHand /\ AnswersInOrder /\ WithinBounds
        /\ WorkerLife /\ CallLife /\ FlushGoals /\ NoLostWakeup

(* Whatever a request meets in a well-formed store, it leaves a well-formed *)
(* store and a reply that is not the mark of a missing one.                *)
LEMMA OutcomeType ==
  ASSUME NEW r \in Request, NEW s \in [Keys -> Stored], NEW o \in Outcomes(r, s)
  PROVE  /\ o.reply \in Reply /\ o.reply # Pending
         /\ o.store \in [Keys -> Stored]
<1>1. CASE r.op = "write"
  <2>1. r \in WriteRequest
    BY <1>1 DEF Request, WriteRequest, ReadRequest
  <2>2. \A k \in DOMAIN r.pages : r.pages[k] \in Values
    BY <2>1 DEF WriteRequest
  <2>3. Overwrite(s, r.pages) \in [Keys -> Stored]
    BY <2>2 DEF Overwrite, Stored
  <2> QED
    BY <1>1, <2>3, PendingAssumption DEF Outcomes, WriteOutcomes, Reply
<1>2. CASE r.op # "write"
  <2>1. r \in ReadRequest
    BY <1>2 DEF Request, WriteRequest, ReadRequest
  <2>2. r.key \in Keys
    BY <2>1 DEF ReadRequest
  <2>3. ReadReply(s[r.key]) \in Reply
    BY <2>2 DEF ReadReply, Reply, Stored
  <2> QED
    BY <1>2, <2>3, PendingAssumption DEF Outcomes, ReadOutcomes, Reply
<1> QED
  BY <1>1, <1>2

(* Three facts about sequences that the queue and the promises need.       *)
LEMMA ElementType ==
  ASSUME NEW S, NEW q \in Seq(S), NEW i \in 1..Len(q)
  PROVE  q[i] \in S
OBVIOUS

LEMMA TailFacts ==
  ASSUME NEW S, NEW q \in Seq(S), q # <<>>
  PROVE  /\ Tail(q) \in Seq(S) /\ Len(q) \in Nat /\ Len(q) >= 1
         /\ Len(Tail(q)) = Len(q) - 1
         /\ Head(q) = q[1]
         /\ \A i \in 1..Len(Tail(q)) : Tail(q)[i] = q[i + 1]
OBVIOUS

LEMMA UpdateFacts ==
  ASSUME NEW S, NEW q \in Seq(S), NEW i \in 1..Len(q), NEW x \in S
  PROVE  /\ [q EXCEPT ![i] = x] \in Seq(S)
         /\ Len([q EXCEPT ![i] = x]) = Len(q)
         /\ [q EXCEPT ![i] = x][i] = x
         /\ \A j \in 1..Len(q) : j # i => [q EXCEPT ![i] = x][j] = q[j]
OBVIOUS

LEMMA AwaitReadyStep ==
  ASSUME IInv, AwaitReady
  PROVE  IInv'
<1> USE DEF IInv, AwaitReady, flags, counters, worker, clients
<1>1. TypeOK'
  BY DEF TypeOK, WorkerSteps, ClientSteps
<1>2. QueueInOrder'
  BY DEF TypeOK, QueueInOrder, Taken, WorkerLife
<1>3. TaskInHand'
  BY DEF TypeOK, QueueInOrder, TaskInHand, Taken, WorkerLife
<1>4. AnswersInOrder'
  BY DEF TypeOK, QueueInOrder, TaskInHand, AnswersInOrder, Taken, Holding, WorkerLife
<1>5. WithinBounds'
  BY DEF TypeOK, QueueInOrder, TaskInHand, WithinBounds, Taken, Holding
<1>6. WorkerLife'
  BY DEF TypeOK, WorkerLife, WorkerSteps, CallLife
<1>7. CallLife'
  BY DEF TypeOK, CallLife, WorkerLife
<1>8. FlushGoals'
  BY DEF TypeOK, FlushGoals, QueueInOrder, AnswersInOrder, Taken, Holding, WorkerLife, TaskInHand, CallLife
<1>9. NoLostWakeup'
  BY DEF TypeOK, NoLostWakeup, WorkerLife, CallLife, WorkerSteps, AnswersInOrder, QueueInOrder, FlushGoals, Holding, Taken
<1> QED
  BY <1>1, <1>2, <1>3, <1>4, <1>5, <1>6, <1>7, <1>8, <1>9 DEF IInv

LEMMA SubmitStep ==
  ASSUME IInv, NEW c \in Clients, NEW r \in Requests, Submit(c, r)
  PROVE  IInv'
<1> USE DEF IInv, Submit, flags, counters, worker, clients, CanCall, HasCapacity, Admits, WakeWorker
<1>a. /\ tasks \in Seq(Nat) /\ Len(tasks) \in Nat /\ acceptedSequence \in Nat
      /\ promises \in Seq([request : Requests, reply : Reply \cup {Pending}])
      /\ Len(promises) \in Nat
  BY DEF TypeOK
<1>b. /\ Len(tasks') = Len(tasks) + 1
      /\ tasks'[Len(tasks) + 1] = acceptedSequence + 1
      /\ \A i \in 1..Len(tasks) : tasks'[i] = tasks[i]
  BY <1>a
<1>c. /\ Len(promises') = Len(promises) + 1
      /\ promises'[Len(promises) + 1] = [request |-> r, reply |-> Pending]
      /\ \A s \in 1..Len(promises) : promises'[s] = promises[s]
  BY <1>a
<1>d. Bytes[r] \in Nat
  BY OwnerRequestsAssumption
<1>1. TypeOK'
  <2>1. [request |-> r, reply |-> Pending] \in
          [request : Requests, reply : Reply \cup {Pending}]
    OBVIOUS
  <2> QED
    BY SMTT(30), <2>1, <1>d DEF TypeOK, WorkerSteps, ClientSteps
<1>2. QueueInOrder'
  <2>1. acceptedSequence' = Len(promises')
    BY <1>c DEF QueueInOrder
  <2>2. Len(tasks') <= acceptedSequence'
    BY <1>a, <1>b DEF QueueInOrder
  <2>3. \A i \in 1..Len(tasks') : tasks'[i] = acceptedSequence' - Len(tasks') + i
    BY <1>a, <1>b DEF QueueInOrder, Taken
  <2> QED
    BY <2>1, <2>2, <2>3 DEF QueueInOrder, Taken
<1>3. TaskInHand'
  BY DEF TypeOK, QueueInOrder, TaskInHand, Taken, WorkerLife
<1>4. AnswersInOrder'
  <2>1. Taken' = Taken /\ Taken \in Int /\ Taken <= Len(promises)
    BY <1>a, <1>b DEF Taken, QueueInOrder
  <2>2. /\ Holding({"execute", "account", "fulfil"})'
             = Holding({"execute", "account", "fulfil"})
        /\ Holding({"execute", "account", "fulfil", "complete"})'
             = Holding({"execute", "account", "fulfil", "complete"})
        /\ Holding({"execute", "account", "fulfil"}) \in {0, 1}
    BY DEF Holding
  <2>3. completedSequence' = Taken' - Holding({"execute", "account", "fulfil", "complete"})'
    BY <2>1, <2>2 DEF AnswersInOrder
  <2>4. \A s \in 1..Len(promises') :
           promises'[s].reply = Pending <=> s > Taken' - Holding({"execute", "account", "fulfil"})'
    BY <1>a, <1>c, <2>1, <2>2 DEF AnswersInOrder
  <2> QED
    BY <2>3, <2>4 DEF AnswersInOrder
<1>5. WithinBounds'
  <2>1. /\ Holding({"execute", "account"})' = Holding({"execute", "account"})
        /\ Holding({"execute", "account"}) \in {0, 1}
    BY DEF Holding
  <2> QED
    BY SMTT(30), <1>a, <1>b, <1>d, <2>1, OptionsAssumption DEF TypeOK, WithinBounds
<1>6. WorkerLife'
  BY DEF TypeOK, WorkerLife, WorkerSteps, CallLife
<1>7. CallLife'
  BY DEF TypeOK, CallLife, WorkerLife
<1>8. FlushGoals'
  BY DEF TypeOK, FlushGoals, QueueInOrder, AnswersInOrder, Taken, Holding, WorkerLife, TaskInHand, CallLife
<1>9. NoLostWakeup'
  BY DEF TypeOK, NoLostWakeup, WorkerLife, CallLife, WorkerSteps, AnswersInOrder, QueueInOrder, FlushGoals, Holding, Taken
<1> QED
  BY <1>1, <1>2, <1>3, <1>4, <1>5, <1>6, <1>7, <1>8, <1>9 DEF IInv

LEMMA FlushStep ==
  ASSUME IInv, NEW c \in Clients, Flush(c)
  PROVE  IInv'
<1> USE DEF IInv, Flush, flags, counters, worker, clients, CanCall, FlushTest, Reached
<1>1. TypeOK'
  <2>1. flushed' \in [Clients -> {"none", "Drained", "ShutDown"}]
    BY DEF TypeOK
  <2>2. cpc' \in [Clients -> ClientSteps]
    BY DEF TypeOK, ClientSteps
  <2>3. target' \in [Clients -> Nat]
    BY DEF TypeOK
  <2> QED
    BY <2>1, <2>2, <2>3 DEF TypeOK
<1>2. QueueInOrder'
  BY DEF TypeOK, QueueInOrder, Taken, WorkerLife
<1>3. TaskInHand'
  BY DEF TypeOK, QueueInOrder, TaskInHand, Taken, WorkerLife
<1>4. AnswersInOrder'
  BY DEF TypeOK, QueueInOrder, TaskInHand, AnswersInOrder, Taken, Holding, WorkerLife
<1>5. WithinBounds'
  BY DEF TypeOK, QueueInOrder, TaskInHand, WithinBounds, Taken, Holding
<1>6. WorkerLife'
  BY DEF TypeOK, WorkerLife, WorkerSteps, CallLife
<1>7. CallLife'
  BY DEF TypeOK, CallLife, WorkerLife
<1>8. FlushGoals'
  <2>1. /\ completedSequence \in Nat /\ acceptedSequence \in Nat
        /\ target \in [Clients -> Nat]
        /\ flushed \in [Clients -> {"none", "Drained", "ShutDown"}]
    BY DEF TypeOK
  <2>2. CASE stopped
    BY <2>1, <2>2 DEF FlushGoals
  <2>3. CASE ~stopped
    <3>1. /\ target' = [target EXCEPT ![c] = acceptedSequence]
          /\ FlushTest(c, acceptedSequence)
          /\ cpc \in [Clients -> ClientSteps]
          /\ acceptedSequence' = acceptedSequence
          /\ completedSequence' = completedSequence
      BY <2>3 DEF TypeOK
    <3>2. \A d \in Clients \ {c} : /\ target'[d] = target[d]
                                   /\ flushed'[d] = flushed[d] /\ cpc'[d] = cpc[d]
      BY <2>1, <3>1
    <3>3. /\ target'[c] = acceptedSequence
          /\ flushed'[c] = "Drained" => acceptedSequence <= completedSequence
          /\ cpc'[c] \in {"asleep", "notified"} => flushed'[c] = "none"
      BY <2>1, <3>1
    <3> QED
      BY <2>1, <3>1, <3>2, <3>3 DEF FlushGoals
  <2> QED
    BY <2>2, <2>3
<1>9. NoLostWakeup'
  BY ZenonT(30) DEF TypeOK, NoLostWakeup, WorkerLife, CallLife, WorkerSteps, AnswersInOrder,
     QueueInOrder, FlushGoals, Holding, Taken
<1> QED
  BY <1>1, <1>2, <1>3, <1>4, <1>5, <1>6, <1>7, <1>8, <1>9 DEF IInv

LEMMA FlushWakeStep ==
  ASSUME IInv, NEW c \in Clients, FlushWake(c)
  PROVE  IInv'
<1> USE DEF IInv, FlushWake, flags, counters, worker, clients, FlushTest, Reached
<1>1. TypeOK'
  <2>1. flushed' \in [Clients -> {"none", "Drained", "ShutDown"}]
    BY DEF TypeOK
  <2>2. cpc' \in [Clients -> ClientSteps]
    BY DEF TypeOK, ClientSteps
  <2>3. target' \in [Clients -> Nat]
    BY DEF TypeOK
  <2> QED
    BY <2>1, <2>2, <2>3 DEF TypeOK
<1>2. QueueInOrder'
  BY DEF TypeOK, QueueInOrder, Taken, WorkerLife
<1>3. TaskInHand'
  BY DEF TypeOK, QueueInOrder, TaskInHand, Taken, WorkerLife
<1>4. AnswersInOrder'
  BY DEF TypeOK, QueueInOrder, TaskInHand, AnswersInOrder, Taken, Holding, WorkerLife
<1>5. WithinBounds'
  BY DEF TypeOK, QueueInOrder, TaskInHand, WithinBounds, Taken, Holding
<1>6. WorkerLife'
  BY DEF TypeOK, WorkerLife, WorkerSteps, CallLife
<1>7. CallLife'
  BY DEF TypeOK, CallLife, WorkerLife
<1>8. FlushGoals'
  BY DEF TypeOK, FlushGoals, QueueInOrder, AnswersInOrder, Taken, Holding, WorkerLife, TaskInHand, CallLife
<1>9. NoLostWakeup'
  BY DEF TypeOK, NoLostWakeup, WorkerLife, CallLife, WorkerSteps, AnswersInOrder, QueueInOrder, FlushGoals, Holding, Taken
<1> QED
  BY <1>1, <1>2, <1>3, <1>4, <1>5, <1>6, <1>7, <1>8, <1>9 DEF IInv

LEMMA ShutdownStep ==
  ASSUME IInv, NEW c \in Clients, Shutdown(c)
  PROVE  IInv'
<1> USE DEF IInv, Shutdown, flags, counters, worker, clients, CanCall
<1>1. TypeOK'
  BY DEF TypeOK, WorkerSteps, ClientSteps
<1>2. QueueInOrder'
  BY DEF TypeOK, QueueInOrder, Taken, WorkerLife
<1>3. TaskInHand'
  BY DEF TypeOK, QueueInOrder, TaskInHand, Taken, WorkerLife
<1>4. AnswersInOrder'
  BY DEF TypeOK, QueueInOrder, TaskInHand, AnswersInOrder, Taken, Holding, WorkerLife
<1>5. WithinBounds'
  BY DEF TypeOK, QueueInOrder, TaskInHand, WithinBounds, Taken, Holding
<1>6. WorkerLife'
  BY DEF TypeOK, WorkerLife, WorkerSteps, CallLife
<1>7. CallLife'
  BY DEF TypeOK, CallLife, WorkerLife
<1>8. FlushGoals'
  BY DEF TypeOK, FlushGoals, QueueInOrder, AnswersInOrder, Taken, Holding, WorkerLife, TaskInHand, CallLife
<1>9. NoLostWakeup'
  BY DEF TypeOK, NoLostWakeup, WorkerLife, CallLife, WorkerSteps, AnswersInOrder, QueueInOrder, FlushGoals, Holding, Taken
<1> QED
  BY <1>1, <1>2, <1>3, <1>4, <1>5, <1>6, <1>7, <1>8, <1>9 DEF IInv

LEMMA ShutdownAgainStep ==
  ASSUME IInv, NEW c \in Clients, ShutdownAgain(c)
  PROVE  IInv'
<1> USE DEF IInv, ShutdownAgain, flags, counters, worker, clients, CanCall
<1>1. TypeOK'
  BY DEF TypeOK, WorkerSteps, ClientSteps
<1>2. QueueInOrder'
  BY DEF TypeOK, QueueInOrder, Taken, WorkerLife
<1>3. TaskInHand'
  BY DEF TypeOK, QueueInOrder, TaskInHand, Taken, WorkerLife
<1>4. AnswersInOrder'
  BY DEF TypeOK, QueueInOrder, TaskInHand, AnswersInOrder, Taken, Holding, WorkerLife
<1>5. WithinBounds'
  BY DEF TypeOK, QueueInOrder, TaskInHand, WithinBounds, Taken, Holding
<1>6. WorkerLife'
  BY DEF TypeOK, WorkerLife, WorkerSteps, CallLife
<1>7. CallLife'
  BY DEF TypeOK, CallLife, WorkerLife
<1>8. FlushGoals'
  BY DEF TypeOK, FlushGoals, QueueInOrder, AnswersInOrder, Taken, Holding, WorkerLife, TaskInHand, CallLife
<1>9. NoLostWakeup'
  BY DEF TypeOK, NoLostWakeup, WorkerLife, CallLife, WorkerSteps, AnswersInOrder, QueueInOrder, FlushGoals, Holding, Taken
<1> QED
  BY <1>1, <1>2, <1>3, <1>4, <1>5, <1>6, <1>7, <1>8, <1>9 DEF IInv

LEMMA NotifyWorkStep ==
  ASSUME IInv, NEW c \in Clients, NotifyWork(c)
  PROVE  IInv'
<1> USE DEF IInv, NotifyWork, flags, counters, worker, clients, WakeWorker
<1>1. TypeOK'
  BY DEF TypeOK, WorkerSteps, ClientSteps
<1>2. QueueInOrder'
  BY DEF TypeOK, QueueInOrder, Taken, WorkerLife
<1>3. TaskInHand'
  BY DEF TypeOK, QueueInOrder, TaskInHand, Taken, WorkerLife
<1>4. AnswersInOrder'
  BY DEF TypeOK, QueueInOrder, TaskInHand, AnswersInOrder, Taken, Holding, WorkerLife
<1>5. WithinBounds'
  BY DEF TypeOK, QueueInOrder, TaskInHand, WithinBounds, Taken, Holding
<1>6. WorkerLife'
  BY DEF TypeOK, WorkerLife, WorkerSteps, CallLife
<1>7. CallLife'
  BY DEF TypeOK, CallLife, WorkerLife
<1>8. FlushGoals'
  BY DEF TypeOK, FlushGoals, QueueInOrder, AnswersInOrder, Taken, Holding, WorkerLife, TaskInHand, CallLife
<1>9. NoLostWakeup'
  BY DEF TypeOK, NoLostWakeup, WorkerLife, CallLife, WorkerSteps, AnswersInOrder, QueueInOrder, FlushGoals, Holding, Taken
<1> QED
  BY <1>1, <1>2, <1>3, <1>4, <1>5, <1>6, <1>7, <1>8, <1>9 DEF IInv

LEMMA JoinStep ==
  ASSUME IInv, NEW c \in Clients, Join(c)
  PROVE  IInv'
<1> USE DEF IInv, Join, flags, counters, worker, clients
<1>1. TypeOK'
  BY DEF TypeOK, WorkerSteps, ClientSteps
<1>2. QueueInOrder'
  BY DEF TypeOK, QueueInOrder, Taken, WorkerLife
<1>3. TaskInHand'
  BY DEF TypeOK, QueueInOrder, TaskInHand, Taken, WorkerLife
<1>4. AnswersInOrder'
  BY DEF TypeOK, QueueInOrder, TaskInHand, AnswersInOrder, Taken, Holding, WorkerLife
<1>5. WithinBounds'
  BY DEF TypeOK, QueueInOrder, TaskInHand, WithinBounds, Taken, Holding
<1>6. WorkerLife'
  BY DEF TypeOK, WorkerLife, WorkerSteps, CallLife
<1>7. CallLife'
  BY DEF TypeOK, CallLife, WorkerLife
<1>8. FlushGoals'
  BY DEF TypeOK, FlushGoals, QueueInOrder, AnswersInOrder, Taken, Holding, WorkerLife, TaskInHand, CallLife
<1>9. NoLostWakeup'
  BY DEF TypeOK, NoLostWakeup, WorkerLife, CallLife, WorkerSteps, AnswersInOrder, QueueInOrder, FlushGoals, Holding, Taken
<1> QED
  BY <1>1, <1>2, <1>3, <1>4, <1>5, <1>6, <1>7, <1>8, <1>9 DEF IInv

LEMMA OnceReturnsStep ==
  ASSUME IInv, NEW c \in Clients, OnceReturns(c)
  PROVE  IInv'
<1> USE DEF IInv, OnceReturns, flags, counters, worker, clients
<1>1. TypeOK'
  BY DEF TypeOK, WorkerSteps, ClientSteps
<1>2. QueueInOrder'
  BY DEF TypeOK, QueueInOrder, Taken, WorkerLife
<1>3. TaskInHand'
  BY DEF TypeOK, QueueInOrder, TaskInHand, Taken, WorkerLife
<1>4. AnswersInOrder'
  BY DEF TypeOK, QueueInOrder, TaskInHand, AnswersInOrder, Taken, Holding, WorkerLife
<1>5. WithinBounds'
  BY DEF TypeOK, QueueInOrder, TaskInHand, WithinBounds, Taken, Holding
<1>6. WorkerLife'
  BY DEF TypeOK, WorkerLife, WorkerSteps, CallLife
<1>7. CallLife'
  BY DEF TypeOK, CallLife, WorkerLife
<1>8. FlushGoals'
  BY DEF TypeOK, FlushGoals, QueueInOrder, AnswersInOrder, Taken, Holding, WorkerLife, TaskInHand, CallLife
<1>9. NoLostWakeup'
  BY DEF TypeOK, NoLostWakeup, WorkerLife, CallLife, WorkerSteps, AnswersInOrder, QueueInOrder, FlushGoals, Holding, Taken
<1> QED
  BY <1>1, <1>2, <1>3, <1>4, <1>5, <1>6, <1>7, <1>8, <1>9 DEF IInv

LEMMA RunOpenStep ==
  ASSUME IInv, RunOpen
  PROVE  IInv'
<1> USE DEF IInv, RunOpen, flags, counters, worker, clients
<1>1. TypeOK'
  BY DEF TypeOK, WorkerSteps, ClientSteps
<1>2. QueueInOrder'
  BY DEF TypeOK, QueueInOrder, Taken, WorkerLife
<1>3. TaskInHand'
  BY DEF TypeOK, QueueInOrder, TaskInHand, Taken, WorkerLife
<1>4. AnswersInOrder'
  BY DEF TypeOK, QueueInOrder, TaskInHand, AnswersInOrder, Taken, Holding, WorkerLife
<1>5. WithinBounds'
  BY DEF TypeOK, QueueInOrder, TaskInHand, WithinBounds, Taken, Holding
<1>6. WorkerLife'
  <2>1. ~shutdownRequested
    BY DEF WorkerLife, CallLife
  <2>2. tasks = <<>>
    BY DEF WorkerLife
  <2>3. PICK opened \in BOOLEAN :
           cacheOpen' = opened /\ accepting' = opened /\ stopped' = ~opened
    OBVIOUS
  <2>4. ready' = TRUE /\ wpc' = "notifyReady" /\ shutdownRequested' = shutdownRequested
        /\ tasks' = tasks
    OBVIOUS
  <2>5. CASE opened = TRUE
    <3>1. cacheOpen' /\ accepting' /\ ~stopped' /\ ready' /\ ~shutdownRequested'
      <4>1. cacheOpen' = TRUE /\ accepting' = TRUE /\ stopped' = FALSE
        BY <2>3, <2>5
      <4> QED
        BY ONLY <4>1, <2>1, <2>4
    <3> QED
      BY ONLY <3>1, <2>4 DEF WorkerLife
  <2>6. CASE opened = FALSE
    <3>1. /\ ~cacheOpen' /\ ~accepting' /\ stopped' /\ ready'
          /\ ~shutdownRequested' /\ tasks' = <<>>
      <4>1. cacheOpen' = FALSE /\ accepting' = FALSE /\ stopped' = TRUE
        BY <2>3, <2>6
      <4> QED
        BY ONLY <4>1, <2>1, <2>2, <2>4
    <3> QED
      BY ONLY <3>1, <2>4 DEF WorkerLife
  <2> QED
    BY <2>5, <2>6
<1>7. CallLife'
  BY DEF TypeOK, CallLife, WorkerLife
<1>8. FlushGoals'
  BY DEF TypeOK, FlushGoals, QueueInOrder, AnswersInOrder, Taken, Holding, WorkerLife, TaskInHand, CallLife
<1>9. NoLostWakeup'
  BY DEF TypeOK, NoLostWakeup, WorkerLife, CallLife, WorkerSteps, AnswersInOrder, QueueInOrder, FlushGoals, Holding, Taken
<1> QED
  BY <1>1, <1>2, <1>3, <1>4, <1>5, <1>6, <1>7, <1>8, <1>9 DEF IInv

LEMMA NotifyReadyStep ==
  ASSUME IInv, NotifyReady
  PROVE  IInv'
<1> USE DEF IInv, NotifyReady, flags, counters, worker, clients
<1>1. TypeOK'
  BY DEF TypeOK, WorkerSteps, ClientSteps
<1>2. QueueInOrder'
  BY DEF TypeOK, QueueInOrder, Taken, WorkerLife
<1>3. TaskInHand'
  BY DEF TypeOK, QueueInOrder, TaskInHand, Taken, WorkerLife
<1>4. AnswersInOrder'
  BY DEF TypeOK, QueueInOrder, TaskInHand, AnswersInOrder, Taken, Holding, WorkerLife
<1>5. WithinBounds'
  BY DEF TypeOK, QueueInOrder, TaskInHand, WithinBounds, Taken, Holding
<1>6. WorkerLife'
  BY DEF TypeOK, WorkerLife, WorkerSteps, CallLife
<1>7. CallLife'
  BY DEF TypeOK, CallLife, WorkerLife
<1>8. FlushGoals'
  BY DEF TypeOK, FlushGoals, QueueInOrder, AnswersInOrder, Taken, Holding, WorkerLife, TaskInHand, CallLife
<1>9. NoLostWakeup'
  BY DEF TypeOK, NoLostWakeup, WorkerLife, CallLife, WorkerSteps, AnswersInOrder, QueueInOrder, FlushGoals, Holding, Taken
<1> QED
  BY <1>1, <1>2, <1>3, <1>4, <1>5, <1>6, <1>7, <1>8, <1>9 DEF IInv

LEMMA RunTakeStep ==
  ASSUME IInv, RunTake
  PROVE  IInv'
<1> USE DEF IInv, RunTake, flags, counters, worker, clients, HasTask
<1>a. tasks \in Seq(Nat) /\ Len(tasks) \in Nat
  BY DEF TypeOK
<1>b. tasks # <<>> =>
        /\ tasks' \in Seq(Nat) /\ Len(tasks') = Len(tasks) - 1
        /\ \A i \in 1..Len(tasks') : tasks'[i] = tasks[i + 1]
        /\ current' = tasks[1] /\ Len(tasks) >= 1
  <2> SUFFICES ASSUME tasks # <<>>
               PROVE  /\ tasks' \in Seq(Nat) /\ Len(tasks') = Len(tasks) - 1
                      /\ \A i \in 1..Len(tasks') : tasks'[i] = tasks[i + 1]
                      /\ current' = tasks[1] /\ Len(tasks) >= 1
    OBVIOUS
  <2>1. tasks' = Tail(tasks) /\ current' = Head(tasks)
    OBVIOUS
  <2> QED
    BY ONLY <1>a, <2>1, tasks # <<>>, TailFacts
<1>c. ASSUME tasks # <<>>
      PROVE  /\ current' = Taken + 1 /\ Taken' = Taken + 1
             /\ Taken \in Nat /\ current' \in Nat
  <2>1. acceptedSequence \in Nat /\ acceptedSequence' = acceptedSequence
    BY DEF TypeOK
  <2>2. Len(tasks) <= acceptedSequence /\ tasks[1] = Taken + 1
    BY <1>a, <1>b, <1>c DEF QueueInOrder
  <2>3. Taken \in Nat
    BY <1>a, <2>1, <2>2 DEF Taken
  <2>4. Taken' = Taken + 1
    <3>1. Len(tasks') = Len(tasks) - 1
      BY <1>b, <1>c
    <3> QED
      BY ONLY <1>a, <2>1, <3>1 DEF Taken
  <2> QED
    BY <1>b, <1>c, <2>2, <2>3, <2>4
<1>d. tasks = <<>> => tasks' = tasks /\ current' = current /\ wpc' # "execute"
  OBVIOUS
<1>1. TypeOK'
  <2>1. tasks' \in Seq(Nat) /\ current' \in Nat
    BY <1>a, <1>b, <1>c, <1>d DEF TypeOK
  <2> QED
    BY <2>1 DEF TypeOK, WorkerSteps
<1>2. QueueInOrder'
  <2>1. CASE tasks # <<>>
    <3>1. Len(tasks') <= acceptedSequence'
      BY <2>1, <1>a, <1>b DEF QueueInOrder, TypeOK
    <3>2. \A i \in 1..Len(tasks') : tasks'[i] = Taken' + i
      <4> SUFFICES ASSUME NEW i \in 1..Len(tasks')
                   PROVE  tasks'[i] = Taken' + i
        OBVIOUS
      <4>1. i + 1 \in 1..Len(tasks) /\ tasks'[i] = tasks[i + 1]
        BY <2>1, <1>a, <1>b
      <4>2. tasks[i + 1] = Taken + (i + 1)
        BY <4>1 DEF QueueInOrder
      <4> QED
        BY <4>1, <4>2, <2>1, <1>c
    <3> QED
      BY <3>1, <3>2 DEF QueueInOrder
  <2>2. CASE tasks = <<>>
    BY <2>2, <1>d DEF QueueInOrder, Taken
  <2> QED
    BY <2>1, <2>2
<1>3. TaskInHand'
  BY <1>c, <1>d DEF TaskInHand
<1>4. AnswersInOrder'
  <2>1. CASE tasks # <<>>
    BY <2>1, <1>b, <1>c DEF AnswersInOrder, Holding, TypeOK
  <2>2. CASE tasks = <<>>
    BY <2>2, <1>d DEF AnswersInOrder, Holding, Taken
  <2> QED
    BY <2>1, <2>2
<1>5. WithinBounds'
  BY DEF TypeOK, QueueInOrder, TaskInHand, WithinBounds, Taken, Holding
<1>6. WorkerLife'
  BY DEF TypeOK, WorkerLife, WorkerSteps, CallLife
<1>7. CallLife'
  BY DEF TypeOK, CallLife, WorkerLife
<1>8. FlushGoals'
  BY DEF TypeOK, FlushGoals, QueueInOrder, AnswersInOrder, Taken, Holding, WorkerLife, TaskInHand, CallLife
<1>9. NoLostWakeup'
  BY DEF TypeOK, NoLostWakeup, WorkerLife, CallLife, WorkerSteps, AnswersInOrder, QueueInOrder, FlushGoals, Holding, Taken
<1> QED
  BY <1>1, <1>2, <1>3, <1>4, <1>5, <1>6, <1>7, <1>8, <1>9 DEF IInv

LEMMA RunExecuteStep ==
  ASSUME IInv, RunExecute
  PROVE  IInv'
<1> USE DEF IInv, RunExecute, flags, counters, worker, clients
<1>a. current \in 1..Len(promises)
  BY DEF TypeOK, QueueInOrder, TaskInHand, Taken
<1>b. promises[current] \in [request : Requests, reply : Reply \cup {Pending}]
  BY <1>a, ElementType DEF TypeOK
<1>c. promises[current].request \in Request
  BY <1>b, OwnerRequestsAssumption
<1>d. PICK o \in Outcomes(promises[current].request, store) :
         result' = o.reply /\ store' = o.store
  OBVIOUS
<1>e. result' \in Reply /\ result' # Pending /\ store' \in [Keys -> Stored]
  BY <1>c, <1>d, OutcomeType DEF TypeOK
<1>1. TypeOK'
  BY <1>e DEF TypeOK, WorkerSteps
<1>2. QueueInOrder'
  BY DEF TypeOK, QueueInOrder, Taken, WorkerLife
<1>3. TaskInHand'
  BY <1>e DEF TaskInHand, Taken
<1>4. AnswersInOrder'
  BY DEF TypeOK, QueueInOrder, TaskInHand, AnswersInOrder, Taken, Holding, WorkerLife
<1>5. WithinBounds'
  BY DEF TypeOK, QueueInOrder, TaskInHand, WithinBounds, Taken, Holding
<1>6. WorkerLife'
  BY DEF TypeOK, WorkerLife, WorkerSteps, CallLife
<1>7. CallLife'
  BY DEF TypeOK, CallLife, WorkerLife
<1>8. FlushGoals'
  BY DEF TypeOK, FlushGoals, QueueInOrder, AnswersInOrder, Taken, Holding, WorkerLife, TaskInHand, CallLife
<1>9. NoLostWakeup'
  BY DEF TypeOK, NoLostWakeup, WorkerLife, CallLife, WorkerSteps, AnswersInOrder, QueueInOrder, FlushGoals, Holding, Taken
<1> QED
  BY <1>1, <1>2, <1>3, <1>4, <1>5, <1>6, <1>7, <1>8, <1>9 DEF IInv

LEMMA RunAccountStep ==
  ASSUME IInv, RunAccount
  PROVE  IInv'
<1> USE DEF IInv, RunAccount, flags, counters, worker, clients
<1>a. current \in 1..Len(promises)
  BY DEF TypeOK, QueueInOrder, TaskInHand, Taken
<1>b. promises[current] \in [request : Requests, reply : Reply \cup {Pending}]
  BY <1>a, ElementType DEF TypeOK
<1>c. Bytes[promises[current].request] \in Nat
  BY <1>b, OwnerRequestsAssumption
<1>1. TypeOK'
  BY <1>c DEF TypeOK, WorkerSteps
<1>2. QueueInOrder'
  BY DEF TypeOK, QueueInOrder, Taken, WorkerLife
<1>3. TaskInHand'
  BY DEF TypeOK, QueueInOrder, TaskInHand, Taken, WorkerLife
<1>4. AnswersInOrder'
  BY DEF TypeOK, QueueInOrder, TaskInHand, AnswersInOrder, Taken, Holding, WorkerLife
<1>5. WithinBounds'
  BY SMTT(30), <1>c, OptionsAssumption DEF TypeOK, WithinBounds, Holding
<1>6. WorkerLife'
  BY DEF TypeOK, WorkerLife, WorkerSteps, CallLife
<1>7. CallLife'
  BY DEF TypeOK, CallLife, WorkerLife
<1>8. FlushGoals'
  BY DEF TypeOK, FlushGoals, QueueInOrder, AnswersInOrder, Taken, Holding, WorkerLife, TaskInHand, CallLife
<1>9. NoLostWakeup'
  BY DEF TypeOK, NoLostWakeup, WorkerLife, CallLife, WorkerSteps, AnswersInOrder, QueueInOrder, FlushGoals, Holding, Taken
<1> QED
  BY <1>1, <1>2, <1>3, <1>4, <1>5, <1>6, <1>7, <1>8, <1>9 DEF IInv

LEMMA RunFulfilStep ==
  ASSUME IInv, RunFulfil
  PROVE  IInv'
<1> USE DEF IInv, RunFulfil, flags, counters, worker, clients
<1>a. current \in 1..Len(promises)
  BY DEF TypeOK, QueueInOrder, TaskInHand, Taken
<1>b. promises[current] \in [request : Requests, reply : Reply \cup {Pending}]
  BY <1>a, ElementType DEF TypeOK
<1> DEFINE p == [promises[current] EXCEPT !.reply = result]
<1>c. p \in [request : Requests, reply : Reply \cup {Pending}] /\ p.reply = result
  BY <1>b DEF TypeOK
<1>d. promises' = [promises EXCEPT ![current] = p]
  OBVIOUS
<1> HIDE DEF p
<1>e. /\ Len(promises') = Len(promises)
      /\ promises' \in Seq([request : Requests, reply : Reply \cup {Pending}])
      /\ promises'[current].reply = result
      /\ \A s \in 1..Len(promises) : s # current => promises'[s] = promises[s]
  <2>1. promises \in Seq([request : Requests, reply : Reply \cup {Pending}])
    BY DEF TypeOK
  <2>2. p \in [request : Requests, reply : Reply \cup {Pending}]
    BY <1>c
  <2> QED
    BY ONLY <1>a, <1>c, <1>d, <2>1, <2>2, UpdateFacts
<1>1. TypeOK'
  BY <1>e DEF TypeOK, WorkerSteps
<1>2. QueueInOrder'
  BY <1>e DEF QueueInOrder, Taken
<1>3. TaskInHand'
  BY DEF TypeOK, QueueInOrder, TaskInHand, Taken, WorkerLife
<1>4. AnswersInOrder'
  <2>1. result # Pending /\ current = Taken /\ Taken \in Int
    BY DEF TaskInHand, Taken, TypeOK
  <2>2. \A s \in 1..Len(promises') :
           promises'[s].reply = Pending <=> s > Taken
    BY <1>a, <1>e, <2>1 DEF AnswersInOrder, Holding, TypeOK
  <2> QED
    BY <1>e, <2>1, <2>2 DEF AnswersInOrder, Holding, Taken
<1>5. WithinBounds'
  BY DEF TypeOK, QueueInOrder, TaskInHand, WithinBounds, Taken, Holding
<1>6. WorkerLife'
  BY DEF TypeOK, WorkerLife, WorkerSteps, CallLife
<1>7. CallLife'
  BY DEF TypeOK, CallLife, WorkerLife
<1>8. FlushGoals'
  BY DEF TypeOK, FlushGoals, QueueInOrder, AnswersInOrder, Taken, Holding, WorkerLife, TaskInHand, CallLife
<1>9. NoLostWakeup'
  BY DEF TypeOK, NoLostWakeup, WorkerLife, CallLife, WorkerSteps, AnswersInOrder, QueueInOrder, FlushGoals, Holding, Taken
<1> QED
  BY <1>1, <1>2, <1>3, <1>4, <1>5, <1>6, <1>7, <1>8, <1>9 DEF IInv

LEMMA RunCompleteStep ==
  ASSUME IInv, RunComplete
  PROVE  IInv'
<1> USE DEF IInv, RunComplete, flags, counters, worker, clients
<1>1. TypeOK'
  BY DEF TypeOK, WorkerSteps, ClientSteps
<1>2. QueueInOrder'
  BY DEF TypeOK, QueueInOrder, Taken, WorkerLife
<1>3. TaskInHand'
  BY DEF TypeOK, QueueInOrder, TaskInHand, Taken, WorkerLife
<1>4. AnswersInOrder'
  BY DEF TypeOK, QueueInOrder, TaskInHand, AnswersInOrder, Taken, Holding, WorkerLife
<1>5. WithinBounds'
  BY DEF TypeOK, QueueInOrder, TaskInHand, WithinBounds, Taken, Holding
<1>6. WorkerLife'
  BY DEF TypeOK, WorkerLife, WorkerSteps, CallLife
<1>7. CallLife'
  BY DEF TypeOK, CallLife, WorkerLife
<1>8. FlushGoals'
  BY DEF TypeOK, FlushGoals, QueueInOrder, AnswersInOrder, Taken, Holding, WorkerLife, TaskInHand, CallLife
<1>9. NoLostWakeup'
  BY DEF TypeOK, NoLostWakeup, WorkerLife, CallLife, WorkerSteps, AnswersInOrder, QueueInOrder, FlushGoals, Holding, Taken
<1> QED
  BY <1>1, <1>2, <1>3, <1>4, <1>5, <1>6, <1>7, <1>8, <1>9 DEF IInv

LEMMA NotifyDrainStep ==
  ASSUME IInv, NotifyDrain
  PROVE  IInv'
<1> USE DEF IInv, NotifyDrain, flags, counters, worker, clients, WakeFlushers
<1>1. TypeOK'
  BY DEF TypeOK, WorkerSteps, ClientSteps
<1>2. QueueInOrder'
  BY DEF TypeOK, QueueInOrder, Taken, WorkerLife
<1>3. TaskInHand'
  BY DEF TypeOK, QueueInOrder, TaskInHand, Taken, WorkerLife
<1>4. AnswersInOrder'
  BY DEF TypeOK, QueueInOrder, TaskInHand, AnswersInOrder, Taken, Holding, WorkerLife
<1>5. WithinBounds'
  BY DEF TypeOK, QueueInOrder, TaskInHand, WithinBounds, Taken, Holding
<1>6. WorkerLife'
  BY DEF TypeOK, WorkerLife, WorkerSteps, CallLife
<1>7. CallLife'
  BY DEF TypeOK, CallLife, WorkerLife
<1>8. FlushGoals'
  BY DEF TypeOK, FlushGoals, QueueInOrder, AnswersInOrder, Taken, Holding, WorkerLife, TaskInHand, CallLife
<1>9. NoLostWakeup'
  BY DEF TypeOK, NoLostWakeup, WorkerLife, CallLife, WorkerSteps, AnswersInOrder, QueueInOrder, FlushGoals, Holding, Taken
<1> QED
  BY <1>1, <1>2, <1>3, <1>4, <1>5, <1>6, <1>7, <1>8, <1>9 DEF IInv

LEMMA RunCloseStep ==
  ASSUME IInv, RunClose
  PROVE  IInv'
<1> USE DEF IInv, RunClose, flags, counters, worker, clients
<1>1. TypeOK'
  BY DEF TypeOK, WorkerSteps, ClientSteps
<1>2. QueueInOrder'
  BY DEF TypeOK, QueueInOrder, Taken, WorkerLife
<1>3. TaskInHand'
  BY DEF TypeOK, QueueInOrder, TaskInHand, Taken, WorkerLife
<1>4. AnswersInOrder'
  BY DEF TypeOK, QueueInOrder, TaskInHand, AnswersInOrder, Taken, Holding, WorkerLife
<1>5. WithinBounds'
  BY DEF TypeOK, QueueInOrder, TaskInHand, WithinBounds, Taken, Holding
<1>6. WorkerLife'
  BY DEF TypeOK, WorkerLife, WorkerSteps, CallLife
<1>7. CallLife'
  BY DEF TypeOK, CallLife, WorkerLife
<1>8. FlushGoals'
  BY DEF TypeOK, FlushGoals, QueueInOrder, AnswersInOrder, Taken, Holding, WorkerLife, TaskInHand, CallLife
<1>9. NoLostWakeup'
  BY DEF TypeOK, NoLostWakeup, WorkerLife, CallLife, WorkerSteps, AnswersInOrder, QueueInOrder, FlushGoals, Holding, Taken
<1> QED
  BY <1>1, <1>2, <1>3, <1>4, <1>5, <1>6, <1>7, <1>8, <1>9 DEF IInv

LEMMA RunStopStep ==
  ASSUME IInv, RunStop
  PROVE  IInv'
<1> USE DEF IInv, RunStop, flags, counters, worker, clients
<1>1. TypeOK'
  BY DEF TypeOK, WorkerSteps, ClientSteps
<1>2. QueueInOrder'
  BY DEF TypeOK, QueueInOrder, Taken, WorkerLife
<1>3. TaskInHand'
  BY DEF TypeOK, QueueInOrder, TaskInHand, Taken, WorkerLife
<1>4. AnswersInOrder'
  BY DEF TypeOK, QueueInOrder, TaskInHand, AnswersInOrder, Taken, Holding, WorkerLife
<1>5. WithinBounds'
  BY DEF TypeOK, QueueInOrder, TaskInHand, WithinBounds, Taken, Holding
<1>6. WorkerLife'
  BY DEF TypeOK, WorkerLife, WorkerSteps, CallLife
<1>7. CallLife'
  BY DEF TypeOK, CallLife, WorkerLife
<1>8. FlushGoals'
  BY DEF TypeOK, FlushGoals, QueueInOrder, AnswersInOrder, Taken, Holding, WorkerLife, TaskInHand, CallLife
<1>9. NoLostWakeup'
  BY DEF TypeOK, NoLostWakeup, WorkerLife, CallLife, WorkerSteps, AnswersInOrder, QueueInOrder, FlushGoals, Holding, Taken
<1> QED
  BY <1>1, <1>2, <1>3, <1>4, <1>5, <1>6, <1>7, <1>8, <1>9 DEF IInv

LEMMA NotifyStoppedStep ==
  ASSUME IInv, NotifyStopped
  PROVE  IInv'
<1> USE DEF IInv, NotifyStopped, flags, counters, worker, clients, WakeFlushers
<1>1. TypeOK'
  BY DEF TypeOK, WorkerSteps, ClientSteps
<1>2. QueueInOrder'
  BY DEF TypeOK, QueueInOrder, Taken, WorkerLife
<1>3. TaskInHand'
  BY DEF TypeOK, QueueInOrder, TaskInHand, Taken, WorkerLife
<1>4. AnswersInOrder'
  BY DEF TypeOK, QueueInOrder, TaskInHand, AnswersInOrder, Taken, Holding, WorkerLife
<1>5. WithinBounds'
  BY DEF TypeOK, QueueInOrder, TaskInHand, WithinBounds, Taken, Holding
<1>6. WorkerLife'
  BY DEF TypeOK, WorkerLife, WorkerSteps, CallLife
<1>7. CallLife'
  BY DEF TypeOK, CallLife, WorkerLife
<1>8. FlushGoals'
  BY DEF TypeOK, FlushGoals, QueueInOrder, AnswersInOrder, Taken, Holding, WorkerLife, TaskInHand, CallLife
<1>9. NoLostWakeup'
  BY DEF TypeOK, NoLostWakeup, WorkerLife, CallLife, WorkerSteps, AnswersInOrder, QueueInOrder, FlushGoals, Holding, Taken
<1> QED
  BY <1>1, <1>2, <1>3, <1>4, <1>5, <1>6, <1>7, <1>8, <1>9 DEF IInv

-----------------------------------------------------------------------------
LEMMA InitInv == Init => IInv
<1> SUFFICES ASSUME Init PROVE IInv
  OBVIOUS
<1>1. /\ accepting = FALSE /\ shutdownRequested = FALSE
      /\ stopped = FALSE /\ ready = FALSE /\ cacheOpen = FALSE
      /\ wpc = "open" /\ start = "launched" /\ once = "idle"
  BY DEF Init
<1>2. /\ Len(tasks) = 0 /\ acceptedSequence = 0 /\ completedSequence = 0
      /\ outstanding = 0 /\ retained = 0 /\ current = 0
  BY DEF Init
<1>3. Len(promises) = 0 /\ result = Pending /\ store \in [Keys -> Stored]
  BY DEF Init
<1>t. /\ tasks \in Seq(Nat)
      /\ promises \in Seq([request : Requests, reply : Reply \cup {Pending}])
  BY DEF Init
<1>e. tasks = <<>>
  BY DEF Init
<1>4. /\ \A c \in Clients : cpc[c] = "ready" /\ target[c] = 0 /\ flushed[c] = "none"
      /\ cpc \in [Clients -> {"ready"}] /\ target \in [Clients -> Nat]
      /\ flushed \in [Clients -> {"none", "Drained", "ShutDown"}]
  BY DEF Init
<1>5. TypeOK
  <2>1. cpc \in [Clients -> ClientSteps]
    BY <1>4 DEF ClientSteps
  <2> QED
    <3>1. /\ accepting \in BOOLEAN /\ shutdownRequested \in BOOLEAN
          /\ stopped \in BOOLEAN /\ ready \in BOOLEAN /\ cacheOpen \in BOOLEAN
      BY ONLY <1>1
    <3>2. /\ wpc \in WorkerSteps /\ once \in {"idle", "running", "done"}
          /\ start \in {"launched", "asleep", "Started", "CacheOpenFailed"}
      BY ONLY <1>1 DEF WorkerSteps
    <3>3. /\ acceptedSequence \in Nat /\ completedSequence \in Nat /\ current \in Nat
          /\ outstanding \in Int /\ retained \in Int
      BY ONLY <1>2
    <3> QED
      BY ONLY <1>3, <1>4, <1>t, <2>1, <3>1, <3>2, <3>3 DEF TypeOK
<1>6. QueueInOrder /\ TaskInHand /\ AnswersInOrder
  <2>1. QueueInOrder
    BY ONLY <1>2, <1>3 DEF QueueInOrder, Taken
  <2>2. TaskInHand
    BY ONLY <1>1, <1>3 DEF TaskInHand
  <2>3. AnswersInOrder
    <3>1. Taken = 0 /\ Holding({"execute", "account", "fulfil", "complete"}) = 0
      BY ONLY <1>1, <1>2 DEF Taken, Holding
    <3>2. 1..Len(promises) = {}
      BY ONLY <1>3
    <3> QED
      BY ONLY <1>2, <3>1, <3>2 DEF AnswersInOrder
  <2> QED
    BY <2>1, <2>2, <2>3
<1>7. WithinBounds
  BY ONLY <1>1, <1>2, OptionsAssumption DEF WithinBounds, Holding
<1>8. WorkerLife /\ CallLife
  BY ONLY <1>1, <1>e, <1>4 DEF WorkerLife, CallLife
<1>9. FlushGoals /\ NoLostWakeup
  BY ONLY <1>1, <1>2, <1>4 DEF FlushGoals, NoLostWakeup
<1> QED
  BY <1>5, <1>6, <1>7, <1>8, <1>9 DEF IInv

(* A stuttering step changes nothing the invariant speaks of.              *)
LEMMA StutterStep ==
  ASSUME IInv, UNCHANGED vars
  PROVE  IInv'
BY DEF IInv, vars, flags, counters, worker, clients, TypeOK, QueueInOrder,
       TaskInHand, AnswersInOrder, WithinBounds, WorkerLife, CallLife,
       FlushGoals, NoLostWakeup, Taken, Holding

LEMMA NextInv ==
  ASSUME IInv, [Next]_vars
  PROVE  IInv'
<1>1. CASE AwaitReady
  BY <1>1, AwaitReadyStep
<1>2. CASE Run
  BY <1>2, RunOpenStep, NotifyReadyStep, RunTakeStep, RunExecuteStep,
     RunAccountStep, RunFulfilStep, RunCompleteStep, NotifyDrainStep,
     RunCloseStep, RunStopStep, NotifyStoppedStep DEF Run
<1>3. ASSUME NEW c \in Clients, Call(c)
      PROVE  IInv'
  BY <1>3, SubmitStep, FlushStep, ShutdownStep, ShutdownAgainStep DEF Call
<1>4. ASSUME NEW c \in Clients, Resume(c)
      PROVE  IInv'
  BY <1>4, FlushWakeStep, NotifyWorkStep, JoinStep, OnceReturnsStep DEF Resume
<1>5. CASE UNCHANGED vars
  BY <1>5, StutterStep
<1> QED
  BY <1>1, <1>2, <1>3, <1>4, <1>5 DEF Next

(* The inductive invariant holds in every state, for any interleaving of   *)
(* the clients, the worker and the callbacks.                              *)
THEOREM InvariantHolds == Spec => []IInv
BY InitInv, NextInv, PTL DEF Spec

(* Every variable of the owner keeps its type, for any clients, requests   *)
(* and limits.                                                             *)
THEOREM TypeCorrect == Spec => []TypeOK
<1>1. IInv => TypeOK
  BY DEF IInv
<1> QED
  BY <1>1, InvariantHolds, PTL

(* Neither counter that submit() tests ever exceeds its option, and the    *)
(* request counter is the queue plus the executing request.                *)
THEOREM BoundsRespected == Spec => []WithinBounds
<1>1. IInv => WithinBounds
  BY DEF IInv
<1> QED
  BY <1>1, InvariantHolds, PTL

(* No request is charged against the queue bounds once it is answered.     *)
THEOREM AnsweredIsNotCharged == Spec => []AnsweredNotCharged
<1>1. IInv => AnsweredNotCharged
  <2> SUFFICES ASSUME IInv, NEW s \in Charged
               PROVE  promises[s].reply = Pending
    BY DEF AnsweredNotCharged
  <2>1. /\ acceptedSequence = Len(promises) /\ acceptedSequence \in Nat
        /\ tasks \in Seq(Nat) /\ Len(tasks) \in Nat /\ DOMAIN tasks = 1..Len(tasks)
        /\ Len(tasks) <= acceptedSequence /\ Taken \in Nat
    BY DEF IInv, TypeOK, QueueInOrder, Taken
  <2>2. CASE \E i \in 1..Len(tasks) : s = tasks[i]
    <3>1. s > Taken /\ s \in 1..Len(promises)
      BY <2>1, <2>2 DEF IInv, QueueInOrder, Taken
    <3> QED
      BY <2>1, <3>1 DEF IInv, AnswersInOrder, Holding
  <2>3. CASE s = current /\ wpc \in {"execute", "account"}
    <3>1. s = Taken /\ s \in 1..Len(promises)
      BY <2>1, <2>3 DEF IInv, TaskInHand, Taken
    <3> QED
      BY <2>1, <2>3, <3>1 DEF IInv, AnswersInOrder, Holding
  <2> QED
    BY <2>1, <2>2, <2>3 DEF Charged
<1> QED
  BY <1>1, InvariantHolds, PTL

(* A flush that returned Drained finds every earlier request answered.     *)
THEOREM DrainedIsAnswered == Spec => []DrainedMeansAnswered
<1>1. IInv => DrainedMeansAnswered
  <2> SUFFICES ASSUME IInv, NEW c \in Clients, flushed[c] = "Drained",
                      NEW s \in 1..target[c]
               PROVE  promises[s].reply # Pending
    BY DEF DrainedMeansAnswered
  <2>1. target[c] \in Nat /\ target[c] <= completedSequence
    BY DEF IInv, TypeOK, FlushGoals
  <2>2. completedSequence <= Taken - Holding({"execute", "account", "fulfil"})
    BY DEF IInv, TypeOK, AnswersInOrder, Taken, Holding
  <2>3. s \in 1..Len(promises)
    BY <2>1 DEF IInv, TypeOK, FlushGoals, QueueInOrder
  <2>4. Taken - Holding({"execute", "account", "fulfil"}) \in Int
    BY DEF IInv, TypeOK, Taken, Holding
  <2>5. ~(s > Taken - Holding({"execute", "account", "fulfil"})) 
    BY <2>1, <2>2, <2>4 DEF IInv, TypeOK
  <2> QED
    BY <2>3, <2>5 DEF IInv, AnswersInOrder
<1> QED
  BY <1>1, InvariantHolds, PTL

(* When shutdown() has returned, the queue was drained, every request was  *)
(* answered and the cache was destroyed.                                   *)
THEOREM ShutdownIsComplete == Spec => []ShutdownDrains
<1>1. IInv => ShutdownDrains
  <2> SUFFICES ASSUME IInv, once = "done"
               PROVE  /\ \A s \in DOMAIN promises : promises[s].reply # Pending
                      /\ tasks = <<>> /\ outstanding = 0
                      /\ ~cacheOpen /\ stopped
    BY DEF ShutdownDrains
  <2>1. wpc = "exited"
    BY DEF IInv, CallLife
  <2>2. tasks = <<>> /\ Len(tasks) = 0 /\ ~cacheOpen /\ stopped
    BY <2>1 DEF IInv, WorkerLife
  <2>3. outstanding = 0
    BY <2>1, <2>2 DEF IInv, WithinBounds, Holding
  <2>4. /\ promises \in Seq([request : Requests, reply : Reply \cup {Pending}])
        /\ Len(promises) \in Nat /\ DOMAIN promises = 1..Len(promises)
    BY DEF IInv, TypeOK
  <2>5. \A s \in 1..Len(promises) : promises[s].reply # Pending
    BY <2>1, <2>2, <2>4 DEF IInv, QueueInOrder, AnswersInOrder, Taken, Holding
  <2> QED
    BY <2>2, <2>3, <2>4, <2>5
<1> QED
  BY <1>1, InvariantHolds, PTL

(* No wakeup of the worker or of a flush is ever lost.                     *)
THEOREM WakeupsArrive == Spec => []NoLostWakeup
<1>1. IInv => NoLostWakeup
  BY DEF IInv
<1> QED
  BY <1>1, InvariantHolds, PTL

(* A flush that has started to wait is never answered with ShutDown.       *)
THEOREM WaitersDrain == Spec => WaitingFlushDrains
<1>1. IInv /\ [Next]_vars =>
        [\A c \in Clients : cpc[c] = "notified" => flushed'[c] # "ShutDown"]_vars
  <2> SUFFICES ASSUME IInv, Next, NEW c \in Clients, cpc[c] = "notified"
               PROVE  flushed'[c] # "ShutDown"
    OBVIOUS
  <2>1. flushed[c] = "none" /\ flushed \in [Clients -> {"none", "Drained", "ShutDown"}]
    BY DEF IInv, FlushGoals, TypeOK
  <2>2. ASSUME NEW d \in Clients, FlushWake(d)
        PROVE  flushed'[c] # "ShutDown"
    <3>1. CASE stopped
      <4>1. tasks = <<>> /\ Len(tasks) = 0
        BY <3>1 DEF IInv, WorkerLife
      <4>2. completedSequence = acceptedSequence
        BY <3>1, <4>1 DEF IInv, WorkerLife, AnswersInOrder, Taken, Holding, TypeOK
      <4>3. completedSequence >= target[d]
        BY <4>2 DEF IInv, FlushGoals, TypeOK
      <4> QED
        BY <2>1, <2>2, <4>3 DEF FlushWake, FlushTest, Reached
    <3>2. CASE ~stopped
      BY <2>1, <2>2, <3>2 DEF FlushWake, FlushTest, Reached
    <3> QED
      BY <3>1, <3>2
  <2>3. ASSUME NEW d \in Clients, Flush(d)
        PROVE  flushed'[c] # "ShutDown"
    <3>1. c # d
      BY <2>3 DEF Flush, CanCall
    <3> QED
      BY <2>1, <2>3, <3>1 DEF Flush, FlushTest, Reached
  <2>4. CASE flushed' = flushed
    BY <2>1, <2>4
  <2>5. ASSUME NEW d \in Clients, NEW r \in Requests, Submit(d, r)
        PROVE  flushed' = flushed
    BY <2>5 DEF Submit, clients
  <2>6. ASSUME NEW d \in Clients,
               \/ Shutdown(d) \/ ShutdownAgain(d)
               \/ NotifyWork(d) \/ Join(d) \/ OnceReturns(d)
        PROVE  flushed' = flushed
    BY <2>6 DEF Shutdown, ShutdownAgain, NotifyWork, Join, OnceReturns
  <2>7. CASE AwaitReady \/ Run
    BY <2>4, <2>7 DEF AwaitReady, Run, RunOpen, NotifyReady, RunTake, RunExecute,
       RunAccount, RunFulfil, RunComplete, NotifyDrain, RunClose, RunStop,
       NotifyStopped, clients
  <2> QED
    BY <2>2, <2>3, <2>4, <2>5, <2>6, <2>7 DEF Next, Call, Resume
<1> QED
  BY <1>1, InvariantHolds, PTL DEF Spec, WaitingFlushDrains

-----------------------------------------------------------------------------
(* The refinement: every step of the owner is a step of the CacheService,  *)
(* or leaves everything the service shows unchanged.                       *)

LEMMA InitRefines == Init => Service!Init
<1> SUFFICES ASSUME Init PROVE Service!Init
  OBVIOUS
<1>1. /\ ready = FALSE /\ wpc = "open" /\ acceptedSequence = 0 /\ Len(tasks) = 0
      /\ promises = <<>> /\ result = Pending /\ store \in [Keys -> Stored]
  BY DEF Init
<1> QED
  BY ONLY <1>1 DEF Service!Init, Service!Stored, Stored, ServicePhase, ServicePerformed

(* Seen from the service, a task is performed once execute has run.        *)
LEMMA PerformedIs ==
  ASSUME IInv
  PROVE  /\ ServicePerformed = Taken - Holding({"execute"})
         /\ Taken \in Nat /\ ServicePerformed \in Int
         /\ Len(promises) = acceptedSequence
<1>1. acceptedSequence \in Nat /\ Len(tasks) \in Nat /\ Len(tasks) <= acceptedSequence
  BY DEF IInv, TypeOK, QueueInOrder
<1>2. wpc \in {"execute", "account", "fulfil", "complete", "notifyDrain"}
        => current = Taken
  BY DEF IInv, TaskInHand
<1> QED
  BY SMTT(30), <1>1, <1>2 DEF ServicePerformed, Taken, Holding, IInv, QueueInOrder

LEMMA PerformedIsNext ==
  ASSUME IInv'
  PROVE  ServicePerformed' = (Taken - Holding({"execute"}))'
<1>1. /\ acceptedSequence' \in Nat /\ Len(tasks') \in Nat
  BY DEF IInv, TypeOK
<1>2. wpc' \in {"execute", "account", "fulfil", "complete", "notifyDrain"}
        => current' = Taken'
  BY DEF IInv, TaskInHand
<1> QED
  BY <1>1, <1>2 DEF ServicePerformed, Taken, Holding

(* Steps of callers and of the worker that the service does not see.       *)
LEMMA HiddenSteps ==
  ASSUME IInv, IInv',
         \/ AwaitReady \/ NotifyReady \/ RunTake \/ RunAccount \/ RunComplete
         \/ NotifyDrain \/ RunStop \/ NotifyStopped
         \/ \E c \in Clients : \/ Flush(c) \/ FlushWake(c) \/ ShutdownAgain(c)
                              \/ NotifyWork(c) \/ Join(c) \/ OnceReturns(c)
  PROVE  UNCHANGED <<ServicePhase, promises, ServicePerformed, result, store>>
<1>1. UNCHANGED <<promises, result, store, ready, accepting, cacheOpen, acceptedSequence>>
  BY DEF AwaitReady, NotifyReady, RunTake, RunAccount, RunComplete, NotifyDrain,
     RunStop, NotifyStopped, Flush, FlushWake, ShutdownAgain, NotifyWork, Join,
     OnceReturns, flags, worker, counters
<1>2. ServicePhase' = ServicePhase
  BY <1>1 DEF ServicePhase
<1>3. ServicePerformed' = ServicePerformed
  <2>1. (Taken - Holding({"execute"}))' = Taken - Holding({"execute"})
    <3>1. CASE RunTake /\ tasks # <<>>
      <4>1. Len(tasks') = Len(tasks) - 1 /\ Len(tasks) \in Nat
        BY <3>1, TailFacts DEF RunTake, HasTask, IInv, TypeOK
      <4> QED
        BY <1>1, <3>1, <4>1 DEF RunTake, HasTask, Taken, Holding, IInv, TypeOK
    <3>2. CASE ~(RunTake /\ tasks # <<>>)
      <4>1. tasks' = tasks
        BY <3>2 DEF AwaitReady, NotifyReady, RunTake, RunAccount, RunComplete,
           NotifyDrain, RunStop, NotifyStopped, Flush, FlushWake, ShutdownAgain,
           NotifyWork, Join, OnceReturns, HasTask, WakeWorker
      <4>2. wpc' = "execute" <=> wpc = "execute"
        BY <3>2 DEF AwaitReady, NotifyReady, RunTake, RunAccount, RunComplete,
           NotifyDrain, RunStop, NotifyStopped, Flush, FlushWake, ShutdownAgain,
           NotifyWork, Join, OnceReturns, HasTask, WakeWorker, worker
      <4> QED
        BY <1>1, <4>1, <4>2 DEF Taken, Holding
    <3> QED
      BY <3>1, <3>2
  <2>2. ServicePerformed' = (Taken - Holding({"execute"}))'
    BY PerformedIsNext
  <2> QED
    BY <2>1, <2>2, PerformedIs
<1> QED
  BY <1>1, <1>2, <1>3

LEMMA SubmitRefines ==
  ASSUME IInv, IInv', NEW c \in Clients, NEW r \in Requests, Submit(c, r)
  PROVE  Service!Admit
<1>1. ready /\ accepting
  BY DEF Submit, Admits, IInv, WorkerLife
<1>2. ServicePhase = "admitting" /\ ServicePhase' = ServicePhase
  BY <1>1 DEF Submit, ServicePhase, flags
<1>3. ServicePerformed' = ServicePerformed
  <2>1. /\ acceptedSequence \in Nat /\ Len(tasks) \in Nat
        /\ Len(tasks') = Len(tasks) + 1
    BY DEF Submit, IInv, TypeOK
  <2>2. /\ wpc' = "execute" <=> wpc = "execute"
        /\ acceptedSequence' = acceptedSequence + 1
    BY DEF Submit, WakeWorker
  <2>3. (Taken - Holding({"execute"}))' = Taken - Holding({"execute"})
    BY <2>1, <2>2 DEF Taken, Holding
  <2> QED
    BY <2>3, PerformedIs, PerformedIsNext
<1>4. UNCHANGED <<result, store>>
  BY DEF Submit
<1> QED
  BY <1>2, <1>3, <1>4 DEF Submit, Service!Admit, Service!Entry

LEMMA RunOpenRefines ==
  ASSUME IInv, IInv', RunOpen
  PROVE  Service!Start
<1>1. ~ready /\ ready' = TRUE /\ UNCHANGED <<promises, result, store>>
  BY DEF RunOpen, IInv, WorkerLife
<1>2. PICK opened \in BOOLEAN : cacheOpen' = opened /\ accepting' = opened
  BY DEF RunOpen
<1>3. ServicePhase = "starting" /\ ServicePhase' \in {"admitting", "closed"}
  BY <1>1, <1>2 DEF ServicePhase
<1>4. ServicePerformed' = ServicePerformed
  BY DEF RunOpen, ServicePerformed, counters
<1> QED
  BY <1>1, <1>3, <1>4 DEF Service!Start

(* The first shutdown ends admission; without an open cache there is none. *)
LEMMA ShutdownRefines ==
  ASSUME IInv, IInv', NEW c \in Clients, Shutdown(c)
  PROVE  \/ Service!StopAdmitting
         \/ UNCHANGED <<ServicePhase, promises, ServicePerformed, result, store>>
<1>1. /\ accepting' = FALSE
      /\ UNCHANGED <<ready, cacheOpen, promises, result, store, wpc, current,
                     acceptedSequence, tasks>>
  BY DEF Shutdown, worker, counters
<1>2. ServicePerformed' = ServicePerformed
  BY <1>1 DEF ServicePerformed
<1>3. CASE accepting
  <2>1. ready /\ cacheOpen
    BY <1>3 DEF IInv, WorkerLife
  <2>2. ServicePhase = "admitting" /\ ServicePhase' = "draining"
    BY <1>1, <1>3, <2>1 DEF ServicePhase
  <2> QED
    BY <1>1, <1>2, <2>2 DEF Service!StopAdmitting
<1>4. CASE ~accepting
  BY <1>1, <1>2, <1>4 DEF ServicePhase
<1> QED
  BY <1>3, <1>4

LEMMA RunExecuteRefines ==
  ASSUME IInv, IInv', RunExecute
  PROVE  Service!Perform
<1>1. /\ current = Taken /\ current >= 1 /\ current \in Nat /\ result = Pending
      /\ Len(promises) = acceptedSequence /\ current <= Len(promises)
  BY DEF RunExecute, IInv, TypeOK, TaskInHand, QueueInOrder, Taken
<1>2. ServicePerformed = current - 1 /\ ServicePerformed' = current
  BY DEF RunExecute, ServicePerformed
<1>3. ready /\ cacheOpen /\ UNCHANGED <<ready, accepting, cacheOpen, promises>>
  BY DEF RunExecute, IInv, WorkerLife, flags
<1>4. ServicePhase \in {"admitting", "draining"} /\ ServicePhase' = ServicePhase
  BY <1>3 DEF ServicePhase
<1>5. promises[ServicePerformed + 1].request = promises[current].request
  BY <1>1, <1>2
<1>6. \E o \in Service!Outcomes(promises[ServicePerformed + 1].request, store) :
         result' = o.reply /\ store' = o.store
  BY <1>5 DEF RunExecute, Service!Outcomes, Service!WriteOutcomes, Service!ReadOutcomes,
     Service!ReadReply, Service!Overwrite, Outcomes, WriteOutcomes, ReadOutcomes,
     ReadReply, Overwrite
<1> QED
  BY <1>1, <1>2, <1>3, <1>4, <1>6 DEF Service!Perform

LEMMA RunFulfilRefines ==
  ASSUME IInv, IInv', RunFulfil
  PROVE  Service!Answer
<1>1. result # Pending /\ ServicePerformed = current /\ ServicePerformed' = current
  BY DEF RunFulfil, IInv, TaskInHand, ServicePerformed
<1>2. ServicePhase' = ServicePhase
  BY DEF RunFulfil, ServicePhase, flags
<1>3. /\ promises' = [promises EXCEPT ![ServicePerformed].reply = result]
      /\ result' = Pending /\ store' = store
  BY <1>1 DEF RunFulfil
<1> QED
  BY <1>1, <1>2, <1>3 DEF Service!Answer

LEMMA RunCloseRefines ==
  ASSUME IInv, IInv', RunClose
  PROVE  Service!Close
<1>1. ready /\ ~accepting /\ cacheOpen /\ Len(tasks) = 0
  BY DEF RunClose, IInv, WorkerLife
<1>2. UNCHANGED <<ready, accepting, promises, result, store>> /\ cacheOpen' = FALSE
  BY DEF RunClose, flags
<1>3. ServicePhase = "draining" /\ ServicePhase' = "closed"
  BY <1>1, <1>2 DEF ServicePhase
<1>4. /\ ServicePerformed = Len(promises) /\ ServicePerformed' = ServicePerformed
      /\ result = Pending
  BY <1>1 DEF RunClose, ServicePerformed, IInv, TypeOK, QueueInOrder, TaskInHand, counters
<1> QED
  BY <1>2, <1>3, <1>4 DEF Service!Close, Service!Answered

(* The owner implements the abstract service, for any number of clients,   *)
(* any requests and any queue limits.                                      *)
THEOREM OwnerImplementsService == Spec => ServiceSpec
<1>1. IInv /\ IInv' /\ [Next]_vars => [Service!Next]_(Service!vars)
  <2> SUFFICES ASSUME IInv, IInv', [Next]_vars
               PROVE  [Service!Next]_(Service!vars)
    OBVIOUS
  <2> USE DEF Service!Next, Service!vars
  <2>1. CASE AwaitReady \/ NotifyReady \/ RunTake \/ RunAccount \/ RunComplete
             \/ NotifyDrain \/ RunStop \/ NotifyStopped
    BY <2>1, HiddenSteps
  <2>2. CASE RunOpen \/ RunExecute \/ RunFulfil \/ RunClose
    BY <2>2, RunOpenRefines, RunExecuteRefines, RunFulfilRefines, RunCloseRefines
  <2>3. ASSUME NEW c \in Clients, Call(c) \/ Resume(c)
        PROVE  [Service!Next]_(Service!vars)
    BY <2>3, HiddenSteps, SubmitRefines, ShutdownRefines DEF Call, Resume
  <2>4. CASE UNCHANGED vars
    BY <2>4 DEF vars, flags, counters, worker, ServicePhase, ServicePerformed
  <2> QED
    BY <2>1, <2>2, <2>3, <2>4 DEF Next, Run
<1> QED
  BY <1>1, InitRefines, InvariantHolds, PTL DEF Spec, ServiceSpec, Service!Spec
-----------------------------------------------------------------------------
(* The sum over a set of requests, whatever order they are added in. *)

BytesOf(p, T) == MapThenSumSet(LAMBDA s : Bytes[p[s].request], T)

(* g adds up the weights F of any subset of 1..n.                          *)
Measure(g, F, n) ==
  /\ g \in [SUBSET (1..n) -> Nat]
  /\ g[{}] = 0
  /\ \A T \in SUBSET (1..n) : \A x \in T : g[T] = F[x] + g[T \ {x}]

(* A nonempty set of naturals has a least element: what stands in for      *)
(* induction, whose theorem takes an operator the provers cannot supply.   *)
LEMMA LeastNatural ==
  ASSUME NEW T \in SUBSET Nat, T # {}
  PROVE  \E x \in T : \A y \in T : x <= y
<1> DEFINE R == {ss \in Nat \X Nat : ss[1] < ss[2]}
<1>1. IsWellFoundedOn(R, Nat)
  BY NatLessThanWellFounded DEF OpToRel
<1>2. \E x \in T : \A y \in T : ~ (<<y, x>> \in R)
  <2> HIDE DEF R
  <2> QED BY <1>1, WFMin
<1>3. ASSUME NEW x \in T, NEW y \in T, ~ (<<y, x>> \in R)
      PROVE  x <= y
  <2>1. <<y, x>> \in Nat \X Nat /\ <<y, x>>[1] = y /\ <<y, x>>[2] = x
    OBVIOUS
  <2>2. ~ (y < x)
    BY <1>3, <2>1 DEF R
  <2> QED BY <2>2
<1> HIDE DEF R
<1> QED BY <1>2, <1>3

LEMMA MeasureExtends ==
  ASSUME NEW n \in Nat, NEW F, \A i \in 1..(n + 1) : F[i] \in Nat,
         NEW g, Measure(g, F, n)
  PROVE  \E h : Measure(h, F, n + 1)
<1> DEFINE m == n + 1
           h == [T \in SUBSET (1..m) |->
                   IF m \in T THEN F[m] + g[T \ {m}] ELSE g[T]]
<1>1. /\ m \in Nat /\ 1..m = 1..n \cup {m} /\ m \notin 1..n
  OBVIOUS
<1> HIDE DEF m
<1>2. \A i \in 1..m : F[i] \in Nat
  BY DEF m
<1>3. /\ g \in [SUBSET (1..n) -> Nat] /\ g[{}] = 0
      /\ \A T \in SUBSET (1..n) : \A x \in T : g[T] = F[x] + g[T \ {x}]
  BY DEF Measure
<1>4. ASSUME NEW T \in SUBSET (1..m)
      PROVE  /\ T \ {m} \in SUBSET (1..n) /\ g[T \ {m}] \in Nat
             /\ m \notin T => T \in SUBSET (1..n) /\ g[T] \in Nat
             /\ h[T] = IF m \in T THEN F[m] + g[T \ {m}] ELSE g[T]
  <2>1. T \ {m} \in SUBSET (1..n) /\ (m \notin T => T \in SUBSET (1..n))
    BY <1>1
  <2> QED BY <1>3, <2>1
<1>5. h \in [SUBSET (1..m) -> Nat]
  <2>0. F[m] \in Nat
    BY <1>1, <1>2
  <2>1. ASSUME NEW T \in SUBSET (1..m)
        PROVE  (IF m \in T THEN F[m] + g[T \ {m}] ELSE g[T]) \in Nat
    <3>1. g[T \ {m}] \in Nat /\ (m \notin T => g[T] \in Nat)
      BY <1>4
    <3> HIDE DEF h
    <3> QED BY <2>0, <3>1
  <2> QED BY <2>1
<1> HIDE DEF h
<1>6. h[{}] = 0
  BY <1>3, <1>4
<1>7. ASSUME NEW T \in SUBSET (1..m), NEW x \in T
      PROVE  h[T] = F[x] + h[T \ {x}]
  <2> DEFINE U == T \ {x}
  <2>1. U \in SUBSET (1..m)
    OBVIOUS
  <2>2. CASE x = m
    <3>1. m \in T /\ m \notin U /\ U = T \ {m}
      BY <2>2
    <3>2. h[T] = F[m] + g[U] /\ h[U] = g[U]
      BY <1>4, <2>1, <3>1
    <3> QED BY <2>2, <3>2
  <2>3. CASE x # m /\ m \notin T
    <3>1. m \notin U /\ T \in SUBSET (1..n)
      BY <1>4, <2>3
    <3>2. h[T] = g[T] /\ h[U] = g[U]
      BY <1>4, <2>1, <2>3, <3>1
    <3>3. g[T] = F[x] + g[U]
      BY <1>3, <3>1
    <3> QED BY <3>2, <3>3
  <2>4. CASE x # m /\ m \in T
    <3>1. m \in U /\ x \in T \ {m} /\ (T \ {m}) \ {x} = U \ {m}
      BY <2>4
    <3>2. h[T] = F[m] + g[T \ {m}] /\ h[U] = F[m] + g[U \ {m}]
      BY <1>4, <2>1, <2>4, <3>1
    <3>3. T \ {m} \in SUBSET (1..n) /\ g[T \ {m}] = F[x] + g[U \ {m}]
      <4>1. T \ {m} \in SUBSET (1..n)
        BY <1>4
      <4>2. g[T \ {m}] = F[x] + g[(T \ {m}) \ {x}]
        BY <1>3, <3>1, <4>1
      <4> QED BY <3>1, <4>1, <4>2
    <3>4. g[T \ {m}] \in Nat /\ g[U \ {m}] \in Nat
      BY <1>4, <2>1
    <3>5. F[x] \in Nat /\ F[m] \in Nat
      BY <1>1, <1>2
    <3>6. h[T] = F[x] + h[U]
      <4> HIDE DEF U
      <4> QED BY <3>2, <3>3, <3>4, <3>5
    <3> QED BY <3>6
  <2> QED BY <2>2, <2>3, <2>4
<1> QED BY ZenonT(30), <1>5, <1>6, <1>7 DEF Measure, m

LEMMA MeasureExists ==
  ASSUME NEW n \in Nat, NEW F, \A i \in 1..n : F[i] \in Nat
  PROVE  \E g : Measure(g, F, n)
<1> DEFINE Without == {k \in 0..n : ~ \E g : Measure(g, F, k)}
<1>1. 0 \notin Without
  <2> DEFINE g == [T \in SUBSET (1..0) |-> 0]
  <2>1. 1..0 = {} /\ SUBSET (1..0) = {{}}
    OBVIOUS
  <2>2. g \in [SUBSET (1..0) -> Nat] /\ g[{}] = 0
    BY <2>1
  <2>3. \A T \in SUBSET (1..0) : \A x \in T : g[T] = F[x] + g[T \ {x}]
    BY <2>1
  <2> HIDE DEF g
  <2>4. Measure(g, F, 0)
    BY <2>2, <2>3 DEF Measure
  <2> QED BY <2>4
<1>2. ASSUME NEW k \in Without, \A j \in Without : k <= j
      PROVE  FALSE
  <2>1. k \in 1..n /\ k - 1 \in 0..n
    BY <1>1
  <2>2. k - 1 \notin Without
    BY <1>2, <2>1
  <2>3. PICK g : Measure(g, F, k - 1)
    BY <2>1, <2>2
  <2>4. PICK m \in Nat : m = k - 1
    BY <2>1
  <2>5. m + 1 = k /\ 1..(m + 1) \subseteq 1..n
    BY <2>1, <2>4
  <2>6. \E h : Measure(h, F, m + 1)
    BY <2>3, <2>4, <2>5, MeasureExtends
  <2> QED BY <2>5, <2>6
<1>3. Without \in SUBSET Nat
  OBVIOUS
<1>4. n \notin Without
  <2> HIDE DEF Without
  <2> QED BY <1>2, <1>3, LeastNatural
<1> QED BY <1>4

(* A sum over a set of requests is what any measure says it is.            *)
LEMMA BytesOfIsMeasure ==
  ASSUME NEW n \in Nat, NEW p, NEW F,
         \A i \in 1..n : F[i] \in Nat /\ F[i] = Bytes[p[i].request],
         NEW g, Measure(g, F, n), NEW T \in SUBSET (1..n)
  PROVE  BytesOf(p, T) = g[T]
<1> DEFINE Weigh(s) == Bytes[p[s].request]
           Some(s) == CHOOSE x \in s : TRUE
           Added(h) == [s \in SUBSET T |->
                          IF s = {} THEN 0 ELSE Weigh(Some(s)) + h[s \ {Some(s)}]]
           total == CHOOSE h : h = Added(h)
           sub == [s \in SUBSET T |-> g[s]]
<1>1. BytesOf(p, T) = total[T]
  BY DEF BytesOf, MapThenSumSet, MapThenFoldSet
<1>2. ASSUME NEW s \in SUBSET T, s # {}
      PROVE  /\ Some(s) \in s /\ s \ {Some(s)} \in SUBSET T
             /\ g[s] = Weigh(Some(s)) + g[s \ {Some(s)}]
  <2>1. Some(s) \in s
    BY <1>2
  <2> HIDE DEF Some
  <2>2. g[s] = F[Some(s)] + g[s \ {Some(s)}] /\ F[Some(s)] = Weigh(Some(s))
    BY <2>1 DEF Measure
  <2> QED BY <2>1, <2>2
<1> HIDE DEF Some, Weigh
<1>3. sub = Added(sub)
  <2>1. \A s \in SUBSET T :
          sub[s] = IF s = {} THEN 0 ELSE Weigh(Some(s)) + sub[s \ {Some(s)}]
    BY <1>2 DEF Measure
  <2> HIDE DEF sub
  <2>2. sub = [s \in SUBSET T |-> sub[s]]
    BY DEF sub
  <2> QED BY <2>1, <2>2
<1>4. total = Added(total)
  <2> HIDE DEF sub, Added
  <2> QED BY <1>3
<1> HIDE DEF total
<1>5. \A s \in SUBSET T :
        total[s] = IF s = {} THEN 0 ELSE Weigh(Some(s)) + total[s \ {Some(s)}]
  BY <1>4
<1> DEFINE Wrong == {Cardinality(s) : s \in {u \in SUBSET T : total[u] # g[u]}}
<1>6. ASSUME NEW s \in SUBSET T
      PROVE  IsFiniteSet(s) /\ Cardinality(s) \in Nat
  <2>1. IsFiniteSet(1..n) /\ s \subseteq 1..n
    BY FS_Interval
  <2> QED BY <2>1, FS_Subset, FS_CardinalityType
<1>7. ASSUME NEW s \in SUBSET T, total[s] # g[s],
             \A u \in SUBSET T : total[u] # g[u] => Cardinality(s) <= Cardinality(u)
      PROVE  FALSE
  <2>1. s # {}
    BY <1>5, <1>7 DEF Measure
  <2>2. /\ Some(s) \in s /\ s \ {Some(s)} \in SUBSET T
        /\ g[s] = Weigh(Some(s)) + g[s \ {Some(s)}]
    BY <1>2, <2>1
  <2>3. total[s] = Weigh(Some(s)) + total[s \ {Some(s)}]
    BY <1>5, <2>1
  <2>4. total[s \ {Some(s)}] # g[s \ {Some(s)}]
    BY <1>7, <2>2, <2>3
  <2>5. Cardinality(s \ {Some(s)}) = Cardinality(s) - 1
    BY <1>6, <2>2, FS_RemoveElement
  <2>6. Cardinality(s) <= Cardinality(s \ {Some(s)})
    BY <1>7, <2>2, <2>4
  <2> QED BY <1>6, <2>5, <2>6
<1>8. Wrong \in SUBSET Nat
  BY <1>6
<1>9. Wrong = {}
  <2> SUFFICES ASSUME Wrong # {} PROVE FALSE
    OBVIOUS
  <2>1. PICK k \in Wrong : \A j \in Wrong : k <= j
    <3> HIDE DEF Wrong
    <3> QED BY <1>8, LeastNatural
  <2>2. PICK s \in SUBSET T : total[s] # g[s] /\ k = Cardinality(s)
    OBVIOUS
  <2>3. \A u \in SUBSET T : total[u] # g[u] => Cardinality(s) <= Cardinality(u)
    BY <2>1, <2>2
  <2> QED BY <1>7, <2>2, <2>3
<1>10. total[T] = g[T]
  BY <1>9
<1> QED BY <1>1, <1>10

(* What submitting and returning a request do to the sum.                  *)
Charges(p, n) == \A i \in 1..n : Bytes[p[i].request] \in Nat

LEMMA Measured ==
  ASSUME NEW n \in Nat, NEW p, Charges(p, n)
  PROVE  \E g, F : /\ Measure(g, F, n)
                   /\ \A i \in 1..n : F[i] \in Nat /\ F[i] = Bytes[p[i].request]
                   /\ \A T \in SUBSET (1..n) : BytesOf(p, T) = g[T]
<1> DEFINE F == [i \in 1..n |-> Bytes[p[i].request]]
<1>1. \A i \in 1..n : F[i] \in Nat /\ F[i] = Bytes[p[i].request]
  BY DEF Charges
<1> HIDE DEF F
<1>2. PICK g : Measure(g, F, n)
  BY <1>1, MeasureExists
<1>3. ASSUME NEW T \in SUBSET (1..n)
      PROVE  BytesOf(p, T) = g[T]
  <2>1. T \in SUBSET (1..n)
    OBVIOUS
  <2> QED BY ONLY SMTT(40), <1>1, <1>2, <2>1, n \in Nat, BytesOfIsMeasure
<1> QED BY <1>1, <1>2, <1>3

LEMMA BytesOfNothing ==
  ASSUME NEW p PROVE BytesOf(p, {}) = 0
<1>1. Charges(p, 0) /\ 0 \in Nat /\ {} \in SUBSET (1..0)
  BY DEF Charges
<1>2. PICK g, F : /\ Measure(g, F, 0)
                  /\ \A T \in SUBSET (1..0) : BytesOf(p, T) = g[T]
  BY <1>1, Measured
<1> QED BY <1>1, <1>2 DEF Measure

LEMMA BytesOfOne ==
  ASSUME NEW n \in Nat, NEW p, Charges(p, n),
         NEW T \in SUBSET (1..n), NEW x \in T
  PROVE  BytesOf(p, T) = Bytes[p[x].request] + BytesOf(p, T \ {x})
<1>1. PICK g, F : /\ Measure(g, F, n)
                  /\ \A i \in 1..n : F[i] \in Nat /\ F[i] = Bytes[p[i].request]
                  /\ \A U \in SUBSET (1..n) : BytesOf(p, U) = g[U]
  BY Measured
<1>2. T \ {x} \in SUBSET (1..n) /\ x \in 1..n
  OBVIOUS
<1>3. g[T] = F[x] + g[T \ {x}]
  BY <1>1 DEF Measure
<1> QED BY <1>1, <1>2, <1>3

LEMMA BytesOfType ==
  ASSUME NEW n \in Nat, NEW p, Charges(p, n), NEW T \in SUBSET (1..n)
  PROVE  BytesOf(p, T) \in Nat
<1>1. PICK g, F : Measure(g, F, n) /\ \A U \in SUBSET (1..n) : BytesOf(p, U) = g[U]
  BY Measured
<1> QED BY <1>1 DEF Measure

LEMMA BytesOfSame ==
  ASSUME NEW n \in Nat, NEW p, Charges(p, n), NEW T \in SUBSET (1..n),
         NEW q, \A i \in 1..n : q[i].request = p[i].request
  PROVE  BytesOf(q, T) = BytesOf(p, T)
<1>1. PICK g, F : /\ Measure(g, F, n)
                  /\ \A i \in 1..n : F[i] \in Nat /\ F[i] = Bytes[p[i].request]
                  /\ \A U \in SUBSET (1..n) : BytesOf(p, U) = g[U]
  BY Measured
<1>2. \A i \in 1..n : F[i] \in Nat /\ F[i] = Bytes[q[i].request]
  BY <1>1
<1>3. BytesOf(q, T) = g[T]
  <2>1. T \in SUBSET (1..n)
    OBVIOUS
  <2> QED BY ONLY SMTT(40), <1>1, <1>2, <2>1, n \in Nat, BytesOfIsMeasure
<1> QED BY <1>1, <1>3

LEMMA PromisesCharge ==
  ASSUME NEW p \in Seq([request : Requests, reply : Reply \cup {Pending}]),
         NEW n \in Nat, n <= Len(p)
  PROVE  Charges(p, n)
<1>1. ASSUME NEW i \in 1..n PROVE Bytes[p[i].request] \in Nat
  <2>1. i \in 1..Len(p)
    OBVIOUS
  <2>2. p[i] \in [request : Requests, reply : Reply \cup {Pending}]
    BY <2>1, ElementType
  <2> QED BY <2>2, OwnerRequestsAssumption
<1> QED BY <1>1 DEF Charges

-----------------------------------------------------------------------------
(* The counters of both limits are exact. *)

LEMMA ChargedIs ==
  ASSUME IInv
  PROVE  /\ Charged = (Taken + 1 - Holding({"execute", "account"}))..Len(promises)
         /\ Len(promises) \in Nat /\ Taken \in Nat
         /\ Charged \in SUBSET (1..Len(promises))
<1>1. /\ acceptedSequence = Len(promises) /\ acceptedSequence \in Nat
      /\ tasks \in Seq(Nat) /\ Len(tasks) \in Nat /\ DOMAIN tasks = 1..Len(tasks)
      /\ Len(tasks) <= acceptedSequence /\ Taken \in Nat
      /\ acceptedSequence = Taken + Len(tasks)
  BY DEF IInv, TypeOK, QueueInOrder, Taken
<1>2. {tasks[i] : i \in DOMAIN tasks} = (Taken + 1)..Len(promises)
  <2>1. \A i \in 1..Len(tasks) : tasks[i] = Taken + i
    BY DEF IInv, QueueInOrder
  <2>2. ASSUME NEW s \in (Taken + 1)..Len(promises)
        PROVE  s \in {tasks[i] : i \in DOMAIN tasks}
    <3>1. PICK i \in 1..Len(tasks) : i = s - Taken
      BY <1>1
    <3>2. tasks[i] = Taken + i /\ Taken + i = s
      BY <1>1, <2>1, <3>1
    <3> QED BY <1>1, <3>2
  <2>3. ASSUME NEW i \in DOMAIN tasks PROVE tasks[i] \in (Taken + 1)..Len(promises)
    <3>1. i \in 1..Len(tasks) /\ tasks[i] = Taken + i
      BY <1>1, <2>1
    <3> QED BY <1>1, <3>1
  <2> QED BY <2>2, <2>3
<1>3. CASE wpc \in {"execute", "account"}
  <2>1. current = Taken /\ current \in Nat /\ current >= 1
    BY <1>3 DEF IInv, TypeOK, TaskInHand
  <2>2. Charged = (Taken + 1)..Len(promises) \cup {current}
    BY <1>2, <1>3 DEF Charged
  <2>3. Holding({"execute", "account"}) = 1
    BY <1>3 DEF Holding
  <2>4. Taken <= Len(promises) /\ Taken >= 1
    BY <1>1, <2>1
  <2>5. PICK m \in Nat, n \in Nat : m = Taken /\ n = Len(promises)
    BY <1>1
  <2>6. (m + 1)..n \cup {m} = m..n /\ m..n \in SUBSET (1..n)
        /\ m + 1 - 1 = m
    BY <2>4, <2>5
  <2> QED BY <1>1, <2>1, <2>2, <2>3, <2>5, <2>6
<1>4. CASE wpc \notin {"execute", "account"}
  <2>1. Charged = (Taken + 1)..Len(promises)
    BY <1>2, <1>4 DEF Charged
  <2>2. Holding({"execute", "account"}) = 0
    BY <1>4 DEF Holding
  <2>3. PICK m \in Nat, n \in Nat : m = Taken /\ n = Len(promises)
    BY <1>1
  <2>4. (m + 1)..n \in SUBSET (1..n) /\ m + 1 - 0 = m + 1
    OBVIOUS
  <2> QED BY <1>1, <2>1, <2>2, <2>3, <2>4
<1> QED BY <1>3, <1>4

Accounts == retained = ChargedBytes

LEMMA ChargedBytesIs == ChargedBytes = BytesOf(promises, Charged)
BY DEF ChargedBytes, BytesOf

LEMMA SubmitAccounts ==
  ASSUME IInv, Accounts, NEW c \in Clients, NEW r \in Requests, Submit(c, r)
  PROVE  retained' = BytesOf(promises', Charged')
<1>1. /\ acceptedSequence = Len(promises) /\ acceptedSequence \in Nat
      /\ promises \in Seq([request : Requests, reply : Reply \cup {Pending}])
      /\ tasks \in Seq(Nat) /\ retained \in Int
  BY DEF IInv, TypeOK, QueueInOrder
<1>2. PICK n \in Nat : n = Len(promises) + 1
  BY <1>1
<1>3. /\ promises' = Append(promises, [request |-> r, reply |-> Pending])
      /\ tasks' = Append(tasks, n) /\ retained' = retained + Bytes[r]
      /\ wpc' = WakeWorker /\ current' = current
  BY <1>1, <1>2 DEF Submit
<1>4. /\ promises' \in Seq([request : Requests, reply : Reply \cup {Pending}])
      /\ Len(promises') = n
      /\ \A i \in 1..(n - 1) : promises'[i] = promises[i]
      /\ promises'[n].request = r
  <2> DEFINE x == [request |-> r, reply |-> Pending]
  <2>1. x \in [request : Requests, reply : Reply \cup {Pending}] /\ x.request = r
    OBVIOUS
  <2>2. promises' = Append(promises, x)
    BY <1>3
  <2> HIDE DEF x
  <2>3. /\ promises' \in Seq([request : Requests, reply : Reply \cup {Pending}])
        /\ Len(promises') = n /\ promises'[n] = x
        /\ \A i \in 1..(n - 1) : promises'[i] = promises[i]
    BY <1>1, <1>2, <2>1, <2>2
  <2> QED BY <2>1, <2>3
<1>5. Charged' = Charged \cup {n}
  <2>1. {tasks'[i] : i \in DOMAIN tasks'} = {tasks[i] : i \in DOMAIN tasks} \cup {n}
    <3>1. /\ DOMAIN tasks' = DOMAIN tasks \cup {Len(tasks) + 1}
          /\ tasks'[Len(tasks) + 1] = n
          /\ \A i \in DOMAIN tasks : tasks'[i] = tasks[i]
      BY <1>1, <1>3
    <3> QED BY <3>1
  <2>2. wpc' \in {"execute", "account"} <=> wpc \in {"execute", "account"}
    BY <1>3 DEF WakeWorker
  <2> QED BY <1>3, <2>1, <2>2 DEF Charged
<1>6. Charges(promises', n) /\ Charges(promises, n - 1)
  <2>1. n <= Len(promises') /\ n - 1 \in Nat /\ n - 1 <= Len(promises)
    BY <1>1, <1>2, <1>4
  <2> QED BY <1>1, <1>4, <2>1, PromisesCharge
<1>7. Charged \in SUBSET (1..(n - 1)) /\ n - 1 \in Nat
  BY <1>1, <1>2, ChargedIs
<1>8. n \in Charged' /\ Charged' \ {n} = Charged /\ Charged' \in SUBSET (1..n)
  BY <1>5, <1>7
<1>9. BytesOf(promises', Charged') = Bytes[r] + BytesOf(promises', Charged)
  <2> DEFINE q == promises'
             T == Charged'
  <2>1. Charges(q, n) /\ T \in SUBSET (1..n) /\ n \in T
    BY <1>6, <1>8
  <2> HIDE DEF q, T
  <2>2. BytesOf(q, T) = Bytes[q[n].request] + BytesOf(q, T \ {n})
    BY ONLY n \in Nat, <2>1, BytesOfOne
  <2> QED BY <1>4, <1>8, <2>2 DEF q, T
<1>10. BytesOf(promises', Charged) = BytesOf(promises, Charged)
  <2>1. \A i \in 1..(n - 1) : promises'[i].request = promises[i].request
    BY <1>4
  <2> QED BY ONLY <1>6, <1>7, <2>1, BytesOfSame
<1>11. retained = BytesOf(promises, Charged)
  BY ChargedBytesIs DEF Accounts
<1>12. Bytes[r] \in Nat
  BY OwnerRequestsAssumption
<1> QED BY <1>1, <1>3, <1>9, <1>10, <1>11, <1>12

LEMMA RunAccountAccounts ==
  ASSUME IInv, Accounts, RunAccount
  PROVE  retained' = BytesOf(promises', Charged')
<1>1. PICK n \in Nat : n = Len(promises)
  BY ChargedIs
<1>2. /\ promises \in Seq([request : Requests, reply : Reply \cup {Pending}])
      /\ retained \in Int /\ wpc = "account" /\ wpc' = "fulfil"
      /\ retained' = retained - Bytes[promises[current].request]
      /\ promises' = promises /\ tasks' = tasks /\ current' = current
  BY DEF IInv, TypeOK, RunAccount
<1>3. /\ Charged = Taken..n /\ Taken \in Nat /\ current = Taken /\ current >= 1
      /\ Charged \in SUBSET (1..n)
  <2>1. Charged = (Taken + 1 - Holding({"execute", "account"}))..n
    BY <1>1, ChargedIs
  <2>2. Holding({"execute", "account"}) = 1
    BY <1>2 DEF Holding
  <2>3. current = Taken /\ current >= 1
    BY <1>2 DEF IInv, TaskInHand
  <2>4. Taken \in Nat /\ Charged \in SUBSET (1..n)
    BY <1>1, ChargedIs
  <2> QED BY <2>1, <2>2, <2>3, <2>4
<1>4. current \in Charged
  BY <1>2 DEF Charged
<1>5. Charged' = Charged \ {current}
  <2>1. Charged = {tasks[i] : i \in DOMAIN tasks} \cup {current}
    BY <1>2 DEF Charged
  <2>2. Charged' = {tasks[i] : i \in DOMAIN tasks}
    BY <1>2 DEF Charged
  <2>3. current \notin {tasks[i] : i \in DOMAIN tasks}
    <3>1. \A i \in DOMAIN tasks : i \in 1..Len(tasks) /\ tasks[i] = Taken + i
      BY DEF IInv, TypeOK, QueueInOrder
    <3> QED BY <1>3, <3>1
  <2> QED BY <2>1, <2>2, <2>3
<1>6. Charges(promises, n)
  <2>1. n <= Len(promises)
    BY <1>1
  <2> QED BY <1>2, <2>1, PromisesCharge
<1>7. /\ BytesOf(promises, Charged) =
           Bytes[promises[current].request] + BytesOf(promises, Charged \ {current})
      /\ Charged \ {current} \in SUBSET (1..n)
  <2>1. Charged \in SUBSET (1..n)
    BY <1>3
  <2>2. BytesOf(promises, Charged) =
          Bytes[promises[current].request] + BytesOf(promises, Charged \ {current})
    <3>1. PICK C, k : C = Charged /\ k = current
      OBVIOUS
    <3>2. C \in SUBSET (1..n) /\ k \in C
      BY <1>4, <2>1, <3>1
    <3>3. BytesOf(promises, C) = Bytes[promises[k].request] + BytesOf(promises, C \ {k})
      BY ONLY n \in Nat, <3>2, <1>6, BytesOfOne
    <3> QED BY <3>1, <3>3
  <2> QED BY <2>1, <2>2
<1>8. BytesOf(promises, Charged \ {current}) \in Nat
  BY ONLY n \in Nat, <1>6, <1>7, BytesOfType
<1>9. Bytes[promises[current].request] \in Nat
  BY <1>3, <1>4, <1>6 DEF Charges
<1>10. retained = BytesOf(promises, Charged)
  BY ChargedBytesIs DEF Accounts
<1> QED BY <1>2, <1>5, <1>7, <1>8, <1>9, <1>10

LEMMA RunFulfilAccounts ==
  ASSUME IInv, Accounts, RunFulfil
  PROVE  retained' = BytesOf(promises', Charged')
<1>1. PICK n \in Nat : n = Len(promises)
  BY ChargedIs
<1>2. /\ promises \in Seq([request : Requests, reply : Reply \cup {Pending}])
      /\ promises' = [promises EXCEPT ![current].reply = result]
      /\ retained' = retained
  BY DEF IInv, TypeOK, RunFulfil, counters
<1>3. Charged' = Charged
  BY DEF RunFulfil, Charged
<1>4. \A i \in 1..n : promises'[i].request = promises[i].request
  BY <1>1, <1>2
<1>5. Charges(promises, n)
  <2>1. n <= Len(promises)
    BY <1>1
  <2> QED BY <1>2, <2>1, PromisesCharge
<1>6. Charged \in SUBSET (1..n)
  BY <1>1, ChargedIs
<1>7. BytesOf(promises', Charged) = BytesOf(promises, Charged)
  BY ONLY n \in Nat, <1>4, <1>5, <1>6, BytesOfSame
<1>8. retained = BytesOf(promises, Charged)
  BY ChargedBytesIs DEF Accounts
<1> QED BY <1>2, <1>3, <1>7, <1>8

LEMMA RunTakeKeepsCharged ==
  ASSUME IInv, RunTake
  PROVE  Charged' = Charged
<1>1. tasks \in Seq(Nat) /\ wpc = "take"
  BY DEF IInv, TypeOK, RunTake
<1>2. CASE HasTask
  <2>1. /\ tasks # <<>> /\ current' = Head(tasks) /\ tasks' = Tail(tasks)
        /\ wpc' = "execute"
    BY <1>2 DEF RunTake, HasTask
  <2>2. /\ Len(tasks) \in Nat /\ Len(tasks) >= 1 /\ current' = tasks[1]
        /\ tasks' \in Seq(Nat) /\ Len(tasks') = Len(tasks) - 1
        /\ \A i \in 1..Len(tasks') : tasks'[i] = tasks[i + 1]
        /\ DOMAIN tasks = 1..Len(tasks) /\ DOMAIN tasks' = 1..Len(tasks')
    BY <1>1, <2>1, TailFacts
  <2>3. Charged = {tasks[i] : i \in 1..Len(tasks)}
    BY <1>1, <2>2 DEF Charged
  <2>4. Charged' = {tasks'[i] : i \in 1..Len(tasks')} \cup {tasks[1]}
    BY <2>1, <2>2 DEF Charged
  <2>5. ASSUME NEW i \in 1..Len(tasks) PROVE tasks[i] \in Charged'
    <3>1. CASE i = 1
      BY <2>4, <3>1
    <3>2. CASE i # 1
      <4>1. PICK j \in 1..Len(tasks') : j + 1 = i
        BY <2>2, <3>2
      <4> QED BY <2>2, <2>4, <4>1
    <3> QED BY <3>1, <3>2
  <2>6. ASSUME NEW i \in 1..Len(tasks') PROVE tasks'[i] \in Charged
    <3>1. i + 1 \in 1..Len(tasks)
      BY <2>2
    <3> QED BY <2>2, <2>3, <3>1
  <2>7. tasks[1] \in Charged
    BY <2>2, <2>3
  <2> QED BY <2>3, <2>4, <2>5, <2>6, <2>7
<1>3. CASE ~HasTask
  BY <1>1, <1>3 DEF RunTake, Charged
<1> QED BY <1>2, <1>3

(* Every other step leaves requests and what is charged alone.             *)
LEMMA OtherStepsKeepAccounts ==
  ASSUME Accounts, UNCHANGED <<promises, retained>>, Charged' = Charged
  PROVE  retained' = BytesOf(promises', Charged')
BY ChargedBytesIs DEF Accounts

LEMMA AccountsStep ==
  ASSUME IInv, Accounts, [Next]_vars
  PROVE  Accounts'
<1> SUFFICES retained' = BytesOf(promises', Charged')
  <2>1. (ChargedBytes)' = BytesOf(promises', Charged')
    BY DEF ChargedBytes, BytesOf, MapThenSumSet, MapThenFoldSet
  <2> QED BY <2>1 DEF Accounts
<1> USE DEF flags, counters, worker, clients
<1>1. CASE UNCHANGED vars
  <2>1. UNCHANGED <<promises, retained, tasks, wpc, current>>
    BY <1>1 DEF vars
  <2> QED BY <2>1, OtherStepsKeepAccounts DEF Charged
<1>2. CASE AwaitReady
  <2>1. UNCHANGED <<promises, retained, tasks, wpc, current>>
    BY <1>2 DEF AwaitReady
  <2> QED BY <2>1, OtherStepsKeepAccounts DEF Charged
<1>3. ASSUME NEW c \in Clients, Call(c)
      PROVE  retained' = BytesOf(promises', Charged')
  <2>1. CASE \E r \in Requests : Submit(c, r)
    BY <2>1, SubmitAccounts
  <2>2. CASE Flush(c) \/ Shutdown(c) \/ ShutdownAgain(c)
    <3>1. UNCHANGED <<promises, retained, tasks, wpc, current>>
      BY <2>2 DEF Flush, Shutdown, ShutdownAgain
    <3> QED BY <3>1, OtherStepsKeepAccounts DEF Charged
  <2> QED BY <1>3, <2>1, <2>2 DEF Call
<1>4. ASSUME NEW c \in Clients, Resume(c)
      PROVE  retained' = BytesOf(promises', Charged')
  <2>1. /\ UNCHANGED <<promises, retained, tasks, current>>
        /\ wpc' \in {"execute", "account"} <=> wpc \in {"execute", "account"}
    BY <1>4 DEF Resume, FlushWake, NotifyWork, Join, OnceReturns, WakeWorker
  <2>2. Charged' = Charged
    BY <2>1 DEF Charged
  <2> QED BY <2>1, <2>2, OtherStepsKeepAccounts
<1>5. CASE RunTake
  <2>1. UNCHANGED <<promises, retained>>
    BY <1>5 DEF RunTake
  <2> QED BY <1>5, <2>1, RunTakeKeepsCharged, OtherStepsKeepAccounts
<1>6. CASE RunAccount \/ RunFulfil
  BY <1>6, RunAccountAccounts, RunFulfilAccounts
<1>7. CASE \/ RunOpen \/ NotifyReady \/ RunExecute \/ RunComplete \/ NotifyDrain
           \/ RunClose \/ RunStop \/ NotifyStopped
  <2>1. /\ UNCHANGED <<promises, retained, tasks>>
        /\ wpc' \in {"execute", "account"} <=> wpc \in {"execute", "account"}
        /\ wpc \in {"execute", "account"} => current' = current
    BY <1>7 DEF RunOpen, NotifyReady, RunExecute, RunComplete, NotifyDrain,
                RunClose, RunStop, NotifyStopped
  <2>2. Charged' = Charged
    BY <2>1 DEF Charged
  <2> QED BY <2>1, <2>2, OtherStepsKeepAccounts
<1> QED BY <1>1, <1>2, <1>3, <1>4, <1>5, <1>6, <1>7 DEF Next, Run

(* The two counters that submit() tests are exactly the requests accepted  *)
(* and not yet accounted for and the bytes they retain, and both stay      *)
(* within their limits: no interleaving makes them drift.                  *)
THEOREM QueueIsBounded == Spec => []QueueBounded
<1>1. Init => Accounts
  <2> SUFFICES ASSUME Init PROVE Accounts
    OBVIOUS
  <2>1. Charged = {}
    BY DEF Init, Charged
  <2>3. BytesOf(promises, {}) = 0
    BY BytesOfNothing
  <2> QED BY <2>1, <2>3, ChargedBytesIs DEF Accounts, Init
<1>2. IInv /\ Accounts /\ [Next]_vars => Accounts'
  BY AccountsStep
<1>3. ASSUME IInv, Accounts PROVE QueueBounded
  <2>1. outstanding = Cardinality(Charged)
    <3> DEFINE lo == Taken + 1 - Holding({"execute", "account"})
    <3>1. Charged = lo..Len(promises) /\ Len(promises) \in Nat /\ Taken \in Nat
      BY <1>3, ChargedIs
    <3>2. /\ acceptedSequence = Len(promises) /\ acceptedSequence \in Nat
          /\ Len(tasks) \in Nat /\ Taken = acceptedSequence - Len(tasks)
          /\ outstanding = Len(tasks) + Holding({"execute", "account"})
          /\ Holding({"execute", "account"}) \in {0, 1}
      BY <1>3 DEF IInv, TypeOK, QueueInOrder, WithinBounds, Taken, Holding
    <3>3. lo \in Int /\ Len(promises) \in Int
      BY <3>1, <3>2
    <3>4. Cardinality(lo..Len(promises)) =
            IF lo > Len(promises) THEN 0 ELSE Len(promises) - lo + 1
      <4> HIDE DEF lo
      <4> QED BY <3>3, FS_Interval
    <3> QED BY <3>1, <3>2, <3>4
  <2> QED BY <1>3, <2>1 DEF QueueBounded, Accounts, IInv, WithinBounds
<1> QED BY <1>1, <1>2, <1>3, InvariantHolds, PTL DEF Spec

-----------------------------------------------------------------------------
(* PagedCache: the steps of commitBatch behind its marker.                 *)
InBatch == {"begin", "write", "deleteMarker", "commit", "rollback", "unmark"}

(* The steps after the database has been identified as ours.               *)
AtWork == InBatch \cup {"initialize", "initCommit", "recover", "recoverCommit", "open"}

(* The pages of the namespace as the transaction would leave them now.     *)
Written(p) ==
  [k \in Keys |-> IF k \in DOMAIN call[p].batch \ todo[p]
                  THEN call[p].batch[k] ELSE disk.pages[space[p]][k]]

HoldsLock(p) == pc[p] # "closed" => lockOwner = p /\ ~lockStale

Connected(p) == conn[p] => pc[p] \notin {"closed", "connect", "unlock"}

Identified(p) == pc[p] \in AtWork => disk.schema # "foreign"

(* The marker of the batch in progress is on disk and is nobody else's.    *)
Marked(p) ==
  pc[p] \in InBatch =>
    token[p] \in disk.markers /\ token[p] \notin committed \cup interrupted

InCall(p) ==
  /\ pc[p] \in InBatch => /\ call[p] \in Calls /\ call[p].space = space[p]
                          /\ todo[p] \subseteq DOMAIN call[p].batch
  /\ pc[p] \notin InBatch => call[p] = Idle
  /\ pc[p] = "begin" => todo[p] = DOMAIN call[p].batch
  /\ pc[p] \in {"deleteMarker", "commit"} => todo[p] = {}

Transaction(p) ==
  /\ pc[p] \in {"initCommit", "recoverCommit"} =>
       /\ tx[p] \in Disk
       /\ tx[p].pages = disk.pages /\ tx[p].schema # "foreign"
       /\ tx[p].markers = IF pc[p] = "initCommit" THEN disk.markers ELSE {}
  /\ pc[p] \in {"write", "deleteMarker", "commit"} =>
       /\ tx[p] \in Disk
       /\ tx[p].pages = [disk.pages EXCEPT ![space[p]] = Written(p)]
       /\ tx[p].schema = disk.schema
       /\ tx[p].markers = disk.markers \ (IF pc[p] = "commit" THEN {token[p]} ELSE {})

Instance(p) == /\ HoldsLock(p) /\ Connected(p) /\ Identified(p)
               /\ Marked(p) /\ InCall(p) /\ Transaction(p)

Markers == /\ disk.markers \cup committed \cup interrupted \subseteq 1..tokens
           /\ CommittedLeavesNoMarker /\ InterruptionLeavesMarker

CacheInv == CacheTypeOK /\ Markers /\ \A p \in Owners : Instance(p)

-----------------------------------------------------------------------------
(* Only one instance is at work at a time.                                 *)
LEMMA Alone ==
  ASSUME CacheInv, NEW p \in Owners, NEW q \in Owners \ {p},
         pc[p] # "closed" \/ LockFree
  PROVE  pc[q] = "closed"
  BY BatchesAssumption DEF CacheInv, Instance, HoldsLock, LockFree

(* So a step of one leaves the others as they were: closed.                *)
LEMMA OthersClosed ==
  ASSUME CacheInv, NEW p \in Owners, pc[p] # "closed" \/ LockFree,
         NEW q \in Owners \ {p},
         pc'[q] = pc[q], call'[q] = call[q], conn'[q] = conn[q]
  PROVE  Instance(q)'
<1>1. pc[q] = "closed"
  BY Alone
<1>2. call[q] = Idle /\ ~conn[q]
  BY <1>1 DEF CacheInv, CacheTypeOK, Instance, InCall, InBatch, Connected
<1> QED
  BY <1>1, <1>2 DEF Instance, HoldsLock, Connected, Identified, AtWork, InBatch,
                    Marked, InCall, Transaction

(* A new or a foreign database, with every instance closed.                *)
THEOREM CacheInitInv == CacheInit => CacheInv
<1> SUFFICES ASSUME CacheInit PROVE CacheInv
  OBVIOUS
<1>1. CacheTypeOK
  <2>1. NoPages \in [Namespaces -> [Keys -> Stored]]
    BY DEF NoPages, Stored
  <2>2. disk \in Disk
    BY <2>1 DEF CacheInit, Disk, Tokens
  <2>3. /\ pc \in [Owners -> Steps] /\ conn \in [Owners -> BOOLEAN]
        /\ tx \in [Owners -> Disk \cup {NoTx}] /\ \A p \in Owners : tx[p] = NoTx
        /\ todo \in [Owners -> SUBSET Keys] /\ call \in [Owners -> Calls \cup {Idle}]
    BY DEF CacheInit, Steps
  <2>4. token \in [Owners -> 0..MaxTokens] /\ tokens \in 0..MaxTokens /\ crashes \in 0..MaxCrashes
    BY BoundsAssumption DEF CacheInit
  <2> QED
    BY <2>2, <2>3, <2>4 DEF CacheInit, CacheTypeOK
<1>2. Markers
  BY DEF CacheInit, Markers, CommittedLeavesNoMarker, InterruptionLeavesMarker
<1>3. ASSUME NEW p \in Owners PROVE Instance(p)
  BY DEF CacheInit, Instance, HoldsLock, Connected, Identified, AtWork, InBatch,
         Marked, InCall, Transaction
<1> QED
  BY <1>1, <1>2, <1>3 DEF CacheInv

(* Only a free lock is taken, so everybody else is closed; the new owner   *)
(* is not yet connected, at work or in a transaction.                      *)
LEMMA OpenLockKeeps ==
  ASSUME CacheInv, NEW p \in Owners, OpenLock(p)
  PROVE  CacheInv'
<1> USE DEF CacheInv, OpenLock, Goto, diskVars, lockVars, batchVars, history
<1>1. CacheTypeOK'
  BY DEF CacheTypeOK, Steps, TransactionSteps
<1>2. Markers'
  BY DEF CacheTypeOK, Markers, CommittedLeavesNoMarker, InterruptionLeavesMarker
<1>3. Instance(p)'
  BY DEF CacheTypeOK, Instance, HoldsLock, Connected, Identified, AtWork, InBatch,
         Marked, InCall, Transaction
<1>4. ASSUME NEW q \in Owners \ {p} PROVE Instance(q)'
  BY OthersClosed DEF CacheTypeOK
<1> QED
  BY <1>1, <1>2, <1>3, <1>4

(* The connection is made, or the open fails, under the lock.              *)
LEMMA OpenConnectionKeeps ==
  ASSUME CacheInv, NEW p \in Owners, OpenConnection(p)
  PROVE  CacheInv'
<1> USE DEF CacheInv, OpenConnection, Goto, diskVars, lockVars, batchVars, history
<1>1. CacheTypeOK'
  BY DEF CacheTypeOK, Steps, TransactionSteps
<1>2. Markers'
  BY DEF CacheTypeOK, Markers, CommittedLeavesNoMarker, InterruptionLeavesMarker
<1>3. Instance(p)'
  <2>1. HoldsLock(p)' /\ Connected(p)' /\ Identified(p)'
    BY DEF CacheTypeOK, Instance, HoldsLock, Connected, Identified, AtWork, InBatch
  <2>2. Marked(p)' /\ InCall(p)' /\ Transaction(p)'
    BY ZenonT(30) DEF CacheTypeOK, Instance, Marked, InBatch, InCall, Transaction
  <2> QED
    BY <2>1, <2>2 DEF Instance
<1>4. ASSUME NEW q \in Owners \ {p} PROVE Instance(q)'
  BY OthersClosed DEF CacheTypeOK
<1> QED
  BY <1>1, <1>2, <1>3, <1>4

(* Only a database of ours leads on to work.                               *)
LEMMA InspectKeeps ==
  ASSUME CacheInv, NEW p \in Owners, Inspect(p)
  PROVE  CacheInv'
<1> USE DEF CacheInv, Inspect, AfterInspection, Goto, diskVars, lockVars,
           batchVars, history
<1>1. CacheTypeOK'
  BY DEF CacheTypeOK, Steps, TransactionSteps, Disk
<1>2. Markers'
  BY DEF CacheTypeOK, Markers, CommittedLeavesNoMarker, InterruptionLeavesMarker
<1>3. Instance(p)'
  <2>1. HoldsLock(p)' /\ Connected(p)' /\ Identified(p)' /\ Marked(p)'
    BY DEF CacheTypeOK, Instance, HoldsLock, Connected, Disk, Identified, AtWork,
           InBatch, Marked
  <2>2. InCall(p)'
    BY SMTT(30) DEF CacheTypeOK, Instance, InCall, InBatch, Disk
  <2>3. Transaction(p)'
    BY DEF CacheTypeOK, Instance, Transaction, Disk
  <2> QED
    BY <2>1, <2>2, <2>3 DEF Instance
<1>4. ASSUME NEW q \in Owners \ {p} PROVE Instance(q)'
  BY OthersClosed DEF CacheTypeOK
<1> QED
  BY <1>1, <1>2, <1>3, <1>4

(* The schema is created in a transaction that touches no page.            *)
LEMMA InitializeSchemaKeeps ==
  ASSUME CacheInv, NEW p \in Owners, InitializeSchema(p)
  PROVE  CacheInv'
<1> USE DEF CacheInv, InitializeSchema, InTransaction, Goto, diskVars, lockVars,
           batchVars, history
<1>1. CacheTypeOK'
  <2>1. disk' \in Disk
    BY DEF CacheTypeOK
  <2>2. tx' \in [Owners -> Disk \cup {NoTx}]
    <3>1. [disk EXCEPT !.schema = "version1"] \in Disk
      BY DEF CacheTypeOK, Disk
    <3> QED
      BY <3>1 DEF CacheTypeOK
  <2>3. \A q \in Owners : tx'[q] # NoTx => pc'[q] \in TransactionSteps
    BY DEF CacheTypeOK, TransactionSteps
  <2> QED
    BY <2>1, <2>2, <2>3 DEF CacheTypeOK, Steps
<1>2. Markers'
  BY DEF CacheTypeOK, Markers, CommittedLeavesNoMarker, InterruptionLeavesMarker
<1>3. Instance(p)'
  <2>1. HoldsLock(p)' /\ Connected(p)' /\ Identified(p)' /\ Marked(p)' /\ InCall(p)'
    BY DEF CacheTypeOK, Instance, HoldsLock, Connected, Identified, AtWork,
           InBatch, Marked, InCall
  <2>2. Transaction(p)'
    <3> DEFINE d == [disk EXCEPT !.schema = "version1"]
    <3>1. /\ d \in Disk /\ d.pages = disk.pages
          /\ d.schema = "version1" /\ d.markers = disk.markers
      BY DEF CacheTypeOK, Disk
    <3>2. \/ tx'[p] = d /\ pc'[p] = "initCommit"
          \/ pc'[p] = "disconnect"
      BY DEF CacheTypeOK
    <3> QED
      BY <3>1, <3>2 DEF Transaction
  <2> QED
    BY <2>1, <2>2 DEF Instance
<1>4. ASSUME NEW q \in Owners \ {p} PROVE Instance(q)'
  BY OthersClosed DEF CacheTypeOK
<1> QED
  BY <1>1, <1>2, <1>3, <1>4

(* The disk becomes the transaction, which has the pages of the disk.      *)
LEMMA InitCommitKeeps ==
  ASSUME CacheInv, NEW p \in Owners, InitCommit(p)
  PROVE  CacheInv'
<1> USE DEF CacheInv, InitCommit, Goto, diskVars, lockVars, batchVars, history
<1>1. CacheTypeOK'
  <2>1. disk' \in Disk
    BY DEF CacheTypeOK, Instance, Transaction
  <2>2. tx' \in [Owners -> Disk \cup {NoTx}]
    BY DEF CacheTypeOK
  <2>3. \A q \in Owners : tx'[q] # NoTx => pc'[q] \in TransactionSteps
    BY DEF CacheTypeOK, TransactionSteps
  <2> QED
    BY <2>1, <2>2, <2>3 DEF CacheTypeOK, Steps
<1>2. Markers'
  BY DEF CacheTypeOK, Markers, CommittedLeavesNoMarker, InterruptionLeavesMarker,
         Instance, Transaction
<1>3. Instance(p)'
  <2>1. HoldsLock(p)' /\ Connected(p)' /\ Identified(p)'
    BY DEF CacheTypeOK, Instance, HoldsLock, Connected, Identified, AtWork,
           InBatch, Transaction
  <2>2. Marked(p)' /\ InCall(p)' /\ Transaction(p)'
    BY ZenonT(30) DEF CacheTypeOK, Instance, Marked, InBatch, InCall, Transaction
  <2> QED
    BY <2>1, <2>2 DEF Instance
<1>4. ASSUME NEW q \in Owners \ {p} PROVE Instance(q)'
  BY OthersClosed DEF CacheTypeOK
<1> QED
  BY <1>1, <1>2, <1>3, <1>4

(* The transaction drops every marker and touches no page.                 *)
LEMMA RecoverAndRegisterKeeps ==
  ASSUME CacheInv, NEW p \in Owners, RecoverAndRegister(p)
  PROVE  CacheInv'
<1> USE DEF CacheInv, RecoverAndRegister, InTransaction, Goto, diskVars, lockVars,
           batchVars, history
<1>1. CacheTypeOK'
  <2>1. disk' \in Disk
    BY DEF CacheTypeOK
  <2>2. tx' \in [Owners -> Disk \cup {NoTx}]
    <3>1. [disk EXCEPT !.markers = {}, !.registered = @ \cup {space[p]}] \in Disk
      BY ZenonT(30) DEF CacheTypeOK, Disk
    <3> QED
      BY <3>1 DEF CacheTypeOK
  <2>3. \A q \in Owners : tx'[q] # NoTx => pc'[q] \in TransactionSteps
    BY DEF CacheTypeOK, TransactionSteps
  <2> QED
    BY <2>1, <2>2, <2>3 DEF CacheTypeOK, Steps
<1>2. Markers'
  BY DEF CacheTypeOK, Markers, CommittedLeavesNoMarker, InterruptionLeavesMarker
<1>3. Instance(p)'
  <2>1. HoldsLock(p)' /\ Connected(p)' /\ Identified(p)' /\ Marked(p)' /\ InCall(p)'
    BY DEF CacheTypeOK, Instance, HoldsLock, Connected, Identified, AtWork,
           InBatch, Marked, InCall
  <2>2. Transaction(p)'
    <3> DEFINE d == [disk EXCEPT !.markers = {}, !.registered = @ \cup {space[p]}]
    <3>1. /\ d \in Disk /\ d.pages = disk.pages
          /\ d.schema = disk.schema /\ d.markers = {}
      BY ZenonT(30) DEF CacheTypeOK, Disk
    <3>2. \/ tx'[p] = d /\ pc'[p] = "recoverCommit"
          \/ pc'[p] = "disconnect"
      BY DEF CacheTypeOK
    <3>3. disk.schema # "foreign"
      BY DEF Instance, Identified, AtWork
    <3> QED
      BY <3>1, <3>2, <3>3 DEF Transaction
  <2> QED
    BY <2>1, <2>2 DEF Instance
<1>4. ASSUME NEW q \in Owners \ {p} PROVE Instance(q)'
  BY OthersClosed DEF CacheTypeOK
<1> QED
  BY <1>1, <1>2, <1>3, <1>4

(* The recovered markers and the interrupted batches they stand for go     *)
(* together.                                                               *)
LEMMA RecoverCommitKeeps ==
  ASSUME CacheInv, NEW p \in Owners, RecoverCommit(p)
  PROVE  CacheInv'
<1> USE DEF CacheInv, RecoverCommit, Goto, diskVars, lockVars, batchVars, history
<1>1. CacheTypeOK'
  <2>1. disk' \in Disk
    BY DEF CacheTypeOK, Instance, Transaction
  <2>2. tx' \in [Owners -> Disk \cup {NoTx}]
    BY DEF CacheTypeOK
  <2>3. \A q \in Owners : tx'[q] # NoTx => pc'[q] \in TransactionSteps
    BY DEF CacheTypeOK, TransactionSteps
  <2> QED
    BY <2>1, <2>2, <2>3 DEF CacheTypeOK, Steps
<1>2. Markers'
  BY DEF CacheTypeOK, Markers, CommittedLeavesNoMarker, InterruptionLeavesMarker,
         Instance, Transaction
<1>3. Instance(p)'
  <2>1. HoldsLock(p)'
    BY DEF CacheTypeOK, Instance, HoldsLock
  <2>2. Connected(p)'
    BY DEF CacheTypeOK, Instance, Connected
  <2>3. Identified(p)'
    BY DEF CacheTypeOK, Instance, Identified, AtWork, InBatch, Transaction, Marked, InCall
  <2>4. Marked(p)'
    BY DEF CacheTypeOK, Instance, Marked, InBatch
  <2>5. InCall(p)'
    BY DEF CacheTypeOK, Instance, InCall, InBatch, Marked
  <2>6. Transaction(p)'
    BY DEF CacheTypeOK, Instance, Transaction
  <2> QED
    BY <2>1, <2>2, <2>3, <2>4, <2>5, <2>6 DEF Instance
<1>4. ASSUME NEW q \in Owners \ {p} PROVE Instance(q)'
  BY OthersClosed DEF CacheTypeOK
<1> QED
  BY <1>1, <1>2, <1>3, <1>4

(* The marker is new: it was never drawn before.                           *)
LEMMA RecordMarkerKeeps ==
  ASSUME CacheInv, NEW p \in Owners, NEW b \in Batches, RecordMarker(p, b)
  PROVE  CacheInv'
<1> USE DEF CacheInv, RecordMarker, Goto, diskVars, lockVars, batchVars, history
<1>1. CacheTypeOK'
  <2>1. tokens' \in Tokens /\ tokens' \in 0..MaxTokens
    BY BoundsAssumption DEF CacheTypeOK, Tokens
  <2>2. disk' \in Disk
    BY <2>1 DEF CacheTypeOK, Disk, WithMarker
  <2>3. call' \in [Owners -> Calls \cup {Idle}]
    BY DEF CacheTypeOK, Calls
  <2>4. DOMAIN b \subseteq Keys
    BY BatchesAssumption
  <2>5. todo' \in [Owners -> SUBSET Keys]
    BY <2>4 DEF CacheTypeOK
  <2> QED
    BY <2>1, <2>2, <2>3, <2>5 DEF CacheTypeOK, Steps, TransactionSteps
<1>2. Markers'
  BY DEF CacheTypeOK, Markers, CommittedLeavesNoMarker, InterruptionLeavesMarker,
         Disk, WithMarker
<1>3. Instance(p)'
  <2>1. HoldsLock(p)' /\ Connected(p)' /\ Identified(p)' /\ Transaction(p)'
    BY DEF CacheTypeOK, Instance, HoldsLock, Connected, Identified, AtWork,
           InBatch, Disk, WithMarker, Transaction
  <2>2. Marked(p)'
    BY DEF CacheTypeOK, Instance, Marked, InBatch, Disk, WithMarker, Markers,
           Tokens
  <2>3. InCall(p)'
    <3>1. call'[p] = [space |-> space[p], batch |-> b] /\ todo'[p] = DOMAIN b
      BY DEF CacheTypeOK
    <3> QED
      BY <3>1 DEF CacheTypeOK, InCall, InBatch, Calls
  <2> QED
    BY <2>1, <2>2, <2>3 DEF Instance
<1>4. ASSUME NEW q \in Owners \ {p} PROVE Instance(q)'
  BY OthersClosed DEF CacheTypeOK
<1> QED
  BY <1>1, <1>2, <1>3, <1>4

(* Nothing is written yet: the transaction is the disk.                    *)
LEMMA BeginImmediateKeeps ==
  ASSUME CacheInv, NEW p \in Owners, BeginImmediate(p)
  PROVE  CacheInv'
<1> USE DEF CacheInv, BeginImmediate, Goto, diskVars, lockVars, batchVars, history
<1>1. CacheTypeOK'
  BY DEF CacheTypeOK, Steps, TransactionSteps
<1>2. Markers'
  BY DEF CacheTypeOK, Markers, CommittedLeavesNoMarker, InterruptionLeavesMarker
<1>3. Instance(p)'
  <2>1. HoldsLock(p)' /\ Connected(p)' /\ Identified(p)' /\ Marked(p)' /\ InCall(p)'
    BY DEF CacheTypeOK, Instance, HoldsLock, Connected, Identified, AtWork,
           InBatch, Marked, InCall
  <2>2. Transaction(p)'
    <3>1. disk.pages \in [Namespaces -> [Keys -> Stored]] /\ space[p] \in Namespaces
      BY DEF CacheTypeOK, Disk
    <3>2. todo[p] = DOMAIN call[p].batch
      BY DEF Instance, InCall
    <3>3. Written(p)' = disk.pages[space[p]]
      BY <3>1, <3>2 DEF Written
    <3>4. disk.pages = [disk.pages EXCEPT ![space[p]] = Written(p)']
      BY <3>1, <3>3
    <3>5. \/ tx'[p] = disk /\ pc'[p] = "write"
          \/ pc'[p] = "unmark"
      BY DEF CacheTypeOK
    <3>6. disk \in Disk
      BY DEF CacheTypeOK
    <3> QED
      BY <3>4, <3>5, <3>6 DEF Transaction
  <2> QED
    BY <2>1, <2>2 DEF Instance
<1>4. ASSUME NEW q \in Owners \ {p} PROVE Instance(q)'
  BY OthersClosed DEF CacheTypeOK
<1> QED
  BY <1>1, <1>2, <1>3, <1>4

(* One more page in the transaction keeps it a database.                   *)
LEMMA PageWritten ==
  ASSUME CacheInv, NEW p \in Owners, pc[p] = "write", NEW k \in todo[p]
  PROVE  [tx[p] EXCEPT !.pages[space[p]][k] = call[p].batch[k]] \in Disk
<1>1. space[p] \in Namespaces /\ k \in Keys
  BY DEF CacheInv, CacheTypeOK
<1>2. tx[p] \in Disk /\ call[p] \in Calls /\ k \in DOMAIN call[p].batch
  BY DEF CacheInv, Instance, Transaction, InCall, InBatch
<1>3. call[p].batch[k] \in Values
  BY <1>2, BatchesAssumption DEF Calls
<1> QED
  BY <1>1, <1>2, <1>3 DEF Disk, Stored

(* Each page moves from the keys still to be written to the written ones.  *)
LEMMA WritePageKeeps ==
  ASSUME CacheInv, NEW p \in Owners, WritePage(p)
  PROVE  CacheInv'
<1> USE DEF CacheInv, WritePage, FailInTransaction, Goto, diskVars, lockVars,
           batchVars, history
<1>1. CacheTypeOK'
  <2>1. disk' \in Disk
    BY DEF CacheTypeOK
  <2>2. tx' \in [Owners -> Disk \cup {NoTx}]
    <3>1. CASE tx' \in {tx, [tx EXCEPT ![p] = NoTx]}
      BY <3>1 DEF CacheTypeOK
    <3>2. ASSUME NEW k \in todo[p],
                 tx' = [tx EXCEPT ![p].pages[space[p]][k] = call[p].batch[k]]
          PROVE  tx' \in [Owners -> Disk \cup {NoTx}]
      <4>1. [tx[p] EXCEPT !.pages[space[p]][k] = call[p].batch[k]] \in Disk
        BY PageWritten
      <4> QED
        BY <3>2, <4>1 DEF CacheTypeOK
    <3> QED
      BY <3>1, <3>2
  <2>3. \A q \in Owners : tx'[q] # NoTx => pc'[q] \in TransactionSteps
    BY DEF CacheTypeOK, TransactionSteps
  <2> QED
    BY <2>1, <2>2, <2>3 DEF CacheTypeOK, Steps
<1>2. Markers'
  BY DEF CacheTypeOK, Markers, CommittedLeavesNoMarker, InterruptionLeavesMarker
<1>3. Instance(p)'
  <2>1. HoldsLock(p)' /\ Connected(p)' /\ Identified(p)' /\ Marked(p)' /\ InCall(p)'
    BY DEF CacheTypeOK, Instance, HoldsLock, Connected, Identified, AtWork,
           InBatch, Marked, InCall
  <2>2. Transaction(p)'
    <3>1. CASE pc'[p] = "rollback"
      BY <3>1 DEF Transaction
    <3>2. ASSUME NEW k \in todo[p],
                 tx' = [tx EXCEPT ![p].pages[space[p]][k] = call[p].batch[k]],
                 todo' = [todo EXCEPT ![p] = @ \ {k}],
                 pc'[p] \in {"write", "deleteMarker"}
          PROVE  Transaction(p)'
      <4>0. space[p] \in Namespaces /\ k \in Keys
        BY DEF CacheTypeOK
      <4>1. /\ tx[p] \in Disk
            /\ tx[p].pages = [disk.pages EXCEPT ![space[p]] = Written(p)]
            /\ tx[p].schema = disk.schema /\ tx[p].markers = disk.markers
        BY ZenonT(30) DEF Instance, Transaction
      <4>2. k \in DOMAIN call[p].batch
        BY DEF Instance, InCall, InBatch
      <4>3. Written(p)' = [Written(p) EXCEPT ![k] = call[p].batch[k]]
        BY ZenonT(30), <3>2, <4>0, <4>2 DEF CacheTypeOK, Written
      <4>4. tx'[p] = [tx[p] EXCEPT !.pages[space[p]][k] = call[p].batch[k]]
        BY <3>2 DEF CacheTypeOK
      <4>5. /\ tx'[p].schema = tx[p].schema /\ tx'[p].markers = tx[p].markers
            /\ tx'[p].pages = [tx[p].pages EXCEPT ![space[p]][k] = call[p].batch[k]]
        BY <4>0, <4>1, <4>4 DEF Disk
      <4>6. disk.pages \in [Namespaces -> [Keys -> Stored]]
        BY DEF CacheTypeOK, Disk
      <4>7. tx'[p].pages = [disk.pages EXCEPT ![space[p]] = Written(p)']
        BY <4>0, <4>1, <4>3, <4>5, <4>6
      <4>8. tx'[p] \in Disk
        BY SMTT(30), <4>4, PageWritten
      <4> QED
        BY <3>2, <4>1, <4>5, <4>7, <4>8 DEF Transaction
    <3> QED
      BY <3>1, <3>2 DEF CacheTypeOK
  <2> QED
    BY <2>1, <2>2 DEF Instance
<1>4. ASSUME NEW q \in Owners \ {p} PROVE Instance(q)'
  BY OthersClosed DEF CacheTypeOK
<1> QED
  BY <1>1, <1>2, <1>3, <1>4

(* The marker is dropped inside the transaction; on disk it remains.       *)
LEMMA DeleteMarkerKeeps ==
  ASSUME CacheInv, NEW p \in Owners, DeleteMarker(p)
  PROVE  CacheInv'
<1> USE DEF CacheInv, DeleteMarker, FailInTransaction, Goto, diskVars, lockVars,
           batchVars, history
<1>1. CacheTypeOK'
  <2>1. disk' \in Disk
    BY DEF CacheTypeOK
  <2>2. tx' \in [Owners -> Disk \cup {NoTx}]
    <3>1. tx[p] \in Disk
      BY DEF CacheTypeOK, Instance, Transaction
    <3>2. WithoutMarker(tx[p], token[p]) \in Disk
      BY <3>1 DEF Disk, WithoutMarker
    <3> QED
      BY <3>2 DEF CacheTypeOK
  <2>3. \A q \in Owners : tx'[q] # NoTx => pc'[q] \in TransactionSteps
    BY DEF CacheTypeOK, TransactionSteps
  <2> QED
    BY <2>1, <2>2, <2>3 DEF CacheTypeOK, Steps
<1>2. Markers'
  BY DEF CacheTypeOK, Markers, CommittedLeavesNoMarker, InterruptionLeavesMarker
<1>3. Instance(p)'
  <2>1. HoldsLock(p)' /\ Connected(p)' /\ Identified(p)' /\ Marked(p)' /\ InCall(p)'
    BY DEF CacheTypeOK, Instance, HoldsLock, Connected, Identified, AtWork,
           InBatch, Marked, InCall
  <2>2. Transaction(p)'
    <3> DEFINE d == WithoutMarker(tx[p], token[p])
    <3>1. /\ tx[p] \in Disk
          /\ tx[p].pages = [disk.pages EXCEPT ![space[p]] = Written(p)]
          /\ tx[p].schema = disk.schema /\ tx[p].markers = disk.markers
      BY ZenonT(30) DEF Instance, Transaction
    <3>2. /\ d \in Disk /\ d.pages = tx[p].pages
          /\ d.schema = disk.schema /\ d.markers = disk.markers \ {token[p]}
      BY <3>1 DEF Disk, WithoutMarker
    <3>3. \/ tx'[p] = d /\ pc'[p] = "commit"
          \/ pc'[p] = "rollback"
      BY DEF CacheTypeOK
    <3>4. Written(p)' = Written(p)
      BY DEF Written
    <3> QED
      BY <3>1, <3>2, <3>3, <3>4 DEF Transaction
  <2> QED
    BY <2>1, <2>2 DEF Instance
<1>4. ASSUME NEW q \in Owners \ {p} PROVE Instance(q)'
  BY OthersClosed DEF CacheTypeOK
<1> QED
  BY <1>1, <1>2, <1>3, <1>4

(* Pages and marker reach the disk in one step, with the token committed.  *)
LEMMA CommitKeeps ==
  ASSUME CacheInv, NEW p \in Owners, Commit(p)
  PROVE  CacheInv'
<1> USE DEF CacheInv, Commit, FailInTransaction, Goto, diskVars, lockVars,
           batchVars, history
<1>1. CacheTypeOK'
  <2>1. disk' \in Disk
    BY DEF CacheTypeOK, Instance, Transaction
  <2>2. tx' \in [Owners -> Disk \cup {NoTx}]
    BY DEF CacheTypeOK
  <2>3. \A q \in Owners : tx'[q] # NoTx => pc'[q] \in TransactionSteps
    BY DEF CacheTypeOK, TransactionSteps
  <2>4. token[p] \in Tokens
    BY DEF CacheTypeOK, Instance, Marked, InBatch, Disk
  <2>5. committed' \subseteq Tokens
    BY <2>4 DEF CacheTypeOK
  <2> QED
    BY <2>1, <2>2, <2>3, <2>5 DEF CacheTypeOK, Steps
<1>2. Markers'
  <2>1. /\ token[p] \in disk.markers /\ token[p] \notin interrupted
        /\ tx[p].markers = disk.markers \ {token[p]}
    BY DEF Instance, Marked, InBatch, Transaction
  <2>2. CASE pc'[p] = "rollback"
    BY <2>2 DEF CacheTypeOK, Markers, CommittedLeavesNoMarker, InterruptionLeavesMarker
  <2>3. CASE disk' = tx[p] /\ committed' = committed \cup {token[p]}
    BY <2>1, <2>3 DEF Markers, CommittedLeavesNoMarker, InterruptionLeavesMarker
  <2> QED
    BY <2>2, <2>3 DEF CacheTypeOK
<1>3. Instance(p)'
  <2>1. HoldsLock(p)' /\ Connected(p)' /\ Identified(p)'
    BY DEF CacheTypeOK, Instance, HoldsLock, Connected, Identified, AtWork,
           InBatch, Transaction
  <2>2. Marked(p)' /\ InCall(p)' /\ Transaction(p)'
    BY ZenonT(30) DEF CacheTypeOK, Instance, Marked, InBatch, InCall, Transaction
  <2> QED
    BY <2>1, <2>2 DEF Instance
<1>4. ASSUME NEW q \in Owners \ {p} PROVE Instance(q)'
  BY OthersClosed DEF CacheTypeOK
<1> QED
  BY <1>1, <1>2, <1>3, <1>4

(* The disk was never touched, so the marker is still there.               *)
LEMMA RollbackKeeps ==
  ASSUME CacheInv, NEW p \in Owners, Rollback(p)
  PROVE  CacheInv'
<1> USE DEF CacheInv, Rollback, Goto, diskVars, lockVars, batchVars, history
<1>1. CacheTypeOK'
  BY DEF CacheTypeOK, Steps, TransactionSteps
<1>2. Markers'
  BY DEF CacheTypeOK, Markers, CommittedLeavesNoMarker, InterruptionLeavesMarker
<1>3. Instance(p)'
  BY DEF CacheTypeOK, Instance, HoldsLock, Connected, Identified, AtWork, InBatch,
         Marked, InCall, Transaction
<1>4. ASSUME NEW q \in Owners \ {p} PROVE Instance(q)'
  BY OthersClosed DEF CacheTypeOK
<1> QED
  BY <1>1, <1>2, <1>3, <1>4

(* The marker dropped belongs to no committed or interrupted batch.        *)
LEMMA DeletePendingMarkerKeeps ==
  ASSUME CacheInv, NEW p \in Owners, DeletePendingMarker(p)
  PROVE  CacheInv'
<1> USE DEF CacheInv, DeletePendingMarker, Goto, diskVars, lockVars, batchVars,
           history
<1>1. CacheTypeOK'
  <2>1. [disk EXCEPT !.markers = @ \ {token[p]}] \in Disk
    BY DEF CacheTypeOK, Disk
  <2>2. disk' \in Disk
    BY <2>1 DEF CacheTypeOK
  <2> QED
    BY <2>2 DEF CacheTypeOK, Steps, TransactionSteps
<1>2. Markers'
  BY DEF CacheTypeOK, Markers, CommittedLeavesNoMarker, InterruptionLeavesMarker,
         Instance, Marked, InBatch, Disk
<1>3. Instance(p)'
  BY ZenonT(30) DEF CacheTypeOK, Instance, HoldsLock, Connected, Identified, AtWork, InBatch,
         Disk, Marked, InCall, Transaction
<1>4. ASSUME NEW q \in Owners \ {p} PROVE Instance(q)'
  BY OthersClosed DEF CacheTypeOK
<1> QED
  BY <1>1, <1>2, <1>3, <1>4

(* The lock outlives the connection: closing starts by disconnecting.      *)
LEMMA CloseKeeps ==
  ASSUME CacheInv, NEW p \in Owners, Close(p)
  PROVE  CacheInv'
<1> USE DEF CacheInv, Close, Goto, diskVars, lockVars, batchVars, history
<1>1. CacheTypeOK'
  BY DEF CacheTypeOK, Steps, TransactionSteps
<1>2. Markers'
  BY DEF CacheTypeOK, Markers, CommittedLeavesNoMarker, InterruptionLeavesMarker
<1>3. Instance(p)'
  BY DEF CacheTypeOK, Instance, HoldsLock, Connected, Identified, AtWork, InBatch,
         Marked, InCall, Transaction
<1>4. ASSUME NEW q \in Owners \ {p} PROVE Instance(q)'
  BY OthersClosed DEF CacheTypeOK
<1> QED
  BY <1>1, <1>2, <1>3, <1>4

(* The connection goes while the lock is still held.                       *)
LEMMA DisconnectKeeps ==
  ASSUME CacheInv, NEW p \in Owners, Disconnect(p)
  PROVE  CacheInv'
<1> USE DEF CacheInv, Disconnect, Goto, diskVars, lockVars, batchVars, history
<1>1. CacheTypeOK'
  BY DEF CacheTypeOK, Steps, TransactionSteps
<1>2. Markers'
  BY DEF CacheTypeOK, Markers, CommittedLeavesNoMarker, InterruptionLeavesMarker
<1>3. Instance(p)'
  BY DEF CacheTypeOK, Instance, HoldsLock, Connected, Identified, AtWork, InBatch,
         Marked, InCall, Transaction
<1>4. ASSUME NEW q \in Owners \ {p} PROVE Instance(q)'
  BY OthersClosed DEF CacheTypeOK
<1> QED
  BY <1>1, <1>2, <1>3, <1>4

(* Only an instance that has disconnected gives the lock back.             *)
LEMMA UnlockKeeps ==
  ASSUME CacheInv, NEW p \in Owners, Unlock(p)
  PROVE  CacheInv'
<1> USE DEF CacheInv, Unlock, Goto, diskVars, lockVars, batchVars, history
<1>1. CacheTypeOK'
  BY DEF CacheTypeOK, Steps, TransactionSteps
<1>2. Markers'
  BY DEF CacheTypeOK, Markers, CommittedLeavesNoMarker, InterruptionLeavesMarker
<1>3. Instance(p)'
  BY DEF CacheTypeOK, Instance, HoldsLock, Connected, Identified, AtWork, InBatch,
         Marked, InCall, Transaction
<1>4. ASSUME NEW q \in Owners \ {p} PROVE Instance(q)'
  BY OthersClosed DEF CacheTypeOK
<1> QED
  BY <1>1, <1>2, <1>3, <1>4

(* The batch cut off has its marker on disk; nothing else of the instance  *)
(* remains.                                                                *)
LEMMA CrashKeeps ==
  ASSUME CacheInv, NEW p \in Owners, Crash(p)
  PROVE  CacheInv'
<1> USE DEF CacheInv, Crash, Goto, diskVars, lockVars, batchVars, history
<1>1. CacheTypeOK'
  <2>1. pc[p] \in InBatch => token[p] \in Tokens
    BY DEF CacheTypeOK, Instance, Marked, Disk
  <2>2. interrupted' \subseteq Tokens
    BY <2>1 DEF CacheTypeOK, InBatch
  <2>3. crashes' \in 0..MaxCrashes
    BY BoundsAssumption DEF CacheTypeOK
  <2> QED
    BY <2>2, <2>3 DEF CacheTypeOK, Steps, TransactionSteps
<1>2. Markers'
  BY DEF CacheTypeOK, Markers, CommittedLeavesNoMarker, InterruptionLeavesMarker,
         Instance, Marked, InBatch
<1>3. Instance(p)'
  BY DEF CacheTypeOK, Instance, HoldsLock, Connected, Identified, AtWork, InBatch,
         Marked, InCall, Transaction
<1>4. ASSUME NEW q \in Owners \ {p} PROVE Instance(q)'
  BY OthersClosed DEF CacheTypeOK
<1> QED
  BY <1>1, <1>2, <1>3, <1>4

-----------------------------------------------------------------------------
(* The invariant is kept by every step.                                    *)
LEMMA CacheNextInv == CacheInv /\ [CacheNext]_cacheVars => CacheInv'
<1> SUFFICES ASSUME CacheInv, [CacheNext]_cacheVars PROVE CacheInv'
  OBVIOUS
<1>1. CASE UNCHANGED cacheVars
  BY SMTT(30), <1>1 DEF cacheVars, diskVars, lockVars, batchVars, history, CacheInv, CacheTypeOK,
              Markers, CommittedLeavesNoMarker, InterruptionLeavesMarker,
              Instance, HoldsLock, Connected, Identified, Marked, InCall,
              Transaction, Written
<1>2. ASSUME NEW p \in Owners, Open(p) PROVE CacheInv'
  BY <1>2, OpenLockKeeps, OpenConnectionKeeps, InspectKeeps,
     InitializeSchemaKeeps, InitCommitKeeps, RecoverAndRegisterKeeps,
     RecoverCommitKeeps DEF Open
<1>3. ASSUME NEW p \in Owners, CommitBatch(p) PROVE CacheInv'
  BY <1>3, RecordMarkerKeeps, BeginImmediateKeeps, WritePageKeeps,
     DeleteMarkerKeeps, CommitKeeps, RollbackKeeps, DeletePendingMarkerKeeps
     DEF CommitBatch
<1>4. ASSUME NEW p \in Owners,
             Close(p) \/ Disconnect(p) \/ Unlock(p) \/ Crash(p)
      PROVE  CacheInv'
  BY <1>4, CloseKeeps, DisconnectKeeps, UnlockKeeps, CrashKeeps
<1> QED
  BY <1>1, <1>2, <1>3, <1>4 DEF CacheNext

(* The invariant holds in every state, so each instance at work holds the  *)
(* live lock and its transaction is the disk with the keys written so far. *)
THEOREM CacheInvariant == CacheSpec => []CacheInv
  BY CacheInitInv, CacheNextInv, PTL DEF CacheSpec

(* Types, and a transaction is open only inside the operation that began   *)
(* it, whatever fails or dies.                                             *)
THEOREM CacheTypeCorrect == CacheSpec => []CacheTypeOK
<1>1. CacheInv => CacheTypeOK
  BY DEF CacheInv
<1> QED
  BY <1>1, CacheInvariant, PTL

(* However many instances share the database, at most one is connected,    *)
(* and under a live lock of its own.                                       *)
THEOREM OneConnection == CacheSpec => []SingleConnection
<1>1. CacheInv => SingleConnection
  BY BatchesAssumption DEF CacheInv, CacheTypeOK, Instance, HoldsLock, Connected, SingleConnection
<1> QED
  BY <1>1, CacheInvariant, PTL

(* A committed batch is never found abandoned by a later open.             *)
THEOREM CommittedUnmarked == CacheSpec => []CommittedLeavesNoMarker
<1>1. CacheInv => CommittedLeavesNoMarker
  BY DEF CacheInv, Markers
<1> QED
  BY <1>1, CacheInvariant, PTL

(* The marker of a batch that a dead process left is there until an open   *)
(* has recovered it.                                                       *)
THEOREM InterruptedMarked == CacheSpec => []InterruptionLeavesMarker
<1>1. CacheInv => InterruptionLeavesMarker
  BY DEF CacheInv, Markers
<1> QED
  BY <1>1, CacheInvariant, PTL

(* A step that writes comes after the database was identified as ours.     *)
LEMMA ForeignStep ==
  ASSUME CacheInv, [CacheNext]_cacheVars, disk.schema = "foreign"
  PROVE  disk' = disk
<1>1. ASSUME NEW p \in Owners PROVE pc[p] \notin AtWork
  BY DEF CacheInv, Instance, Identified
<1>2. ASSUME NEW p \in Owners, Open(p) PROVE disk' = disk
  BY <1>1, <1>2 DEF Open, OpenLock, OpenConnection, Inspect, InitializeSchema,
     InitCommit, RecoverAndRegister, RecoverCommit, InTransaction, AtWork, diskVars
<1>3. ASSUME NEW p \in Owners, CommitBatch(p) PROVE disk' = disk
  BY <1>1, <1>3 DEF CommitBatch, RecordMarker, BeginImmediate, WritePage,
     DeleteMarker, Commit, Rollback, DeletePendingMarker, AtWork, InBatch
<1>4. ASSUME NEW p \in Owners,
             Close(p) \/ Disconnect(p) \/ Unlock(p) \/ Crash(p)
      PROVE  disk' = disk
  BY <1>4 DEF Close, Disconnect, Unlock, Crash, diskVars
<1> QED
  BY <1>2, <1>3, <1>4 DEF CacheNext, cacheVars, diskVars

(* A database of another application, or of another schema version, is     *)
(* never written.                                                          *)
THEOREM ForeignKept == CacheSpec => ForeignUntouched
<1>1. CacheInv /\ [CacheNext]_cacheVars => [disk.schema = "foreign" => disk' = disk]_cacheVars
  BY ForeignStep
<1> QED
  BY <1>1, CacheInvariant, PTL DEF CacheSpec, ForeignUntouched

-----------------------------------------------------------------------------
(* PagedCache implements BatchStore: RecordMarker begins a batch, the      *)
(* COMMIT that succeeds makes it visible, the cleanup of a failed batch    *)
(* and a crash end it, and every other step changes neither page nor call. *)
LEMMA CommitShowsBatch ==
  ASSUME CacheInv, NEW p \in Owners, pc[p] = "commit"
  PROVE  tx[p].pages = [disk.pages EXCEPT ![call[p].space] = Overwrite(@, call[p].batch)]
<1>1. /\ tx[p].pages = [disk.pages EXCEPT ![space[p]] = Written(p)]
      /\ call[p].space = space[p] /\ todo[p] = {}
  BY DEF CacheInv, Instance, InCall, InBatch, Transaction
<1>2. disk.pages \in [Namespaces -> [Keys -> Stored]] /\ space[p] \in Namespaces
  BY DEF CacheInv, CacheTypeOK, Disk
<1>3. Written(p) = Overwrite(disk.pages[space[p]], call[p].batch)
  BY <1>1, <1>2 DEF Written, Overwrite
<1> QED
  BY <1>1, <1>3

(* A step that stays inside or outside a call, and writes no page.         *)
LEMMA OpenAtomic ==
  ASSUME CacheInv, NEW p \in Owners, Open(p)
  PROVE  UNCHANGED <<disk.pages, call>>
<1>1. pc[p] \in {"initCommit", "recoverCommit"} => tx[p].pages = disk.pages
  BY DEF CacheInv, Instance, Transaction
<1> QED
  BY <1>1 DEF Open, OpenLock, OpenConnection, Inspect, InitializeSchema, InitCommit,
     RecoverAndRegister, RecoverCommit, InTransaction, diskVars, batchVars

(* The steps of one commitBatch call.                                      *)
LEMMA CommitBatchAtomic ==
  ASSUME CacheInv, NEW p \in Owners, CommitBatch(p)
  PROVE  [Atomic!Next]_(Atomic!vars)
<1> USE DEF Atomic!Next, Atomic!vars
<1>0. disk \in Disk /\ call \in [Owners -> Calls \cup {Idle}]
  BY DEF CacheInv, CacheTypeOK
<1>1. pc[p] \in InBatch => call[p] # Idle
  BY BatchesAssumption DEF CacheInv, Instance, InCall, Calls
<1>2. ASSUME NEW b \in Batches, RecordMarker(p, b) PROVE Atomic!Begin(p)
  <2>1. call[p] = Idle
    BY <1>2 DEF RecordMarker, CacheInv, Instance, InCall, InBatch
  <2>2. [space |-> space[p], batch |-> b] \in Calls
    BY DEF CacheInv, CacheTypeOK, Calls
  <2>3. disk'.pages = disk.pages
    BY <1>0, <1>2 DEF RecordMarker, WithMarker, Disk
  <2> QED
    BY <1>2, <2>1, <2>2, <2>3 DEF RecordMarker, Atomic!Begin, Atomic!Calls, Calls
<1>3. CASE BeginImmediate(p) \/ WritePage(p) \/ DeleteMarker(p) \/ Rollback(p)
  BY <1>3 DEF BeginImmediate, WritePage, DeleteMarker, Rollback, batchVars
<1>4. CASE Commit(p)
  <2>1. CASE UNCHANGED <<disk, call>>
    BY <2>1
  <2>2. CASE disk' = tx[p] /\ call' = [call EXCEPT ![p] = Idle]
    <3>1. disk'.pages = [disk.pages EXCEPT ![call[p].space] = Overwrite(@, call[p].batch)]
      BY <1>4, <2>2, CommitShowsBatch DEF Commit
    <3>2. call[p] # Idle
      BY <1>1, <1>4 DEF Commit, InBatch
    <3>3. Atomic!Succeed(p)
      BY <2>2, <3>1, <3>2 DEF Atomic!Succeed, Atomic!Overwrite, Overwrite
    <3> QED
      BY <3>3
  <2> QED
    BY <1>4, <2>1, <2>2 DEF Commit
<1>5. CASE DeletePendingMarker(p)
  <2>1. disk'.pages = disk.pages /\ call[p] # Idle
    BY <1>0, <1>1, <1>5 DEF DeletePendingMarker, Disk, InBatch
  <2>2. Atomic!Fail(p)
    BY <1>5, <2>1 DEF DeletePendingMarker, Atomic!Fail
  <2> QED
    BY <2>2
<1> QED
  BY <1>2, <1>3, <1>4, <1>5 DEF CommitBatch

(* A process that dies fails its batch, if it is in one.                   *)
LEMMA CrashAtomic ==
  ASSUME CacheInv, NEW p \in Owners, Crash(p)
  PROVE  [Atomic!Next]_(Atomic!vars)
<1>1. /\ disk' = disk /\ call' = [call EXCEPT ![p] = Idle]
      /\ call \in [Owners -> Calls \cup {Idle}]
  BY DEF Crash, CacheInv, CacheTypeOK
<1>2. CASE call[p] = Idle
  BY <1>1, <1>2 DEF Atomic!vars
<1>3. CASE call[p] # Idle
  BY <1>1, <1>3 DEF Atomic!Next, Atomic!Fail
<1> QED
  BY <1>2, <1>3

(* commitBatch is atomic and honest: its pages become visible together     *)
(* when it succeeds, and none of them when it fails or its process dies.   *)
THEOREM BatchesAtomic == CacheSpec => AtomicBatches
<1>1. CacheInit => Atomic!Init
  BY DEF CacheInit, NoPages, Stored, Atomic!Init, Atomic!Stored
<1>2. ASSUME CacheInv, [CacheNext]_cacheVars PROVE [Atomic!Next]_(Atomic!vars)
  <2>1. ASSUME NEW p \in Owners, Open(p) PROVE [Atomic!Next]_(Atomic!vars)
    BY <1>2, <2>1, OpenAtomic DEF Atomic!vars
  <2>2. ASSUME NEW p \in Owners, Close(p) \/ Disconnect(p) \/ Unlock(p)
        PROVE  [Atomic!Next]_(Atomic!vars)
    BY <2>2 DEF Close, Disconnect, Unlock, diskVars, batchVars, Atomic!vars
  <2>3. CASE UNCHANGED cacheVars
    BY <2>3 DEF cacheVars, diskVars, batchVars, Atomic!vars
  <2> QED
    BY <1>2, <2>1, <2>2, <2>3, CommitBatchAtomic, CrashAtomic DEF CacheNext
<1> QED
  BY <1>1, <1>2, CacheInvariant, PTL DEF CacheSpec, AtomicBatches, Atomic!Spec

=============================================================================
