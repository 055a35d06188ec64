----------------------- MODULE AnalysisSession_proof -----------------------
(***************************************************************************)
(* Proofs about the two halves of AnalysisSession.                         *)
(*                                                                         *)
(* The write path of the cache (AnalysisSessionCache), for any rules, any  *)
(* number of index updates, of activations and of overrides, and a service *)
(* that answers at any time.  IInv is its inductive invariant: it ties the *)
(* page number to the number of updates as long as the cache is active,    *)
(* and the two flags of an analysis to what the log of the present owner   *)
(* holds.                                                                  *)
(*                                                                         *)
(* Navigation (SessionNavigation), for any tracks, samples and child       *)
(* formats, and any number of interruptions.  NavInv is its inductive      *)
(* invariant: it speaks of what is kept between calls, and during a call   *)
(* of what the call has added to it.  RulesInv, on top of it, speaks of    *)
(* definitions: what every result that could be shown again was decoded    *)
(* against.  It rests on lemmas about directories: what a registration at  *)
(* a position leaves alone.                                                *)
(***************************************************************************)
EXTENDS AnalysisSessionCache, SessionNavigation, AnalysisTree_proof

Entries == [request : Writes, reply : Reply \cup {Pending}]

(* A request that writes each page under its own name.                     *)
Genuine(request) == \A k \in DOMAIN request.pages : request.pages[k] = k

(* Nothing else is on disk, or on its way to it.                           *)
StoreGenuine == \A k \in Keys : store[k] \in {Missing, k}
LogGenuine   == \A i \in DOMAIN log : Genuine(log[i].request)

(* An active cache has an owner and has given each update a page, until the *)
(* session is gone.                                                        *)
InStep == status = "Active" /\ spc # "gone" => owner /\ nextIndex = produced

(* Before its first batch an analysis has left no trace, and only then may *)
(* a new owner be started.                                                 *)
Untouched ==
  /\ ~started => produced = 0 /\ nextIndex = 0 /\ ~finished /\ ~submitted
  /\ spc = "enable" => ~started

(* What an active cache has been given: ActiveIsComplete without regard to *)
(* an operation that waits, and with what the flag for the result means.   *)
LogComplete ==
  status = "Active" =>
    /\ \A n \in 0..(produced - 1) :
         Write(IndexPage(rule, n), IndexPage(rule, n)) \in Submitted
    /\ finished => submitted
    /\ submitted => Write(ResultPage(rule), ResultPage(rule)) \in Submitted

IInv == /\ TypeOK
        /\ StoreGenuine /\ LogGenuine
        /\ InStep /\ Untouched /\ LogComplete

-----------------------------------------------------------------------------

(* The pages of the current rule are keys of the store.                    *)
LEMMA PagesAreKeys ==
  /\ \A r \in IndexedRules, n \in 0..MaxUpdates : IndexPage(r, n) \in Keys
  /\ \A r \in Rules : ResultPage(r) \in Keys
  /\ Keys = Values
BY PagesAssumption DEF PageNames

(* A page written under its own name is a genuine write of the session.    *)
LEMMA WriteGenuine ==
  ASSUME NEW k \in Keys
  PROVE  /\ Write(k, k) \in Writes /\ Genuine(Write(k, k))
         /\ Service!Entry(Write(k, k)) \in Entries
         /\ Service!Entry(Write(k, k)).request = Write(k, k)
<1>1. Write(k, k) \in Writes
  BY PagesAreKeys DEF Writes
<1>2. Genuine(Write(k, k))
  BY DEF Genuine, Write
<1> QED
  BY <1>1, <1>2 DEF Service!Entry, Entries

(* Appending entries to the log adds their requests to what was submitted. *)
LEMMA Appending ==
  ASSUME log \in Seq(Entries), NEW a \in Seq(Entries), log' = log \o a
  PROVE  /\ log' \in Seq(Entries)
         /\ Len(log') = Len(log) + Len(a)
         /\ Submitted' = Submitted \cup {a[i].request : i \in DOMAIN a}
<1>1. /\ log' \in Seq(Entries) /\ Len(log') = Len(log) + Len(a)
      /\ DOMAIN log' = 1..(Len(log) + Len(a))
      /\ DOMAIN log = 1..Len(log) /\ DOMAIN a = 1..Len(a)
  OBVIOUS
<1>2. \A i \in 1..Len(log) : log'[i] = log[i]
  OBVIOUS
<1>3. \A i \in 1..Len(a) : log'[Len(log) + i] = a[i]
  OBVIOUS
<1>4. Submitted \subseteq Submitted'
  BY <1>1, <1>2 DEF Submitted
<1>5. {a[i].request : i \in DOMAIN a} \subseteq Submitted'
  <2> SUFFICES ASSUME NEW i \in 1..Len(a) PROVE a[i].request \in Submitted'
    BY <1>1
  <2>1. Len(log) + i \in DOMAIN log'
    BY <1>1
  <2> QED
    BY <2>1, <1>3 DEF Submitted
<1>6. Submitted' \subseteq Submitted \cup {a[i].request : i \in DOMAIN a}
  <2> SUFFICES ASSUME NEW i \in DOMAIN log'
               PROVE  log'[i].request \in Submitted \cup {a[j].request : j \in DOMAIN a}
    BY DEF Submitted
  <2>1. CASE i \in 1..Len(log)
    BY <2>1, <1>1, <1>2 DEF Submitted
  <2>2. CASE i \notin 1..Len(log)
    <3>1. i - Len(log) \in DOMAIN a /\ log'[i] = a[i - Len(log)]
      BY <2>2, <1>1, <1>3
    <3> QED
      BY <3>1
  <2> QED
    BY <2>1, <2>2
<1> QED
  BY <1>1, <1>4, <1>5, <1>6

(* A log is genuine when every request submitted is.                       *)
LEMMA LogBySubmitted == LogGenuine <=> \A w \in Submitted : Genuine(w)
BY DEF LogGenuine, Submitted

(* The same, of the log after a step.                                      *)
LEMMA LogBySubmittedNext == LogGenuine' <=> \A w \in Submitted' : Genuine(w)
BY DEF LogGenuine, Submitted, Genuine

-----------------------------------------------------------------------------

(* A cache that is set up has an owner or is not active.                   *)
LEMMA SetupTypes ==
  ASSUME NEW s \in CacheSetups \cup {NoCache}
  PROVE  /\ s.status \in {"Disabled", "Active", "Failed"} /\ s.owner \in BOOLEAN
         /\ s.phase \in {"starting", "admitting", "draining", "closed"}
         /\ s.status = "Active" => s.owner
<1>1. CASE s = [status |-> "Active", owner |-> TRUE, phase |-> "admitting"]
  <2>1. s.owner = TRUE
    BY <1>1, Zenon
  <2> QED
    BY <1>1, <2>1
<1>2. CASE s = [status |-> "Failed", owner |-> FALSE, phase |-> "closed"]
  <2>1. s.owner = FALSE
    BY <1>2, Zenon
  <2> QED
    BY <1>2, <2>1
<1>3. CASE s = [status |-> "Disabled", owner |-> FALSE, phase |-> "closed"]
  <2>1. s.owner = FALSE
    BY <1>3, Zenon
  <2> QED
    BY <1>3, <2>1
<1> QED
  BY <1>1, <1>2, <1>3 DEF CacheSetups, NoCache

LEMMA InitInv == Init => IInv
<1> SUFFICES ASSUME Init PROVE IInv
  OBVIOUS
<1>1. /\ status \in {"Disabled", "Active", "Failed"} /\ owner \in BOOLEAN
      /\ phase \in {"starting", "admitting", "draining", "closed"}
      /\ status = "Active" => owner
  BY SetupTypes DEF Init
<1>2. TypeOK
  <2>1. log \in Seq([request : Writes, reply : Reply \cup {Pending}])
        /\ pending \subseteq DOMAIN log
    BY DEF Init
  <2>2. store \in [Keys -> Stored]
    BY DEF Init, Stored
  <2>3. /\ submitted = FALSE /\ started = FALSE /\ finished = FALSE /\ nextIndex \in Nat
        /\ produced \in 0..MaxUpdates /\ rule \in Rules /\ spc = "ready"
        /\ performed \in Nat /\ inHand = Pending
    BY RulesAssumption DEF Init
  <2> QED
    BY <1>1, <2>1, <2>2, <2>3 DEF TypeOK
<1>3. StoreGenuine /\ LogGenuine
  BY DEF Init, StoreGenuine, LogGenuine
<1>4. InStep /\ Untouched
  BY <1>1 DEF Init, InStep, Untouched
<1>5. LogComplete
  BY DEF Init, LogComplete
<1> QED
  BY <1>2, <1>3, <1>4, <1>5 DEF IInv

LEMMA PollInv ==
  ASSUME IInv, PollCacheWrites
  PROVE  IInv'
<1> USE DEF IInv, PollCacheWrites, analysis, service
<1>1. status' \in {status, "Failed"}
  BY DEF StatusAfterPoll
<1>2. TypeOK'
  BY <1>1 DEF TypeOK
<1>3. StoreGenuine' /\ LogGenuine'
  BY DEF StoreGenuine, LogGenuine
<1>4. InStep' /\ Untouched'
  BY <1>1 DEF InStep, Untouched
<1>5. LogComplete'
  BY <1>1 DEF LogComplete, Submitted
<1> QED
  BY <1>2, <1>3, <1>4, <1>5

(* A waiting operation changes nothing but the phase of the service.       *)
LEMMA ResetInv ==
  ASSUME IInv, NEW op \in {"override", "enable", "destroy"}, ResetOwner(op),
         spc = "ready", op = "enable" => ~started
  PROVE  IInv'
<1> USE DEF IInv, ResetOwner, analysis, writing
<1>1. TypeOK'
  BY DEF TypeOK
<1>2. StoreGenuine' /\ LogGenuine'
  BY DEF StoreGenuine, LogGenuine
<1>3. InStep' /\ Untouched'
  BY DEF InStep, Untouched
<1>4. LogComplete'
  BY DEF LogComplete, Submitted
<1> QED
  BY <1>1, <1>2, <1>3, <1>4

LEMMA EnableInv ==
  ASSUME IInv, EnableCache
  PROVE  IInv'
<1>1. CASE started
  <2>1. /\ status' = "Failed"
        /\ UNCHANGED <<pending, nextIndex, submitted, owner, analysis, spc, service>>
    BY <1>1 DEF EnableCache, TooLateToEnable
  <2> USE <2>1 DEF IInv, analysis, service
  <2>2. TypeOK' /\ StoreGenuine' /\ LogGenuine'
    BY DEF TypeOK, StoreGenuine, LogGenuine
  <2>3. InStep' /\ Untouched' /\ LogComplete'
    BY DEF InStep, Untouched, LogComplete
  <2> QED
    BY <2>2, <2>3
<1>2. CASE ~started
  BY <1>2, ResetInv DEF EnableCache, TooLateToEnable
<1> QED
  BY <1>1, <1>2

LEMMA FinishOverrideInv ==
  ASSUME IInv, FinishOverride
  PROVE  IInv'
<1> USE DEF IInv, FinishOverride, ResetPublication, NewService
<1>1. TypeOK'
  <2>1. /\ status' = "Disabled" /\ owner' = FALSE /\ submitted' = FALSE
        /\ started' = FALSE /\ finished' = FALSE /\ spc' = "ready" /\ rule' \in Rules
        /\ nextIndex' = 0 /\ produced' = 0 /\ produced' \in 0..MaxUpdates
    BY RulesAssumption
  <2>2. /\ log' = <<>> /\ pending' = {} /\ performed' = 0 /\ inHand' = Pending
        /\ phase' = phase /\ store' = store
    OBVIOUS
  <2>3. /\ log' \in Seq([request : Writes, reply : Reply \cup {Pending}])
        /\ pending' \subseteq DOMAIN log'
    BY <2>2
  <2>4. phase \in {"starting", "admitting", "draining", "closed"} /\ store \in [Keys -> Stored]
    BY DEF TypeOK
  <2> HIDE DEF IInv, FinishOverride, ResetPublication, NewService
  <2> QED
    BY <2>1, <2>2, <2>3, <2>4 DEF TypeOK
<1>2. StoreGenuine' /\ LogGenuine'
  BY DEF StoreGenuine, LogGenuine
<1>3. InStep' /\ Untouched' /\ LogComplete'
  BY DEF InStep, Untouched, LogComplete
<1> QED
  BY <1>1, <1>2, <1>3

LEMMA FinishEnableInv ==
  ASSUME IInv, FinishEnable
  PROVE  IInv'
<1> USE DEF IInv, FinishEnable, NewService, analysis
<1>1. /\ status' \in {"Disabled", "Active", "Failed"} /\ owner' \in BOOLEAN
      /\ phase' \in {"starting", "admitting", "draining", "closed"}
      /\ status' = "Active" => owner'
  <2>1. PICK s \in CacheSetups : status' = s.status /\ owner' = s.owner /\ phase' = s.phase
    OBVIOUS
  <2> QED
    BY <2>1, SetupTypes
<1>2. ~started /\ produced = 0 /\ nextIndex = 0 /\ ~finished /\ ~submitted
  BY DEF Untouched, OwnerClosed
<1>3. TypeOK'
  BY <1>1 DEF TypeOK
<1>4. StoreGenuine' /\ LogGenuine'
  BY DEF StoreGenuine, LogGenuine
<1>5. InStep' /\ Untouched' /\ LogComplete'
  BY <1>1, <1>2 DEF InStep, Untouched, LogComplete
<1> QED
  BY <1>3, <1>4, <1>5

LEMMA FinishDestroyInv ==
  ASSUME IInv, FinishDestroy
  PROVE  IInv'
<1> USE DEF IInv, FinishDestroy, writing, analysis, service
<1>1. TypeOK' /\ StoreGenuine' /\ LogGenuine'
  BY DEF TypeOK, StoreGenuine, LogGenuine
<1>2. InStep' /\ Untouched' /\ LogComplete'
  BY DEF InStep, Untouched, LogComplete, Submitted
<1> QED
  BY <1>1, <1>2

(* The worker carries out a genuine write or leaves the store as it is.    *)
LEMMA PerformInv ==
  ASSUME IInv, Service!Perform, UNCHANGED <<writing, owner, analysis, spc>>
  PROVE  IInv'
<1> DEFINE r == log[performed + 1].request
<1>1. log \in Seq(Entries) /\ performed \in Nat /\ performed + 1 \in DOMAIN log
  BY DEF IInv, TypeOK, Entries, Service!Perform
<1>2. r \in Writes /\ Genuine(r)
  <2>1. log[performed + 1] \in Entries
    BY <1>1
  <2>2. Genuine(log[performed + 1].request)
    BY <1>1 DEF IInv, LogGenuine
  <2> QED
    BY <2>1, <2>2 DEF Entries
<1>3. PICK k \in Keys, v \in Values : r = Write(k, v)
  BY <1>2 DEF Writes
<1>4. r.op = "write" /\ DOMAIN r.pages = {k} /\ r.pages[k] = v /\ k = v
  BY <1>2, <1>3 DEF Write, Genuine
<1>5. PICK o \in Service!Outcomes(r, store) : inHand' = o.reply /\ store' = o.store
  BY DEF Service!Perform
<1>6. o \in {[reply |-> [status |-> "Committed"], store |-> Service!Overwrite(store, r.pages)],
              [reply |-> [status |-> "StorageError"], store |-> store]}
  BY <1>4, <1>5 DEF Service!Outcomes, Service!WriteOutcomes
<1>7. o.reply \in Reply
  BY <1>6 DEF Reply
<1>8. store' \in {store, Service!Overwrite(store, r.pages)}
  BY <1>5, <1>6
<1>9. /\ Service!Overwrite(store, r.pages) \in [Keys -> Stored]
      /\ \A q \in Keys : Service!Overwrite(store, r.pages)[q] \in {store[q], q}
  BY <1>4 DEF Service!Overwrite, IInv, TypeOK, Stored
<1>10. UNCHANGED <<phase, log, status, pending, nextIndex, submitted, owner, started,
                   finished, produced, rule, spc>> /\ performed' = performed + 1
  BY DEF Service!Perform, writing, analysis
<1>11. TypeOK'
  <2>1. store' \in [Keys -> Stored] /\ inHand' \in Reply \cup {Pending}
        /\ performed' \in Nat
    BY <1>1, <1>5, <1>7, <1>8, <1>9, <1>10 DEF IInv, TypeOK
  <2> QED
    BY <1>10, <2>1 DEF IInv, TypeOK
<1>12. StoreGenuine' /\ LogGenuine'
  BY <1>8, <1>9, <1>10 DEF IInv, StoreGenuine, LogGenuine
<1>13. InStep' /\ Untouched' /\ LogComplete'
  BY <1>10 DEF IInv, InStep, Untouched, LogComplete, Submitted
<1> QED
  BY <1>11, <1>12, <1>13 DEF IInv

(* An answer changes no request.                                           *)
LEMMA AnswerInv ==
  ASSUME IInv, Service!Answer, UNCHANGED <<writing, owner, analysis, spc>>
  PROVE  IInv'
<1>1. log \in Seq(Entries) /\ inHand \in Reply \cup {Pending}
  BY DEF IInv, TypeOK, Entries
<1>2. log' = [log EXCEPT ![performed].reply = inHand] /\ inHand' = Pending
      /\ UNCHANGED <<phase, performed, store, status, pending, nextIndex, submitted, owner,
                     started, finished, produced, rule, spc>>
  BY DEF Service!Answer, writing, analysis
<1>3. DOMAIN log' = DOMAIN log /\ Len(log') = Len(log)
  BY <1>1, <1>2
<1>4. \A i \in DOMAIN log : log'[i] \in Entries /\ log'[i].request = log[i].request
  <2> SUFFICES ASSUME NEW i \in DOMAIN log
               PROVE  log'[i] \in Entries /\ log'[i].request = log[i].request
    OBVIOUS
  <2>1. log[i] \in Entries
    BY <1>1
  <2>2. log'[i] = IF i = performed THEN [log[i] EXCEPT !.reply = inHand] ELSE log[i]
    BY <1>1, <1>2
  <2>3. /\ [log[i] EXCEPT !.reply = inHand] \in Entries
        /\ [log[i] EXCEPT !.reply = inHand].request = log[i].request
    BY <1>1, <2>1 DEF Entries
  <2> QED
    BY <2>1, <2>2, <2>3
<1>5. log' \in Seq(Entries)
  <2>1. log' = [i \in 1..Len(log) |-> log'[i]]
    <3>1. log = [i \in 1..Len(log) |-> log[i]]
      BY <1>1
    <3> DEFINE e == [log[performed] EXCEPT !.reply = inHand]
    <3>2. log' = [i \in DOMAIN log |-> IF i = performed THEN e ELSE log[i]]
      BY <1>2, <3>1
    <3>3. DOMAIN log = 1..Len(log)
      BY <1>1
    <3> HIDE DEF e
    <3> QED
      BY <3>2, <3>3
  <2>2. \A i \in 1..Len(log) : log'[i] \in Entries
    BY <1>1, <1>4
  <2>3. Len(log) \in Nat
    BY <1>1
  <2> DEFINE f == log'
  <2>4. f \in [1..Len(log) -> Entries]
    BY <2>1, <2>2
  <2> HIDE DEF f
  <2>5. f \in Seq(Entries)
    BY <2>3, <2>4
  <2> QED
    BY <2>5 DEF f
<1>6. Submitted' = Submitted
  BY <1>3, <1>4 DEF Submitted
<1>7. TypeOK'
  BY <1>2, <1>3, <1>5 DEF IInv, TypeOK, Entries
<1>8. StoreGenuine' /\ LogGenuine'
  BY <1>2, <1>6, LogBySubmitted, LogBySubmittedNext DEF IInv, StoreGenuine
<1>9. InStep' /\ Untouched' /\ LogComplete'
  BY <1>2, <1>6 DEF IInv, InStep, Untouched, LogComplete
<1> QED
  BY <1>7, <1>8, <1>9 DEF IInv

LEMMA CloseInv ==
  ASSUME IInv, Service!Close, UNCHANGED <<writing, owner, analysis, spc>>
  PROVE  IInv'
<1> USE DEF IInv, Service!Close, writing, analysis
<1>1. TypeOK' /\ StoreGenuine' /\ LogGenuine'
  BY DEF TypeOK, StoreGenuine, LogGenuine
<1>2. InStep' /\ Untouched' /\ LogComplete'
  BY DEF InStep, Untouched, LogComplete, Submitted
<1> QED
  BY <1>1, <1>2

(* A batch: the pages it submits are genuine, and a cache that is still    *)
(* active after it has submitted all that was due.                         *)
LEMMA BatchInv ==
  ASSUME IInv, AnalyzeBatch
  PROVE  IInv'
<1>1. PICK b \in Batches, indexIn, exported, resultIn \in BOOLEAN :
        LET polled     == StatusAfterPoll
            writeIndex == b.update /\ polled = "Active" /\ owner
            indexPages    == writeIndex /\ indexIn
            current    == IF writeIndex THEN StatusAfterWrite(indexIn, polled) ELSE polled
            due        == ResultDue(current, b.terminal)
            resulted   == due /\ exported /\ resultIn
            admitted   ==
              (IF indexPages
               THEN <<Service!Entry(Write(IndexPage(rule, nextIndex),
                                          IndexPage(rule, produced)))>> ELSE <<>>)
              \o (IF resulted
                  THEN <<Service!Entry(Write(ResultPage(rule), ResultPage(rule)))>>
                  ELSE <<>>)
        IN /\ produced' = IF b.update THEN produced + 1 ELSE produced
           /\ finished' = b.terminal
           /\ nextIndex' = IF indexPages THEN nextIndex + 1 ELSE nextIndex
           /\ submitted' = (submitted \/ due)
           /\ status' = IF due /\ ~resulted THEN "Failed" ELSE current
           /\ log' = log \o admitted
           /\ pending' = (pending \ Answered)
                           \cup (Len(log) + 1)..(Len(log) + Len(admitted))
  BY Zenon DEF AnalyzeBatch
<1> DEFINE polled     == StatusAfterPoll
           writeIndex == b.update /\ polled = "Active" /\ owner
           indexPages    == writeIndex /\ indexIn
           current    == IF writeIndex THEN StatusAfterWrite(indexIn, polled) ELSE polled
           due        == ResultDue(current, b.terminal)
           resulted   == due /\ exported /\ resultIn
           page       == IndexPage(rule, produced)
           index      == IF indexPages THEN <<Service!Entry(Write(IndexPage(rule, nextIndex), page))>>
                         ELSE <<>>
           result     == IF resulted
                         THEN <<Service!Entry(Write(ResultPage(rule), ResultPage(rule)))>>
                         ELSE <<>>
<1>2. /\ started' = TRUE /\ spc = "ready"
      /\ UNCHANGED <<owner, rule, spc, phase, performed, inHand, store>>
  BY DEF AnalyzeBatch
<1>3. /\ produced' = IF b.update THEN produced + 1 ELSE produced
      /\ finished' = b.terminal
      /\ nextIndex' = IF indexPages THEN nextIndex + 1 ELSE nextIndex
      /\ submitted' = (submitted \/ due)
      /\ status' = IF due /\ ~resulted THEN "Failed" ELSE current
      /\ log' = log \o (index \o result)
      /\ pending' = (pending \ Answered)
                      \cup (Len(log) + 1)..(Len(log) + Len(index \o result))
  BY <1>1, Zenon
<1>4. /\ b.update \in BOOLEAN /\ b.terminal \in BOOLEAN
      /\ b.update => rule \in IndexedRules /\ produced < MaxUpdates
      /\ finished => b.terminal
  BY DEF Batches
<1>5. polled \in {"Disabled", "Active", "Failed"} /\ (polled = "Active" => status = "Active")
  BY DEF StatusAfterPoll, IInv, TypeOK
<1>6. polled = "Active" => owner /\ nextIndex = produced
  BY <1>2, <1>5 DEF IInv, InStep
<1>7. /\ current \in {"Disabled", "Active", "Failed"}
      /\ current = "Active" => polled = "Active" /\ (b.update => indexPages)
  BY <1>5, <1>6 DEF StatusAfterWrite
<1>8. produced \in 0..MaxUpdates /\ MaxUpdates \in Nat /\ rule \in Rules /\ nextIndex \in Nat
  BY RulesAssumption DEF IInv, TypeOK
<1>9. indexPages => /\ page \in Keys
                 /\ index = <<Service!Entry(Write(page, page))>>
  BY <1>4, <1>6, <1>8, PagesAreKeys
<1>10. ResultPage(rule) \in Keys
  BY <1>8, PagesAreKeys
<1>11. index \in Seq(Entries) /\ result \in Seq(Entries)
  BY <1>9, <1>10, WriteGenuine
<1>12. log \in Seq(Entries)
  BY DEF IInv, TypeOK, Entries
<1> DEFINE added == index \o result
           requests == {added[i].request : i \in DOMAIN added}
<1>13. /\ added \in Seq(Entries)
       /\ indexPages => \E i \in DOMAIN added : added[i] = Service!Entry(Write(page, page))
       /\ resulted => \E i \in DOMAIN added :
                        added[i] = Service!Entry(Write(ResultPage(rule), ResultPage(rule)))
       /\ \A i \in DOMAIN added :
            \/ indexPages /\ added[i] = Service!Entry(Write(page, page))
            \/ added[i] = Service!Entry(Write(ResultPage(rule), ResultPage(rule)))
  <2> HIDE DEF indexPages, resulted, page
  <2>1. CASE indexPages /\ resulted
    BY <1>9, <1>11, <2>1
  <2>2. CASE indexPages /\ ~resulted
    BY <1>9, <1>11, <2>2
  <2>3. CASE ~indexPages /\ resulted
    BY <1>11, <2>3
  <2>4. CASE ~indexPages /\ ~resulted
    BY <1>11, <2>4
  <2> QED
    BY <2>1, <2>2, <2>3, <2>4
<1> HIDE DEF index, result, added
<1>14. /\ log' \in Seq(Entries) /\ Len(log') = Len(log) + Len(added)
       /\ Submitted' = Submitted \cup requests
  BY <1>3, <1>12, <1>13, Appending DEF added
<1>15. /\ indexPages => Write(page, page) \in Submitted'
       /\ resulted => Write(ResultPage(rule), ResultPage(rule)) \in Submitted'
       /\ Submitted \subseteq Submitted'
       /\ \A w \in requests : Genuine(w)
  BY <1>9, <1>10, <1>13, <1>14, WriteGenuine
<1>16. TypeOK'
  <2>1. pending' \subseteq DOMAIN log'
    BY <1>3, <1>12, <1>13, <1>14 DEF added, IInv, TypeOK
  <2>2. /\ status' \in {"Disabled", "Active", "Failed"} /\ finished' \in BOOLEAN
        /\ submitted' \in BOOLEAN
    BY <1>3, <1>4, <1>7 DEF ResultDue, IInv, TypeOK
  <2>3. nextIndex' \in Nat /\ produced' \in 0..MaxUpdates
    BY <1>3, <1>4, <1>8
  <2> QED
    BY <1>2, <1>14, <2>1, <2>2, <2>3 DEF IInv, TypeOK, Entries
<1>17. StoreGenuine' /\ LogGenuine'
  BY <1>2, <1>14, <1>15, LogBySubmitted, LogBySubmittedNext DEF IInv, StoreGenuine
<1>18. status' = "Active" => current = "Active" /\ (due => resulted)
  BY <1>3
<1>19. InStep' /\ Untouched'
  BY <1>2, <1>3, <1>6, <1>7, <1>18 DEF InStep, Untouched
<1>20. LogComplete'
  <2> SUFFICES ASSUME status' = "Active"
               PROVE  /\ \A n \in 0..(produced' - 1) :
                           Write(IndexPage(rule, n), IndexPage(rule, n)) \in Submitted'
                      /\ finished' => submitted'
                      /\ submitted' => Write(ResultPage(rule), ResultPage(rule)) \in Submitted'
    BY <1>2 DEF LogComplete
  <2>1. current = "Active" /\ polled = "Active" /\ status = "Active" /\ owner
    BY <1>5, <1>6, <1>7, <1>18
  <2>2. /\ \A n \in 0..(produced - 1) :
             Write(IndexPage(rule, n), IndexPage(rule, n)) \in Submitted'
        /\ submitted => Write(ResultPage(rule), ResultPage(rule)) \in Submitted'
    BY <1>15, <2>1 DEF IInv, LogComplete
  <2>3. \A n \in 0..(produced' - 1) :
           Write(IndexPage(rule, n), IndexPage(rule, n)) \in Submitted'
    <3>1. CASE b.update
      <4>1. Write(IndexPage(rule, produced), IndexPage(rule, produced)) \in Submitted'
        BY <1>7, <1>15, <2>1, <3>1
      <4>2. produced' - 1 = produced
        BY <1>3, <1>8, <3>1
      <4>3. \A n \in 0..produced : n = produced \/ n \in 0..(produced - 1)
        BY <1>8
      <4> QED
        BY <2>2, <4>1, <4>2, <4>3
    <3>2. CASE ~b.update
      BY <1>3, <2>2, <3>2
    <3> QED
      BY <3>1, <3>2
  <2>4. submitted' => Write(ResultPage(rule), ResultPage(rule)) \in Submitted'
    BY <1>3, <1>15, <1>18, <2>2
  <2>5. finished' => submitted'
    BY <1>3, <2>1 DEF ResultDue
  <2> QED
    BY <2>3, <2>4, <2>5
<1> QED
  BY <1>16, <1>17, <1>19, <1>20 DEF IInv

-----------------------------------------------------------------------------

LEMMA StepInv == IInv /\ [Next]_vars => IInv'
<1> SUFFICES ASSUME IInv, [Next]_vars PROVE IInv'
  OBVIOUS
<1>1. CASE AnalyzeBatch
  BY <1>1, BatchInv
<1>2. CASE PollCacheWrites
  BY <1>2, PollInv
<1>3. CASE OverrideFormat \/ Destroy
  BY <1>3, ResetInv DEF OverrideFormat, Destroy
<1>4. CASE EnableCache
  BY <1>4, EnableInv
<1>5. CASE Finish
  BY <1>5, FinishOverrideInv, FinishEnableInv, FinishDestroyInv DEF Finish
<1>6. CASE Worker
  BY <1>6, PerformInv, AnswerInv, CloseInv DEF Worker
<1>7. CASE UNCHANGED vars
  <2> USE <1>7 DEF IInv, vars, writing, analysis, service
  <2>1. TypeOK' /\ StoreGenuine' /\ LogGenuine'
    BY DEF TypeOK, StoreGenuine, LogGenuine
  <2>2. InStep' /\ Untouched' /\ LogComplete'
    BY DEF InStep, Untouched, LogComplete, Submitted
  <2> QED
    BY <2>1, <2>2
<1> QED
  BY <1>1, <1>2, <1>3, <1>4, <1>5, <1>6, <1>7 DEF Next

(* The strengthened invariant, on which the results below rest.            *)
THEOREM InvariantHolds == Spec => []IInv
BY InitInv, StepInv, PTL DEF Spec

(* Every variable keeps its type, and what a session waits for are requests*)
(* of its present owner, however often the owner is replaced.              *)
THEOREM TypeCorrect == Spec => []TypeOK
<1>1. IInv => TypeOK
  BY DEF IInv
<1> QED
  BY <1>1, InvariantHolds, PTL

(* The index on disk: page i of a rule holds update i of an analysis under *)
(* it, whatever was refused, failed, activated late or overridden.         *)
THEOREM IndexGenuine == Spec => []IndexPagesGenuine
<1>1. IInv => IndexPagesGenuine
  BY PagesAreKeys DEF IInv, StoreGenuine, IndexPagesGenuine
<1> QED
  BY <1>1, InvariantHolds, PTL

(* The cache status shown: an active cache has accepted every update of    *)
(* the analysis so far, and its result once it has ended.                  *)
THEOREM ActiveMeansComplete == Spec => []ActiveIsComplete
<1>1. IInv => ActiveIsComplete
  BY DEF IInv, LogComplete, ActiveIsComplete
<1> QED
  BY <1>1, InvariantHolds, PTL

-----------------------------------------------------------------------------
(* The nodes kept for a set of tracks, in whatever order they are added.   *)

Nodes(kept, among) ==
  MapThenFoldSet(LAMBDA a, b : a + b, 0, LAMBDA k : Len(kept[k].tree),
                 LAMBDA s : CHOOSE x \in s : TRUE, among)

(* g adds up the weights F of any subset of S.                             *)
Measure(g, F, S) ==
  /\ g \in [SUBSET S -> Nat]
  /\ g[{}] = 0
  /\ \A T \in SUBSET S : \A x \in T : g[T] = F[x] + g[T \ {x}]

LEMMA MeasureExtends ==
  ASSUME NEW S, NEW F, \A i \in S : F[i] \in Nat, NEW m \in S,
         NEW g, Measure(g, F, S \ {m})
  PROVE  \E h : Measure(h, F, S)
<1> DEFINE R == S \ {m}
           h == [T \in SUBSET S |-> IF m \in T THEN F[m] + g[T \ {m}] ELSE g[T]]
<1>3. /\ g \in [SUBSET R -> Nat] /\ g[{}] = 0
      /\ \A T \in SUBSET R : \A x \in T : g[T] = F[x] + g[T \ {x}]
  BY DEF Measure
<1>4. ASSUME NEW T \in SUBSET S
      PROVE  /\ T \ {m} \in SUBSET R /\ g[T \ {m}] \in Nat
             /\ m \notin T => T \in SUBSET R /\ g[T] \in Nat
             /\ h[T] = IF m \in T THEN F[m] + g[T \ {m}] ELSE g[T]
  <2>1. T \ {m} \in SUBSET R /\ (m \notin T => T \in SUBSET R)
    OBVIOUS
  <2> QED BY <1>3, <2>1
<1>5. h \in [SUBSET S -> Nat]
  <2>0. F[m] \in Nat
    OBVIOUS
  <2>1. ASSUME NEW T \in SUBSET S
        PROVE  (IF m \in T THEN F[m] + g[T \ {m}] ELSE g[T]) \in Nat
    <3>1. g[T \ {m}] \in Nat /\ (m \notin T => g[T] \in Nat)
      BY <1>4
    <3> HIDE DEF h
    <3> QED BY <2>0, <3>1
  <2> QED BY <2>1
<1> HIDE DEF h
<1>6. h[{}] = 0
  BY <1>3, <1>4
<1>7. ASSUME NEW T \in SUBSET S, NEW x \in T
      PROVE  h[T] = F[x] + h[T \ {x}]
  <2> DEFINE U == T \ {x}
  <2>1. U \in SUBSET S
    OBVIOUS
  <2>2. CASE x = m
    <3>1. m \in T /\ m \notin U /\ U = T \ {m}
      BY <2>2
    <3>2. h[T] = F[m] + g[U] /\ h[U] = g[U]
      BY <1>4, <2>1, <3>1
    <3> QED BY <2>2, <3>2
  <2>3. CASE x # m /\ m \notin T
    <3>1. m \notin U /\ T \in SUBSET R
      BY <1>4, <2>3
    <3>2. h[T] = g[T] /\ h[U] = g[U]
      BY <1>4, <2>1, <2>3, <3>1
    <3>3. g[T] = F[x] + g[U]
      BY <1>3, <3>1
    <3> QED BY <3>2, <3>3
  <2>4. CASE x # m /\ m \in T
    <3>1. m \in U /\ x \in T \ {m} /\ (T \ {m}) \ {x} = U \ {m}
      BY <2>4
    <3>2. h[T] = F[m] + g[T \ {m}] /\ h[U] = F[m] + g[U \ {m}]
      BY <1>4, <2>1, <2>4, <3>1
    <3>3. T \ {m} \in SUBSET R /\ g[T \ {m}] = F[x] + g[U \ {m}]
      <4>1. T \ {m} \in SUBSET R
        BY <1>4
      <4>2. g[T \ {m}] = F[x] + g[(T \ {m}) \ {x}]
        BY <1>3, <3>1, <4>1
      <4> QED BY <3>1, <4>1, <4>2
    <3>4. g[T \ {m}] \in Nat /\ g[U \ {m}] \in Nat
      BY <1>4, <2>1
    <3>5. F[x] \in Nat /\ F[m] \in Nat
      OBVIOUS
    <3>6. h[T] = F[x] + h[U]
      <4> HIDE DEF U
      <4> QED BY <3>2, <3>3, <3>4, <3>5
    <3> QED BY <3>6
  <2> QED BY <2>2, <2>3, <2>4
<1> QED BY <1>5, <1>6, <1>7 DEF Measure

LEMMA PartsFinite ==
  ASSUME NEW S, IsFiniteSet(S), NEW T \in SUBSET S
  PROVE  /\ IsFiniteSet(T) /\ Cardinality(T) \in Nat
         /\ \A x \in T : Cardinality(T \ {x}) = Cardinality(T) - 1
<1>1. IsFiniteSet(T) /\ Cardinality(T) \in Nat
  BY FS_Subset, FS_CardinalityType
<1> QED BY <1>1, FS_RemoveElement

LEMMA MeasureExists ==
  ASSUME NEW S, IsFiniteSet(S), NEW F, \A i \in S : F[i] \in Nat
  PROVE  \E g : Measure(g, F, S)
<1> DEFINE Sizes == {Cardinality(U) : U \in {V \in SUBSET S : ~ \E g : Measure(g, F, V)}}
<1>1. \E g : Measure(g, F, {})
  <2> DEFINE g == [T \in SUBSET {} |-> 0]
  <2>1. SUBSET {} = {{}}
    OBVIOUS
  <2>2. g \in [SUBSET {} -> Nat] /\ g[{}] = 0
    BY <2>1
  <2>3. \A T \in SUBSET {} : \A x \in T : g[T] = F[x] + g[T \ {x}]
    BY <2>1
  <2> HIDE DEF g
  <2>4. Measure(g, F, {})
    BY <2>2, <2>3 DEF Measure
  <2> QED BY <2>4
<1>2. ASSUME NEW U \in SUBSET S, ~ \E g : Measure(g, F, U),
             \A V \in SUBSET S : (~ \E g : Measure(g, F, V)) => Cardinality(U) <= Cardinality(V)
      PROVE  FALSE
  <2>1. PICK m : m \in U
    BY <1>1, <1>2
  <2>2. U \ {m} \in SUBSET S /\ Cardinality(U) \in Nat
        /\ Cardinality(U \ {m}) = Cardinality(U) - 1
    BY <2>1, PartsFinite
  <2>3. PICK g : Measure(g, F, U \ {m})
    BY <1>2, <2>2
  <2>4. \A i \in U : F[i] \in Nat
    OBVIOUS
  <2> QED BY <1>2, <2>1, <2>3, <2>4, MeasureExtends
<1>3. Sizes \in SUBSET Nat
  BY PartsFinite
<1>4. Sizes = {}
  <2> SUFFICES ASSUME Sizes # {} PROVE FALSE
    OBVIOUS
  <2>1. PICK k \in Sizes : \A j \in Sizes : k <= j
    <3> HIDE DEF Sizes
    <3> QED BY <1>3, LeastNatural
  <2>2. PICK U \in SUBSET S : (~ \E g : Measure(g, F, U)) /\ k = Cardinality(U)
    OBVIOUS
  <2>3. \A V \in SUBSET S : (~ \E g : Measure(g, F, V)) => Cardinality(U) <= Cardinality(V)
    BY <2>1, <2>2
  <2> QED BY <1>2, <2>2, <2>3
<1>5. S \in SUBSET S
  OBVIOUS
<1> QED BY <1>4, <1>5

(* The fold over a set of tracks is what any measure says it is.           *)
LEMMA NodesIsMeasure ==
  ASSUME NEW S, IsFiniteSet(S), NEW x, NEW F,
         \A k \in S : F[k] \in Nat /\ F[k] = Len(x[k].tree),
         NEW g, Measure(g, F, S), NEW T \in SUBSET S
  PROVE  Nodes(x, T) = g[T]
<1> DEFINE Weigh(k) == Len(x[k].tree)
           Some(s) == CHOOSE y \in s : TRUE
           Added(h) == [s \in SUBSET T |->
                          IF s = {} THEN 0 ELSE Weigh(Some(s)) + h[s \ {Some(s)}]]
           total == CHOOSE h : h = Added(h)
           sub == [s \in SUBSET T |-> g[s]]
<1>1. Nodes(x, T) = total[T]
  BY DEF Nodes, MapThenFoldSet
<1>2. ASSUME NEW s \in SUBSET T, s # {}
      PROVE  /\ Some(s) \in s /\ s \ {Some(s)} \in SUBSET T
             /\ g[s] = Weigh(Some(s)) + g[s \ {Some(s)}]
  <2>1. Some(s) \in s
    BY <1>2
  <2> HIDE DEF Some
  <2>2. g[s] = F[Some(s)] + g[s \ {Some(s)}] /\ F[Some(s)] = Weigh(Some(s))
    BY <2>1 DEF Measure
  <2> QED BY <2>1, <2>2
<1> HIDE DEF Some, Weigh
<1>3. sub = Added(sub)
  <2>1. \A s \in SUBSET T :
          sub[s] = IF s = {} THEN 0 ELSE Weigh(Some(s)) + sub[s \ {Some(s)}]
    BY <1>2 DEF Measure
  <2> HIDE DEF sub
  <2>2. sub = [s \in SUBSET T |-> sub[s]]
    BY DEF sub
  <2> QED BY <2>1, <2>2
<1>4. total = Added(total)
  <2> HIDE DEF sub, Added
  <2> QED BY <1>3
<1> HIDE DEF total
<1>5. \A s \in SUBSET T :
        total[s] = IF s = {} THEN 0 ELSE Weigh(Some(s)) + total[s \ {Some(s)}]
  BY <1>4
<1> DEFINE Wrong == {Cardinality(s) : s \in {u \in SUBSET T : total[u] # g[u]}}
<1>6. ASSUME NEW s \in SUBSET T
      PROVE  /\ IsFiniteSet(s) /\ Cardinality(s) \in Nat
             /\ \A y \in s : Cardinality(s \ {y}) = Cardinality(s) - 1
  <2>1. s \in SUBSET S
    OBVIOUS
  <2> QED BY <2>1, PartsFinite
<1>7. ASSUME NEW s \in SUBSET T, total[s] # g[s],
             \A u \in SUBSET T : total[u] # g[u] => Cardinality(s) <= Cardinality(u)
      PROVE  FALSE
  <2>1. s # {}
    BY <1>5, <1>7 DEF Measure
  <2>2. /\ Some(s) \in s /\ s \ {Some(s)} \in SUBSET T
        /\ g[s] = Weigh(Some(s)) + g[s \ {Some(s)}]
    BY <1>2, <2>1
  <2>3. total[s] = Weigh(Some(s)) + total[s \ {Some(s)}]
    BY <1>5, <2>1
  <2>4. total[s \ {Some(s)}] # g[s \ {Some(s)}]
    BY <1>7, <2>2, <2>3
  <2>5. Cardinality(s \ {Some(s)}) = Cardinality(s) - 1
    BY <1>6, <2>2
  <2>6. Cardinality(s) <= Cardinality(s \ {Some(s)})
    BY <1>7, <2>2, <2>4
  <2> QED BY <1>6, <2>5, <2>6
<1>8. Wrong \in SUBSET Nat
  BY <1>6
<1>9. Wrong = {}
  <2> SUFFICES ASSUME Wrong # {} PROVE FALSE
    OBVIOUS
  <2>1. PICK k \in Wrong : \A j \in Wrong : k <= j
    <3> HIDE DEF Wrong
    <3> QED BY <1>8, LeastNatural
  <2>2. PICK s \in SUBSET T : total[s] # g[s] /\ k = Cardinality(s)
    OBVIOUS
  <2>3. \A u \in SUBSET T : total[u] # g[u] => Cardinality(s) <= Cardinality(u)
    BY <2>1, <2>2
  <2> QED BY <1>7, <2>2, <2>3
<1>10. total[T] = g[T]
  BY <1>9
<1> QED BY <1>1, <1>10

Weighed(x, S) == \A k \in S : Len(x[k].tree) \in Nat

LEMMA Measured ==
  ASSUME NEW S, IsFiniteSet(S), NEW x, Weighed(x, S)
  PROVE  \E g, F : /\ Measure(g, F, S)
                   /\ \A k \in S : F[k] \in Nat /\ F[k] = Len(x[k].tree)
                   /\ \A T \in SUBSET S : Nodes(x, T) = g[T]
<1> DEFINE F == [k \in S |-> Len(x[k].tree)]
<1>1. \A k \in S : F[k] \in Nat /\ F[k] = Len(x[k].tree)
  BY DEF Weighed
<1> HIDE DEF F
<1>2. PICK g : Measure(g, F, S)
  BY <1>1, MeasureExists
<1>3. ASSUME NEW T \in SUBSET S
      PROVE  Nodes(x, T) = g[T]
  <2>1. T \in SUBSET S
    OBVIOUS
  <2> QED BY ONLY <1>1, <1>2, <2>1, IsFiniteSet(S), NodesIsMeasure
<1> QED BY <1>1, <1>2, <1>3

LEMMA NodesOfNothing ==
  ASSUME NEW x PROVE Nodes(x, {}) = 0
<1>1. Weighed(x, {}) /\ IsFiniteSet({}) /\ {} \in SUBSET {}
  BY FS_EmptySet DEF Weighed
<1>2. PICK g, F : /\ Measure(g, F, {})
                  /\ \A T \in SUBSET {} : Nodes(x, T) = g[T]
  BY <1>1, Measured
<1> QED BY <1>1, <1>2 DEF Measure

LEMMA NodesOfOne ==
  ASSUME NEW S, IsFiniteSet(S), NEW x, Weighed(x, S), NEW k \in S
  PROVE  /\ Nodes(x, S) \in Nat /\ Nodes(x, S \ {k}) \in Nat
         /\ Nodes(x, S) = Len(x[k].tree) + Nodes(x, S \ {k})
<1>1. PICK g, F : /\ Measure(g, F, S)
                  /\ \A i \in S : F[i] \in Nat /\ F[i] = Len(x[i].tree)
                  /\ \A U \in SUBSET S : Nodes(x, U) = g[U]
  BY Measured
<1>2. S \ {k} \in SUBSET S /\ S \in SUBSET S
  OBVIOUS
<1>3. g[S] = F[k] + g[S \ {k}] /\ g[S] \in Nat /\ g[S \ {k}] \in Nat
  BY <1>1, <1>2 DEF Measure
<1> QED BY <1>1, <1>2, <1>3

LEMMA NodesType ==
  ASSUME NEW S, IsFiniteSet(S), NEW x, Weighed(x, S)
  PROVE  Nodes(x, S) \in Nat
<1>1. PICK g, F : /\ Measure(g, F, S)
                  /\ \A U \in SUBSET S : Nodes(x, U) = g[U]
  BY Measured
<1>2. S \in SUBSET S
  OBVIOUS
<1>3. g[S] \in Nat
  BY <1>1, <1>2 DEF Measure
<1> QED BY <1>1, <1>2, <1>3

LEMMA NodesSame ==
  ASSUME NEW S, IsFiniteSet(S), NEW x, NEW y, Weighed(x, S),
         \A k \in S : y[k] = x[k]
  PROVE  Nodes(y, S) = Nodes(x, S)
<1>1. PICK g, F : /\ Measure(g, F, S)
                  /\ \A k \in S : F[k] \in Nat /\ F[k] = Len(x[k].tree)
                  /\ \A U \in SUBSET S : Nodes(x, U) = g[U]
  BY Measured
<1>2. S \in SUBSET S /\ \A k \in S : F[k] \in Nat /\ F[k] = Len(y[k].tree)
  BY <1>1
<1>3. Nodes(y, S) = g[S]
  BY ONLY <1>1, <1>2, IsFiniteSet(S), NodesIsMeasure
<1> QED BY <1>1, <1>2, <1>3
-----------------------------------------------------------------------------
(* What an execution of a unit comes to. *)

Failures == {"None"} \cup Codes

LEMMA StopIsFailure ==
  ASSUME NEW stop \in {Undisturbed} \cup Interruptions, NEW place
  PROVE  StoppedAt(stop, place) \in Failures
  BY DEF StoppedAt, Undisturbed, Interruptions, Failures, Codes

LEMMA ImportIsFailure ==
  ASSUME NEW session, NEW unit \in Unit
  PROVE  ImportFailure(session, unit) \in Failures
<1> DEFINE found == [i \in DOMAIN unit.imports |->
                        ImportStatus(session, ImportLookup(session, unit, i))]
           failed == {i \in DOMAIN found : found[i] # "None"}
<1>1. DOMAIN found \in SUBSET Nat
  <2>1. unit.imports \in Seq([kind: STRING, value: Int])
    BY DEF Unit
  <2> QED BY <2>1
<1>2. ASSUME NEW i \in DOMAIN found
      PROVE  found[i] \in Failures
  BY DEF ImportStatus, Failures, Codes
<1>3. ImportFailure(session, unit) = FirstFailing(found)
  BY DEF ImportFailure
<1>4. CASE failed = {}
  BY <1>3, <1>4 DEF FirstFailing, Failures
<1>5. CASE failed # {}
  <2>1. FirstFailing(found) = found[Min(failed)]
    BY <1>5 DEF FirstFailing
  <2>2. failed \in SUBSET Nat
    BY <1>1
  <2>3. Min(failed) \in failed
    <3> HIDE DEF failed
    <3> QED BY <1>5, <2>2, LeastNatural DEF Min
  <2> QED BY <1>2, <1>3, <2>1, <2>3
<1> QED BY <1>4, <1>5

LEMMA StagingIsFailure ==
  ASSUME NEW session, NEW unit, NEW node, NEW baseline
  PROVE  Staging(session, unit, node, baseline).status \in Failures
<1>1. \A s : s \in Failures => Unchanged(session, s).status \in Failures
  BY DEF Unchanged, Staged
<1>2. {"None", "DependencyUnavailable", "InvalidDefinition"} \subseteq Failures
  BY DEF Failures, Codes
<1>3. ASSUME NEW result
      PROVE  Entered(session, unit, result).status \in Failures
  BY <1>1, <1>2 DEF Entered, Staged
<1>4. ASSUME NEW spec, NEW first
      PROVE  Settled(session, unit, spec, first).status \in Failures
  BY <1>1, <1>2, <1>3 DEF Settled
<1>5. ASSUME NEW lookups
      PROVE  Bound(session, unit, node, baseline, lookups).status \in Failures
  BY <1>1, <1>2, <1>4 DEF Bound, Published
<1> QED BY <1>1, <1>2, <1>5 DEF Staging

(* The first hurdle that is not taken, if any.                             *)
LEMMA FirstFailureIs ==
  ASSUME NEW h, NEW n \in Nat \ {0}, DOMAIN h = 1..n, Len(h) = n
  PROVE  \/ /\ FirstFailure(h) = Hurdle("Materialized", h[n].made)
            /\ \A i \in 1..n : h[i].failure = "None"
         \/ \E i \in 1..n : /\ FirstFailure(h) = h[i] /\ h[i].failure # "None"
                            /\ \A j \in 1..(i - 1) : h[j].failure = "None"
<1> DEFINE missed == {i \in DOMAIN h : h[i].failure # "None"}
<1>1. CASE missed = {}
  BY <1>1 DEF FirstFailure
<1>2. CASE missed # {}
  <2>1. FirstFailure(h) = h[Min(missed)]
    BY <1>2 DEF FirstFailure
  <2>2. missed \in SUBSET Nat
    OBVIOUS
  <2>3. Min(missed) \in missed /\ \A j \in missed : Min(missed) <= j
    <3> HIDE DEF missed
    <3> QED BY <1>2, <2>2, LeastNatural DEF Min
  <2>4. PICK i \in 1..n : i = Min(missed)
    BY <2>3
  <2>5. ASSUME NEW j \in 1..(i - 1)
        PROVE  h[j].failure = "None"
    <3>1. j \in 1..n /\ ~ (i <= j)
      OBVIOUS
    <3>2. j \notin missed
      <4> HIDE DEF missed
      <4> QED BY <2>3, <2>4, <3>1
    <3> QED BY <3>1, <3>2
  <2> QED BY <2>1, <2>3, <2>4, <2>5
<1> QED BY <1>1, <1>2

LEMMA HurdleFields ==
  ASSUME NEW f, NEW m
  PROVE  Hurdle(f, m).failure = f /\ Hurdle(f, m).made = m
  BY DEF Hurdle

LEMMA UnlessIs ==
  ASSUME NEW ok, NEW f \in Codes
  PROVE  Unless(ok, f) \in Failures
  BY DEF Unless, Failures

(* The hurdles of a unit without a payload, and of one with a payload.     *)
LEMMA HurdlesWithout ==
  ASSUME NEW session, NEW unit \in Unit, unit.selects # "payload", NEW staged,
         staged.status \in Failures, NEW left \in Nat,
         NEW stop \in {Undisturbed} \cup Interruptions
  PROVE  \E h : /\ h = Hurdles(session, unit, staged, left, stop)
                /\ DOMAIN h = 1..8 /\ Len(h) = 8
                /\ \A i \in 1..8 : h[i].failure \in Failures
                /\ \A i \in 1..3 : h[i].made = 0
                /\ \A i \in 4..8 : h[i].made = 1
                /\ left = 0 => h[3].failure # "None"
<1> DEFINE a1 == Unless(session.spent < session.limit, "ResourceLimit")
           a2 == StoppedAt(stop, "start")
           a3 == Unless(left > 0, "ResourceLimit")
           a4 == StoppedAt(stop, "header")
           a5 == Unless(unit.header, "InvalidSyntax")
           a6 == Unless(unit.selects # "unhandled", "Unsupported")
           a7 == StoppedAt(stop, "commit")
           a8 == staged.status
           h == << Hurdle(a1, 0), Hurdle(a2, 0), Hurdle(a3, 0), Hurdle(a4, 1),
                   Hurdle(a5, 1), Hurdle(a6, 1), Hurdle(a7, 1), Hurdle(a8, 1) >>
<1>0. {"ResourceLimit", "InvalidSyntax", "Unsupported"} \subseteq Codes
  BY DEF Codes
<1>1. /\ a1 \in Failures /\ a2 \in Failures /\ a3 \in Failures /\ a4 \in Failures
      /\ a5 \in Failures /\ a6 \in Failures /\ a7 \in Failures /\ a8 \in Failures
  BY <1>0, UnlessIs, StopIsFailure
<1>2. left = 0 => a3 # "None"
  BY DEF Unless
<1>3. h = Hurdles(session, unit, staged, left, stop)
  <2> HIDE DEF a1, a2, a3, a4, a5, a6, a7, a8
  <2>1. Hurdles(session, unit, staged, left, stop)
          = << Hurdle(a1, 0), Hurdle(a2, 0), Hurdle(a3, 0), Hurdle(a4, 1),
               Hurdle(a5, 1), Hurdle(a6, 1) >>
            \o <<>> \o << Hurdle(a7, 1), Hurdle(a8, 1) >>
    BY DEF Hurdles, a1, a2, a3, a4, a5, a6, a7, a8
  <2> QED BY <2>1
<1> HIDE DEF a1, a2, a3, a4, a5, a6, a7, a8
<1>4. DOMAIN h = 1..8 /\ Len(h) = 8
  OBVIOUS
<1>5. \A i \in 1..8 : h[i].failure \in Failures
  BY <1>1, HurdleFields
<1>6. (\A i \in 1..3 : h[i].made = 0) /\ (\A i \in 4..8 : h[i].made = 1)
      /\ h[3].failure = a3
  BY HurdleFields
<1> HIDE DEF h
<1> QED BY <1>2, <1>3, <1>4, <1>5, <1>6

LEMMA TwoAndFour ==
  ASSUME NEW S, NEW s \in Seq(S), NEW t \in Seq(S), Len(s) = 2, Len(t) = 4
  PROVE  s \o t = <<s[1], s[2], t[1], t[2], t[3], t[4]>>
<1> DEFINE u == <<s[1], s[2], t[1], t[2], t[3], t[4]>>
<1>0. /\ s[1] \in S /\ s[2] \in S /\ t[1] \in S /\ t[2] \in S
      /\ t[3] \in S /\ t[4] \in S
  <2>1. /\ \A i \in 1..Len(s) : s[i] \in S
        /\ \A i \in 1..Len(t) : t[i] \in S
    BY ElementOfSeq
  <2>2. 1 \in 1..2 /\ 2 \in 1..2 /\ 1 \in 1..4 /\ 2 \in 1..4 /\ 3 \in 1..4 /\ 4 \in 1..4
    OBVIOUS
  <2> QED BY <2>1, <2>2
<1>1. u \in Seq(S) /\ Len(u) = 6
  BY <1>0
<1>2. /\ s \o t \in Seq(S) /\ Len(s \o t) = Len(s) + Len(t)
      /\ \A i \in 1 .. Len(s) + Len(t) : (s \o t)[i] =
                     IF i <= Len(s) THEN s[i] ELSE t[i - Len(s)]
  BY ONLY s \in Seq(S), t \in Seq(S), ConcatProperties
<1>3. Len(s \o t) = 6 /\ \A i \in 1..6 : (s \o t)[i] = IF i <= 2 THEN s[i] ELSE t[i - 2]
  BY <1>2
<1>4. \A i \in 1..6 : (s \o t)[i] = u[i]
  BY SMTT(30), <1>3
<1> HIDE DEF u
<1>5. s \o t = u
  BY <1>1, <1>2, <1>3, <1>4, SeqEqual
<1> QED BY <1>5 DEF u

(* With a payload there are fourteen; an import that fails is the eleventh.*)
HurdlesOver(h, session, unit, staged, left, stop) ==
  /\ h = Hurdles(session, unit, staged, left, stop)
  /\ DOMAIN h = 1..14 /\ Len(h) = 14
  /\ \A i \in 1..14 : h[i].failure \in Failures
  /\ \A i \in 1..3 : h[i].made = 0
  /\ \A i \in 4..9 : h[i].made = 1
  /\ \A i \in 10..14 : h[i].made = 2
  /\ left = 0 => h[3].failure # "None"
  /\ left <= 1 => h[8].failure # "None"
  /\ h[11].failure = ImportFailure(session, unit)

LEMMA HurdlesWith ==
  ASSUME NEW session, NEW unit \in Unit, unit.selects = "payload", NEW staged,
         staged.status \in Failures, NEW left \in Nat,
         NEW stop \in {Undisturbed} \cup Interruptions
  PROVE  \E h : HurdlesOver(h, session, unit, staged, left, stop)
<1> DEFINE a1 == Unless(session.spent < session.limit, "ResourceLimit")
           a2 == StoppedAt(stop, "start")
           a3 == Unless(left > 0, "ResourceLimit")
           a4 == StoppedAt(stop, "header")
           a5 == Unless(unit.header, "InvalidSyntax")
           a6 == Unless(unit.selects # "unhandled", "Unsupported")
           b1 == StoppedAt(stop, "between")
           b2 == Unless(left > 1, "ResourceLimit")
           b3 == Unless(unit.maps, "InvalidSyntax")
           b4 == StoppedAt(stop, "payload")
           b5 == ImportFailure(session, unit)
           b6 == Unless(unit.payload, "InvalidSyntax")
           a7 == StoppedAt(stop, "commit")
           a8 == staged.status
           h == << Hurdle(a1, 0), Hurdle(a2, 0), Hurdle(a3, 0), Hurdle(a4, 1),
                   Hurdle(a5, 1), Hurdle(a6, 1), Hurdle(b1, 1), Hurdle(b2, 1),
                   Hurdle(b3, 1), Hurdle(b4, 2), Hurdle(b5, 2), Hurdle(b6, 2),
                   Hurdle(a7, 2), Hurdle(a8, 2) >>
<1>0. {"ResourceLimit", "InvalidSyntax", "Unsupported"} \subseteq Codes
  BY DEF Codes
<1>1. /\ a1 \in Failures /\ a2 \in Failures /\ a3 \in Failures /\ a4 \in Failures
      /\ a5 \in Failures /\ a6 \in Failures /\ a7 \in Failures /\ a8 \in Failures
      /\ b1 \in Failures /\ b2 \in Failures /\ b3 \in Failures /\ b4 \in Failures
      /\ b5 \in Failures /\ b6 \in Failures
  BY <1>0, UnlessIs, StopIsFailure, ImportIsFailure
<1>2. (left = 0 => a3 # "None") /\ (left <= 1 => b2 # "None")
  BY DEF Unless
<1>3. h = Hurdles(session, unit, staged, left, stop)
  <2> HIDE DEF a1, a2, a3, a4, a5, a6, a7, a8, b1, b2, b3, b4, b5, b6
  <2>1. PayloadHurdles(session, unit, left, stop)
          = << Hurdle(b1, 1), Hurdle(b2, 1) >>
            \o << Hurdle(b3, 1), Hurdle(b4, 2), Hurdle(b5, 2), Hurdle(b6, 2) >>
    BY DEF PayloadHurdles, PayloadBudget, b1, b2, b3, b4, b5, b6
  <2>2. PayloadHurdles(session, unit, left, stop)
          = << Hurdle(b1, 1), Hurdle(b2, 1), Hurdle(b3, 1), Hurdle(b4, 2),
               Hurdle(b5, 2), Hurdle(b6, 2) >>
    <3> DEFINE c == << Hurdle(b1, 1), Hurdle(b2, 1) >>
               d == << Hurdle(b3, 1), Hurdle(b4, 2), Hurdle(b5, 2), Hurdle(b6, 2) >>
               S == {c[1], c[2], d[1], d[2], d[3], d[4]}
    <3>1. c \in Seq(S) /\ d \in Seq(S) /\ Len(c) = 2 /\ Len(d) = 4
      OBVIOUS
    <3>2. c \o d = <<c[1], c[2], d[1], d[2], d[3], d[4]>>
      <4> HIDE DEF c, d, S
      <4> QED BY <3>1, TwoAndFour
    <3> QED BY <2>1, <3>2
  <2>3. Hurdles(session, unit, staged, left, stop)
          = << Hurdle(a1, 0), Hurdle(a2, 0), Hurdle(a3, 0), Hurdle(a4, 1),
               Hurdle(a5, 1), Hurdle(a6, 1) >>
            \o PayloadHurdles(session, unit, left, stop)
            \o << Hurdle(a7, 2), Hurdle(a8, 2) >>
    BY DEF Hurdles, a1, a2, a3, a4, a5, a6, a7, a8
  <2> QED BY <2>2, <2>3
<1> HIDE DEF a1, a2, a3, a4, a5, a6, a7, a8, b1, b2, b3, b4, b5, b6
<1>4. DOMAIN h = 1..14 /\ Len(h) = 14
  OBVIOUS
<1>5. \A i \in 1..14 : h[i].failure \in Failures
  BY <1>1, HurdleFields
<1>6. /\ \A i \in 1..3 : h[i].made = 0
      /\ \A i \in 4..9 : h[i].made = 1
      /\ \A i \in 10..14 : h[i].made = 2
      /\ h[3].failure = a3 /\ h[8].failure = b2 /\ h[11].failure = b5
  BY HurdleFields
<1> HIDE DEF h
<1> QED BY <1>2, <1>3, <1>4, <1>5, <1>6 DEF HurdlesOver, b5

(* The nodes made stay within whichever budget is smaller.                 *)
LEMMA WithinBudget ==
  ASSUME NEW session, NEW unit \in Unit, NEW staged, staged.status \in Failures,
         NEW left \in Nat, NEW stop \in {Undisturbed} \cup Interruptions
  PROVE  \E outcome \in {"Materialized"} \cup Codes : \E made \in 0..2 :
           /\ FirstFailure(Hurdles(session, unit, staged, left, stop)).failure = outcome
           /\ FirstFailure(Hurdles(session, unit, staged, left, stop)).made = made
           /\ made <= left
           /\ outcome = "Materialized" => made > 0
<1> DEFINE at == FirstFailure(Hurdles(session, unit, staged, left, stop))
<1>0. \A f \in Failures : f # "None" => f \in Codes
  BY DEF Failures
<1>1. CASE unit.selects # "payload"
  <2>1. PICK h : /\ h = Hurdles(session, unit, staged, left, stop)
                 /\ DOMAIN h = 1..8 /\ Len(h) = 8
                 /\ \A i \in 1..8 : h[i].failure \in Failures
                 /\ \A i \in 1..3 : h[i].made = 0
                 /\ \A i \in 4..8 : h[i].made = 1
                 /\ left = 0 => h[3].failure # "None"
    BY <1>1, HurdlesWithout
  <2>2. at = FirstFailure(h)
    BY <2>1
  <2> HIDE DEF at
  <2>3. CASE /\ FirstFailure(h) = Hurdle("Materialized", h[8].made)
             /\ \A i \in 1..8 : h[i].failure = "None"
    <3>1. at.failure = "Materialized" /\ at.made = 1 /\ left # 0
      BY <2>1, <2>2, <2>3, HurdleFields
    <3> QED BY <3>1 DEF at
  <2>4. ASSUME NEW i \in 1..8, FirstFailure(h) = h[i], h[i].failure # "None",
               \A j \in 1..(i - 1) : h[j].failure = "None"
        PROVE  /\ at.failure \in Codes /\ at.made \in 0..2 /\ at.made <= left
    <3>1. at = h[i] /\ at.failure \in Codes
      BY <1>0, <2>1, <2>2, <2>4
    <3>2. CASE i <= 3
      BY <2>1, <3>1, <3>2
    <3>3. CASE i > 3
      <4>1. 3 \in 1..(i - 1) /\ i \in 4..8
        BY <3>3
      <4>2. left # 0 /\ h[i].made = 1
        BY <2>1, <2>4, <4>1
      <4> QED BY <3>1, <4>2
    <3> QED BY <3>2, <3>3
  <2>5. ASSUME at.failure \in Codes, at.made \in 0..2, at.made <= left
        PROVE  \E outcome \in {"Materialized"} \cup Codes : \E made \in 0..2 :
                 /\ at.failure = outcome /\ at.made = made
                 /\ made <= left /\ (outcome = "Materialized" => made > 0)
    <3>1. at.failure # "Materialized"
      BY <2>5 DEF Codes
    <3> QED BY <2>5, <3>1
  <2>6. \/ /\ FirstFailure(h) = Hurdle("Materialized", h[8].made)
           /\ \A i \in 1..8 : h[i].failure = "None"
        \/ \E i \in 1..8 : /\ FirstFailure(h) = h[i] /\ h[i].failure # "None"
                           /\ \A j \in 1..(i - 1) : h[j].failure = "None"
    <3>1. 8 \in Nat \ {0} /\ DOMAIN h = 1..8 /\ Len(h) = 8
      BY <2>1
    <3> QED BY ONLY <3>1, FirstFailureIs
  <2> QED BY <2>3, <2>4, <2>5, <2>6 DEF at
<1>2. CASE unit.selects = "payload"
  <2>0. PICK h : HurdlesOver(h, session, unit, staged, left, stop)
    BY <1>2, HurdlesWith
  <2>1. /\ h = Hurdles(session, unit, staged, left, stop)
        /\ DOMAIN h = 1..14 /\ Len(h) = 14
        /\ \A i \in 1..14 : h[i].failure \in Failures
        /\ \A i \in 1..3 : h[i].made = 0
        /\ \A i \in 4..9 : h[i].made = 1
        /\ \A i \in 10..14 : h[i].made = 2
        /\ left = 0 => h[3].failure # "None"
        /\ left <= 1 => h[8].failure # "None"
    BY <2>0 DEF HurdlesOver
  <2>2. at = FirstFailure(h)
    BY <2>1
  <2> HIDE DEF at
  <2>3. CASE /\ FirstFailure(h) = Hurdle("Materialized", h[14].made)
             /\ \A i \in 1..14 : h[i].failure = "None"
    <3>1. at.failure = "Materialized" /\ at.made = 2 /\ ~ (left <= 1)
      BY <2>1, <2>2, <2>3, HurdleFields
    <3> QED BY <3>1 DEF at
  <2>4. ASSUME NEW i \in 1..14, FirstFailure(h) = h[i], h[i].failure # "None",
               \A j \in 1..(i - 1) : h[j].failure = "None"
        PROVE  /\ at.failure \in Codes /\ at.made \in 0..2 /\ at.made <= left
    <3>1. at = h[i] /\ at.failure \in Codes
      BY <1>0, <2>1, <2>2, <2>4
    <3>2. CASE i <= 3
      BY <2>1, <3>1, <3>2
    <3>3. CASE i \in 4..9
      <4>1. 3 \in 1..(i - 1)
        BY <3>3
      <4>2. left # 0 /\ h[i].made = 1
        BY <2>1, <2>4, <3>3, <4>1
      <4> QED BY <3>1, <4>2
    <3>4. CASE i > 9
      <4>1. 8 \in 1..(i - 1) /\ i \in 10..14
        BY <3>4
      <4>2. ~ (left <= 1) /\ h[i].made = 2
        BY <2>1, <2>4, <4>1
      <4> QED BY <3>1, <4>2
    <3> QED BY <3>2, <3>3, <3>4
  <2>5. ASSUME at.failure \in Codes, at.made \in 0..2, at.made <= left
        PROVE  \E outcome \in {"Materialized"} \cup Codes : \E made \in 0..2 :
                 /\ at.failure = outcome /\ at.made = made
                 /\ made <= left /\ (outcome = "Materialized" => made > 0)
    <3>1. at.failure # "Materialized"
      BY <2>5 DEF Codes
    <3> QED BY <2>5, <3>1
  <2>6. \/ /\ FirstFailure(h) = Hurdle("Materialized", h[14].made)
           /\ \A i \in 1..14 : h[i].failure = "None"
        \/ \E i \in 1..14 : /\ FirstFailure(h) = h[i] /\ h[i].failure # "None"
                            /\ \A j \in 1..(i - 1) : h[j].failure = "None"
    <3>1. 14 \in Nat \ {0} /\ DOMAIN h = 1..14 /\ Len(h) = 14
      BY <2>1
    <3> QED BY ONLY <3>1, FirstFailureIs
  <2> QED BY <2>3, <2>4, <2>5, <2>6 DEF at
<1> QED BY <1>1, <1>2

IsRules(r) ==
  /\ r = [dir |-> r.dir, payloads |-> r.payloads, limit |-> r.limit, spent |-> r.spent]
  /\ r.limit \in Nat /\ r.spent \in Nat

LEMMA RulesRecord ==
  ASSUME NEW d, NEW p, NEW l \in Nat, NEW s \in Nat, NEW r,
         r = [dir |-> d, payloads |-> p, limit |-> l, spent |-> s]
  PROVE  IsRules(r) /\ r.limit = l /\ r.spent = s
  BY DEF IsRules

LEMMA RulesFields ==
  ASSUME NEW r, IsRules(r)
  PROVE  \E d, p : \E l, s \in Nat :
           /\ r = [dir |-> d, payloads |-> p, limit |-> l, spent |-> s]
           /\ l = r.limit /\ s = r.spent
<1>1. PICK d, p, l, s : d = r.dir /\ p = r.payloads /\ l = r.limit /\ s = r.spent
  OBVIOUS
<1> QED BY <1>1 DEF IsRules

(* What a session is charged, and that nothing else of its budget changes, *)
(* whether or not what was staged takes effect.                            *)
LEMMA RulesCharged ==
  ASSUME NEW r, IsRules(r), NEW made \in Nat, NEW c, c = Charged(r, made)
  PROVE  IsRules(c) /\ c.limit = r.limit /\ c.spent = r.spent + made
<1>1. PICK d, p : \E l, s \in Nat :
        /\ r = [dir |-> d, payloads |-> p, limit |-> l, spent |-> s]
        /\ l = r.limit /\ s = r.spent
  BY RulesFields
<1>2. PICK l \in Nat, s \in Nat :
        /\ r = [dir |-> d, payloads |-> p, limit |-> l, spent |-> s]
        /\ l = r.limit /\ s = r.spent
  BY <1>1
<1>3. PICK n \in Nat : n = s + made
  OBVIOUS
<1>4. c = [dir |-> d, payloads |-> p, limit |-> l, spent |-> n]
  BY <1>2, <1>3 DEF Charged
<1>5. IsRules(c) /\ c.limit = l /\ c.spent = n
  BY ONLY <1>4, l \in Nat, n \in Nat, RulesRecord
<1> QED BY <1>2, <1>3, <1>5

Registered(r, dir, payloads) == [r EXCEPT !.dir = dir, !.payloads = payloads]

LEMMA RulesRegister ==
  ASSUME NEW r, IsRules(r), NEW dir, NEW payloads, NEW c,
         c = Registered(r, dir, payloads)
  PROVE  IsRules(c) /\ c.limit = r.limit /\ c.spent = r.spent
<1>1. PICK d, p : \E l, s \in Nat :
        /\ r = [dir |-> d, payloads |-> p, limit |-> l, spent |-> s]
        /\ l = r.limit /\ s = r.spent
  BY RulesFields
<1>2. PICK l \in Nat, s \in Nat :
        /\ r = [dir |-> d, payloads |-> p, limit |-> l, spent |-> s]
        /\ l = r.limit /\ s = r.spent
  BY <1>1
<1> DEFINE y == [r EXCEPT !.dir = dir]
<1>3. y = [dir |-> dir, payloads |-> p, limit |-> l, spent |-> s]
  BY <1>2
<1>4. c = [y EXCEPT !.payloads = payloads]
  BY DEF Registered
<1> HIDE DEF y
<1>5. c = [dir |-> dir, payloads |-> payloads, limit |-> l, spent |-> s]
  BY <1>3, <1>4
<1>6. IsRules(c) /\ c.limit = l /\ c.spent = s
  BY ONLY <1>5, l \in Nat, s \in Nat, RulesRecord
<1> QED BY <1>2, <1>6

RunOf(run, r, t, p, limit) ==
  /\ run.status \in {"Materialized"} \cup Codes
  /\ run.made \in 0..2 /\ run.made <= limit /\ run.made <= Remaining(r, limit)
  /\ run.status = "Materialized" => run.made > 0
  /\ run.tree = Structures(t, p, run.made,
                           IF run.status = "Materialized" THEN run.status
                           ELSE StateForFailure(run.status))
  /\ IsRules(run.session)
  /\ run.session.limit = r.limit /\ run.session.spent = r.spent + run.made

LEMMA RemainingIs ==
  ASSUME NEW r, IsRules(r), NEW limit \in Nat
  PROVE  /\ Remaining(r, limit) \in Nat /\ Remaining(r, limit) <= limit
         /\ r.spent <= r.limit => r.spent + Remaining(r, limit) <= r.limit
  BY DEF IsRules, Remaining, Min2

LEMMA RunCompoundIs ==
  ASSUME NEW r, IsRules(r), NEW t, NEW p, NEW unit \in Unit, NEW baseline,
         NEW limit \in Nat, NEW stop \in {Undisturbed} \cup Interruptions
  PROVE  RunOf(RunCompound(r, t, p, unit, baseline, limit, stop), r, t, p, limit)
<1> DEFINE staged == Staging(r, unit, Len(t) + 2, baseline)
           left == Remaining(r, limit)
           at == FirstFailure(Hurdles(r, unit, staged, left, stop))
           run == RunCompound(r, t, p, unit, baseline, limit, stop)
<1>1. run = Outcome(r, t, p, staged, at)
  BY DEF RunCompound, Executed
<1>2. left \in Nat /\ left <= limit
  BY RemainingIs
<1>3. staged.status \in Failures
  BY StagingIsFailure
<1>4. \E outcome \in {"Materialized"} \cup Codes : \E made \in 0..2 :
           /\ at.failure = outcome /\ at.made = made
           /\ made <= left /\ (outcome = "Materialized" => made > 0)
  <2> HIDE DEF staged, left
  <2> QED BY <1>2, <1>3, WithinBudget
<1> HIDE DEF at, run
<1>5. PICK outcome \in {"Materialized"} \cup Codes, made \in 0..2 :
           /\ at.failure = outcome /\ at.made = made
           /\ made <= left /\ (outcome = "Materialized" => made > 0)
  BY <1>4
<1> HIDE DEF left, staged
<1>6. /\ run.status = outcome /\ run.made = made
      /\ run.tree = Structures(t, p, made, IF outcome = "Materialized" THEN outcome
                                           ELSE StateForFailure(outcome))
      /\ run.session = IF outcome = "Materialized"
               THEN [Charged(r, made) EXCEPT !.dir = staged.dir, !.payloads = staged.payloads]
               ELSE Charged(r, made)
  BY <1>1, <1>5 DEF Outcome
<1>7. IsRules(run.session) /\ run.session.limit = r.limit
      /\ run.session.spent = r.spent + made
  <2>1. PICK c, d, q : c = Charged(r, made) /\ d = staged.dir /\ q = staged.payloads
    OBVIOUS
  <2>2. made \in Nat
    OBVIOUS
  <2>3. IsRules(c) /\ c.limit = r.limit /\ c.spent = r.spent + made
    BY <2>1, <2>2, RulesCharged
  <2>4. PICK e : e = Registered(c, d, q)
    OBVIOUS
  <2>5. IsRules(e) /\ e.limit = c.limit /\ e.spent = c.spent
    BY ONLY <2>3, <2>4, RulesRegister
  <2>6. run.session = c \/ run.session = e
    BY <1>6, <2>1, <2>4 DEF Registered
  <2> QED BY <2>3, <2>5, <2>6
<1>8. made <= limit
  BY <1>2, <1>5
<1>9. RunOf(run, r, t, p, limit)
  BY <1>5, <1>6, <1>7, <1>8 DEF RunOf, left
<1> QED BY <1>9 DEF run

-----------------------------------------------------------------------------
(* What the calls of a session do to a tree. *)

(* u has m nodes more than t, all of them at p or below, and p is in the   *)
(* state it was in.                                                        *)
GrewBy(t, u, p, m) ==
  /\ Below(t, u, p) /\ Len(u) = Len(t) + m
  /\ u[p].state = t[p].state

(* The nodes of u from i on are in one state.                              *)
AllIn(u, i, state) == \A k \in i..Len(u) : u[k].state = state

LEMMA GraftGrows ==
  ASSUME NEW t, Tree(t), NEW p \in 1..Len(t), NEW kind \in Kinds,
         NEW state \in States, NEW tag \in Nat, NEW u,
         u = AppendChild(t, p, kind, state, tag, 0)
  PROVE  /\ GrewBy(t, u, p, 1) /\ u[Len(t) + 1].state = state
         /\ u[Len(t) + 1].children = <<>>
<1> DEFINE n == NewNode(p, kind, state, tag, 0)
<1>1. n.parent = p /\ n.children = <<>> /\ n.state = state
  BY DEF NewNode
<1>2. 0 \in Nat
  OBVIOUS
<1>3. Grafts(t, u, p, n)
  BY <1>2, AppendGrafts
<1> HIDE DEF n
<1>4. Below(t, u, p)
  BY <1>1, <1>3, GraftsBelow
<1>5. u[p].state = t[p].state
  BY <1>3, GraftedChildren
<1>6. Len(u) = Len(t) + 1 /\ u[Len(t) + 1] = n
  BY <1>3 DEF Grafts
<1> QED BY <1>1, <1>4, <1>5, <1>6 DEF GrewBy

LEMMA GrowsNewer ==
  ASSUME NEW t, Tree(t), NEW p \in 1..Len(t), NEW u, NEW m \in Nat, GrewBy(t, u, p, m),
         NEW q \in 1..Len(u), q > Len(t), NEW v, NEW k \in Nat, GrewBy(u, v, q, k)
  PROVE  GrewBy(t, v, p, m + k)
<1>1. Len(t) \in Nat
  BY Links
<1>2. Below(t, v, p) /\ v[p] = u[p]
  BY BelowNewer DEF GrewBy
<1>3. Len(v) = Len(t) + (m + k)
  BY <1>1 DEF GrewBy
<1> QED BY <1>2, <1>3 DEF GrewBy

LEMMA StructuresGrow ==
  ASSUME NEW t, Tree(t), NEW p \in 1..Len(t), NEW made \in 0..2, NEW state \in States,
         NEW u, u = Structures(t, p, made, state)
  PROVE  GrewBy(t, u, p, made) /\ AllIn(u, Len(t) + 1, state)
<1>1. t \in Seq(Node) /\ Len(t) \in Nat
  BY Links
<1>2. CASE made = 0
  <2>1. u = t
    BY <1>2 DEF Structures
  <2>2. Below(t, t, p)
    BY <1>1, NothingMarked, MarksBelow
  <2> QED BY <1>1, <1>2, <2>1, <2>2 DEF GrewBy, AllIn
<1>3. CASE made # 0
  <2> DEFINE h == AppendChild(t, p, "header", state, 0, 0)
             s == Len(h)
  <2>1. "header" \in Kinds /\ "payload" \in Kinds /\ 0 \in Nat
    BY DEF Kinds
  <2>2. GrewBy(t, h, p, 1) /\ h[Len(t) + 1].state = state /\ h[Len(t) + 1].children = <<>>
    BY <2>1, GraftGrows
  <2>3. CASE made = 1
    <3>1. u = h
      BY <2>3 DEF Structures
    <3> QED BY <1>1, <2>2, <2>3, <3>1 DEF GrewBy, AllIn
  <2>4. CASE made = 2
    <3>1. u = Append([h EXCEPT ![s].children = <<s + 1>>],
                     NewNode(s, "payload", state, 0, 0))
      BY <2>4 DEF Structures
    <3> HIDE DEF h
    <3>2. /\ Tree(h) /\ Len(h) = Len(t) + 1 /\ h \in Seq(Node)
          /\ s \in 1..Len(h) /\ s > Len(t) /\ s = Len(t) + 1
      BY <1>1, <2>2, Links DEF GrewBy, Below
    <3>3. [h EXCEPT ![s].children = <<s + 1>>]
            = [h EXCEPT ![s].children = Append(@, s + 1)]
      <4>1. h[s].children = <<>>
        BY <2>2, <3>2
      <4>2. \A x : Append(<<>>, x) = <<x>>
        OBVIOUS
      <4>3. Append(h[s].children, s + 1) = <<s + 1>>
        BY <4>1, <4>2
      <4> QED BY <4>3
    <3>4. u = AppendChild(h, s, "payload", state, 0, 0)
      BY <3>1, <3>3 DEF AppendChild
    <3> HIDE DEF s
    <3>5. GrewBy(h, u, s, 1) /\ u[Len(h) + 1].state = state
      BY ONLY <2>1, <3>2, <3>4, state \in States, GraftGrows
    <3>6. GrewBy(t, u, p, 1 + 1)
      BY <2>2, <3>2, <3>5, GrowsNewer
    <3>7. u[s].state = state /\ Len(u) = Len(t) + 2 /\ u[Len(t) + 2].state = state
      BY <1>1, <2>2, <3>2, <3>5 DEF GrewBy
    <3>8. AllIn(u, Len(t) + 1, state)
      BY <1>1, <3>2, <3>7 DEF AllIn
    <3>9. 1 + 1 = made
      BY <2>4
    <3> QED BY <3>6, <3>8, <3>9
  <2> QED BY <1>3, <2>3, <2>4
<1> QED BY <1>2, <1>3

(* Several children at once. *)
LEMMA OnceAmong ==
  ASSUME NEW c \in Seq(Nat), NEW n \in Nat, NEW L \in Nat, NEW d,
         Len(d) = Len(c) + n,
         \A k \in 1..Len(c) : d[k] = c[k] /\ c[k] \in 1..L,
         \A k \in 1..n : d[Len(c) + k] = L + k
  PROVE  /\ \A i \in 1..L : Once(c, i) => Once(d, i)
         /\ \A k \in 1..n : Once(d, L + k)
<1> DEFINE m == Len(c)
<1>0. m \in Nat /\ Len(d) = m + n
  OBVIOUS
<1> HIDE DEF m
<1>1. ASSUME NEW j \in 1..Len(d)
      PROVE  \/ j \in 1..m /\ d[j] = c[j] /\ d[j] \in 1..L
             \/ j \in (m + 1)..(m + n) /\ d[j] = L + (j - m)
  <2>1. CASE j <= m
    BY <1>0, <2>1 DEF m
  <2>2. CASE j > m
    <3>1. j - m \in 1..n /\ m + (j - m) = j
      BY <1>0, <2>2
    <3>2. d[m + (j - m)] = L + (j - m)
      BY <3>1 DEF m
    <3> QED BY <1>0, <2>2, <3>1, <3>2
  <2> QED BY <1>0, <2>1, <2>2
<1>2. ASSUME NEW i \in 1..L, Once(c, i)
      PROVE  Once(d, i)
  <2>1. PICK k \in 1..m : c[k] = i /\ \A j \in 1..m : c[j] = i => j = k
    BY <1>2 DEF Once, m
  <2>2. k \in 1..Len(d) /\ d[k] = i
    BY <1>0, <2>1 DEF m
  <2>3. ASSUME NEW j \in 1..Len(d), d[j] = i PROVE j = k
    <3>1. j \in 1..m
      BY <1>0, <1>1, <2>3
    <3>2. c[j] = i
      BY <2>3, <3>1 DEF m
    <3> QED BY <2>1, <3>1, <3>2
  <2> QED BY <2>2, <2>3 DEF Once
<1>3. ASSUME NEW k \in 1..n
      PROVE  Once(d, L + k)
  <2>1. m + k \in 1..Len(d) /\ d[m + k] = L + k
    BY <1>0 DEF m
  <2>2. ASSUME NEW j \in 1..Len(d), d[j] = L + k PROVE j = m + k
    BY <1>0, <1>1, <2>2
  <2> QED BY <2>1, <2>2 DEF Once
<1> QED BY <1>2, <1>3

FieldNode(p) == NewNode(p, "field", "Materialized", 0, 0)

HasFields(t, u, p, n) ==
  /\ u \in Seq(Node) /\ Len(u) = Len(t) + n
  /\ \A i \in 1..Len(t) : i # p => u[i] = t[i]
  /\ \A i \in (Len(t) + 1)..(Len(t) + n) : u[i] = FieldNode(p)
  /\ u[p].parent = t[p].parent /\ u[p].state = t[p].state
  /\ u[p].kind = t[p].kind /\ u[p].tag = t[p].tag /\ u[p].room = t[p].room
  /\ Len(u[p].children) = Len(t[p].children) + n
  /\ \A k \in 1..Len(t[p].children) : u[p].children[k] = t[p].children[k]
  /\ \A k \in 1..n : u[p].children[Len(t[p].children) + k] = Len(t) + k

LEMMA FieldsAppended ==
  ASSUME NEW t, Tree(t), NEW p \in 1..Len(t), NEW n \in Nat, NEW u,
         u = AppendFields(t, p, n)
  PROVE  HasFields(t, u, p, n)
<1> DEFINE f == NewNode(p, "field", "Materialized", 0, 0)
           c == t[p].children
           ids == [i \in 1..n |-> Len(t) + i]
           d == c \o ids
           q == [t[p] EXCEPT !.children = d]
           s == [t EXCEPT ![p] = q]
           fs == [i \in 1..n |-> f]
<1>1. t \in Seq(Node) /\ Len(t) \in Nat
  BY Links
<1>2. f \in Node
  BY <1>1 DEF NewNode, Node, Kinds, States, Terminal
<1>3. t[p] \in Node /\ c \in Seq(Nat) /\ Len(c) \in Nat
  BY <1>1, NodeFields
<1>4. u = s \o fs
  BY DEF AppendFields
<1>5. ids \in Seq(Nat) /\ Len(ids) = n /\ \A k \in 1..n : ids[k] = Len(t) + k
  BY <1>1
<1>6. fs \in Seq(Node) /\ Len(fs) = n /\ \A k \in 1..n : fs[k] = f
  <2> HIDE DEF f
  <2> QED BY <1>2
<1> HIDE DEF f, ids, fs
<1>7. /\ d \in Seq(Nat) /\ Len(d) = Len(c) + Len(ids)
      /\ \A i \in 1..Len(c) + Len(ids) : d[i] = IF i <= Len(c) THEN c[i] ELSE ids[i - Len(c)]
  <2> HIDE DEF c
  <2> QED BY ONLY <1>3, <1>5, ConcatProperties
<1> HIDE DEF c
<1>8. /\ Len(d) = Len(c) + n
      /\ \A k \in 1..Len(c) : d[k] = c[k]
      /\ \A k \in 1..n : d[Len(c) + k] = Len(t) + k
  <2>1. Len(d) = Len(c) + n
    BY <1>5, <1>7
  <2>2. ASSUME NEW k \in 1..Len(c) PROVE d[k] = c[k]
    BY <1>3, <1>5, <1>7
  <2>3. ASSUME NEW k \in 1..n PROVE d[Len(c) + k] = Len(t) + k
    <3>1. Len(c) + k \in 1..Len(c) + Len(ids) /\ ~ (Len(c) + k <= Len(c))
          /\ Len(c) + k - Len(c) = k
      BY <1>3, <1>5
    <3> QED BY <1>5, <1>7, <3>1
  <2> QED BY <2>1, <2>2, <2>3
<1> HIDE DEF d
<1>9. /\ q \in Node /\ q.children = d /\ q.parent = t[p].parent /\ q.state = t[p].state
      /\ q.kind = t[p].kind /\ q.tag = t[p].tag /\ q.room = t[p].room
  BY <1>3, <1>7 DEF Node
<1> HIDE DEF q
<1>10. /\ s \in Seq(Node) /\ Len(s) = Len(t) /\ s[p] = q
       /\ \A i \in 1..Len(t) : i # p => s[i] = t[i]
  BY <1>1, <1>9
<1> HIDE DEF s
<1>11. /\ u \in Seq(Node) /\ Len(u) = Len(s) + Len(fs)
       /\ \A i \in 1..Len(s) + Len(fs) : u[i] = IF i <= Len(s) THEN s[i] ELSE fs[i - Len(s)]
  <2>1. /\ s \o fs \in Seq(Node) /\ Len(s \o fs) = Len(s) + Len(fs)
        /\ \A i \in 1..Len(s) + Len(fs) :
             (s \o fs)[i] = IF i <= Len(s) THEN s[i] ELSE fs[i - Len(s)]
    BY ONLY <1>6, <1>10, ConcatProperties
  <2> QED BY <1>4, <2>1
<1>12. /\ Len(u) = Len(t) + n
       /\ \A i \in 1..Len(t) : u[i] = s[i]
       /\ \A i \in (Len(t) + 1)..(Len(t) + n) : u[i] = f
  <2>1. Len(u) = Len(t) + n
    BY <1>6, <1>10, <1>11
  <2>2. ASSUME NEW i \in 1..Len(t) PROVE u[i] = s[i]
    BY <1>1, <1>6, <1>10, <1>11
  <2>3. ASSUME NEW i \in (Len(t) + 1)..(Len(t) + n) PROVE u[i] = f
    <3>1. i \in 1..Len(s) + Len(fs) /\ ~ (i <= Len(s)) /\ i - Len(s) \in 1..n
      BY <1>1, <1>6, <1>10
    <3> QED BY <1>6, <1>11, <3>1
  <2> QED BY <2>1, <2>2, <2>3
<1>13. u[p] = q /\ \A i \in 1..Len(t) : i # p => u[i] = t[i]
  BY <1>10, <1>12
<1>14. f = FieldNode(p)
  BY DEF f, FieldNode
<1>15. u[p].children = d
  BY <1>9, <1>13
<1> QED BY <1>2, <1>8, <1>9, <1>11, <1>12, <1>13, <1>14, <1>15 DEF c, HasFields

LEMMA FieldsGrow ==
  ASSUME NEW t, Tree(t), NEW p \in 1..Len(t), NEW n \in Nat, NEW u,
         u = AppendFields(t, p, n)
  PROVE  GrewBy(t, u, p, n) /\ AllIn(u, Len(t) + 1, "Materialized")
<1> DEFINE L == Len(t)
           c == t[p].children
           d == u[p].children
<1>1. /\ t \in Seq(Node) /\ L \in Nat /\ L >= 1 /\ 1 \in 1..L
      /\ Linked(t)
  BY Links DEF RootId
<1> DEFINE f == FieldNode(p)
<1>2. /\ u \in Seq(Node) /\ Len(u) = L + n
      /\ \A i \in 1..L : i # p => u[i] = t[i]
      /\ \A i \in (L + 1)..(L + n) : u[i] = f
      /\ u[p].parent = t[p].parent /\ u[p].state = t[p].state
      /\ u[p].kind = t[p].kind /\ u[p].tag = t[p].tag /\ u[p].room = t[p].room
      /\ Len(d) = Len(c) + n
      /\ \A k \in 1..Len(c) : d[k] = c[k]
      /\ \A k \in 1..n : d[Len(c) + k] = L + k
  <2>1. HasFields(t, u, p, n)
    BY FieldsAppended
  <2> QED BY <2>1 DEF HasFields
<1>3. f.parent = p /\ f.children = <<>> /\ f.state = "Materialized"
  BY DEF NewNode, FieldNode
<1> HIDE DEF f
<1>4. c \in Seq(Nat) /\ Len(c) \in Nat
  BY <1>1, NodeFields
<1>5. \A k \in 1..Len(c) : c[k] \in 1..L /\ t[c[k]].parent = p
  BY <1>1 DEF Linked
<1>6. \A i \in 2..L : /\ t[i].parent \in 1..(i - 1) /\ t[i].parent \in 1..L /\ i \in 1..L
                      /\ Once(t[t[i].parent].children, i)
  BY <1>1 DEF Linked
<1>7. /\ \A i \in 1..L : Once(c, i) => Once(d, i)
      /\ \A k \in 1..n : Once(d, L + k)
  <2>1. \A k \in 1..Len(c) : d[k] = c[k] /\ c[k] \in 1..L
    BY <1>2, <1>5
  <2>2. Len(d) = Len(c) + n /\ \A k \in 1..n : d[Len(c) + k] = L + k
    BY <1>2
  <2> HIDE DEF c, d, L
  <2> QED BY <1>1, <1>4, <2>1, <2>2, OnceAmong
<1>8. \A i \in 1..L : u[i].parent = t[i].parent
  BY <1>2
<1> HIDE DEF L
<1>9. ASSUME NEW i \in 2..(L + n)
      PROVE  u[i].parent \in 1..(i - 1) /\ Once(u[u[i].parent].children, i)
  <2>1. CASE i > L
    <3>1. i \in (L + 1)..(L + n) /\ i - L \in 1..n /\ L + (i - L) = i
      BY <1>1, <2>1
    <3>2. u[i].parent = p /\ p \in 1..L
      BY <1>2, <1>3, <3>1 DEF L
    <3>3. Once(d, L + (i - L))
      BY <1>7, <3>1
    <3> QED BY <1>1, <2>1, <3>1, <3>2, <3>3
  <2>2. CASE i <= L
    <3>1. i \in 2..L
      BY <1>1, <2>2
    <3>2. /\ u[i].parent = t[i].parent /\ t[i].parent \in 1..(i - 1)
          /\ t[i].parent \in 1..L /\ i \in 1..L
      BY <1>6, <1>8, <3>1
    <3>3. CASE t[i].parent = p
      BY <1>6, <1>7, <3>1, <3>2, <3>3
    <3>4. CASE t[i].parent # p
      BY <1>2, <1>6, <3>1, <3>2, <3>4
    <3> QED BY <3>3, <3>4
  <2> QED BY <1>1, <2>1, <2>2
<1>10. ASSUME NEW i \in 1..(L + n), NEW k \in 1..Len(u[i].children)
       PROVE  u[i].children[k] \in 1..(L + n) /\ u[u[i].children[k]].parent = i
  <2>1. CASE i > L
    <3>1. i \in (L + 1)..(L + n)
      BY <1>1, <2>1
    <3> QED BY <1>2, <1>3, <3>1
  <2>2. CASE i = p
    <3>0. k \in 1..(Len(c) + n)
      BY <1>2, <2>2
    <3>1. CASE k > Len(c)
      <4>1. k - Len(c) \in 1..n /\ Len(c) + (k - Len(c)) = k
        BY <1>4, <3>0, <3>1
      <4>2. PICK j \in 1..n : j = k - Len(c)
        BY <4>1
      <4>3. d[k] = L + j
        BY <1>2, <4>1, <4>2
      <4>4. L + j \in (L + 1)..(L + n) /\ L + j \in 1..(L + n)
        BY <1>1
      <4>5. u[L + j].parent = p
        BY <1>2, <1>3, <4>4
      <4>6. u[i].children[k] = L + j
        BY <2>2, <4>3
      <4> QED BY <2>2, <4>4, <4>5, <4>6
    <3>2. CASE k <= Len(c)
      <4>1. k \in 1..Len(c)
        BY <1>4, <3>0, <3>2
      <4>2. d[k] = c[k] /\ c[k] \in 1..L /\ t[c[k]].parent = p
        BY <1>2, <1>5, <4>1
      <4> QED BY <1>1, <1>8, <2>2, <4>2
    <3> QED BY <1>4, <3>0, <3>1, <3>2
  <2>3. CASE i # p /\ i <= L
    <3>1. i \in 1..L /\ u[i] = t[i]
      BY <1>1, <1>2, <2>3
    <3>2. t[i].children[k] \in 1..L /\ t[t[i].children[k]].parent = i
      BY <1>1, <3>1 DEF Linked, L
    <3>3. PICK e \in 1..L : e = t[i].children[k] /\ t[e].parent = i
      BY <3>2
    <3>4. e \in 1..(L + n) /\ u[e].parent = i
      BY <1>1, <1>8, <3>3
    <3> QED BY <3>1, <3>3, <3>4
  <2> QED BY <1>1, <2>1, <2>2, <2>3
<1>11. Len(u) >= 1 /\ u[1].parent = 0
  BY <1>1, <1>2, <1>8 DEF Linked
<1>12. Linked(u)
  BY <1>2, <1>9, <1>10, <1>11 DEF Linked
<1>13. Tree(u)
  BY <1>2, <1>12, LinkedIsWellLinked DEF Tree
<1>14. Below(t, u, p)
  BY <1>1, <1>2, <1>4, <1>13 DEF Below, L
<1> QED BY <1>1, <1>2, <1>3, <1>14 DEF GrewBy, AllIn, L

(* A sample or a unit is begun: a node being indexed, and its fields.      *)
LEMMA BegunGrows ==
  ASSUME NEW t, Tree(t), NEW p \in 1..Len(t), NEW kind \in Kinds, NEW tag \in Nat,
         NEW n \in Nat, NEW u,
         u = AppendFields(AppendChild(t, p, kind, "Indexing", tag, 0), Len(t) + 1, n)
  PROVE  /\ GrewBy(t, u, p, 1 + n) /\ u[Len(t) + 1].state = "Indexing"
         /\ AllIn(u, Len(t) + 2, "Materialized")
<1>0. Len(t) \in Nat /\ "Indexing" \in States
  BY Links DEF States, Active
<1>1. PICK h : h = AppendChild(t, p, kind, "Indexing", tag, 0)
  OBVIOUS
<1>2. GrewBy(t, h, p, 1) /\ h[Len(t) + 1].state = "Indexing"
  BY <1>0, <1>1, GraftGrows
<1>3. PICK s : s = Len(t) + 1
  OBVIOUS
<1>4. Tree(h) /\ Len(h) = s /\ s \in 1..Len(h) /\ s > Len(t)
  BY <1>0, <1>2, <1>3 DEF GrewBy, Below
<1>5. u = AppendFields(h, s, n)
  BY <1>1, <1>3
<1>6. GrewBy(h, u, s, n) /\ AllIn(u, Len(h) + 1, "Materialized")
  BY <1>4, <1>5, FieldsGrow
<1>7. 1 \in Nat
  OBVIOUS
<1>8. GrewBy(t, u, p, 1 + n)
  BY <1>2, <1>4, <1>6, <1>7, GrowsNewer
<1>9. u[s].state = "Indexing"
  BY <1>2, <1>3, <1>6 DEF GrewBy
<1>10. Len(h) + 1 = Len(t) + 2
  BY <1>0, <1>3, <1>4
<1> QED BY <1>3, <1>6, <1>8, <1>9, <1>10

LEMMA FailureStates ==
  ASSUME NEW s \in Codes
  PROVE  /\ StateForFailure(s) \in States /\ StateForFailure(s) # "Indexing"
         /\ CanTransition("Indexing", StateForFailure(s))
  BY DEF StateForFailure, States, Active, Terminal, CanTransition

(* A run leaves the nodes it made in one state, and none of them open.     *)
LEMMA RunGrows ==
  ASSUME NEW t, Tree(t), NEW p \in 1..Len(t), NEW r, NEW limit, NEW run,
         RunOf(run, r, t, p, limit)
  PROVE  /\ GrewBy(t, run.tree, p, run.made)
         /\ \A k \in (Len(t) + 1)..Len(run.tree) : run.tree[k].state # "Indexing"
         /\ run.status = "Materialized" =>
              /\ run.made > 0
              /\ AllIn(run.tree, Len(t) + 1, "Materialized")
<1> DEFINE state == IF run.status = "Materialized" THEN run.status
                    ELSE StateForFailure(run.status)
<1>1. state \in States /\ state # "Indexing"
  <2>1. run.status \in {"Materialized"} \cup Codes
    BY DEF RunOf
  <2> QED BY <2>1, FailureStates DEF States, Terminal
<1>2. run.made \in 0..2 /\ run.tree = Structures(t, p, run.made, state)
  BY DEF RunOf
<1>3. run.status = "Materialized" => state = "Materialized" /\ run.made > 0
  BY DEF RunOf
<1> HIDE DEF state
<1>4. GrewBy(t, run.tree, p, run.made) /\ AllIn(run.tree, Len(t) + 1, state)
  BY ONLY <1>1, <1>2, Tree(t), p \in 1..Len(t), StructuresGrow
<1> QED BY <1>1, <1>3, <1>4 DEF AllIn

(* A unit is closed, whatever its execution came to.                       *)
LEMMA UnitCloses ==
  ASSUME NEW t, Tree(t), NEW s \in 1..Len(t), t[s].state = "Indexing",
         NEW r, NEW limit, NEW run, RunOf(run, r, t, s, limit), NEW u,
         u = IF run.status = "Materialized" THEN Transition(run.tree, s, "Materialized")
             ELSE MarkPartial(run.tree, s, StateForFailure(run.status), run.status)
  PROVE  /\ Below(t, u, s) /\ Len(u) = Len(t) + run.made
         /\ u[s].state # "Indexing"
         /\ \A k \in (Len(t) + 1)..Len(u) : u[k].state # "Indexing"
<1>1. /\ GrewBy(t, run.tree, s, run.made)
      /\ \A k \in (Len(t) + 1)..Len(run.tree) : run.tree[k].state # "Indexing"
  BY RunGrows
<1>2. run.status \in {"Materialized"} \cup Codes
  BY DEF RunOf
<1>3. PICK v : v = run.tree
  OBVIOUS
<1>4. /\ Below(t, v, s) /\ Tree(v) /\ v \in Seq(Node) /\ Len(v) \in Nat /\ Len(t) \in Nat
      /\ Len(v) = Len(t) + run.made /\ s \in 1..Len(v) /\ v[s].state = "Indexing"
  BY <1>1, <1>3, Links DEF GrewBy, Below
<1>5. OnlyMarks(v, u, s) /\ u[s].state # "Indexing"
  <2>1. CASE run.status = "Materialized"
    <3>1. u = Transition(v, s, "Materialized")
      BY <1>3, <2>1
    <3>2. "Materialized" \in States /\ CanTransition("Indexing", "Materialized")
      BY DEF States, Terminal, CanTransition, Active
    <3>3. /\ OnlyMarks(v, Transition(v, s, "Materialized"), s)
          /\ Transition(v, s, "Materialized")[s].state
               = IF CanTransition(v[s].state, "Materialized") THEN "Materialized"
                 ELSE v[s].state
      BY <1>4, <3>2, TransitionMarks
    <3> QED BY <1>4, <3>1, <3>2, <3>3
  <2>2. CASE run.status # "Materialized"
    <3>1. PICK c \in Codes : c = run.status
      BY <1>2, <2>2
    <3>2. PICK to : to = StateForFailure(c)
      OBVIOUS
    <3>3. u = MarkPartial(v, s, to, c)
      BY <1>3, <2>2, <3>1, <3>2
    <3>4. to \in States /\ to # "Indexing" /\ CanTransition("Indexing", to)
      BY <3>2, FailureStates
    <3>5. /\ OnlyMarks(v, MarkPartial(v, s, to, c), s)
          /\ MarkPartial(v, s, to, c)[s].state
               = IF CanTransition(v[s].state, to) THEN to ELSE v[s].state
      BY <1>4, <3>4, MarkPartialMarks
    <3> QED BY <1>4, <3>3, <3>4, <3>5
  <2> QED BY <2>1, <2>2
<1>6. Below(v, u, s)
  BY <1>4, <1>5, MarksBelow
<1>7. Below(t, u, s)
  BY <1>4, <1>6, BelowComposes
<1>8. Len(u) = Len(t) + run.made
  BY <1>4, <1>5 DEF OnlyMarks
<1>9. ASSUME NEW k \in (Len(t) + 1)..Len(u)
      PROVE  u[k].state # "Indexing"
  <2>1. CASE k = s
    BY <1>5, <2>1
  <2>2. CASE k # s
    <3>1. k \in 1..Len(v) /\ k \in (Len(t) + 1)..Len(v)
      BY <1>4, <1>8
    <3>2. u[k] = v[k]
      BY <1>5, <2>2, <3>1 DEF OnlyMarks
    <3> QED BY <1>1, <1>3, <3>1, <3>2
  <2> QED BY <2>1, <2>2
<1> QED BY <1>5, <1>7, <1>8, <1>9

-----------------------------------------------------------------------------
(* The inductive invariant of navigation.  Kept is what is there between   *)
(* calls and stays when a call fails: everything that concerns finished    *)
(* samples is said of it, and of a call only what it has added.            *)

Kept == IF Idle THEN sessions ELSE call.before

Presentable(t, n) == n \in 2..Len(t) /\ t[n].state = "Materialized"
Quiet(t) == \A i \in 2..Len(t) : t[i].state # "Indexing"

TrackSession(x) ==
  /\ x = [tree |-> x.tree, rules |-> x.rules, samples |-> x.samples]
  /\ Tree(x.tree) /\ IsRules(x.rules)
  /\ \A s \in DOMAIN x.samples : Presentable(x.tree, x.samples[s].node)

(* A child format's session has made no more nodes than it was charged for.*)
ChildSession(x) ==
  /\ Tree(x.tree) /\ Quiet(x.tree) /\ IsRules(x.rules)
  /\ x.rules.limit = SessionLimit /\ x.rules.spent <= SessionLimit
  /\ Len(x.tree) <= 1 + x.rules.spent

SessionsSound(kept) ==
  /\ kept = [k \in DOMAIN kept |-> kept[k]]
  /\ DOMAIN kept \subseteq DOMAIN Tracks
  /\ \A k \in DOMAIN kept : TrackSession(kept[k]) /\ Quiet(kept[k].tree)
  /\ Nodes(kept, DOMAIN kept) <= MaxRetained

KeptSound     == SessionsSound(Kept)
ChildrenSound == \A f \in DOMAIN children : ChildSession(children[f])

Frames == [kind: {"sample", "child"},
           key: DOMAIN Tracks \cup {c.format : c \in Children},
           sample: Nat, node: Nat,
           parent: {0} \cup {c.node : c \in Children}]

PlacedIn(frame, kept, kids) ==
  IF frame.kind = "sample"
  THEN frame.key \in DOMAIN kept /\ Presentable(kept[frame.key].tree, frame.node)
  ELSE frame.key \in DOMAIN kids /\ Presentable(kids[frame.key].tree, frame.node)

Placed(frames, kept, kids) ==
  /\ frames \in Seq(Frames)
  /\ \A i \in 1..Len(frames) : PlacedIn(frames[i], kept, kids)

StackSound == Placed(stack, Kept, children)

(* A call c that has made the sessions s of what there was before.         *)
Preparation(pc, track, sample, created, next, limit, before) ==
  [pc |-> pc, track |-> track, sample |-> sample, created |-> created, next |-> next,
   limit |-> limit, before |-> before]

Execution(c, next, units, bound) ==
  [pc |-> "units", track |-> c.track, sample |-> c.sample, created |-> c.created,
   next |-> next, limit |-> c.limit, before |-> c.before, node |-> c.node,
   units |-> units, bound |-> bound, snapshot |-> c.snapshot, saved |-> c.saved]

(* A call has created its session when there was none.                     *)
Created(created, before, track) == created = (track \notin DOMAIN before)

CallShape(c) ==
  /\ c.pc \in {"prime", "frame", "units"}
  /\ c = IF c.pc = "units" THEN Execution(c, c.next, c.units, c.bound)
         ELSE Preparation(c.pc, c.track, c.sample, c.created, c.next, c.limit, c.before)
  /\ c.track \in DOMAIN Tracks /\ c.sample \in SampleIndices(c.track)
  /\ c.next \in Nat \ {0} /\ c.limit \in Nat
  /\ Created(c.created, c.before, c.track)

(* Only the session of the call's track is another one, and what is kept   *)
(* in it is still there.                                                   *)
Grown(c, s) ==
  /\ s = [k \in DOMAIN c.before \cup {c.track} |-> s[k]]
  /\ \A k \in DOMAIN c.before \ {c.track} : s[k] = c.before[k]
  /\ TrackSession(s[c.track])
  /\ ~c.created => /\ s[c.track].samples = c.before[c.track].samples
                   /\ Below(c.before[c.track].tree, s[c.track].tree, RootId)

(* The nodes the call may still make have room beside all others.          *)
Others(c) == Nodes(c.before, DOMAIN c.before \ {c.track})

Preparing(c, s) ==
  /\ c.pc = "prime" => c.created
  /\ Quiet(s[c.track].tree)
  /\ Others(c) + Len(s[c.track].tree) + c.limit <= MaxRetained
  /\ ~c.created => s[c.track] = c.before[c.track]

DecodingIn(c, t) ==
  /\ c.snapshot.count \in Nat \ {0}
  /\ c.node = c.snapshot.count + 1
  /\ c.node <= Len(t) /\ t[c.node].state = "Indexing"
  /\ \A i \in 2..Len(t) : i # c.node => t[i].state # "Indexing"
  /\ Len(t) <= c.snapshot.count + c.limit
  /\ Others(c) + c.snapshot.count + c.limit <= MaxRetained

Saved(c) ==
  ~c.created => /\ c.snapshot = Snapshot(c.before[c.track].tree, RootId)
                /\ c.saved = c.before[c.track].rules

Decoding(c, s) == DecodingIn(c, s[c.track].tree) /\ Saved(c)

Underway(c, s) ==
  /\ CallShape(c) /\ Grown(c, s)
  /\ c.pc # "units" => Preparing(c, s)
  /\ c.pc = "units" => Decoding(c, s)

CallSound == ~Idle => Underway(call, sessions)

NavInv == KeptSound /\ ChildrenSound /\ StackSound /\ CallSound

-----------------------------------------------------------------------------
(* Assignments to some fields of a record. *)

Proceeded(c, next, limit) == [c EXCEPT !.next = next, !.limit = limit]

LEMMA ProceededIs ==
  ASSUME NEW pc, NEW track, NEW sample, NEW created, NEW next, NEW limit, NEW before,
         NEW n, NEW l
  PROVE  Proceeded(Preparation(pc, track, sample, created, next, limit, before), n, l)
           = Preparation(pc, track, sample, created, n, l, before)
<1>1. PICK c : c = Preparation(pc, track, sample, created, next, limit, before)
  OBVIOUS
<1> DEFINE y == [c EXCEPT !.next = n]
<1>2. y = Preparation(pc, track, sample, created, n, limit, before)
  BY <1>1 DEF Preparation
<1>3. Proceeded(c, n, l) = [y EXCEPT !.limit = l]
  BY DEF Proceeded
<1> HIDE DEF y
<1>4. [y EXCEPT !.limit = l] = Preparation(pc, track, sample, created, n, l, before)
  BY <1>2 DEF Preparation
<1> QED BY <1>1, <1>3, <1>4

Advanced(c, next, units, bound) ==
  [c EXCEPT !.next = next, !.units = units, !.bound = bound]

LEMMA AdvancedIs ==
  ASSUME NEW c, c = Execution(c, c.next, c.units, c.bound), NEW n, NEW u, NEW b
  PROVE  Advanced(c, n, u, b) = Execution(c, n, u, b)
<1>1. PICK a1, a2, a3, a4, a5, a6, a7, a8, a9, a10, a11 :
        c = [pc |-> "units", track |-> a1, sample |-> a2, created |-> a3,
             next |-> a4, limit |-> a5, before |-> a6, node |-> a7,
             units |-> a8, bound |-> a9, snapshot |-> a10, saved |-> a11]
  BY DEF Execution
<1> DEFINE y == [c EXCEPT !.next = n]
           z == [y EXCEPT !.units = u]
<1>2. y = [pc |-> "units", track |-> a1, sample |-> a2, created |-> a3,
           next |-> n, limit |-> a5, before |-> a6, node |-> a7,
           units |-> a8, bound |-> a9, snapshot |-> a10, saved |-> a11]
  BY <1>1
<1>3. Advanced(c, n, u, b) = [z EXCEPT !.bound = b]
  BY DEF Advanced
<1> HIDE DEF y
<1>4. z = [pc |-> "units", track |-> a1, sample |-> a2, created |-> a3,
           next |-> n, limit |-> a5, before |-> a6, node |-> a7,
           units |-> u, bound |-> a9, snapshot |-> a10, saved |-> a11]
  BY <1>2
<1> HIDE DEF z
<1>5. [z EXCEPT !.bound = b]
        = [pc |-> "units", track |-> a1, sample |-> a2, created |-> a3,
           next |-> n, limit |-> a5, before |-> a6, node |-> a7,
           units |-> u, bound |-> b, snapshot |-> a10, saved |-> a11]
  BY <1>4
<1>6. Execution(c, n, u, b)
        = [pc |-> "units", track |-> a1, sample |-> a2, created |-> a3,
           next |-> n, limit |-> a5, before |-> a6, node |-> a7,
           units |-> u, bound |-> b, snapshot |-> a10, saved |-> a11]
  BY <1>1 DEF Execution
<1> QED BY <1>3, <1>5, <1>6

Session(tree, rules, samples) == [tree |-> tree, rules |-> rules, samples |-> samples]

(* The sessions s with the session of a track replaced.                    *)
Put(s, track, x) == [k \in DOMAIN s |-> IF k = track THEN x ELSE s[k]]

LEMMA PutIs ==
  ASSUME NEW s, s = [k \in DOMAIN s |-> s[k]], NEW track \in DOMAIN s, NEW x, NEW u,
         u = Put(s, track, x)
  PROVE  /\ u = [k \in DOMAIN s |-> u[k]] /\ DOMAIN u = DOMAIN s /\ u[track] = x
         /\ \A k \in DOMAIN s : k # track => u[k] = s[k]
  BY DEF Put

LEMMA PutTwice ==
  ASSUME NEW s, NEW track \in DOMAIN s, NEW x, NEW y
  PROVE  Put(Put(s, track, x), track, y) = Put(s, track, y)
  BY DEF Put

Updated(s, track, tree, rules) ==
  [s EXCEPT ![track].tree = tree, ![track].rules = rules]

Closed(s, track, tree, samples) ==
  [s EXCEPT ![track].tree = tree, ![track].samples = samples]

LEMMA ReplacedIs ==
  ASSUME NEW s, s = [k \in DOMAIN s |-> s[k]], NEW track \in DOMAIN s,
         NEW x, NEW e, NEW f, s[track] = Session(x, e, f)
  PROVE  /\ \A t : [s EXCEPT ![track].tree = t] = Put(s, track, Session(t, e, f))
         /\ \A r : [s EXCEPT ![track].rules = r] = Put(s, track, Session(x, r, f))
         /\ \A a : [s EXCEPT ![track].samples = a] = Put(s, track, Session(x, e, a))
<1>1. ASSUME NEW y
      PROVE  [s EXCEPT ![track] = y] = Put(s, track, y)
  BY DEF Put
<1>2. ASSUME NEW t
      PROVE  [s EXCEPT ![track].tree = t] = Put(s, track, Session(t, e, f))
  <2>1. [Session(x, e, f) EXCEPT !.tree = t] = Session(t, e, f)
    BY DEF Session
  <2> QED BY <1>1, <2>1
<1>3. ASSUME NEW t
      PROVE  [s EXCEPT ![track].rules = t] = Put(s, track, Session(x, t, f))
  <2>1. [Session(x, e, f) EXCEPT !.rules = t] = Session(x, t, f)
    BY DEF Session
  <2> QED BY <1>1, <2>1
<1>4. ASSUME NEW t
      PROVE  [s EXCEPT ![track].samples = t] = Put(s, track, Session(x, e, t))
  <2>1. [Session(x, e, f) EXCEPT !.samples = t] = Session(x, e, t)
    BY DEF Session
  <2> QED BY <1>1, <2>1
<1> QED BY <1>2, <1>3, <1>4

LEMMA UpdatedIs ==
  ASSUME NEW s, s = [k \in DOMAIN s |-> s[k]], NEW track \in DOMAIN s,
         NEW x, NEW e, NEW f, s[track] = Session(x, e, f), NEW t, NEW r
  PROVE  /\ Updated(s, track, t, r) = Put(s, track, Session(t, r, f))
         /\ Closed(s, track, t, r) = Put(s, track, Session(t, e, r))
<1> DEFINE u == [s EXCEPT ![track].tree = t]
<1>1. u = Put(s, track, Session(t, e, f))
  BY ReplacedIs
<1>2. /\ Updated(s, track, t, r) = [u EXCEPT ![track].rules = r]
      /\ Closed(s, track, t, r) = [u EXCEPT ![track].samples = r]
  BY DEF Updated, Closed
<1> HIDE DEF u
<1>3. /\ u = [k \in DOMAIN u |-> u[k]] /\ track \in DOMAIN u
      /\ u[track] = Session(t, e, f)
  BY <1>1, PutIs
<1>4. /\ [u EXCEPT ![track].rules = r] = Put(u, track, Session(t, r, f))
      /\ [u EXCEPT ![track].samples = r] = Put(u, track, Session(t, e, r))
  BY <1>3, ReplacedIs
<1>5. \A y : Put(u, track, y) = Put(s, track, y)
  BY <1>1, PutTwice
<1> QED BY <1>2, <1>4, <1>5

-----------------------------------------------------------------------------
(* What grows elsewhere leaves a presented node alone. *)

LEMMA PresentableBelow ==
  ASSUME NEW t, Tree(t), NEW p \in 1..Len(t), NEW u, Below(t, u, p),
         NEW n, Presentable(t, n), p = RootId \/ t[p].state # "Materialized"
  PROVE  Presentable(u, n) /\ u[n] = t[n]
<1>1. Len(t) \in Nat /\ Len(u) \in Nat /\ Len(u) >= Len(t)
  BY Links DEF Below
<1>2. n \in 2..Len(t) /\ n \in 1..Len(t) /\ t[n].state = "Materialized" /\ n # p
  BY <1>1 DEF Presentable, RootId
<1>3. u[n] = t[n]
  BY <1>2 DEF Below
<1> QED BY <1>1, <1>2, <1>3 DEF Presentable

(* Below a node p that is not presented, a session's tree becomes t.       *)
Sprouts(w, p, t) ==
  /\ p \in 1..Len(w.tree)
  /\ p = RootId \/ w.tree[p].state # "Materialized"
  /\ Below(w.tree, t, p)

LEMMA TrackGrows ==
  ASSUME NEW w, TrackSession(w), NEW p, NEW u, Sprouts(w, p, u), NEW r, IsRules(r),
         NEW x, x = Session(u, r, w.samples)
  PROVE  /\ TrackSession(x)
         /\ x.tree = u /\ x.rules = r /\ x.samples = w.samples
<1>1. x.tree = u /\ x.rules = r /\ x.samples = w.samples
  BY DEF Session
<1>2. x = [tree |-> x.tree, rules |-> x.rules, samples |-> x.samples]
  BY DEF Session
<1>3. Tree(w.tree) /\ Tree(u)
  BY DEF TrackSession, Below, Sprouts
<1>4. ASSUME NEW s \in DOMAIN w.samples
      PROVE  Presentable(u, w.samples[s].node)
  <2>1. PICK n : n = w.samples[s].node
    OBVIOUS
  <2>2. Presentable(w.tree, n)
    BY <2>1 DEF TrackSession
  <2>3. Presentable(u, n)
    <3>1. PICK v : v = w.tree
      OBVIOUS
    <3>2. /\ Tree(v) /\ p \in 1..Len(v) /\ Below(v, u, p) /\ Presentable(v, n)
          /\ (p = RootId \/ v[p].state # "Materialized")
      BY <1>3, <2>2, <3>1 DEF Sprouts
    <3> QED BY ONLY <3>2, PresentableBelow
  <2> QED BY <2>1, <2>3
<1> QED BY <1>1, <1>2, <1>3, <1>4 DEF TrackSession

LEMMA QuietGrows ==
  ASSUME NEW t, Tree(t), Quiet(t), NEW u, Below(t, u, RootId),
         \A k \in (Len(t) + 1)..Len(u) : u[k].state # "Indexing"
  PROVE  Quiet(u)
<1>1. Len(t) \in Nat /\ Len(u) \in Nat
  BY Links DEF Below
<1>2. ASSUME NEW i \in 2..Len(u)
      PROVE  u[i].state # "Indexing"
  <2>1. CASE i <= Len(t)
    <3>1. i \in 2..Len(t) /\ i \in 1..Len(t) /\ i # RootId
      BY <1>1, <2>1 DEF RootId
    <3>2. u[i] = t[i]
      BY <3>1 DEF Below
    <3> QED BY <3>1, <3>2 DEF Quiet
  <2>2. CASE i > Len(t)
    <3>1. i \in (Len(t) + 1)..Len(u)
      BY <1>1, <2>2
    <3> QED BY <3>1
  <2> QED BY <1>1, <2>1, <2>2
<1> QED BY <1>2 DEF Quiet

(* The sessions kept can be counted.                                       *)
LEMMA SessionsCounted ==
  ASSUME NEW kept, SessionsSound(kept)
  PROVE  /\ IsFiniteSet(DOMAIN kept) /\ Weighed(kept, DOMAIN kept)
         /\ Nodes(kept, DOMAIN kept) \in Nat
         /\ \A k : Nodes(kept, DOMAIN kept \ {k}) \in Nat
         /\ \A k \in DOMAIN kept :
              Nodes(kept, DOMAIN kept)
                = Len(kept[k].tree) + Nodes(kept, DOMAIN kept \ {k})
<1>1. IsFiniteSet(DOMAIN kept)
  BY NavigationAssumption, FS_Subset DEF SessionsSound
<1>2. ASSUME NEW k \in DOMAIN kept
      PROVE  Len(kept[k].tree) \in Nat
  BY Links DEF SessionsSound, TrackSession
<1>3. Weighed(kept, DOMAIN kept)
  BY <1>2 DEF Weighed
<1>4. ASSUME NEW k
      PROVE  Nodes(kept, DOMAIN kept \ {k}) \in Nat
  <2>1. IsFiniteSet(DOMAIN kept \ {k}) /\ Weighed(kept, DOMAIN kept \ {k})
    BY <1>1, <1>2, FS_Subset DEF Weighed
  <2> QED BY <2>1, NodesType
<1>5. Nodes(kept, DOMAIN kept) \in Nat
  BY <1>1, <1>3, NodesType
<1>6. ASSUME NEW k \in DOMAIN kept
      PROVE  Nodes(kept, DOMAIN kept) = Len(kept[k].tree) + Nodes(kept, DOMAIN kept \ {k})
  BY <1>1, <1>3, NodesOfOne
<1> QED BY <1>1, <1>3, <1>4, <1>5, <1>6

LEMMA RetainedIs == Retained = Nodes(sessions, DOMAIN sessions)
  BY DEF Retained, Nodes, MapThenFoldSet

(* What a call has put into the sessions leaves the others' sum alone.     *)
LEMMA OthersAre ==
  ASSUME NEW k, SessionsSound(k), NEW track, NEW s,
         s = [i \in DOMAIN k \cup {track} |-> s[i]],
         \A i \in DOMAIN k \ {track} : s[i] = k[i],
         Len(s[track].tree) \in Nat
  PROVE  /\ Nodes(k, DOMAIN k \ {track}) \in Nat
         /\ Nodes(s, DOMAIN s) = Len(s[track].tree) + Nodes(k, DOMAIN k \ {track})
<1> DEFINE S == DOMAIN s
           R == DOMAIN k \ {track}
<1>1. S = DOMAIN k \cup {track} /\ R = S \ {track} /\ track \in S
  OBVIOUS
<1>2. IsFiniteSet(DOMAIN k) /\ Nodes(k, R) \in Nat /\ Weighed(k, DOMAIN k)
  BY SessionsCounted
<1>3. IsFiniteSet(R) /\ Weighed(k, R) /\ IsFiniteSet(S)
  <2>1. IsFiniteSet(R) /\ IsFiniteSet(S)
    BY <1>1, <1>2, FS_Subset, FS_AddElement
  <2> QED BY <1>2, <2>1 DEF Weighed
<1>4. \A i \in R : s[i] = k[i]
  OBVIOUS
<1> HIDE DEF R, S
<1>5. Nodes(s, R) = Nodes(k, R)
  BY <1>3, <1>4, NodesSame
<1>6. Weighed(s, S)
  <2>1. ASSUME NEW i \in S PROVE Len(s[i].tree) \in Nat
    <3>1. CASE i = track
      BY <3>1
    <3>2. CASE i # track
      <4>1. i \in R
        BY <1>1, <3>2
      <4> QED BY <1>3, <1>4, <4>1 DEF Weighed
    <3> QED BY <3>1, <3>2
  <2> QED BY <2>1 DEF Weighed
<1>7. Nodes(s, S) = Len(s[track].tree) + Nodes(s, S \ {track})
  BY <1>1, <1>3, <1>6, NodesOfOne
<1> QED BY <1>1, <1>2, <1>5, <1>7 DEF R, S

-----------------------------------------------------------------------------
(* The steps. *)

LEMMA InitNav == NavigationInit => NavInv
<1> SUFFICES ASSUME NavigationInit PROVE NavInv
  OBVIOUS
<1>1. Idle /\ sessions = <<>> /\ children = <<>> /\ stack = <<>> /\ DOMAIN <<>> = {}
  BY DEF NavigationInit, Idle, NoCall
<1>2. Kept = <<>>
  BY <1>1 DEF Kept
<1>3. SessionsSound(<<>>)
  <2>1. Nodes(<<>>, {}) = 0
    BY NodesOfNothing
  <2>2. 0 <= MaxRetained
    BY NavigationAssumption
  <2>3. <<>> = [k \in DOMAIN <<>> |-> <<>>[k]]
    OBVIOUS
  <2> QED BY <1>1, <2>1, <2>2, <2>3 DEF SessionsSound
<1>4. StackSound
  BY <1>1 DEF StackSound, Placed
<1> QED BY <1>1, <1>2, <1>3, <1>4 DEF NavInv, KeptSound, ChildrenSound, CallSound

(* A step that keeps what is kept, and enters and leaves nothing.          *)
LEMMA RestKept ==
  ASSUME KeptSound, ChildrenSound, StackSound,
         Kept' = Kept, children' = children, stack' = stack
  PROVE  KeptSound' /\ ChildrenSound' /\ StackSound'
  BY DEF KeptSound, ChildrenSound, StackSound

(* A call that gives up gives back what there was.                         *)
LEMMA WithoutIs ==
  ASSUME NavInv, ~Idle, call.created
  PROVE  Without(call.track) = call.before
<1>1. /\ sessions = [k \in DOMAIN call.before \cup {call.track} |-> sessions[k]]
      /\ \A k \in DOMAIN call.before \ {call.track} : sessions[k] = call.before[k]
      /\ call.track \notin DOMAIN call.before
  BY DEF NavInv, CallSound, Underway, Grown, CallShape, Created
<1>2. call.before = [k \in DOMAIN call.before |-> call.before[k]]
  BY DEF NavInv, KeptSound, SessionsSound, Kept
<1>3. DOMAIN sessions \ {call.track} = DOMAIN call.before
  BY <1>1
<1>4. \A k \in DOMAIN call.before : sessions[k] = call.before[k]
  BY <1>1
<1>5. Without(call.track) = [k \in DOMAIN call.before |-> call.before[k]]
  BY <1>3, <1>4 DEF Without
<1> QED BY <1>2, <1>5

LEMMA RolledBackIs ==
  ASSUME NavInv, ~Idle, call.pc = "units" \/ call.created
  PROVE  RolledBack = call.before
<1>1. CASE call.created
  BY <1>1, WithoutIs DEF RolledBack
<1>2. CASE ~call.created
  <2> DEFINE was == call.before[call.track]
             w == sessions[call.track]
  <2>1. /\ Grown(call, sessions) /\ Decoding(call, sessions)
        /\ call.track \in DOMAIN call.before
    BY <1>2 DEF NavInv, CallSound, Underway, CallShape, Created
  <2>2. call.before = [k \in DOMAIN call.before |-> call.before[k]] /\ TrackSession(was)
    BY <2>1 DEF NavInv, KeptSound, SessionsSound, Kept
  <2>3. /\ sessions = [k \in DOMAIN sessions |-> sessions[k]]
        /\ DOMAIN sessions = DOMAIN call.before
        /\ \A k \in DOMAIN call.before : k # call.track => sessions[k] = call.before[k]
        /\ w = Session(w.tree, w.rules, was.samples)
        /\ Below(was.tree, w.tree, RootId)
    BY <1>2, <2>1 DEF Grown, TrackSession, Session
  <2>4. was = Session(was.tree, was.rules, was.samples) /\ Tree(was.tree)
    BY <2>2 DEF TrackSession, Session
  <2>5. call.snapshot = Snapshot(was.tree, RootId) /\ call.saved = was.rules
    BY <1>2, <2>1 DEF Decoding, Saved
  <2>6. Restore(w.tree, call.snapshot) = was.tree
    BY <2>3, <2>4, <2>5, Links, RestoreUndoes
  <2>7. RolledBack = Updated(sessions, call.track, Restore(w.tree, call.snapshot), call.saved)
    BY <1>2 DEF RolledBack, Updated
  <2>8. PICK f, t, r, g, e : /\ f = was.samples /\ t = was.tree /\ r = was.rules
                             /\ g = w.tree /\ e = w.rules
    OBVIOUS
  <2>9. RolledBack = Updated(sessions, call.track, t, r)
    BY <2>5, <2>6, <2>7, <2>8
  <2>10. w = Session(g, e, f) /\ was = Session(t, r, f)
    BY <2>3, <2>4, <2>8
  <2>11. Updated(sessions, call.track, t, r) = Put(sessions, call.track, Session(t, r, f))
    BY <2>1, <2>3, <2>10, UpdatedIs
  <2>12. Put(sessions, call.track, was) = [k \in DOMAIN call.before |-> call.before[k]]
    BY <2>3 DEF Put
  <2> QED BY <2>2, <2>9, <2>10, <2>11, <2>12
<1>3. call.created \in BOOLEAN
  BY DEF NavInv, CallSound, Underway, CallShape, Created
<1> QED BY <1>1, <1>2, <1>3

-----------------------------------------------------------------------------
(* How a call proceeds. *)

LEMMA NewTrackSessionIs ==
  ASSUME NEW limit \in Nat, NEW x, x = NewTrackSession(limit)
  PROVE  TrackSession(x) /\ Quiet(x.tree) /\ Len(x.tree) = 1 /\ x.samples = <<>>
<1>1. PICK r : r = NewSession(limit)
  OBVIOUS
<1>2. IsRules(r)
  <2>1. 0 \in Nat
    OBVIOUS
  <2>2. PICK d, p : r = [dir |-> d, payloads |-> p, limit |-> limit, spent |-> 0]
    BY <1>1 DEF NewSession
  <2> QED BY ONLY <2>1, <2>2, limit \in Nat, RulesRecord
<1>3. x = [tree |-> NewTree, rules |-> r, samples |-> <<>>]
  BY <1>1 DEF NewTrackSession
<1>4. Tree(NewTree) /\ Len(NewTree) = 1
  BY NewTreeIsTree
<1>5. x.tree = NewTree /\ x.rules = r /\ x.samples = <<>> /\ DOMAIN x.samples = {}
  BY <1>3
<1>6. Quiet(x.tree)
  <2>1. 2..Len(x.tree) = {}
    BY <1>4, <1>5
  <2> QED BY <2>1 DEF Quiet
<1> QED BY <1>2, <1>3, <1>4, <1>5, <1>6 DEF TrackSession

LEMMA PreparationIs ==
  ASSUME NEW pc \in {"prime", "frame"}, NEW track \in DOMAIN Tracks,
         NEW sample \in SampleIndices(track), NEW next \in Nat \ {0}, NEW limit \in Nat,
         NEW before, NEW created, Created(created, before, track), NEW c,
         c = Preparation(pc, track, sample, created, next, limit, before)
  PROVE  /\ CallShape(c)
         /\ c.pc = pc /\ c.track = track /\ c.sample = sample /\ c.created = created
         /\ c.next = next /\ c.limit = limit /\ c.before = before
<1>1. /\ c.pc = pc /\ c.track = track /\ c.sample = sample /\ c.created = created
      /\ c.next = next /\ c.limit = limit /\ c.before = before
  BY DEF Preparation
<1> QED BY <1>1 DEF CallShape

(* A call begins, in a session of its own or in one that is kept.          *)
LEMMA OpenUnderway ==
  ASSUME NEW k, SessionsSound(k), NEW track \in DOMAIN Tracks,
         NEW sample \in SampleIndices(track),
         NEW created, Created(created, k, track),
         NEW budget \in Nat \ {0}, Nodes(k, DOMAIN k) + budget <= MaxRetained,
         NEW limit, limit = IF created THEN budget - 1 ELSE budget,
         NEW pc \in {"prime", "frame"}, pc = "prime" => created,
         NEW c, c = Preparation(pc, track, sample, created, 1, limit, k),
         NEW s, s = IF created THEN With(k, track, NewTrackSession(limit)) ELSE k
  PROVE  Underway(c, s)
<1>1. limit \in Nat /\ 1 \in Nat \ {0} /\ created \in BOOLEAN
  BY DEF Created
<1>2. /\ CallShape(c)
      /\ c.pc = pc /\ c.track = track /\ c.sample = sample /\ c.created = created
      /\ c.next = 1 /\ c.limit = limit /\ c.before = k
  BY ONLY <1>1, track \in DOMAIN Tracks, sample \in SampleIndices(track),
          pc \in {"prime", "frame"}, Created(created, k, track),
          c = Preparation(pc, track, sample, created, 1, limit, k), PreparationIs
<1>3. /\ Nodes(k, DOMAIN k) \in Nat /\ Nodes(k, DOMAIN k \ {track}) \in Nat
      /\ track \in DOMAIN k =>
           Nodes(k, DOMAIN k) = Len(k[track].tree) + Nodes(k, DOMAIN k \ {track})
  BY SessionsCounted
<1>4. MaxRetained \in Nat
  BY NavigationAssumption
<1>5. k = [i \in DOMAIN k |-> k[i]]
  BY DEF SessionsSound
<1>6. CASE created
  <2>1. s = With(k, track, NewTrackSession(limit)) /\ track \notin DOMAIN k
    BY <1>6 DEF Created
  <2>2. /\ s = [i \in DOMAIN k \cup {track} |-> s[i]]
        /\ \A i \in DOMAIN k \ {track} : s[i] = k[i]
        /\ s[track] = NewTrackSession(limit)
    BY <2>1 DEF With
  <2>3. TrackSession(s[track]) /\ Quiet(s[track].tree) /\ Len(s[track].tree) = 1
    BY <1>1, <2>2, NewTrackSessionIs
  <2>4. Grown(c, s)
    <3>1. c.created /\ c.track = track /\ c.before = k
      BY <1>2, <1>6
    <3> QED BY <2>2, <2>3, <3>1 DEF Grown
  <2>5. DOMAIN k \ {track} = DOMAIN k
    BY <2>1
  <2>6. Others(c) + Len(s[c.track].tree) + c.limit <= MaxRetained
    <3>1. Others(c) = Nodes(k, DOMAIN k) /\ c.limit = budget - 1
      BY <1>2, <1>6, <2>5 DEF Others
    <3>2. PICK m \in Nat : m = Nodes(k, DOMAIN k)
      BY <1>3
    <3>3. m + budget <= MaxRetained
      BY <3>2
    <3>4. m + 1 + (budget - 1) <= MaxRetained
      BY <1>4, <3>3
    <3>5. Others(c) = m /\ Len(s[c.track].tree) = 1 /\ c.limit = budget - 1
      BY <1>2, <2>3, <3>1, <3>2
    <3> QED BY <3>4, <3>5
  <2>7. Preparing(c, s)
    BY <1>2, <1>6, <2>3, <2>6 DEF Preparing
  <2> QED BY <1>2, <2>4, <2>7 DEF Underway
<1>7. CASE ~created
  <2>1. s = k /\ track \in DOMAIN k /\ TrackSession(k[track]) /\ Quiet(k[track].tree)
    BY <1>7 DEF SessionsSound, Created
  <2>2. DOMAIN k \cup {track} = DOMAIN k
    BY <2>1
  <2>3. Below(k[track].tree, k[track].tree, RootId)
    <3>1. PICK t : t = k[track].tree
      OBVIOUS
    <3>2. Tree(t)
      BY <2>1, <3>1 DEF TrackSession
    <3> QED BY <3>1, <3>2, Links, NothingMarked, MarksBelow
  <2>4. Grown(c, s)
    <3>1. s = [i \in DOMAIN k \cup {track} |-> s[i]]
      BY <1>5, <2>1, <2>2
    <3>2. \A i \in DOMAIN k \ {track} : s[i] = k[i]
      BY <2>1
    <3>3. TrackSession(s[track]) /\ s[track].samples = k[track].samples
          /\ Below(k[track].tree, s[track].tree, RootId)
      BY <2>1, <2>3
    <3> QED BY <1>2, <3>1, <3>2, <3>3 DEF Grown
  <2>5. Others(c) + Len(s[c.track].tree) + c.limit <= MaxRetained
    <3>1. Others(c) = Nodes(k, DOMAIN k \ {track}) /\ c.limit = budget
      BY <1>2, <1>7 DEF Others
    <3>2. Len(k[track].tree) \in Nat
      BY <2>1, Links DEF TrackSession
    <3> QED BY <1>2, <1>3, <1>4, <2>1, <3>1, <3>2
  <2>6. Preparing(c, s)
    BY <1>2, <1>7, <2>1, <2>5 DEF Preparing
  <2> QED BY <1>2, <2>4, <2>6 DEF Underway
<1> QED BY <1>1, <1>6, <1>7

(* A call goes on in the same session.                                     *)
LEMMA Regrown ==
  ASSUME NEW c, NEW s, Grown(c, s), c.created \in BOOLEAN, NEW d, d.before = c.before,
         d.track = c.track, d.created = c.created, NEW x, TrackSession(x),
         x.samples = s[c.track].samples,
         ~c.created => Below(c.before[c.track].tree, x.tree, RootId),
         NEW u, u = Put(s, c.track, x)
  PROVE  Grown(d, u) /\ u[d.track] = x /\ Others(d) = Others(c)
<1>1. /\ s = [k \in DOMAIN c.before \cup {c.track} |-> s[k]]
      /\ \A k \in DOMAIN c.before \ {c.track} : s[k] = c.before[k]
      /\ ~c.created => s[c.track].samples = c.before[c.track].samples
  BY DEF Grown
<1>2. DOMAIN s = DOMAIN c.before \cup {c.track} /\ c.track \in DOMAIN s
      /\ s = [k \in DOMAIN s |-> s[k]]
  BY <1>1
<1>3. /\ u = [k \in DOMAIN s |-> u[k]] /\ DOMAIN u = DOMAIN s /\ u[c.track] = x
      /\ \A k \in DOMAIN s : k # c.track => u[k] = s[k]
  BY <1>2, PutIs
<1>4. Grown(d, u)
  BY <1>1, <1>2, <1>3 DEF Grown
<1> QED BY <1>3, <1>4 DEF Others

LEMMA SessionOf ==
  ASSUME NEW c, NEW s, Grown(c, s)
  PROVE  /\ c.track \in DOMAIN s /\ s = [k \in DOMAIN s |-> s[k]]
         /\ s[c.track] = Session(s[c.track].tree, s[c.track].rules, s[c.track].samples)
         /\ Tree(s[c.track].tree) /\ IsRules(s[c.track].rules)
         /\ Len(s[c.track].tree) \in Nat /\ RootId \in 1..Len(s[c.track].tree)
  BY Links DEF Grown, TrackSession, Session

(* A configuration unit has been decoded.                                  *)
LEMMA PrimeUnderway ==
  ASSUME NEW c, NEW s, SessionsSound(c.before), Underway(c, s), c.pc = "prime",
         NEW run, run.status = "Materialized",
         RunOf(run, s[c.track].rules, s[c.track].tree, RootId, c.limit),
         NEW u, u = Put(s, c.track, Session(run.tree, run.session, s[c.track].samples)),
         NEW d, d = Preparation("prime", c.track, c.sample, c.created, c.next + 1,
                                c.limit - run.made, c.before)
  PROVE  Underway(d, u)
<1> DEFINE w == s[c.track]
           x == Session(run.tree, run.session, w.samples)
<1>1. /\ CallShape(c) /\ Grown(c, s) /\ Preparing(c, s)
      /\ c.created /\ c.created = TRUE
  BY DEF Underway, Preparing, CallShape
<1>2. /\ c.track \in DOMAIN Tracks /\ c.sample \in SampleIndices(c.track)
      /\ c.next \in Nat \ {0} /\ c.limit \in Nat
      /\ Created(c.created, c.before, c.track)
  BY <1>1 DEF CallShape
<1>3. /\ run.made \in 0..2 /\ run.made <= c.limit /\ IsRules(run.session)
  BY DEF RunOf
<1>4. c.limit - run.made \in Nat /\ c.next + 1 \in Nat \ {0}
  BY <1>2, <1>3
<1>5. /\ CallShape(d)
      /\ d.pc = "prime" /\ d.track = c.track /\ d.sample = c.sample
      /\ d.created = c.created /\ d.limit = c.limit - run.made /\ d.before = c.before
  <2>1. PICK track, sample, created, next, limit, before :
          /\ track = c.track /\ sample = c.sample /\ created = c.created
          /\ next = c.next + 1 /\ limit = c.limit - run.made /\ before = c.before
    OBVIOUS
  <2>2. /\ track \in DOMAIN Tracks /\ sample \in SampleIndices(track)
        /\ next \in Nat \ {0} /\ limit \in Nat /\ Created(created, before, track)
        /\ "prime" \in {"prime", "frame"}
    BY <1>2, <1>4, <2>1
  <2>3. d = Preparation("prime", track, sample, created, next, limit, before)
    BY <2>1
  <2> HIDE DEF w
  <2>4. /\ CallShape(d)
        /\ d.pc = "prime" /\ d.track = track /\ d.sample = sample /\ d.created = created
        /\ d.next = next /\ d.limit = limit /\ d.before = before
    BY ONLY <2>2, <2>3, PreparationIs
  <2> QED BY <2>1, <2>4
<1>6. TrackSession(w) /\ Tree(w.tree) /\ Len(w.tree) \in Nat /\ RootId \in 1..Len(w.tree)
  BY <1>1, SessionOf DEF Grown
<1>7. /\ GrewBy(w.tree, run.tree, RootId, run.made)
      /\ \A k \in (Len(w.tree) + 1)..Len(run.tree) : run.tree[k].state # "Indexing"
  <2>1. PICK t, r : t = w.tree /\ r = w.rules
    OBVIOUS
  <2>2. RunOf(run, r, t, RootId, c.limit) /\ Tree(t) /\ RootId \in 1..Len(t)
    BY <1>6, <2>1
  <2>3. /\ GrewBy(t, run.tree, RootId, run.made)
        /\ \A k \in (Len(t) + 1)..Len(run.tree) : run.tree[k].state # "Indexing"
    BY <2>2, RunGrows
  <2> QED BY <2>1, <2>3
<1>8. Below(w.tree, run.tree, RootId) /\ Len(run.tree) = Len(w.tree) + run.made
  BY <1>7 DEF GrewBy
<1>9. TrackSession(x) /\ x.tree = run.tree /\ x.samples = w.samples
  <2>1. PICK v : v = w
    OBVIOUS
  <2>2. PICK t, r, y : t = run.tree /\ r = run.session /\ y = x
    OBVIOUS
  <2>3. TrackSession(v) /\ Sprouts(v, RootId, t) /\ IsRules(r) /\ y = Session(t, r, v.samples)
    BY <1>3, <1>6, <1>8, <2>1, <2>2 DEF Sprouts
  <2>4. TrackSession(y) /\ y.tree = t /\ y.samples = v.samples
    BY ONLY <2>3, TrackGrows
  <2> QED BY <2>1, <2>2, <2>4
<1>10. Quiet(run.tree)
  BY <1>1, <1>6, <1>7, <1>8, QuietGrows DEF Preparing
<1> HIDE DEF x
<1>11. Grown(d, u) /\ u[d.track] = x /\ Others(d) = Others(c)
  <2>1. u = Put(s, c.track, x)
    BY DEF x
  <2>2. /\ Grown(c, s) /\ c.created \in BOOLEAN /\ d.before = c.before
        /\ d.track = c.track /\ d.created = c.created /\ TrackSession(x)
        /\ x.samples = s[c.track].samples
        /\ (~c.created => Below(c.before[c.track].tree, x.tree, RootId))
    BY <1>1, <1>5, <1>9
  <2>3. PICK y : y = x
    OBVIOUS
  <2>4. Grown(d, u) /\ u[d.track] = y /\ Others(d) = Others(c)
    BY ONLY <2>1, <2>2, <2>3, Regrown
  <2> QED BY <2>3, <2>4
<1>12. Others(d) + Len(u[d.track].tree) + d.limit <= MaxRetained
  <2>1. Others(c) + Len(w.tree) + c.limit <= MaxRetained
    BY <1>1 DEF Preparing
  <2>2. Others(c) \in Nat
    BY SessionsCounted DEF Others
  <2>3. MaxRetained \in Nat
    BY NavigationAssumption
  <2>4. PICK o, n, l, g : /\ o = Others(c) /\ n = Len(w.tree) /\ l = c.limit
                         /\ g = run.made
    OBVIOUS
  <2>5. o \in Nat /\ n \in Nat /\ l \in Nat /\ g \in Nat /\ o + n + l <= MaxRetained
    BY <1>2, <1>3, <1>6, <2>1, <2>2, <2>4
  <2>6. Others(d) = o /\ Len(u[d.track].tree) = n + g /\ d.limit = l - g
    BY <1>5, <1>8, <1>9, <1>11, <2>4
  <2>7. o + (n + g) + (l - g) <= MaxRetained
    BY <2>3, <2>5
  <2> QED BY <2>6, <2>7
<1>13. Preparing(d, u)
  BY <1>1, <1>5, <1>9, <1>10, <1>11, <1>12 DEF Preparing
<1> QED BY <1>5, <1>11, <1>13 DEF Underway

(* An execution, and what it has put into the sessions so far.             *)
LEMMA ExecutionShape ==
  ASSUME NEW d, d = Execution(d, d.next, d.units, d.bound), d.pc = "units",
         d.track \in DOMAIN Tracks, d.sample \in SampleIndices(d.track),
         d.next \in Nat \ {0}, d.limit \in Nat, Created(d.created, d.before, d.track)
  PROVE  CallShape(d)
  BY DEF CallShape

LEMMA SampleIsNat ==
  ASSUME NEW track \in DOMAIN Tracks, NEW sample \in SampleIndices(track)
  PROVE  /\ sample \in Nat /\ UnitsOf(track, sample) \in Seq(Unit)
         /\ Tracks[track].samples[sample].defect \in BOOLEAN
<1>1. PICK q, R : q = Tracks[track].samples /\ R = [units: Seq(Unit), defect: BOOLEAN]
  OBVIOUS
<1>2. q \in Seq(R)
  BY <1>1, NavigationAssumption
<1>3. sample \in 1..Len(q) /\ Len(q) \in Nat
  BY <1>1, <1>2 DEF SampleIndices
<1>4. q[sample] \in R
  BY <1>2, <1>3
<1>5. q[sample] \in [units: Seq(Unit), defect: BOOLEAN]
  BY <1>1, <1>4
<1>6. q[sample].units \in Seq(Unit) /\ q[sample].defect \in BOOLEAN
  BY <1>5
<1> QED BY <1>1, <1>3, <1>6 DEF UnitsOf

SameCall(c, d) == d.before = c.before /\ d.track = c.track /\ d.created = c.created

Extends(c, t) == ~c.created => Below(c.before[c.track].tree, t, RootId)

(* The session after a step that leaves its samples alone.                 *)
LEMMA StepUnderway ==
  ASSUME NEW c, NEW s, Grown(c, s), c.created \in BOOLEAN, NEW w, w = s[c.track],
         NEW p, NEW t, Sprouts(w, p, t), Extends(c, t), NEW r, IsRules(r),
         NEW x, x = Session(t, r, w.samples), NEW d, SameCall(c, d),
         NEW u, u = Put(s, c.track, x)
  PROVE  /\ Grown(d, u) /\ Others(d) = Others(c) /\ u[d.track].tree = t
<1>1. TrackSession(w)
  BY DEF Grown
<1>2. TrackSession(x) /\ x.tree = t /\ x.rules = r /\ x.samples = w.samples
  BY ONLY <1>1, Sprouts(w, p, t), IsRules(r), x = Session(t, r, w.samples), TrackGrows
<1>3. /\ Grown(c, s) /\ c.created \in BOOLEAN /\ d.before = c.before
      /\ d.track = c.track /\ d.created = c.created
      /\ x.samples = s[c.track].samples /\ u = Put(s, c.track, x)
      /\ (~c.created => Below(c.before[c.track].tree, x.tree, RootId))
  BY <1>2 DEF Extends, SameCall
<1>4. Grown(d, u) /\ u[d.track] = x /\ Others(d) = Others(c)
  BY ONLY <1>2, <1>3, Regrown
<1> QED BY <1>2, <1>4

(* A sample node has been begun below the root.                            *)
LEMMA FrameUnderway ==
  ASSUME NEW c, NEW s, SessionsSound(c.before), Underway(c, s), c.pc = "frame",
         NEW t, t = s[c.track].tree, NEW fields \in Nat, 1 + fields <= c.limit,
         NEW u, u = AppendFields(AppendChild(t, RootId, "sample", "Indexing", c.sample, 0),
                                 Len(t) + 1, fields),
         NEW r, IsRules(r),
         NEW v, v = Put(s, c.track, Session(u, r, s[c.track].samples)),
         NEW d, d = [pc |-> "units", track |-> c.track, sample |-> c.sample,
                     created |-> c.created, next |-> 1, limit |-> c.limit,
                     before |-> c.before, node |-> Len(t) + 1, units |-> <<>>,
                     bound |-> <<>>, snapshot |-> Snapshot(t, RootId),
                     saved |-> s[c.track].rules]
  PROVE  Underway(d, v)
<1>1. /\ CallShape(c) /\ Grown(c, s) /\ Preparing(c, s)
  BY DEF Underway
<1>2. /\ c.track \in DOMAIN Tracks /\ c.sample \in SampleIndices(c.track)
      /\ c.limit \in Nat /\ Created(c.created, c.before, c.track)
      /\ c.created \in BOOLEAN
  BY <1>1 DEF CallShape, Created
<1>3. Tree(t) /\ Len(t) \in Nat /\ Len(t) >= 1 /\ RootId \in 1..Len(t)
  BY <1>1, SessionOf, Links
<1>4. Quiet(t)
  BY <1>1 DEF Preparing
<1>5. /\ d = Execution(d, d.next, d.units, d.bound)
      /\ d.pc = "units" /\ d.track = c.track /\ d.sample = c.sample
      /\ d.created = c.created /\ d.next = 1 /\ d.limit = c.limit
      /\ d.before = c.before /\ d.node = Len(t) + 1 /\ d.snapshot = Snapshot(t, RootId)
      /\ d.saved = s[c.track].rules
  <2>1. PICK track, sample, created, limit, before, node, snapshot, saved, one, none :
          /\ track = c.track /\ sample = c.sample /\ created = c.created
          /\ limit = c.limit /\ before = c.before /\ node = Len(t) + 1
          /\ snapshot = Snapshot(t, RootId) /\ saved = s[c.track].rules
          /\ one = 1 /\ none = <<>>
    OBVIOUS
  <2>2. d = [pc |-> "units", track |-> track, sample |-> sample, created |-> created,
             next |-> one, limit |-> limit, before |-> before, node |-> node,
             units |-> none, bound |-> none, snapshot |-> snapshot, saved |-> saved]
    BY <2>1
  <2>3. /\ d = Execution(d, d.next, d.units, d.bound)
        /\ d.pc = "units" /\ d.track = track /\ d.sample = sample
        /\ d.created = created /\ d.next = one /\ d.limit = limit
        /\ d.before = before /\ d.node = node /\ d.snapshot = snapshot
        /\ d.saved = saved
    BY ONLY <2>2 DEF Execution
  <2> QED BY <2>1, <2>3
<1>6. CallShape(d)
  <2>1. d.next \in Nat \ {0}
    BY <1>5
  <2> QED BY <1>2, <1>5, <2>1, ExecutionShape
<1>7. /\ GrewBy(t, u, RootId, 1 + fields) /\ u[Len(t) + 1].state = "Indexing"
      /\ AllIn(u, Len(t) + 2, "Materialized")
  <2>1. PICK tag \in Nat : tag = c.sample
    BY <1>2, SampleIsNat
  <2>2. "sample" \in Kinds
    BY DEF Kinds
  <2>3. u = AppendFields(AppendChild(t, RootId, "sample", "Indexing", tag, 0),
                         Len(t) + 1, fields)
    BY <2>1
  <2> QED BY ONLY <1>3, <2>2, <2>3, tag \in Nat, fields \in Nat, BegunGrows
<1>8. Below(t, u, RootId) /\ Len(u) = Len(t) + 1 + fields
  <2>1. Below(t, u, RootId) /\ Len(u) = Len(t) + (1 + fields)
    BY <1>7 DEF GrewBy
  <2>2. PICK n \in Nat : n = Len(t)
    BY <1>3
  <2>3. n + (1 + fields) = n + 1 + fields
    OBVIOUS
  <2> QED BY <2>1, <2>2, <2>3
<1>9. ~c.created => s[c.track] = c.before[c.track]
  BY <1>1 DEF Preparing
<1>10. Grown(d, v) /\ Others(d) = Others(c) /\ v[d.track].tree = u
  <2>1. Extends(c, u)
    BY <1>8, <1>9 DEF Extends
  <2>2. PICK w, p : w = s[c.track] /\ p = RootId
    OBVIOUS
  <2>3. PICK x : x = Session(u, r, w.samples)
    OBVIOUS
  <2>4. Sprouts(w, p, u)
    BY <1>3, <1>8, <2>2 DEF Sprouts
  <2>6. v = Put(s, c.track, x) /\ w = s[c.track]
    BY <2>2, <2>3
  <2>5. SameCall(c, d)
    BY <1>5 DEF SameCall
  <2>7. Grown(c, s) /\ c.created \in BOOLEAN
    BY <1>1, <1>2
  <2> QED BY ONLY <2>1, <2>3, <2>4, <2>5, <2>6, <2>7, IsRules(r), StepUnderway
<1>11. d.snapshot.count = Len(t)
  BY <1>5 DEF Snapshot
<1>12. ASSUME NEW i \in 2..Len(u), i # d.node
       PROVE  u[i].state # "Indexing"
  <2>1. CASE i <= Len(t)
    <3>1. i \in 2..Len(t) /\ i \in 1..Len(t) /\ i # RootId
      BY <1>3, <2>1 DEF RootId
    <3>2. u[i] = t[i]
      BY <1>8, <3>1 DEF Below
    <3> QED BY <1>4, <3>1, <3>2 DEF Quiet
  <2>2. CASE i > Len(t)
    <3>1. i \in (Len(t) + 2)..Len(u)
      BY SMTT(30), <1>3, <1>5, <1>8, <1>12, <2>2
    <3> QED BY <1>7, <3>1 DEF AllIn
  <2> QED BY <1>3, <1>8, <2>1, <2>2
<1>13. Others(d) + d.snapshot.count + d.limit <= MaxRetained
  BY <1>1, <1>5, <1>10, <1>11 DEF Preparing
<1>14. Len(u) <= d.snapshot.count + d.limit /\ d.node <= Len(u)
  BY <1>2, <1>3, <1>5, <1>8, <1>11
<1>15. ~d.created => /\ d.snapshot = Snapshot(d.before[d.track].tree, RootId)
                     /\ d.saved = d.before[d.track].rules
  BY <1>5, <1>9
<1>16. Decoding(d, v)
  <2>1. Len(t) \in Nat \ {0} /\ d.node = d.snapshot.count + 1 /\ u[d.node].state = "Indexing"
    BY <1>3, <1>5, <1>7, <1>11
  <2>2. DecodingIn(d, u)
    BY <1>11, <1>12, <1>13, <1>14, <2>1 DEF DecodingIn
  <2>3. Saved(d)
    BY <1>15 DEF Saved
  <2> QED BY <1>10, <2>2, <2>3 DEF Decoding
<1> QED BY <1>5, <1>6, <1>10, <1>16 DEF Underway

(* What a unit makes of the tree: below the sample's node, and closed.     *)
LEMMA UnitGrows ==
  ASSUME NEW t, Tree(t), NEW p \in 1..Len(t), NEW tag \in Nat,
         NEW f, f = AppendFields(AppendChild(t, p, "unit", "Indexing", tag, 0), Len(t) + 1, 1),
         NEW r, NEW limit, NEW run, RunOf(run, r, f, Len(t) + 1, limit), NEW u,
         u = IF run.status = "Materialized" THEN Transition(run.tree, Len(t) + 1, "Materialized")
             ELSE MarkPartial(run.tree, Len(t) + 1, StateForFailure(run.status), run.status)
  PROVE  /\ Below(t, u, p) /\ Len(f) = Len(t) + 2 /\ Len(u) = Len(t) + 2 + run.made
         /\ u[p].state = t[p].state
         /\ \A k \in (Len(t) + 1)..Len(u) : u[k].state # "Indexing"
<1>1. /\ GrewBy(t, f, p, 2) /\ f[Len(t) + 1].state = "Indexing"
      /\ AllIn(f, Len(t) + 2, "Materialized")
  <2>1. "unit" \in Kinds /\ 1 \in Nat
    BY DEF Kinds
  <2>2. GrewBy(t, f, p, 1 + 1) /\ f[Len(t) + 1].state = "Indexing"
        /\ AllIn(f, Len(t) + 2, "Materialized")
    BY <2>1, BegunGrows
  <2> QED BY <2>2
<1>2. PICK s : s = Len(t) + 1
  OBVIOUS
<1>3. /\ Len(t) \in Nat /\ Tree(f) /\ Below(t, f, p) /\ Len(f) = Len(t) + 2
      /\ s \in 1..Len(f) /\ s > Len(t) /\ f[s].state = "Indexing"
  <2>1. Len(t) \in Nat
    BY Links
  <2> QED BY <1>1, <1>2, <2>1 DEF GrewBy, Below
<1>4. /\ RunOf(run, r, f, s, limit)
      /\ u = IF run.status = "Materialized" THEN Transition(run.tree, s, "Materialized")
             ELSE MarkPartial(run.tree, s, StateForFailure(run.status), run.status)
  BY <1>2
<1>5. /\ Below(f, u, s) /\ Len(u) = Len(f) + run.made /\ u[s].state # "Indexing"
      /\ \A k \in (Len(f) + 1)..Len(u) : u[k].state # "Indexing"
  BY ONLY <1>3, <1>4, UnitCloses
<1>6. Below(t, u, p) /\ u[p] = f[p]
  BY ONLY Tree(t), p \in 1..Len(t), <1>3, <1>5, BelowNewer
<1>7. run.made \in Nat
  BY DEF RunOf
<1>8. ASSUME NEW k \in (Len(t) + 1)..Len(u)
      PROVE  u[k].state # "Indexing"
  <2>1. CASE k = s
    BY <1>5, <2>1
  <2>2. CASE k \in (Len(f) + 1)..Len(u)
    BY <1>5, <2>2
  <2>3. CASE k # s /\ k \notin (Len(f) + 1)..Len(u)
    <3>1. k \in 1..Len(f) /\ k \in (Len(t) + 2)..Len(f)
      BY <1>2, <1>3, <1>5, <1>7, <2>3
    <3>2. u[k] = f[k] /\ f[k].state = "Materialized"
      BY <1>1, <1>5, <2>3, <3>1 DEF Below, AllIn
    <3> QED BY <3>2
  <2> QED BY <2>1, <2>2, <2>3
<1>9. u[p].state = t[p].state
  BY <1>1, <1>6 DEF GrewBy
<1> QED BY <1>3, <1>5, <1>6, <1>8, <1>9

(* A unit has been decoded below the sample's node.                        *)
LEMMA UnitUnderway ==
  ASSUME NEW c, NEW s, SessionsSound(c.before), Underway(c, s), c.pc = "units",
         NEW t, t = s[c.track].tree, NEW tag \in Nat,
         NEW f, f = AppendFields(AppendChild(t, c.node, "unit", "Indexing", tag, 0),
                                 Len(t) + 1, 1),
         NEW left, left = c.limit - (Len(f) - c.snapshot.count),
         NEW r, NEW run, RunOf(run, r, f, Len(t) + 1, left), NEW u,
         u = IF run.status = "Materialized" THEN Transition(run.tree, Len(t) + 1, "Materialized")
             ELSE MarkPartial(run.tree, Len(t) + 1, StateForFailure(run.status), run.status),
         NEW v, v = Put(s, c.track, Session(u, run.session, s[c.track].samples)),
         NEW units, NEW bound, NEW d, d = Execution(c, c.next + 1, units, bound)
  PROVE  Underway(d, v)
<1>1. CallShape(c) /\ Grown(c, s) /\ Decoding(c, s)
  BY DEF Underway
<1>2. /\ c.track \in DOMAIN Tracks /\ c.sample \in SampleIndices(c.track)
      /\ c.next \in Nat \ {0} /\ c.limit \in Nat
      /\ Created(c.created, c.before, c.track) /\ c.created \in BOOLEAN
  BY <1>1 DEF CallShape, Created
<1>3. Tree(t) /\ Len(t) \in Nat
  BY <1>1, SessionOf
<1>4. PICK n, node : n = c.snapshot.count /\ node = c.node
  OBVIOUS
<1>5. /\ n \in Nat \ {0} /\ node = n + 1 /\ node <= Len(t) /\ node \in 1..Len(t)
      /\ t[node].state = "Indexing"
      /\ \A i \in 2..Len(t) : i # node => t[i].state # "Indexing"
      /\ Len(t) <= n + c.limit
      /\ Others(c) + n + c.limit <= MaxRetained
      /\ ~c.created => /\ c.snapshot = Snapshot(c.before[c.track].tree, RootId)
                       /\ c.saved = c.before[c.track].rules
  <2>1. DecodingIn(c, t) /\ Saved(c)
    BY <1>1 DEF Decoding
  <2>2. /\ n \in Nat \ {0} /\ node = n + 1 /\ node <= Len(t)
        /\ t[node].state = "Indexing"
        /\ \A i \in 2..Len(t) : i # node => t[i].state # "Indexing"
        /\ Len(t) <= n + c.limit
        /\ Others(c) + n + c.limit <= MaxRetained
    BY ONLY <1>4, <2>1 DEF DecodingIn
  <2>3. node \in 1..Len(t)
    BY ONLY <1>3, <2>2
  <2>4. ~c.created => /\ c.snapshot = Snapshot(c.before[c.track].tree, RootId)
                      /\ c.saved = c.before[c.track].rules
    BY <2>1 DEF Saved
  <2> QED BY <2>2, <2>3, <2>4
<1>6. /\ Below(t, u, node) /\ Len(f) = Len(t) + 2 /\ Len(u) = Len(t) + 2 + run.made
      /\ u[node].state = t[node].state
      /\ \A k \in (Len(t) + 1)..Len(u) : u[k].state # "Indexing"
  <2>1. f = AppendFields(AppendChild(t, node, "unit", "Indexing", tag, 0), Len(t) + 1, 1)
    BY <1>4
  <2>2. PICK q : q = left
    OBVIOUS
  <2>3. RunOf(run, r, f, Len(t) + 1, q)
    BY <2>2
  <2> QED BY ONLY <1>3, <1>5, <2>1, <2>3, tag \in Nat,
                  u = IF run.status = "Materialized"
                      THEN Transition(run.tree, Len(t) + 1, "Materialized")
                      ELSE MarkPartial(run.tree, Len(t) + 1, StateForFailure(run.status),
                                       run.status),
                  UnitGrows
<1>7. run.made \in Nat /\ run.made <= left /\ IsRules(run.session)
  BY DEF RunOf
<1>8. /\ d.pc = "units" /\ d.track = c.track /\ d.sample = c.sample
      /\ d.created = c.created /\ d.next = c.next + 1 /\ d.limit = c.limit
      /\ d.before = c.before /\ d.node = node /\ d.snapshot = c.snapshot
      /\ d.saved = c.saved /\ d = Execution(d, d.next, d.units, d.bound)
  BY <1>4 DEF Execution
<1>9. CallShape(d)
  <2>1. d.next \in Nat \ {0}
    BY <1>2, <1>8
  <2> QED BY <1>2, <1>8, <2>1, ExecutionShape
<1>10. ~c.created => Below(c.before[c.track].tree, u, RootId)
  <2> SUFFICES ASSUME ~c.created PROVE Below(c.before[c.track].tree, u, RootId)
    OBVIOUS
  <2>1. PICK b : b = c.before[c.track].tree
    OBVIOUS
  <2>2. Below(b, t, RootId)
    BY <1>1, <2>1 DEF Grown
  <2>3. Tree(b)
    BY <1>2, <2>1 DEF SessionsSound, TrackSession, Created
  <2>4. RootId \in 1..Len(b) /\ Len(b) \in Nat
    BY <2>3, Links
  <2>5. node > Len(b)
    <3>1. c.snapshot = Snapshot(b, RootId)
      BY <1>5, <2>1
    <3>2. n = Len(b)
      BY ONLY <1>4, <3>1 DEF Snapshot
    <3> QED BY ONLY <1>5, <2>4, <3>2
  <2>6. Below(b, u, RootId)
    BY ONLY <1>5, <1>6, <2>2, <2>3, <2>4, <2>5, BelowNewer
  <2> QED BY <2>1, <2>6
<1>11. Grown(d, v) /\ Others(d) = Others(c) /\ v[d.track].tree = u
  <2>1. PICK w, e : w = s[c.track] /\ e = run.session
    OBVIOUS
  <2>2. PICK x : x = Session(u, e, w.samples)
    OBVIOUS
  <2>3. Sprouts(w, node, u)
    BY <1>5, <1>6, <2>1 DEF Sprouts
  <2>4. IsRules(e) /\ Extends(c, u)
    BY <1>7, <1>10, <2>1 DEF Extends
  <2>5. v = Put(s, c.track, x) /\ w = s[c.track]
    BY <2>1, <2>2
  <2>6. SameCall(c, d)
    BY <1>8 DEF SameCall
  <2>7. Grown(c, s) /\ c.created \in BOOLEAN
    BY <1>1, <1>2
  <2> QED BY ONLY <2>2, <2>3, <2>4, <2>5, <2>6, <2>7, StepUnderway
<1>12. ASSUME NEW i \in 2..Len(u), i # node
       PROVE  u[i].state # "Indexing"
  <2>1. CASE i <= Len(t)
    <3>1. i \in 2..Len(t) /\ i \in 1..Len(t)
      BY <1>3, <2>1
    <3>2. u[i] = t[i]
      BY <1>6, <1>12, <3>1 DEF Below
    <3> QED BY <1>5, <1>12, <3>1, <3>2
  <2>2. CASE i > Len(t)
    <3>1. i \in (Len(t) + 1)..Len(u)
      BY <1>3, <2>2
    <3> QED BY <1>6, <3>1
  <2> QED BY SMTT(30), <1>3, <2>1, <2>2
<1>13. Len(u) <= n + c.limit /\ node <= Len(u)
  <2>1. PICK m, l, h : m = Len(t) /\ l = c.limit /\ h = run.made
    OBVIOUS
  <2>2. m \in Nat /\ l \in Nat /\ h \in Nat /\ n \in Nat /\ node <= m
    BY <1>2, <1>3, <1>5, <1>7, <2>1
  <2>3. Len(f) = m + 2 /\ Len(u) = m + 2 + h /\ left = l - (Len(f) - n) /\ h <= left
    BY <1>4, <1>6, <1>7, <2>1
  <2>4. h <= l - ((m + 2) - n)
    BY ONLY <2>3
  <2>5. m + 2 + h <= n + l /\ node <= m + 2 + h
    <3>1. node \in Int
      BY <1>5
    <3> QED BY ONLY <2>2, <2>4, <3>1
  <2> QED BY <2>1, <2>3, <2>5
<1>14. Decoding(d, v)
  <2>1. /\ d.snapshot.count = n /\ d.node = node /\ d.limit = c.limit
        /\ v[d.track].tree = u /\ Others(d) = Others(c)
    BY <1>4, <1>8, <1>11
  <2>2. ~d.created => /\ d.snapshot = Snapshot(d.before[d.track].tree, RootId)
                      /\ d.saved = d.before[d.track].rules
    BY <1>5, <1>8
  <2>3. DecodingIn(d, u)
    BY <1>5, <1>6, <1>12, <1>13, <2>1 DEF DecodingIn
  <2> QED BY <2>1, <2>2, <2>3 DEF Decoding, Saved
<1> QED BY <1>8, <1>9, <1>11, <1>14 DEF Underway

(* What is kept is still there, and presented as it was.                   *)
Outlives(old, new) ==
  \A k \in DOMAIN old : /\ k \in DOMAIN new /\ Tree(old[k].tree)
                        /\ Below(old[k].tree, new[k].tree, RootId)

LEMMA BelowItself ==
  ASSUME NEW t, Tree(t)
  PROVE  Below(t, t, RootId)
  BY Links, NothingMarked, MarksBelow

LEMMA PlacesKept ==
  ASSUME NEW kept, NEW kids, NEW kept2, NEW kids2,
         Outlives(kept, kept2), Outlives(kids, kids2),
         NEW frame, PlacedIn(frame, kept, kids)
  PROVE  PlacedIn(frame, kept2, kids2)
<1>1. ASSUME NEW old, NEW new, Outlives(old, new), NEW k \in DOMAIN old,
             NEW n, Presentable(old[k].tree, n)
      PROVE  k \in DOMAIN new /\ Presentable(new[k].tree, n)
  <2>1. PICK t, u : t = old[k].tree /\ u = new[k].tree
    OBVIOUS
  <2>2. k \in DOMAIN new /\ Tree(t) /\ Below(t, u, RootId) /\ Presentable(t, n)
    BY <1>1, <2>1 DEF Outlives
  <2>3. RootId \in 1..Len(t)
    BY <2>2, Links
  <2>4. Presentable(u, n)
    BY ONLY <2>2, <2>3, PresentableBelow
  <2> QED BY <2>1, <2>2, <2>4
<1>2. CASE frame.kind = "sample"
  <2>1. frame.key \in DOMAIN kept /\ Presentable(kept[frame.key].tree, frame.node)
    BY <1>2 DEF PlacedIn
  <2>2. frame.key \in DOMAIN kept2 /\ Presentable(kept2[frame.key].tree, frame.node)
    BY <1>1, <2>1
  <2> QED BY <1>2, <2>2 DEF PlacedIn
<1>3. CASE frame.kind # "sample"
  <2>1. frame.key \in DOMAIN kids /\ Presentable(kids[frame.key].tree, frame.node)
    BY <1>3 DEF PlacedIn
  <2>2. frame.key \in DOMAIN kids2 /\ Presentable(kids2[frame.key].tree, frame.node)
    BY <1>1, <2>1
  <2> QED BY <1>3, <2>2 DEF PlacedIn
<1> QED BY <1>2, <1>3

LEMMA SessionsOutlive ==
  ASSUME NEW k, SessionsSound(k)
  PROVE  Outlives(k, k)
  BY BelowItself DEF Outlives, SessionsSound, TrackSession

(* A sample closes: its node is presented, and its session is kept.        *)
LEMMA ClosedTree ==
  ASSUME NEW c, NEW s, SessionsSound(c.before), Underway(c, s), c.pc = "units",
         NEW t, t = s[c.track].tree, NEW u, u = Transition(t, c.node, "Materialized")
  PROVE  /\ Below(t, u, c.node) /\ Presentable(u, c.node) /\ Quiet(u)
         /\ Extends(c, u) /\ Len(u) = Len(t)
<1>1. Grown(c, s) /\ DecodingIn(c, t) /\ Saved(c) /\ Created(c.created, c.before, c.track)
  BY DEF Underway, Decoding, CallShape
<1>2. Tree(t) /\ Len(t) \in Nat /\ t \in Seq(Node)
  BY <1>1, SessionOf, Links
<1>3. PICK n : n = c.node
  OBVIOUS
<1>4. /\ n \in 2..Len(t) /\ n \in 1..Len(t) /\ t[n].state = "Indexing"
      /\ n = c.snapshot.count + 1 /\ c.snapshot.count \in Nat
      /\ \A i \in 2..Len(t) : i # n => t[i].state # "Indexing"
  BY <1>1, <1>2, <1>3 DEF DecodingIn
<1>5. OnlyMarks(t, u, n) /\ u[n].state = "Materialized"
  <2>1. "Materialized" \in States /\ CanTransition("Indexing", "Materialized")
    BY DEF States, Terminal, CanTransition, Active
  <2>2. /\ OnlyMarks(t, Transition(t, n, "Materialized"), n)
        /\ Transition(t, n, "Materialized")[n].state
             = IF CanTransition(t[n].state, "Materialized") THEN "Materialized"
               ELSE t[n].state
    BY <1>2, <1>4, <2>1, TransitionMarks
  <2> QED BY <1>3, <1>4, <2>1, <2>2
<1>6. Below(t, u, n) /\ Len(u) = Len(t)
  BY <1>2, <1>4, <1>5, MarksBelow DEF OnlyMarks
<1>7. Presentable(u, n)
  BY <1>4, <1>5, <1>6 DEF Presentable
<1>8. Quiet(u)
  <2>1. ASSUME NEW i \in 2..Len(u)
        PROVE  u[i].state # "Indexing"
    <3>1. i \in 2..Len(t) /\ i \in 1..Len(t)
      BY <1>2, <1>6
    <3> QED BY <1>4, <1>5, <3>1 DEF OnlyMarks
  <2> QED BY <2>1 DEF Quiet
<1>9. Extends(c, u)
  <2> SUFFICES ASSUME ~c.created PROVE Below(c.before[c.track].tree, u, RootId)
    BY DEF Extends
  <2>1. PICK b : b = c.before[c.track].tree
    OBVIOUS
  <2>2. Below(b, t, RootId)
    BY <1>1, <2>1 DEF Grown
  <2>3. Tree(b)
    BY <1>1, <2>1 DEF SessionsSound, TrackSession, Created
  <2>4. RootId \in 1..Len(b) /\ Len(b) \in Nat
    BY <2>3, Links
  <2>5. n > Len(b)
    <3>1. c.snapshot.count = Len(b)
      BY <1>1, <2>1 DEF Saved, Snapshot
    <3> QED BY <1>4, <2>4, <3>1
  <2>6. Below(b, u, RootId)
    BY ONLY <1>4, <1>6, <2>2, <2>3, <2>4, <2>5, BelowNewer
  <2> QED BY <2>1, <2>6
<1> QED BY <1>3, <1>6, <1>7, <1>8, <1>9

LEMMA CloseSettles ==
  ASSUME NEW c, NEW s, SessionsSound(c.before), Underway(c, s), c.pc = "units",
         NEW w, w = s[c.track],
         NEW u, u = Transition(w.tree, c.node, "Materialized"),
         NEW result, result.node = c.node,
         NEW x, x = Session(u, w.rules, With(w.samples, c.sample, result)),
         NEW v, v = Put(s, c.track, x)
  PROVE  /\ SessionsSound(v) /\ Outlives(c.before, v)
         /\ c.track \in DOMAIN v /\ Presentable(v[c.track].tree, c.node)
<1>1. /\ Grown(c, s) /\ DecodingIn(c, w.tree) /\ Created(c.created, c.before, c.track)
      /\ c.track \in DOMAIN Tracks /\ c.created \in BOOLEAN /\ c.limit \in Nat
  BY DEF Underway, Decoding, CallShape, Created
<1>2. /\ Below(w.tree, u, c.node) /\ Presentable(u, c.node) /\ Quiet(u)
      /\ Extends(c, u) /\ Len(u) = Len(w.tree)
  <2>1. PICK t : t = w.tree
    OBVIOUS
  <2>2. t = s[c.track].tree /\ u = Transition(t, c.node, "Materialized")
    BY <2>1
  <2>3. /\ Below(t, u, c.node) /\ Presentable(u, c.node) /\ Quiet(u)
        /\ Extends(c, u) /\ Len(u) = Len(t)
    BY <2>2, ClosedTree
  <2> QED BY <2>1, <2>3
<1>3. TrackSession(w) /\ Tree(w.tree) /\ Tree(u) /\ Len(w.tree) \in Nat /\ IsRules(w.rules)
  BY <1>1, <1>2, SessionOf DEF Grown, Below, TrackSession
<1>4. /\ x = [tree |-> x.tree, rules |-> x.rules, samples |-> x.samples]
      /\ x.tree = u /\ x.rules = w.rules /\ x.samples = With(w.samples, c.sample, result)
  BY DEF Session
<1>5. TrackSession(x)
  <2>1. ASSUME NEW i \in DOMAIN x.samples
        PROVE  Presentable(u, x.samples[i].node)
    <3>1. CASE i = c.sample
      <4>1. x.samples[i] = result
        BY <1>4, <2>1, <3>1 DEF With
      <4> QED BY <1>2, <4>1
    <3>2. CASE i # c.sample
      <4>1. i \in DOMAIN w.samples /\ x.samples[i] = w.samples[i]
        BY <1>4, <2>1, <3>2 DEF With
      <4>2. PICK n, p, t : n = w.samples[i].node /\ p = c.node /\ t = w.tree
        OBVIOUS
      <4>3. Presentable(t, n) /\ p \in 1..Len(t) /\ t[p].state # "Materialized"
        <5>1. Presentable(w.tree, w.samples[i].node)
          BY <1>3, <4>1 DEF TrackSession
        <5>2. /\ c.node \in Nat \ {0} /\ c.node <= Len(w.tree)
              /\ w.tree[c.node].state = "Indexing"
          BY <1>1 DEF DecodingIn
        <5>3. c.node \in 1..Len(w.tree)
          BY <1>3, <5>2
        <5> QED BY <4>2, <5>1, <5>2, <5>3
      <4>4. Tree(t) /\ Below(t, u, p)
        BY <1>2, <1>3, <4>2
      <4>5. Presentable(u, n)
        BY ONLY <4>3, <4>4, PresentableBelow
      <4> QED BY <4>1, <4>2, <4>5
    <3> QED BY <3>1, <3>2
  <2> QED BY ONLY <1>3, <1>4, <2>1 DEF TrackSession
<1>6. /\ s = [k \in DOMAIN c.before \cup {c.track} |-> s[k]]
      /\ \A k \in DOMAIN c.before \ {c.track} : s[k] = c.before[k]
  BY <1>1 DEF Grown
<1>7. DOMAIN s = DOMAIN c.before \cup {c.track} /\ s = [k \in DOMAIN s |-> s[k]]
  BY <1>6
<1>8. /\ v = [k \in DOMAIN s |-> v[k]] /\ DOMAIN v = DOMAIN s /\ v[c.track] = x
      /\ \A k \in DOMAIN s : k # c.track => v[k] = s[k]
  BY <1>7, PutIs
<1>9. \A k \in DOMAIN c.before \ {c.track} : v[k] = c.before[k]
  BY ONLY <1>6, <1>7, <1>8
<1>10. DOMAIN v \subseteq DOMAIN Tracks
  BY <1>1, <1>7, <1>8 DEF SessionsSound
<1>11. ASSUME NEW k \in DOMAIN v
       PROVE  TrackSession(v[k]) /\ Quiet(v[k].tree)
  <2>1. CASE k = c.track
    BY <1>2, <1>4, <1>5, <1>8, <2>1
  <2>2. CASE k # c.track
    <3>1. k \in DOMAIN c.before /\ v[k] = c.before[k]
      BY ONLY <1>7, <1>8, <1>9, <2>2, k \in DOMAIN v
    <3> QED BY <3>1 DEF SessionsSound
  <2> QED BY <2>1, <2>2
<1>12. Nodes(v, DOMAIN v) <= MaxRetained
  <2>1. PICK b, track : b = c.before /\ track = c.track
    OBVIOUS
  <2>2. /\ SessionsSound(b) /\ v = [i \in DOMAIN b \cup {track} |-> v[i]]
        /\ \A i \in DOMAIN b \ {track} : v[i] = b[i]
        /\ Len(v[track].tree) \in Nat
    BY <1>2, <1>3, <1>4, <1>7, <1>8, <1>9, <2>1
  <2>3. /\ Nodes(b, DOMAIN b \ {track}) \in Nat
        /\ Nodes(v, DOMAIN v) = Len(v[track].tree) + Nodes(b, DOMAIN b \ {track})
    BY ONLY <2>2, OthersAre
  <2>4. PICK o, n, m, l : /\ o = Others(c) /\ n = c.snapshot.count /\ m = Len(u)
                         /\ l = c.limit
    OBVIOUS
  <2>5. o \in Nat /\ n \in Nat /\ m \in Nat /\ l \in Nat /\ m <= n + l
        /\ o + n + l <= MaxRetained
    BY <1>1, <1>2, <1>3, <2>1, <2>3, <2>4 DEF DecodingIn, Others
  <2>6. m + o <= MaxRetained
    BY <2>5, NavigationAssumption
  <2>7. Nodes(v, DOMAIN v) = m + o
    BY <1>4, <1>8, <2>1, <2>3, <2>4 DEF Others
  <2> QED BY <2>6, <2>7
<1>13. SessionsSound(v)
  BY <1>8, <1>10, <1>11, <1>12 DEF SessionsSound
<1>14. Outlives(c.before, v)
  <2>1. ASSUME NEW k \in DOMAIN c.before
        PROVE  /\ k \in DOMAIN v /\ Tree(c.before[k].tree)
               /\ Below(c.before[k].tree, v[k].tree, RootId)
    <3>1. k \in DOMAIN v /\ Tree(c.before[k].tree)
      BY <1>7, <1>8 DEF SessionsSound, TrackSession
    <3>2. CASE k = c.track
      <4>1. ~c.created
        BY <1>1, <3>2 DEF Created
      <4> QED BY <1>2, <1>4, <1>8, <3>1, <3>2, <4>1 DEF Extends
    <3>3. CASE k # c.track
      BY <1>9, <3>1, <3>3, BelowItself
    <3> QED BY <3>1, <3>2, <3>3
  <2> QED BY <2>1 DEF Outlives
<1> QED BY <1>2, <1>4, <1>7, <1>8, <1>13, <1>14

-----------------------------------------------------------------------------
(* A child format has been entered or not. *)

LEMMA NewChildIs ==
  ASSUME NEW x, x = NewChildSession
  PROVE  ChildSession(x)
<1>1. PICK r : r = NewSession(SessionLimit)
  OBVIOUS
<1>2. SessionLimit \in Nat /\ 0 \in Nat
  BY NavigationAssumption
<1>3. IsRules(r) /\ r.limit = SessionLimit /\ r.spent = 0
  <2>1. PICK d, p : r = [dir |-> d, payloads |-> p, limit |-> SessionLimit, spent |-> 0]
    BY <1>1 DEF NewSession
  <2>2. PICK l : l = SessionLimit
    OBVIOUS
  <2> QED BY <1>2, <2>1, <2>2, RulesRecord
<1>4. x.tree = NewTree /\ x.rules = r
  BY <1>1 DEF NewChildSession
<1>5. Tree(NewTree) /\ Len(NewTree) = 1
  BY NewTreeIsTree
<1>6. 2..Len(x.tree) = {}
  BY <1>4, <1>5
<1> QED BY <1>2, <1>3, <1>4, <1>5, <1>6 DEF ChildSession, Quiet

LEMMA ChildGrows ==
  ASSUME NEW x, ChildSession(x), NEW r, r = x.rules, NEW t, t = x.tree, NEW run,
         RunOf(run, r, t, RootId, SessionLimit),
         NEW u, u = IF run.status = "Materialized" THEN run.tree ELSE t,
         NEW y, y = [tree |-> u, rules |-> run.session]
  PROVE  /\ ChildSession(y) /\ y.tree = u /\ Below(t, u, RootId) /\ Tree(t)
         /\ run.status = "Materialized" => Presentable(u, Len(t) + 1)
<1>1. /\ Tree(t) /\ Quiet(t) /\ IsRules(r) /\ r.limit = SessionLimit
      /\ r.spent <= SessionLimit /\ Len(t) <= 1 + r.spent
  BY DEF ChildSession
<1>2. Len(t) \in Nat /\ Len(t) >= 1 /\ RootId \in 1..Len(t)
  BY <1>1, Links
<1>3. SessionLimit \in Nat /\ r.spent \in Nat
  BY <1>1, NavigationAssumption DEF IsRules
<1>4. /\ run.made \in Nat /\ run.made <= Remaining(r, SessionLimit) /\ IsRules(run.session)
      /\ run.session.limit = r.limit /\ run.session.spent = r.spent + run.made
  BY DEF RunOf
<1>5. r.spent + run.made <= SessionLimit
  <2>1. PICK l \in Nat : l = SessionLimit
    BY <1>3
  <2>2. Remaining(r, l) \in Nat /\ r.spent + Remaining(r, l) <= r.limit
    BY <1>1, <2>1, RemainingIs
  <2> QED BY <1>1, <1>3, <1>4, <2>1, <2>2
<1>6. y.tree = u /\ y.rules = run.session
  OBVIOUS
<1>7. CASE run.status = "Materialized"
  <2>1. /\ GrewBy(t, run.tree, RootId, run.made)
        /\ \A k \in (Len(t) + 1)..Len(run.tree) : run.tree[k].state # "Indexing"
        /\ run.made > 0 /\ AllIn(run.tree, Len(t) + 1, "Materialized")
    <3>1. PICK l : l = SessionLimit
      OBVIOUS
    <3> QED BY <1>1, <1>2, <1>7, <3>1, RunGrows
  <2>2. /\ u = run.tree /\ Below(t, u, RootId) /\ Len(u) = Len(t) + run.made /\ Tree(u)
    BY <1>7, <2>1 DEF GrewBy, Below
  <2>3. Quiet(u)
    BY <1>1, <2>1, <2>2, QuietGrows
  <2>4. Len(u) <= 1 + (r.spent + run.made)
    BY <1>1, <1>2, <1>3, <1>4, <2>2
  <2>5. Presentable(u, Len(t) + 1)
    <3>1. Len(t) + 1 \in 2..Len(u) /\ Len(t) + 1 \in (Len(t) + 1)..Len(u)
      BY <1>2, <1>4, <2>1, <2>2
    <3> QED BY <2>1, <2>2, <3>1 DEF Presentable, AllIn
  <2> QED BY <1>1, <1>4, <1>5, <1>6, <2>2, <2>3, <2>4, <2>5 DEF ChildSession
<1>8. CASE run.status # "Materialized"
  <2>1. u = t /\ Below(t, u, RootId)
    BY <1>1, <1>8, BelowItself
  <2>2. Len(u) <= 1 + (r.spent + run.made)
    BY <1>1, <1>2, <1>3, <1>4, <2>1
  <2> QED BY <1>1, <1>4, <1>5, <1>6, <1>8, <2>1, <2>2 DEF ChildSession
<1> QED BY <1>7, <1>8

-----------------------------------------------------------------------------
(* The navigation stack. *)

LEMMA PlacedStays ==
  ASSUME NEW frames, NEW kept, NEW kids, NEW kept2, NEW kids2,
         Placed(frames, kept, kids), Outlives(kept, kept2), Outlives(kids, kids2)
  PROVE  Placed(frames, kept2, kids2)
<1>1. ASSUME NEW i \in 1..Len(frames)
      PROVE  PlacedIn(frames[i], kept2, kids2)
  <2>1. PICK f : f = frames[i]
    OBVIOUS
  <2>2. PlacedIn(f, kept, kids)
    BY <2>1 DEF Placed
  <2>3. PlacedIn(f, kept2, kids2)
    BY <2>2, PlacesKept
  <2> QED BY <2>1, <2>3
<1> QED BY <1>1 DEF Placed

LEMMA PlacedAppend ==
  ASSUME NEW frames, NEW kept, NEW kids, Placed(frames, kept, kids),
         NEW f \in Frames, PlacedIn(f, kept, kids)
  PROVE  Placed(Append(frames, f), kept, kids)
<1> DEFINE g == Append(frames, f)
<1>1. frames \in Seq(Frames) /\ Len(frames) \in Nat
  BY DEF Placed
<1>2. /\ g \in Seq(Frames) /\ Len(g) = Len(frames) + 1 /\ g[Len(frames) + 1] = f
      /\ \A i \in 1..Len(frames) : g[i] = frames[i]
  BY <1>1
<1> HIDE DEF g
<1>3. ASSUME NEW i \in 1..Len(g)
      PROVE  PlacedIn(g[i], kept, kids)
  <2>1. CASE i = Len(frames) + 1
    BY <1>2, <2>1
  <2>2. CASE i # Len(frames) + 1
    <3>1. i \in 1..Len(frames)
      BY <1>1, <1>2, <2>2
    <3> QED BY <1>2, <3>1 DEF Placed
  <2> QED BY <2>1, <2>2
<1>4. Placed(g, kept, kids)
  BY <1>2, <1>3 DEF Placed
<1> QED BY <1>4 DEF g

LEMMA PlacedFront ==
  ASSUME NEW frames, NEW kept, NEW kids, Placed(frames, kept, kids), frames # <<>>
  PROVE  Placed(Front(frames), kept, kids)
<1> DEFINE g == Front(frames)
<1>1. frames \in Seq(Frames) /\ Len(frames) \in Nat /\ Len(frames) >= 1
  BY DEF Placed
<1>2. /\ g \in Seq(Frames) /\ Len(g) = Len(frames) - 1
      /\ \A i \in 1..(Len(frames) - 1) : g[i] = frames[i]
  <2>1. PICK n \in Nat : n = Len(frames) - 1
    BY <1>1
  <2>2. 1 \in Int /\ n \in Int /\ \A i \in 1..n : frames[i] \in Frames
    BY <1>1, <2>1
  <2>3. /\ SubSeq(frames, 1, n) \in Seq(Frames)
        /\ Len(SubSeq(frames, 1, n)) = IF 1 <= n THEN n - 1 + 1 ELSE 0
        /\ \A i \in 1..(n - 1 + 1) : SubSeq(frames, 1, n)[i] = frames[1 + i - 1]
    BY <2>2, SubSeqProperties
  <2>4. g = SubSeq(frames, 1, n)
    BY <2>1 DEF Front
  <2>5. \A i \in 1..n : i \in 1..(n - 1 + 1) /\ 1 + i - 1 = i
    OBVIOUS
  <2> QED BY <2>1, <2>3, <2>4, <2>5
<1> HIDE DEF g
<1>3. \A i \in 1..Len(g) : i \in 1..Len(frames) /\ g[i] = frames[i]
  BY <1>1, <1>2
<1>4. Placed(g, kept, kids)
  BY <1>2, <1>3 DEF Placed
<1> QED BY <1>4 DEF g

LEMMA ChildrenOutlive ==
  ASSUME ChildrenSound
  PROVE  Outlives(children, children)
  BY BelowItself DEF Outlives, ChildrenSound, ChildSession

-----------------------------------------------------------------------------
(* Each step keeps the invariant. *)

LEMMA Standing ==
  ASSUME NavInv, UNCHANGED <<sessions, children, call, stack>>
  PROVE  NavInv'
<1>1. Kept' = Kept /\ (Idle' = Idle)
  BY DEF Kept, Idle
<1>2. KeptSound' /\ ChildrenSound' /\ StackSound'
  BY <1>1, RestKept DEF NavInv
<1>3. CallSound'
  BY <1>1 DEF NavInv, CallSound
<1> QED BY <1>2, <1>3 DEF NavInv

(* What a call under way has, by name.                                     *)
LEMMA Calling ==
  ASSUME NavInv, ~Idle
  PROVE  /\ SessionsSound(call.before) /\ Kept = call.before
         /\ Underway(call, sessions) /\ CallShape(call) /\ Grown(call, sessions)
         /\ call.track \in DOMAIN Tracks /\ call.sample \in SampleIndices(call.track)
         /\ call.next \in Nat \ {0} /\ call.limit \in Nat
         /\ Created(call.created, call.before, call.track) /\ call.created \in BOOLEAN
  BY DEF NavInv, CallSound, Underway, CallShape, Created, KeptSound, Kept

(* A call that ends and presents nothing gives everything back.            *)
NoTrace == (~Idle /\ Idle' /\ stack' = stack) => sessions' = call.before

LEMMA GivesUp ==
  ASSUME NavInv, ~Idle, sessions' = call.before, call' = NoCall,
         UNCHANGED <<children, stack>>
  PROVE  NavInv' /\ NoTrace
<1>1. Idle'
  BY DEF Idle, NoCall
<1>2. Kept' = Kept
  BY <1>1 DEF Kept
<1>3. KeptSound' /\ ChildrenSound' /\ StackSound'
  BY <1>2, RestKept DEF NavInv
<1>4. CallSound'
  BY <1>1 DEF CallSound
<1> QED BY <1>3, <1>4 DEF NavInv, NoTrace

LEMMA GoesOn ==
  ASSUME NavInv, Underway(call', sessions'), call'.before = Kept,
         UNCHANGED <<children, stack>>
  PROVE  NavInv' /\ NoTrace
<1>1. call'.pc \in {"prime", "frame", "units"}
  BY DEF Underway, CallShape
<1>2. ~Idle'
  BY <1>1 DEF Idle
<1>3. Kept' = Kept
  BY <1>2 DEF Kept
<1>4. KeptSound' /\ ChildrenSound' /\ StackSound'
  BY <1>3, RestKept DEF NavInv
<1>5. CallSound'
  BY DEF CallSound
<1> QED BY <1>2, <1>4, <1>5 DEF NavInv, NoTrace

LEMMA StopsAre ==
  ASSUME NEW places, NEW stop \in Stops(places)
  PROVE  stop \in {Undisturbed} \cup Interruptions
  BY DEF Stops

LEMMA OpenCallStep ==
  ASSUME NavInv, NEW track \in DOMAIN Tracks, NEW sample \in SampleIndices(track),
         OpenCall(track, sample)
  PROVE  NavInv'
<1>1. PICK k, created, limit, pc, budget :
        /\ k = sessions /\ created = (track \notin DOMAIN sessions)
        /\ budget = Budget /\ limit = IF created THEN budget - 1 ELSE budget
        /\ pc = IF created /\ Tracks[track].prefixed THEN "prime" ELSE "frame"
  OBVIOUS
<1>2. /\ Idle /\ Kept = k /\ Budget > 0
      /\ sessions' = IF created THEN With(k, track, NewTrackSession(limit)) ELSE k
      /\ call' = Preparation(pc, track, sample, created, 1, limit, k)
      /\ UNCHANGED <<children, stack>>
  BY <1>1 DEF OpenCall, CanEnter, Opens, Kept, Preparation
<1>3. SessionsSound(k)
  BY <1>2 DEF NavInv, KeptSound
<1>4. Created(created, k, track)
  BY <1>1 DEF Created
<1>5. budget \in Nat \ {0} /\ Nodes(k, DOMAIN k) + budget <= MaxRetained
  <2>1. PICK n \in Nat : n = Nodes(k, DOMAIN k)
    BY <1>3, SessionsCounted
  <2>2. Retained = n
    BY <1>1, <2>1, RetainedIs
  <2>3. WorkingLimit \in Nat /\ MaxRetained \in Nat
    BY NavigationAssumption
  <2>4. budget = Min2(WorkingLimit, MaxRetained - n) /\ budget > 0
    BY <1>1, <1>2, <2>2 DEF Budget
  <2>5. budget \in Nat \ {0} /\ n + budget <= MaxRetained
    BY <2>3, <2>4 DEF Min2
  <2> QED BY <2>1, <2>5
<1>6. pc \in {"prime", "frame"} /\ (pc = "prime" => created)
  BY <1>1
<1>7. PICK c, s : c = call' /\ s = sessions'
  OBVIOUS
<1>8. /\ c = Preparation(pc, track, sample, created, 1, limit, k)
      /\ s = IF created THEN With(k, track, NewTrackSession(limit)) ELSE k
      /\ limit = IF created THEN budget - 1 ELSE budget
  BY <1>1, <1>2, <1>7
<1>9. Underway(c, s)
  BY ONLY <1>3, <1>4, <1>5, <1>6, <1>8, track \in DOMAIN Tracks,
          sample \in SampleIndices(track), OpenUnderway
<1>10. c.before = k
  BY <1>8 DEF Preparation
<1> QED BY <1>2, <1>7, <1>9, <1>10, GoesOn

LEMMA PresentCachedStep ==
  ASSUME NavInv, NEW track \in DOMAIN Tracks, NEW sample \in SampleIndices(track),
         PresentCached(track, sample)
  PROVE  NavInv'
<1>0. PICK n : n = sessions[track].samples[sample].node
  OBVIOUS
<1>1. /\ Idle /\ Kept = sessions /\ Cached(track, sample)
      /\ stack' = Append(stack, SampleFrame(track, sample, n))
      /\ UNCHANGED <<sessions, children, call>>
  BY <1>0 DEF PresentCached, CanEnter, Kept
<1>2. Idle' /\ Kept' = Kept
  BY <1>1 DEF Idle, Kept
<1>3. /\ track \in DOMAIN Kept /\ Presentable(Kept[track].tree, n)
      /\ Len(Kept[track].tree) \in Nat
  <2>1. track \in DOMAIN sessions /\ sample \in DOMAIN sessions[track].samples
    BY <1>1 DEF Cached
  <2>2. TrackSession(sessions[track])
    BY <1>1, <2>1 DEF NavInv, KeptSound, SessionsSound
  <2>3. Len(sessions[track].tree) \in Nat
    BY <2>2, Links DEF TrackSession
  <2> QED BY <1>0, <1>1, <2>1, <2>2, <2>3 DEF TrackSession
<1>4. PICK f : f = SampleFrame(track, sample, n)
  OBVIOUS
<1>5. f \in Frames /\ PlacedIn(f, Kept, children)
  <2>1. n \in Nat /\ sample \in Nat
    BY <1>3, SampleIsNat DEF Presentable
  <2> QED BY <1>3, <1>4, <2>1 DEF SampleFrame, Frames, PlacedIn
<1>6. StackSound'
  <2>1. Placed(stack, Kept, children)
    BY DEF NavInv, StackSound
  <2>2. Placed(Append(stack, f), Kept, children)
    BY <1>5, <2>1, PlacedAppend
  <2> QED BY <1>1, <1>2, <1>4, <2>2 DEF StackSound
<1>7. KeptSound' /\ ChildrenSound'
  BY <1>1, <1>2 DEF NavInv, KeptSound, ChildrenSound
<1>8. CallSound'
  BY <1>2 DEF CallSound
<1> QED BY <1>6, <1>7, <1>8 DEF NavInv

LEMMA ReturnStep ==
  ASSUME NavInv, ReturnToParent
  PROVE  NavInv'
<1>1. /\ Idle /\ stack # <<>> /\ stack' = Front(stack)
      /\ UNCHANGED <<sessions, children, call>>
  BY DEF ReturnToParent
<1>2. Idle' /\ Kept' = Kept
  BY <1>1 DEF Idle, Kept
<1>3. StackSound'
  <2>1. Placed(Front(stack), Kept, children)
    BY <1>1, PlacedFront DEF NavInv, StackSound
  <2> QED BY <1>1, <1>2, <2>1 DEF StackSound
<1>4. KeptSound' /\ ChildrenSound'
  BY <1>1, <1>2 DEF NavInv, KeptSound, ChildrenSound
<1>5. CallSound'
  BY <1>2 DEF CallSound
<1> QED BY <1>3, <1>4, <1>5 DEF NavInv

LEMMA PrimedStep ==
  ASSUME NavInv, Primed
  PROVE  NavInv' /\ NoTrace
<1>1. /\ ~Idle /\ call.pc = "prime" /\ call' = [call EXCEPT !.pc = "frame"]
      /\ UNCHANGED <<sessions, children, stack>>
  BY DEF Primed, Idle
<1>2. /\ Underway(call, sessions) /\ Grown(call, sessions) /\ CallShape(call)
      /\ Kept = call.before
  BY <1>1, Calling
<1>3. Preparing(call, sessions)
  BY <1>1, <1>2 DEF Underway
<1>4. call = Preparation(call.pc, call.track, call.sample, call.created, call.next,
                         call.limit, call.before)
  BY <1>1, <1>2 DEF CallShape
<1>5. PICK d : d = call'
  OBVIOUS
<1>6. /\ d = Preparation("frame", call.track, call.sample, call.created, call.next,
                         call.limit, call.before)
      /\ d.pc = "frame" /\ d.track = call.track /\ d.sample = call.sample
      /\ d.created = call.created /\ d.next = call.next /\ d.limit = call.limit
      /\ d.before = call.before
  <2>1. PICK track, sample, created, next, limit, before :
          /\ track = call.track /\ sample = call.sample /\ created = call.created
          /\ next = call.next /\ limit = call.limit /\ before = call.before
    OBVIOUS
  <2>2. call = [pc |-> "prime", track |-> track, sample |-> sample, created |-> created,
                next |-> next, limit |-> limit, before |-> before]
    BY <1>1, <1>4, <2>1 DEF Preparation
  <2>3. d = [call EXCEPT !.pc = "frame"]
    BY <1>1, <1>5
  <2>4. d = [pc |-> "frame", track |-> track, sample |-> sample, created |-> created,
             next |-> next, limit |-> limit, before |-> before]
    BY ONLY <2>2, <2>3
  <2> QED BY <2>1, <2>4 DEF Preparation
<1>7. CallShape(d)
  BY <1>2, <1>6 DEF CallShape
<1>8. Grown(d, sessions)
  BY <1>2, <1>6 DEF Grown
<1>9. Preparing(d, sessions)
  BY <1>3, <1>6 DEF Preparing, Others
<1>10. Underway(d, sessions)
  BY <1>6, <1>7, <1>8, <1>9 DEF Underway
<1>11. Underway(call', sessions') /\ call'.before = Kept
  BY <1>1, <1>2, <1>5, <1>6, <1>10
<1> QED BY <1>1, <1>11, GoesOn

(* The configuration units that Prime decodes are units.                   *)
LEMMA ConfigUnit ==
  ASSUME NEW track \in DOMAIN Tracks, NEW n \in Nat \ {0}, n <= Len(Tracks[track].config)
  PROVE  Tracks[track].config[n] \in Unit
<1>1. PICK q : q = Tracks[track].config
  OBVIOUS
<1>2. q \in Seq(Unit)
  BY <1>1, NavigationAssumption
<1>3. Len(q) \in Nat /\ n \in 1..Len(q)
  BY <1>1, <1>2
<1> QED BY <1>1, <1>2, <1>3

LEMMA SampleUnit ==
  ASSUME NEW track \in DOMAIN Tracks, NEW sample \in SampleIndices(track),
         NEW n \in Nat \ {0}, n <= Len(UnitsOf(track, sample))
  PROVE  UnitsOf(track, sample)[n] \in Unit
<1>1. PICK q : q = UnitsOf(track, sample)
  OBVIOUS
<1>2. q \in Seq(Unit)
  BY <1>1, SampleIsNat
<1>3. Len(q) \in Nat /\ n \in 1..Len(q)
  BY <1>1, <1>2
<1> QED BY <1>1, <1>2, <1>3

LEMMA PrimeStep ==
  ASSUME NavInv, NEW stop \in Stops(AllPlaces), Prime(stop)
  PROVE  NavInv' /\ NoTrace
<1> DEFINE w == sessions[call.track]
           units == Tracks[call.track].config
<1>1. PICK run : run = RunCompound(w.rules, w.tree, RootId, units[call.next], TRUE,
                                   call.limit, stop)
  OBVIOUS
<1>2. /\ ~Idle /\ call.pc = "prime" /\ call.next <= Len(units)
      /\ IF run.status = "Materialized"
         THEN /\ sessions' = [sessions EXCEPT ![call.track].tree = run.tree,
                                              ![call.track].rules = run.session]
              /\ call' = [call EXCEPT !.next = @ + 1, !.limit = @ - run.made]
              /\ UNCHANGED stack
         ELSE GiveUp
      /\ UNCHANGED children
  BY <1>1 DEF Prime, Idle
<1>3. /\ SessionsSound(call.before) /\ Kept = call.before
      /\ Underway(call, sessions) /\ CallShape(call) /\ Grown(call, sessions)
      /\ call.track \in DOMAIN Tracks
      /\ call.next \in Nat \ {0} /\ call.limit \in Nat
  BY <1>2, Calling
<1>4. call.created
  BY <1>2, <1>3 DEF Underway, Preparing
<1>5. CASE run.status = "Materialized"
  <2>1. RunOf(run, w.rules, w.tree, RootId, call.limit)
    <3>1. PICK r, t, unit, limit : /\ r = w.rules /\ t = w.tree /\ unit = units[call.next]
                                   /\ limit = call.limit
      OBVIOUS
    <3>2. IsRules(r) /\ limit \in Nat
      BY <1>3, <3>1, SessionOf
    <3>3. unit \in Unit
      BY <1>2, <1>3, <3>1, ConfigUnit
    <3>4. stop \in {Undisturbed} \cup Interruptions
      BY StopsAre
    <3>5. run = RunCompound(r, t, RootId, unit, TRUE, limit, stop)
      BY <1>1, <3>1
    <3>6. RunOf(run, r, t, RootId, limit)
      BY ONLY <3>2, <3>3, <3>4, <3>5, RunCompoundIs
    <3> QED BY <3>1, <3>6
  <2>2. PICK c, s, x : /\ c = call /\ s = sessions
                       /\ x = Session(run.tree, run.session, w.samples)
    OBVIOUS
  <2>3. PICK u, d : /\ u = Put(s, c.track, x)
                    /\ d = Preparation("prime", c.track, c.sample, c.created, c.next + 1,
                                       c.limit - run.made, c.before)
    OBVIOUS
  <2>4. Underway(d, u)
    <3>1. /\ SessionsSound(c.before) /\ Underway(c, s) /\ c.pc = "prime"
          /\ run.status = "Materialized"
          /\ RunOf(run, s[c.track].rules, s[c.track].tree, RootId, c.limit)
          /\ u = Put(s, c.track, Session(run.tree, run.session, s[c.track].samples))
      BY <1>2, <1>3, <1>5, <2>1, <2>2, <2>3
    <3> QED BY ONLY <2>3, <3>1, PrimeUnderway
  <2>5. sessions' = u
    <3>1. PICK e, f, g, t, r : /\ e = w.tree /\ f = w.rules /\ g = w.samples
                               /\ t = run.tree /\ r = run.session
      OBVIOUS
    <3>2. /\ s = [k \in DOMAIN s |-> s[k]] /\ c.track \in DOMAIN s
          /\ s[c.track] = Session(e, f, g)
      BY <1>3, <2>2, <3>1, SessionOf
    <3>3. Updated(s, c.track, t, r) = Put(s, c.track, Session(t, r, g))
      BY ONLY <3>2, UpdatedIs
    <3>4. sessions' = Updated(s, c.track, t, r)
      BY <1>2, <1>5, <2>2, <3>1 DEF Updated
    <3> QED BY <2>2, <2>3, <3>1, <3>3, <3>4
  <2>6. call' = d
    <3>1. PICK track, sample, created, next, limit, before, n, l :
            /\ track = call.track /\ sample = call.sample /\ created = call.created
            /\ next = call.next /\ limit = call.limit /\ before = call.before
            /\ n = call.next + 1 /\ l = call.limit - run.made
      OBVIOUS
    <3>2. call = Preparation("prime", track, sample, created, next, limit, before)
      BY <1>2, <1>3, <3>1 DEF CallShape
    <3>3. Proceeded(Preparation("prime", track, sample, created, next, limit, before), n, l)
            = Preparation("prime", track, sample, created, n, l, before)
      BY ProceededIs
    <3>4. call' = Proceeded(call, n, l)
      BY <1>2, <1>5, <3>1 DEF Proceeded
    <3> QED BY <2>2, <2>3, <3>1, <3>2, <3>3, <3>4
  <2>7. d.before = call.before
    BY <2>2, <2>3 DEF Preparation
  <2> QED BY <1>2, <1>3, <1>5, <2>4, <2>5, <2>6, <2>7, GoesOn
<1>6. CASE run.status # "Materialized"
  <2>1. sessions' = call.before /\ call' = NoCall /\ UNCHANGED <<children, stack>>
    BY <1>2, <1>4, <1>6, RolledBackIs DEF GiveUp
  <2> QED BY <1>2, <2>1, GivesUp
<1> QED BY <1>5, <1>6

LEMMA TransactionRules ==
  ASSUME NEW e, IsRules(e), NEW l \in Nat
  PROVE  IsRules(BeginTransaction(e, l))
<1>1. PICK d, p : \E m, n \in Nat :
        e = [dir |-> d, payloads |-> p, limit |-> m, spent |-> n]
  BY RulesFields
<1>2. PICK m \in Nat, n \in Nat : e = [dir |-> d, payloads |-> p, limit |-> m, spent |-> n]
  BY <1>1
<1> DEFINE y == [e EXCEPT !.limit = l]
<1>3. y = [dir |-> d, payloads |-> p, limit |-> l, spent |-> n]
  BY <1>2
<1>4. BeginTransaction(e, l) = [y EXCEPT !.spent = 0]
  BY DEF BeginTransaction
<1> HIDE DEF y
<1>5. [y EXCEPT !.spent = 0] = [dir |-> d, payloads |-> p, limit |-> l, spent |-> 0]
  BY <1>3
<1>6. 0 \in Nat
  OBVIOUS
<1> QED BY <1>4, <1>5, <1>6, RulesRecord

Restarted(w, tree, rules) == [w EXCEPT !.tree = tree, !.rules = rules]

LEMMA RestartedIs ==
  ASSUME NEW e, NEW f, NEW g, NEW w, w = Session(e, f, g), NEW u, NEW r
  PROVE  Restarted(w, u, r) = Session(u, r, g)
<1> DEFINE y == [w EXCEPT !.tree = u]
<1>1. y = Session(u, f, g)
  BY DEF Session
<1>2. Restarted(w, u, r) = [y EXCEPT !.rules = r]
  BY DEF Restarted
<1> HIDE DEF y
<1>3. [y EXCEPT !.rules = r] = Session(u, r, g)
  BY <1>1 DEF Session
<1> QED BY <1>2, <1>3

LEMMA FrameStep ==
  ASSUME NavInv, NEW stop, FrameSample(stop)
  PROVE  NavInv' /\ NoTrace
<1> DEFINE w == sessions[call.track]
<1>1. PICK t, fields, u, r :
        /\ t = w.tree /\ fields = EnvelopeNodes(call.track) - 1
        /\ u = AppendFields(AppendChild(t, RootId, "sample", "Indexing", call.sample, 0),
                            Len(t) + 1, fields)
        /\ r = IF Tracks[call.track].prefixed THEN BeginTransaction(w.rules, call.limit)
               ELSE w.rules
  OBVIOUS
<1>2. /\ ~Idle /\ call.pc = "frame" /\ UNCHANGED <<children, stack>>
  BY DEF FrameSample, Idle
<1>3. /\ SessionsSound(call.before) /\ Kept = call.before
      /\ Underway(call, sessions) /\ CallShape(call) /\ Grown(call, sessions)
      /\ call.track \in DOMAIN Tracks /\ call.limit \in Nat
      /\ Created(call.created, call.before, call.track) /\ call.created \in BOOLEAN
  BY <1>2, Calling
<1>4. CASE FramingFails(stop)
  <2>1. /\ sessions' = IF call.created THEN Without(call.track) ELSE sessions
        /\ call' = NoCall
    BY <1>4 DEF FrameSample
  <2>2. sessions' = call.before
    <3>1. CASE call.created
      BY <1>2, <2>1, <3>1, WithoutIs
    <3>2. CASE ~call.created
      <4>1. sessions[call.track] = call.before[call.track] /\ call.track \in DOMAIN call.before
        BY <1>2, <1>3, <3>2 DEF Underway, Preparing, Created
      <4>2. /\ sessions = [k \in DOMAIN call.before \cup {call.track} |-> sessions[k]]
            /\ \A k \in DOMAIN call.before \ {call.track} : sessions[k] = call.before[k]
            /\ call.before = [k \in DOMAIN call.before |-> call.before[k]]
        BY <1>3 DEF Grown, SessionsSound
      <4>3. DOMAIN call.before \cup {call.track} = DOMAIN call.before
        BY <4>1
      <4>4. \A k \in DOMAIN call.before : sessions[k] = call.before[k]
        BY <4>1, <4>2
      <4>5. sessions = call.before
        BY <4>2, <4>3, <4>4
      <4> QED BY <2>1, <3>2, <4>5
    <3> QED BY <1>3, <3>1, <3>2
  <2> QED BY <1>2, <2>1, <2>2, GivesUp
<1>5. CASE ~FramingFails(stop)
  <2>1. /\ sessions' = [sessions EXCEPT ![call.track] = [w EXCEPT !.tree = u, !.rules = r]]
        /\ call' = [pc |-> "units", track |-> call.track, sample |-> call.sample,
                    created |-> call.created, next |-> 1, limit |-> call.limit,
                    before |-> call.before, node |-> Len(t) + 1, units |-> <<>>,
                    bound |-> <<>>, snapshot |-> Snapshot(t, RootId), saved |-> w.rules]
    BY <1>1, <1>5 DEF FrameSample
  <2>2. fields \in Nat /\ 1 + fields <= call.limit
    <3>1. EnvelopeNodes(call.track) \in Nat \ {0}
      BY NavigationAssumption DEF EnvelopeNodes
    <3>2. ~(call.limit < EnvelopeNodes(call.track))
      BY <1>5 DEF FramingFails
    <3> QED BY <1>1, <1>3, <3>1, <3>2
  <2>3. IsRules(r)
    <3>1. PICK e, l : e = w.rules /\ l = call.limit
      OBVIOUS
    <3>2. IsRules(e) /\ l \in Nat
      BY <1>3, <3>1, SessionOf
    <3>3. IsRules(BeginTransaction(e, l))
      BY <3>2, TransactionRules
    <3> QED BY <1>1, <3>1, <3>2, <3>3
  <2>4. PICK c, s : c = call /\ s = sessions
    OBVIOUS
  <2>5. PICK v, d :
          /\ v = Put(s, c.track, Session(u, r, s[c.track].samples))
          /\ d = [pc |-> "units", track |-> c.track, sample |-> c.sample,
                  created |-> c.created, next |-> 1, limit |-> c.limit,
                  before |-> c.before, node |-> Len(t) + 1, units |-> <<>>,
                  bound |-> <<>>, snapshot |-> Snapshot(t, RootId),
                  saved |-> s[c.track].rules]
    OBVIOUS
  <2>6. Underway(d, v)
    <3>1. /\ SessionsSound(c.before) /\ Underway(c, s) /\ c.pc = "frame"
          /\ t = s[c.track].tree /\ 1 + fields <= c.limit
          /\ u = AppendFields(AppendChild(t, RootId, "sample", "Indexing", c.sample, 0),
                              Len(t) + 1, fields)
      BY <1>1, <1>2, <1>3, <2>2, <2>4
    <3>2. fields \in Nat
      BY <2>2
    <3> QED BY ONLY <2>3, <2>5, <3>1, <3>2, FrameUnderway
  <2>7. sessions' = v
    <3>1. PICK e, f, g : e = w.tree /\ f = w.rules /\ g = w.samples
      OBVIOUS
    <3>2. w = Session(e, f, g) /\ s = [k \in DOMAIN s |-> s[k]]
      BY <1>3, <2>4, <3>1, SessionOf
    <3>3. [w EXCEPT !.tree = u, !.rules = r] = Session(u, r, g)
      <4>1. PICK y : y = w
        OBVIOUS
      <4>2. y = Session(e, f, g)
        BY <3>2, <4>1
      <4>3. Restarted(y, u, r) = Session(u, r, g)
        BY <4>2, RestartedIs
      <4>4. [y EXCEPT !.tree = u, !.rules = r] = Session(u, r, g)
        BY <4>3 DEF Restarted
      <4> QED BY <4>1, <4>4
    <3>4. [s EXCEPT ![c.track] = Session(u, r, g)] = Put(s, c.track, Session(u, r, g))
      BY <3>2 DEF Put
    <3> QED BY <2>1, <2>4, <2>5, <3>1, <3>3, <3>4
  <2>8. call' = d /\ d.before = call.before
    BY <2>1, <2>4, <2>5
  <2> QED BY <1>2, <1>3, <2>6, <2>7, <2>8, GoesOn
<1> QED BY <1>4, <1>5

LEMMA RunUnitStep ==
  ASSUME NavInv, NEW stop \in Stops(AllPlaces), RunUnit(stop)
  PROVE  NavInv' /\ NoTrace
<1> DEFINE w == sessions[call.track]
           source == UnitsOf(call.track, call.sample)[call.next]
<1>1. PICK t, framed : /\ t = w.tree
                       /\ framed = AppendFields(AppendChild(t, call.node, "unit", "Indexing",
                                                            call.next, 0), Len(t) + 1, 1)
  OBVIOUS
<1>2. PICK left : left = NodesLeft(framed)
  OBVIOUS
<1>3. PICK run : run = RunCompound(w.rules, framed, Len(t) + 1, source, FALSE, left, stop)
  OBVIOUS
<1>4. PICK u, units, bound :
        /\ u = IF run.status = "Materialized"
               THEN Transition(run.tree, Len(t) + 1, "Materialized")
               ELSE MarkPartial(run.tree, Len(t) + 1, StateForFailure(run.status), run.status)
        /\ units = Append(call.units, Len(t) + 1)
        /\ bound = Append(call.bound, Binding(w.rules, source, run.status))
  OBVIOUS
<1>5. /\ ~Idle /\ call.pc = "units" /\ call.next <= Len(UnitsOf(call.track, call.sample))
      /\ IF NodesLeft(t) < 2 \/ run.status \in RunTerminating
         THEN GiveUp
         ELSE /\ sessions' = [sessions EXCEPT ![call.track].tree = u,
                                              ![call.track].rules = run.session]
              /\ call' = [call EXCEPT !.next = @ + 1, !.units = units, !.bound = bound]
              /\ UNCHANGED stack
      /\ UNCHANGED children
  <2>1. /\ call.pc = "units" /\ call.next <= Len(UnitsOf(call.track, call.sample))
        /\ UNCHANGED children
    BY DEF RunUnit
  <2>2. ~Idle
    BY <2>1 DEF Idle
  <2>3. IF NodesLeft(t) < 2 \/ run.status \in RunTerminating
        THEN GiveUp
        ELSE /\ sessions' = [sessions EXCEPT ![call.track].tree = u,
                                             ![call.track].rules = run.session]
             /\ call' = [call EXCEPT !.next = @ + 1, !.units = units, !.bound = bound]
             /\ UNCHANGED stack
    BY <1>1, <1>2, <1>3, <1>4 DEF RunUnit
  <2> QED BY <2>1, <2>2, <2>3
<1>6. /\ SessionsSound(call.before) /\ Kept = call.before
      /\ Underway(call, sessions) /\ CallShape(call) /\ Grown(call, sessions)
      /\ call.track \in DOMAIN Tracks /\ call.sample \in SampleIndices(call.track)
      /\ call.next \in Nat \ {0} /\ call.limit \in Nat
  BY <1>5, Calling
<1>7. CASE NodesLeft(t) < 2 \/ run.status \in RunTerminating
  <2>1. sessions' = call.before /\ call' = NoCall /\ UNCHANGED <<children, stack>>
    BY <1>5, <1>7, RolledBackIs DEF GiveUp
  <2> QED BY <1>5, <2>1, GivesUp
<1>8. CASE ~(NodesLeft(t) < 2 \/ run.status \in RunTerminating)
  <2>1. DecodingIn(call, t)
    BY <1>1, <1>5, <1>6 DEF Underway, Decoding
  <2>2. PICK node : node = call.node
    OBVIOUS
  <2>3. Tree(t) /\ Len(t) \in Nat /\ node \in 1..Len(t)
    <3>1. Tree(t) /\ Len(t) \in Nat
      BY <1>1, <1>6, SessionOf
    <3> QED BY <2>1, <2>2, <3>1 DEF DecodingIn
  <2>4. Len(framed) = Len(t) + 2
    <3>1. PICK tag \in Nat : tag = call.next
      BY <1>6
    <3>2. framed = AppendFields(AppendChild(t, node, "unit", "Indexing", tag, 0),
                                Len(t) + 1, 1)
      BY <1>1, <2>2, <3>1
    <3>3. "unit" \in Kinds /\ 1 \in Nat
      BY DEF Kinds
    <3>4. GrewBy(t, framed, node, 1 + 1)
      BY ONLY <2>3, <3>2, <3>3, tag \in Nat, BegunGrows
    <3> QED BY <3>4 DEF GrewBy
  <2>5. left \in Nat /\ left = call.limit - (Len(framed) - call.snapshot.count)
    <3>1. PICK l, n, m : l = call.limit /\ n = call.snapshot.count /\ m = Len(t)
      OBVIOUS
    <3>2. l \in Nat /\ n \in Nat /\ m \in Nat /\ ~(l - (m - n) < 2)
      BY <1>6, <1>8, <2>1, <2>3, <3>1 DEF DecodingIn, NodesLeft
    <3>3. l - ((m + 2) - n) \in Nat
      BY <3>2
    <3> QED BY <1>2, <2>4, <3>1, <3>3 DEF NodesLeft
  <2>6. RunOf(run, w.rules, framed, Len(t) + 1, left)
    <3>1. PICK r, unit, p : r = w.rules /\ unit = source /\ p = Len(t) + 1
      OBVIOUS
    <3>2. IsRules(r)
      BY <1>6, <3>1, SessionOf
    <3>3. unit \in Unit
      BY <1>5, <1>6, <3>1, SampleUnit
    <3>4. stop \in {Undisturbed} \cup Interruptions
      BY StopsAre
    <3>5. run = RunCompound(r, framed, p, unit, FALSE, left, stop)
      BY <1>3, <3>1
    <3>6. RunOf(run, r, framed, p, left)
      BY ONLY <2>5, <3>2, <3>3, <3>4, <3>5, RunCompoundIs
    <3> QED BY <3>1, <3>6
  <2>7. PICK c, s, r : c = call /\ s = sessions /\ r = w.rules
    OBVIOUS
  <2>8. PICK v, d : /\ v = Put(s, c.track, Session(u, run.session, s[c.track].samples))
                    /\ d = Execution(c, c.next + 1, units, bound)
    OBVIOUS
  <2>9. Underway(d, v)
    <3>1. PICK tag \in Nat : tag = call.next
      BY <1>6
    <3>2. /\ SessionsSound(c.before) /\ Underway(c, s) /\ c.pc = "units"
          /\ t = s[c.track].tree
          /\ framed = AppendFields(AppendChild(t, c.node, "unit", "Indexing", tag, 0),
                                   Len(t) + 1, 1)
      BY <1>1, <1>5, <1>6, <2>7, <3>1
    <3>3. left = c.limit - (Len(framed) - c.snapshot.count)
      BY <2>5, <2>7
    <3>4. RunOf(run, r, framed, Len(t) + 1, left)
      BY <2>6, <2>7
    <3> QED BY ONLY <1>4, <2>8, <3>2, <3>3, <3>4, tag \in Nat, UnitUnderway
  <2>10. sessions' = v
    <3>1. PICK e, g, h, y : e = w.tree /\ g = w.samples /\ h = run.session /\ y = c.track
      OBVIOUS
    <3>2. /\ s = [k \in DOMAIN s |-> s[k]] /\ y \in DOMAIN s /\ s[y] = Session(e, r, g)
      BY <1>6, <2>7, <3>1, SessionOf
    <3>3. Updated(s, y, u, h) = Put(s, y, Session(u, h, g))
      BY ONLY <3>2, UpdatedIs
    <3>4. sessions' = Updated(s, y, u, h)
      BY <1>5, <1>8, <2>7, <3>1 DEF Updated
    <3> QED BY <2>7, <2>8, <3>1, <3>3, <3>4
  <2>11. call' = d
    <3>1. c = Execution(c, c.next, c.units, c.bound)
      BY <1>5, <1>6, <2>7 DEF CallShape
    <3>2. PICK n : n = c.next + 1
      OBVIOUS
    <3>3. Advanced(c, n, units, bound) = Execution(c, n, units, bound)
      BY <3>1, AdvancedIs
    <3>4. call' = Advanced(c, n, units, bound)
      BY <1>5, <1>8, <2>7, <3>2 DEF Advanced
    <3> QED BY <2>8, <3>2, <3>3, <3>4
  <2>12. d.before = call.before
    BY <2>7, <2>8 DEF Execution
  <2> QED BY <1>5, <1>6, <1>8, <2>9, <2>10, <2>11, <2>12, GoesOn
<1> QED BY <1>7, <1>8

LEMMA CloseStep ==
  ASSUME NavInv, CloseSample
  PROVE  NavInv' /\ NoTrace
<1> DEFINE w == sessions[call.track]
<1>1. PICK u, a, result, n :
        /\ u = Transition(w.tree, call.node, "Materialized")
        /\ result = [node |-> call.node, units |-> call.units, bound |-> call.bound,
                     generation |-> Generation(w.rules)]
        /\ a = With(w.samples, call.sample, result)
        /\ n = call.node
  OBVIOUS
<1>2. /\ ~Idle /\ call.pc = "units" /\ call' = NoCall
      /\ stack' = Append(stack, SampleFrame(call.track, call.sample, n))
      /\ UNCHANGED children
  BY <1>1 DEF CloseSample, Idle
<1>3. /\ SessionsSound(call.before) /\ Kept = call.before
      /\ Underway(call, sessions) /\ CallShape(call) /\ Grown(call, sessions)
      /\ call.track \in DOMAIN Tracks /\ call.sample \in SampleIndices(call.track)
  BY <1>2, Calling
<1>4. PICK c, s, x : c = call /\ s = sessions /\ x = w
  OBVIOUS
<1>5. PICK v : v = Put(s, c.track, Session(u, x.rules, a))
  OBVIOUS
<1>6. /\ SessionsSound(v) /\ Outlives(c.before, v)
      /\ c.track \in DOMAIN v /\ Presentable(v[c.track].tree, c.node)
  <2>1. PICK y : y = Session(u, x.rules, With(x.samples, c.sample, result))
    OBVIOUS
  <2>2. /\ SessionsSound(c.before) /\ Underway(c, s) /\ c.pc = "units" /\ x = s[c.track]
        /\ u = Transition(x.tree, c.node, "Materialized") /\ result.node = c.node
        /\ v = Put(s, c.track, y)
    BY <1>1, <1>2, <1>3, <1>4, <1>5, <2>1
  <2> QED BY ONLY <2>1, <2>2, CloseSettles
<1>7. sessions' = v
  <2>1. PICK e, f, g, y : e = x.tree /\ f = x.rules /\ g = x.samples /\ y = c.track
    OBVIOUS
  <2>2. s = [k \in DOMAIN s |-> s[k]] /\ y \in DOMAIN s /\ s[y] = Session(e, f, g)
    BY <1>3, <1>4, <2>1, SessionOf
  <2>3. Closed(s, y, u, a) = Put(s, y, Session(u, f, a))
    BY ONLY <2>2, UpdatedIs
  <2>4. sessions' = Closed(s, y, u, a)
    BY <1>1, <1>4, <2>1 DEF CloseSample, Closed
  <2> QED BY <1>5, <2>1, <2>3, <2>4
<1>8. Idle' /\ Kept' = v
  BY <1>2, <1>7 DEF Idle, NoCall, Kept
<1>9. KeptSound' /\ ChildrenSound'
  <2>1. KeptSound'
    BY <1>6, <1>8 DEF KeptSound
  <2> QED BY <1>2, <2>1 DEF NavInv, ChildrenSound
<1>10. StackSound'
  <2>1. Placed(stack, Kept, children) /\ Outlives(Kept, v) /\ Outlives(children, children)
    BY <1>3, <1>4, <1>6, ChildrenOutlive DEF NavInv, StackSound
  <2>2. Placed(stack, v, children)
    BY <2>1, PlacedStays
  <2>3. PICK f : f = SampleFrame(call.track, call.sample, n)
    OBVIOUS
  <2>4. f \in Frames /\ PlacedIn(f, v, children)
    <3>1. call.sample \in Nat
      BY <1>3, SampleIsNat
    <3>2. n \in Nat /\ Presentable(v[call.track].tree, n) /\ call.track \in DOMAIN v
      <4>1. DecodingIn(call, w.tree)
        BY <1>2, <1>3 DEF Underway, Decoding
      <4>2. n \in Nat
        BY <1>1, <4>1 DEF DecodingIn
      <4> QED BY <1>1, <1>4, <1>6, <4>2
    <3> QED BY <1>3, <2>3, <3>1, <3>2 DEF SampleFrame, Frames, PlacedIn
  <2>5. Placed(Append(stack, f), v, children)
    BY <2>2, <2>4, PlacedAppend
  <2> QED BY <1>2, <1>8, <2>3, <2>5 DEF StackSound
<1>11. CallSound'
  BY <1>8 DEF CallSound
<1>12. stack' # stack
  <2>1. stack \in Seq(Frames) /\ Len(stack) \in Nat
    BY DEF NavInv, StackSound, Placed
  <2>2. Len(stack') = Len(stack) + 1
    BY <1>2, <2>1
  <2> QED BY <2>1, <2>2
<1> QED BY <1>9, <1>10, <1>11, <1>12 DEF NavInv, NoTrace

LEMMA EnterChildStep ==
  ASSUME NavInv, NEW child \in Children, NEW stop \in Stops(AllPlaces),
         EnterChild(child, stop)
  PROVE  NavInv'
<1>1. PICK x : x = IF child.format \in DOMAIN children THEN children[child.format]
                   ELSE NewChildSession
  OBVIOUS
<1>2. PICK t, r : t = x.tree /\ r = x.rules
  OBVIOUS
<1>3. PICK run : run = RunCompound(r, t, RootId, child.unit, FALSE, SessionLimit, stop)
  OBVIOUS
<1>4. PICK u, y : /\ u = IF run.status = "Materialized" THEN run.tree ELSE t
                  /\ y = [tree |-> u, rules |-> run.session]
  OBVIOUS
<1>5. /\ Idle /\ stack = <<>> /\ children' = With(children, child.format, y)
      /\ stack' = IF run.status = "Materialized" THEN <<ChildFrame(child, Len(t) + 1)>>
                  ELSE stack
      /\ UNCHANGED <<sessions, call>>
  BY <1>1, <1>2, <1>3, <1>4 DEF EnterChild, CanEnter
<1>6. Idle' /\ Kept' = Kept
  BY <1>5 DEF Idle, Kept
<1>7. ChildSession(x)
  BY <1>1, NewChildIs DEF NavInv, ChildrenSound
<1>8. RunOf(run, r, t, RootId, SessionLimit)
  <2>1. PICK l, p, unit : l = SessionLimit /\ p = RootId /\ unit = child.unit
    OBVIOUS
  <2>2. IsRules(r) /\ l \in Nat /\ unit \in Unit
    BY <1>2, <1>7, <2>1, NavigationAssumption DEF ChildSession
  <2>3. stop \in {Undisturbed} \cup Interruptions
    BY StopsAre
  <2>4. run = RunCompound(r, t, p, unit, FALSE, l, stop)
    BY <1>3, <2>1
  <2>5. RunOf(run, r, t, p, l)
    BY ONLY <2>2, <2>3, <2>4, RunCompoundIs
  <2> QED BY <2>1, <2>5
<1>9. /\ ChildSession(y) /\ y.tree = u /\ Below(t, u, RootId) /\ Tree(t)
      /\ run.status = "Materialized" => Presentable(u, Len(t) + 1)
  BY <1>2, <1>4, <1>7, <1>8, ChildGrows
<1>10. ChildrenSound'
  <2>1. ASSUME NEW f \in DOMAIN With(children, child.format, y)
        PROVE  ChildSession(With(children, child.format, y)[f])
    BY <1>9, <2>1 DEF With, NavInv, ChildrenSound
  <2> QED BY <1>5, <2>1 DEF ChildrenSound
<1>11. StackSound'
  <2>1. CASE run.status = "Materialized"
    <3>1. PICK f : f = ChildFrame(child, Len(t) + 1)
      OBVIOUS
    <3>2. Placed(<<>>, Kept, children')
      BY DEF Placed
    <3>3. Len(t) + 1 \in Nat
      BY <1>9, Links
    <3>4. f \in Frames
      BY <3>1, <3>3 DEF ChildFrame, Frames
    <3>5. /\ child.format \in DOMAIN children' /\ children'[child.format] = y
      BY <1>5 DEF With
    <3>6. PlacedIn(f, Kept, children')
      BY <1>9, <2>1, <3>1, <3>5 DEF PlacedIn, ChildFrame
    <3>7. PICK kids : kids = children'
      OBVIOUS
    <3>8. Placed(Append(<<>>, f), Kept, kids)
      BY <3>2, <3>4, <3>6, <3>7, PlacedAppend
    <3>9. Append(<<>>, f) = <<f>>
      OBVIOUS
    <3> QED BY <1>5, <1>6, <2>1, <3>1, <3>7, <3>8, <3>9 DEF StackSound
  <2>2. CASE run.status # "Materialized"
    BY <1>5, <2>2 DEF StackSound, Placed
  <2> QED BY <2>1, <2>2
<1>12. KeptSound'
  BY <1>6 DEF NavInv, KeptSound
<1>13. CallSound'
  BY <1>6 DEF CallSound
<1> QED BY <1>10, <1>11, <1>12, <1>13 DEF NavInv

LEMMA NavigationStep ==
  ASSUME NavInv, [NavigationNext]_navigation
  PROVE  NavInv' /\ NoTrace
<1>1. CASE UNCHANGED navigation
  <2>1. UNCHANGED <<sessions, children, call, stack>> /\ (Idle' = Idle)
    BY <1>1 DEF navigation, Idle
  <2> QED BY <2>1, Standing DEF NoTrace
<1>2. CASE Idle /\ NavigationNext
  <2>1. NoTrace
    BY <1>2 DEF NoTrace
  <2>2. ~Proceed
    BY <1>2 DEF Proceed, Primed, CloseSample, FrameSample, Prime, RunUnit, Idle
  <2>3. ASSUME NEW state, AnalysisEnds(state)
        PROVE  NavInv'
    <3>1. UNCHANGED <<sessions, children, call, stack>>
      BY <2>3 DEF AnalysisEnds
    <3> QED BY <3>1, Standing
  <2>4. ASSUME BuildIndices
        PROVE  NavInv'
    <3>1. UNCHANGED <<sessions, children, call, stack>>
      BY <2>4 DEF BuildIndices
    <3> QED BY <3>1, Standing
  <2>5. ASSUME Open
        PROVE  NavInv'
    BY <2>5, OpenCallStep, PresentCachedStep DEF Open
  <2>6. ASSUME NEW child \in Children, NEW stop \in Stops(AllPlaces),
               EnterChild(child, stop)
        PROVE  NavInv'
    BY <2>6, EnterChildStep
  <2>7. ASSUME ReturnToParent
        PROVE  NavInv'
    BY <2>7, ReturnStep
  <2> QED BY <1>2, <2>1, <2>2, <2>3, <2>4, <2>5, <2>6, <2>7 DEF NavigationNext
<1>3. CASE ~Idle /\ NavigationNext
  <2>1. Proceed
    BY <1>3 DEF NavigationNext, AnalysisEnds, BuildIndices, Open, OpenCall, PresentCached,
                CanEnter, EnterChild, ReturnToParent
  <2>2. CASE Primed
    BY <2>2, PrimedStep
  <2>3. CASE CloseSample
    BY <2>3, CloseStep
  <2>4. CASE \E stop \in Stops({"start", "header"}) : FrameSample(stop)
    BY <2>4, FrameStep
  <2>5. CASE \E stop \in Stops(AllPlaces) : Prime(stop) \/ RunUnit(stop)
    BY <2>5, PrimeStep, RunUnitStep
  <2> QED BY <2>1, <2>2, <2>3, <2>4, <2>5 DEF Proceed
<1> QED BY <1>1, <1>2, <1>3

(* enterSample, enterChildFormat and returnToParent keep everything that   *)
(* was kept: at every step of a call, what was there before it is whole.   *)
THEOREM NavigationInvariant == NavigationSpec => []NavInv
<1>1. NavInv /\ [NavigationNext]_navigation => NavInv'
  BY NavigationStep
<1> QED BY <1>1, InitNav, PTL DEF NavigationSpec

(* A call of enterSample that fails, wherever it fails, leaves no          *)
(* definition, no charge, no node and no session behind (docs/adr/0113).   *)
THEOREM FailuresLeaveNoTrace == NavigationSpec => FailureLeavesNoTrace
<1>1. NavInv /\ [NavigationNext]_navigation
        => [(~Idle /\ Idle' /\ stack' = stack) => sessions' = call.before]_navigation
  BY NavigationStep DEF NoTrace
<1> QED BY <1>1, NavigationInvariant, PTL DEF NavigationSpec, FailureLeavesNoTrace

-----------------------------------------------------------------------------
(* What follows from the invariant. *)

LEMMA BoundedFollows == NavInv => RetentionBounded
<1> SUFFICES ASSUME NavInv PROVE RetentionBounded
  OBVIOUS
<1>1. Retained = Nodes(sessions, DOMAIN sessions)
  BY RetainedIs
<1>2. Retained <= MaxRetained
  <2>1. CASE Idle
    BY <1>1, <2>1 DEF NavInv, KeptSound, SessionsSound, Kept
  <2>2. CASE ~Idle
    <3>1. /\ SessionsSound(call.before) /\ Underway(call, sessions)
          /\ Grown(call, sessions) /\ call.limit \in Nat
      BY <2>2, Calling
    <3>2. PICK b, track, t : b = call.before /\ track = call.track /\ t = sessions[call.track].tree
      OBVIOUS
    <3>3. PICK s : s = sessions
      OBVIOUS
    <3>4. /\ SessionsSound(b) /\ s = [i \in DOMAIN b \cup {track} |-> s[i]]
          /\ \A i \in DOMAIN b \ {track} : s[i] = b[i]
          /\ Len(s[track].tree) \in Nat
      BY <3>1, <3>2, <3>3, SessionOf DEF Grown
    <3>5. /\ Nodes(b, DOMAIN b \ {track}) \in Nat
          /\ Nodes(s, DOMAIN s) = Len(s[track].tree) + Nodes(b, DOMAIN b \ {track})
      BY ONLY <3>4, OthersAre
    <3>6. PICK o, m, l, n : /\ o = Others(call) /\ m = Len(t) /\ l = call.limit
                           /\ n = call.snapshot.count
      OBVIOUS
    <3>7. o \in Nat /\ m \in Nat /\ l \in Nat /\ Nodes(s, DOMAIN s) = m + o
      BY <3>1, <3>2, <3>3, <3>4, <3>5, <3>6 DEF Others
    <3>8. MaxRetained \in Nat
      BY NavigationAssumption
    <3>9. CASE call.pc = "units"
      <4>1. DecodingIn(call, t)
        BY <3>1, <3>2, <3>9 DEF Underway, Decoding
      <4>2. n \in Nat /\ m <= n + l /\ o + n + l <= MaxRetained
        BY <3>6, <4>1 DEF DecodingIn
      <4>3. m + o <= MaxRetained
        BY <3>7, <3>8, <4>2
      <4> QED BY <1>1, <3>3, <3>7, <4>3
    <3>10. CASE call.pc # "units"
      <4>1. o + m + l <= MaxRetained
        BY <3>1, <3>2, <3>6, <3>10 DEF Underway, Preparing
      <4>2. m + o <= MaxRetained
        BY <3>7, <3>8, <4>1
      <4> QED BY <1>1, <3>3, <3>7, <4>2
    <3> QED BY <3>9, <3>10
  <2> QED BY <2>1, <2>2
<1>3. ASSUME NEW f \in DOMAIN children
      PROVE  Len(children[f].tree) <= 1 + SessionLimit
  <2>1. ChildSession(children[f])
    BY DEF NavInv, ChildrenSound
  <2>2. PICK x, n, m : x = children[f] /\ n = Len(x.tree) /\ m = x.rules.spent
    OBVIOUS
  <2>3. /\ n \in Nat /\ m \in Nat /\ m <= SessionLimit /\ n <= 1 + m
    BY <2>1, <2>2, Links DEF ChildSession, IsRules
  <2>4. n <= 1 + SessionLimit
    BY <2>3, NavigationAssumption
  <2> QED BY <2>2, <2>4
<1> QED BY <1>2, <1>3 DEF RetentionBounded

(* The nodes kept for all tracks, those of the call under way included,    *)
(* never exceed the bound, and a child format's stay within its budget.    *)
THEOREM RetentionIsBounded == NavigationSpec => []RetentionBounded
  BY NavigationInvariant, BoundedFollows, PTL

LEMMA CallOutlives ==
  ASSUME NavInv
  PROVE  Outlives(Kept, sessions)
<1>1. CASE Idle
  BY <1>1, SessionsOutlive DEF NavInv, KeptSound, Kept
<1>2. CASE ~Idle
  <2>1. /\ SessionsSound(call.before) /\ Kept = call.before /\ Grown(call, sessions)
        /\ Created(call.created, call.before, call.track) /\ call.created \in BOOLEAN
    BY <1>2, Calling
  <2>2. ASSUME NEW k \in DOMAIN call.before
        PROVE  /\ k \in DOMAIN sessions /\ Tree(call.before[k].tree)
               /\ Below(call.before[k].tree, sessions[k].tree, RootId)
    <3>1. k \in DOMAIN sessions
      BY <2>1 DEF Grown
    <3>2. Tree(call.before[k].tree)
      BY <2>1 DEF SessionsSound, TrackSession
    <3>3. CASE k = call.track
      <4>1. ~call.created
        BY <2>1, <3>3 DEF Created
      <4> QED BY <2>1, <3>1, <3>2, <3>3, <4>1 DEF Grown
    <3>4. CASE k # call.track
      <4>1. sessions[k] = call.before[k]
        BY <2>1, <3>4 DEF Grown
      <4> QED BY <3>1, <3>2, <4>1, BelowItself
    <3> QED BY <3>3, <3>4
  <2> QED BY <2>1, <2>2 DEF Outlives
<1> QED BY <1>1, <1>2

LEMMA SettledFollows == NavInv => PresentedIsSettled
<1> SUFFICES ASSUME NavInv, NEW i \in DOMAIN stack
             PROVE  LET t == TreeOf(stack[i])
                    IN  /\ WellLinked(t)
                        /\ stack[i].node \in DOMAIN t
                        /\ t[stack[i].node].state = "Materialized"
                        /\ Idle => \A n \in DOMAIN t \ {RootId} : t[n].state # "Indexing"
  BY DEF PresentedIsSettled
<1>1. Placed(stack, sessions, children)
  BY CallOutlives, ChildrenOutlive, PlacedStays DEF NavInv, StackSound
<1>2. PICK f, t : f = stack[i] /\ t = TreeOf(f)
  OBVIOUS
<1>3. PlacedIn(f, sessions, children)
  BY <1>1, <1>2 DEF Placed
<1>4. ASSUME NEW u, Quiet(u), Tree(u), NEW n \in DOMAIN u \ {RootId}
      PROVE  u[n].state # "Indexing"
  <2>1. DOMAIN u = 1..Len(u) /\ Len(u) \in Nat
    BY <1>4, Links
  <2>2. n \in 2..Len(u)
    BY <2>1 DEF RootId
  <2> QED BY <1>4, <2>2 DEF Quiet
<1>5. Tree(t) /\ Presentable(t, f.node) /\ (Idle => Quiet(t))
  <2>1. CASE f.kind = "sample"
    <3>1. t = sessions[f.key].tree /\ f.key \in DOMAIN sessions /\ Presentable(t, f.node)
      BY <1>2, <1>3, <2>1 DEF TreeOf, PlacedIn
    <3>2. CASE Idle
      BY <3>1, <3>2 DEF NavInv, KeptSound, Kept, SessionsSound, TrackSession
    <3>3. CASE ~Idle
      <4>1. Grown(call, sessions) /\ SessionsSound(call.before)
        BY <3>3, Calling
      <4>2. CASE f.key = call.track
        BY <3>1, <3>3, <4>1, <4>2 DEF Grown, TrackSession
      <4>3. CASE f.key # call.track
        <5>1. f.key \in DOMAIN call.before /\ sessions[f.key] = call.before[f.key]
          BY <3>1, <4>1, <4>3 DEF Grown
        <5> QED BY <3>1, <3>3, <4>1, <5>1 DEF SessionsSound, TrackSession
      <4> QED BY <4>2, <4>3
    <3> QED BY <3>2, <3>3
  <2>2. CASE f.kind # "sample"
    BY <1>2, <1>3, <2>2 DEF TreeOf, PlacedIn, NavInv, ChildrenSound, ChildSession
  <2> QED BY <2>1, <2>2
<1>6. WellLinked(t) /\ f.node \in DOMAIN t /\ t[f.node].state = "Materialized"
  BY <1>5, Links DEF Tree, Presentable
<1>7. Idle => \A n \in DOMAIN t \ {RootId} : t[n].state # "Indexing"
  BY <1>4, <1>5
<1> QED BY <1>2, <1>6, <1>7

(* What is presented is complete and stays so, in the tree of every frame  *)
(* of the stack, whichever calls succeed or fail after it was entered.     *)
THEOREM PresentedSettled == NavigationSpec => []PresentedIsSettled
  BY NavigationInvariant, SettledFollows, PTL

-----------------------------------------------------------------------------
(* Directories.  A well-formed one has definitions that depend on others   *)
(* of it, and lists of their identifiers.                                  *)

DefinitionKeys == [kind: STRING, value: Int]
DefinitionType ==
  [key: DefinitionKeys, from: Nat, to: Nat, node: Nat, deps: Seq(Nat), baseline: BOOLEAN]

DirectorySound(dir) ==
  /\ dir = [defs |-> dir.defs, byKey |-> dir.byKey]
  /\ dir.defs \in Seq(DefinitionType)
  /\ \A d \in DOMAIN dir.defs : \A i \in DOMAIN dir.defs[d].deps :
       dir.defs[d].deps[i] \in DOMAIN dir.defs
  /\ \A k \in DOMAIN dir.byKey : dir.byKey[k] \in Seq(DOMAIN dir.defs)

(* The greatest member of a set, or 0. *)
Greatest(S) == Max(S \cup {0})

LEMMA GreatestIs ==
  ASSUME NEW n \in Nat, NEW S \in SUBSET (1..n)
  PROVE  /\ Greatest(S) \in S \cup {0}
         /\ \A x \in S : x <= Greatest(S)
         /\ S # {} => Greatest(S) \in S
         /\ S = {} => Greatest(S) = 0
<1> DEFINE T == {n - x : x \in S \cup {0}}
<1>1. T \in SUBSET Nat /\ T # {}
  OBVIOUS
<1>2. PICK m \in T : \A y \in T : m <= y
  <2> HIDE DEF T
  <2> QED BY <1>1, LeastNatural
<1>3. PICK x \in S \cup {0} : m = n - x
  BY <1>2
<1>4. \A y \in S \cup {0} : x >= y
  <2> SUFFICES ASSUME NEW y \in S \cup {0} PROVE x >= y
    OBVIOUS
  <2>1. n - y \in T
    OBVIOUS
  <2>2. m <= n - y
    BY <1>2, <2>1
  <2> QED BY <1>3, <2>2
<1>5. Greatest(S) \in S \cup {0} /\ \A y \in S \cup {0} : Greatest(S) >= y
  <2> HIDE DEF T
  <2> QED BY <1>3, <1>4 DEF Greatest, Max
<1> HIDE DEF T
<1>6. \A y \in S : y \in Nat /\ y >= 1
  OBVIOUS
<1>7. \A y \in S : y <= Greatest(S)
  BY <1>5, <1>6
<1>8. ASSUME S # {} PROVE Greatest(S) \in S
  <2>1. PICK y \in S : TRUE
    BY <1>8
  <2>2. Greatest(S) # 0
    BY <1>6, <1>7, <2>1
  <2> QED BY <1>5, <2>2
<1> QED BY <1>5, <1>7, <1>8

(* A list of identifiers without, and with, one at a position.             *)
Shift(p, i) == IF i < p THEN i ELSE i + 1

Shifted(p, A, B) ==
  (\A i \in A : Shift(p, i) \in B) /\ (\A j \in B : \E i \in A : j = Shift(p, i))

LEMMA ShiftGreatest ==
  ASSUME NEW n \in Nat, NEW p \in 1..(n + 1), NEW A \in SUBSET (1..n),
         NEW B \in SUBSET (1..(n + 1)), Shifted(p, A, B)
  PROVE  /\ A = {} => B = {}
         /\ A # {} => B # {} /\ Greatest(A) \in A /\ Greatest(B) = Shift(p, Greatest(A))
<1>1. A = {} => B = {}
  BY DEF Shifted
<1>2. ASSUME A # {}
      PROVE  B # {} /\ Greatest(A) \in A /\ Greatest(B) = Shift(p, Greatest(A))
  <2>1. B # {}
    BY <1>2 DEF Shifted
  <2>2. Greatest(A) \in A /\ \A x \in A : x <= Greatest(A)
    BY <1>2, GreatestIs
  <2>3. Greatest(B) \in B /\ \A x \in B : x <= Greatest(B)
    <3>1. n + 1 \in Nat
      OBVIOUS
    <3> QED BY <2>1, <3>1, GreatestIs
  <2>4. PICK i \in A : Greatest(B) = Shift(p, i)
    BY <2>3 DEF Shifted
  <2>5. Shift(p, Greatest(A)) <= Greatest(B)
    BY <2>2, <2>3 DEF Shifted
  <2>6. i <= Greatest(A)
    BY <2>2
  <2>7. Greatest(A) \in 1..n /\ i \in 1..n
    BY <2>2
  <2>8. Shift(p, i) <= Shift(p, Greatest(A))
    BY <2>6, <2>7 DEF Shift
  <2>9. Shift(p, i) \in Int /\ Shift(p, Greatest(A)) \in Int
    BY <2>7 DEF Shift
  <2> QED BY <2>1, <2>2, <2>4, <2>5, <2>8, <2>9
<1> QED BY <1>1, <1>2

(* visibleCandidate() in terms of the two sets it looks for.               *)
InBand(defs, ids, pos) ==
  {i \in DOMAIN ids : ~defs[ids[i]].baseline /\ defs[ids[i]].to <= pos}
Baseline(defs, ids) == {i \in DOMAIN ids : defs[ids[i]].baseline}

Choice(ids, a, b) == IF a # 0 THEN ids[a] ELSE IF b # 0 THEN ids[b] ELSE NoId

LEMMA VisibleIs ==
  ASSUME NEW defs, NEW ids, NEW pos
  PROVE  VisibleCandidate(defs, ids, pos)
           = Choice(ids, Greatest(InBand(defs, ids, pos)), Greatest(Baseline(defs, ids)))
BY DEF VisibleCandidate, Choice, InBand, Baseline, Greatest

(* Inserting an identifier that fits neither set changes no choice.        *)
Transposed(n, p, old, new, A1, B1, A2, B2) ==
  /\ n \in Nat /\ p \in 1..(n + 1)
  /\ \A i \in 1..n : new[Shift(p, i)] = old[i]
  /\ A1 \in SUBSET (1..n) /\ B1 \in SUBSET (1..(n + 1)) /\ Shifted(p, A1, B1)
  /\ A2 \in SUBSET (1..n) /\ B2 \in SUBSET (1..(n + 1)) /\ Shifted(p, A2, B2)

LEMMA ChoiceShifted ==
  ASSUME NEW n, NEW p, NEW old, NEW new, NEW A1, NEW B1, NEW A2, NEW B2,
         Transposed(n, p, old, new, A1, B1, A2, B2)
  PROVE  Choice(new, Greatest(B1), Greatest(B2)) = Choice(old, Greatest(A1), Greatest(A2))
<1>0. /\ n \in Nat /\ p \in 1..(n + 1)
      /\ \A i \in 1..n : new[Shift(p, i)] = old[i]
      /\ A1 \in SUBSET (1..n) /\ B1 \in SUBSET (1..(n + 1)) /\ Shifted(p, A1, B1)
      /\ A2 \in SUBSET (1..n) /\ B2 \in SUBSET (1..(n + 1)) /\ Shifted(p, A2, B2)
  BY DEF Transposed
<1>1. /\ A1 = {} => B1 = {}
      /\ A1 # {} => B1 # {} /\ Greatest(A1) \in A1 /\ Greatest(B1) = Shift(p, Greatest(A1))
  BY <1>0, ShiftGreatest
<1>2. /\ A2 = {} => B2 = {}
      /\ A2 # {} => B2 # {} /\ Greatest(A2) \in A2 /\ Greatest(B2) = Shift(p, Greatest(A2))
  BY <1>0, ShiftGreatest
<1>3. Greatest({}) = 0
  BY GreatestIs
<1>4. \A i \in 1..n : Shift(p, i) # 0 /\ i # 0
  BY <1>0 DEF Shift
<1>5. CASE A1 # {}
  BY <1>0, <1>1, <1>4, <1>5 DEF Choice
<1>6. CASE A1 = {} /\ A2 # {}
  BY <1>0, <1>1, <1>2, <1>3, <1>4, <1>6 DEF Choice
<1>7. CASE A1 = {} /\ A2 = {}
  BY <1>1, <1>2, <1>3, <1>7 DEF Choice
<1> QED BY <1>5, <1>6, <1>7

Inserted(s, p, e, S, new) ==
  /\ new \in Seq(S \cup {e}) /\ Len(new) = Len(s) + 1
  /\ \A i \in 1..Len(s) : new[Shift(p, i)] = s[i]
  /\ new[p] = e
  /\ \A j \in 1..(Len(s) + 1) : j = p \/ \E i \in 1..Len(s) : j = Shift(p, i)

LEMMA InsertedIs ==
  ASSUME NEW S, NEW s \in Seq(S), NEW p \in 1..(Len(s) + 1), NEW e
  PROVE  Inserted(s, p, e, S, InsertAt(s, p, e))
<1> DEFINE front == SubSeq(s, 1, p - 1)
           back == SubSeq(s, p, Len(s))
<1>1. front \in Seq(S) /\ Len(front) = p - 1 /\ \A i \in 1..(p - 1) : front[i] = s[i]
  OBVIOUS
<1>2. /\ back \in Seq(S) /\ Len(back) = Len(s) - p + 1
      /\ \A i \in 1..(Len(s) - p + 1) : back[i] = s[p + i - 1]
  OBVIOUS
<1>3. InsertAt(s, p, e) = (front \o <<e>>) \o back
  BY DEF InsertAt
<1> HIDE DEF front, back
<1>4. /\ front \o <<e>> \in Seq(S \cup {e}) /\ Len(front \o <<e>>) = p
      /\ \A i \in 1..(p - 1) : (front \o <<e>>)[i] = s[i]
      /\ (front \o <<e>>)[p] = e
  BY <1>1
<1> DEFINE head == front \o <<e>>
<1>5. back \in Seq(S \cup {e})
  BY <1>2
<1> HIDE DEF head
<1>6. /\ head \o back \in Seq(S \cup {e})
      /\ Len(head \o back) = Len(s) + 1
      /\ \A i \in 1..p : (head \o back)[i] = head[i]
      /\ \A i \in 1..(Len(s) - p + 1) : (head \o back)[p + i] = back[i]
  <2>1. PICK U : U = S \cup {e}
    OBVIOUS
  <2>2. head \in Seq(U) /\ back \in Seq(U) /\ Len(head) = p
    BY <1>4, <1>5, <2>1 DEF head
  <2>3. /\ head \o back \in Seq(U) /\ Len(head \o back) = Len(head) + Len(back)
        /\ \A i \in 1..Len(head) : (head \o back)[i] = head[i]
        /\ \A i \in 1..Len(back) : (head \o back)[Len(head) + i] = back[i]
    BY ONLY <2>2
  <2>4. Len(back) = Len(s) - p + 1 /\ Len(head) + Len(back) = Len(s) + 1
    BY <1>2, <2>2
  <2> QED BY <2>1, <2>2, <2>3, <2>4
<1>10. \A i \in 1..(p - 1) : head[i] = s[i]
  BY <1>4 DEF head
<1>7. \A i \in 1..Len(s) : (head \o back)[Shift(p, i)] = s[i]
  <2> SUFFICES ASSUME NEW i \in 1..Len(s) PROVE (head \o back)[Shift(p, i)] = s[i]
    OBVIOUS
  <2>1. CASE i < p
    <3>1. i \in 1..(p - 1) /\ i \in 1..p /\ Shift(p, i) = i
      BY <2>1 DEF Shift
    <3> QED BY <1>6, <1>10, <3>1
  <2>2. CASE i >= p
    <3>1. i - p + 1 \in 1..(Len(s) - p + 1) /\ p + (i - p + 1) = i + 1 /\ p + (i - p + 1) - 1 = i
      BY <2>2
    <3>2. (head \o back)[i + 1] = back[i - p + 1]
      BY <1>6, <3>1
    <3>3. back[i - p + 1] = s[i]
      BY <1>2, <3>1
    <3>4. Shift(p, i) = i + 1
      BY <2>2 DEF Shift
    <3> QED BY <3>2, <3>3, <3>4
  <2>3. i \in Int /\ p \in Int
    OBVIOUS
  <2>4. i < p \/ i >= p
    BY <2>3
  <2> QED BY <2>1, <2>2, <2>4, Zenon
<1>8. \A j \in 1..(Len(s) + 1) : j = p \/ \E i \in 1..Len(s) : j = Shift(p, i)
  <2> SUFFICES ASSUME NEW j \in 1..(Len(s) + 1), j # p
               PROVE  \E i \in 1..Len(s) : j = Shift(p, i)
    OBVIOUS
  <2>1. CASE j < p
    <3>1. j \in 1..Len(s) /\ j = Shift(p, j)
      BY <2>1 DEF Shift
    <3> QED BY <3>1
  <2>2. CASE j > p
    <3>1. j - 1 \in 1..Len(s) /\ j = Shift(p, j - 1)
      BY <2>2 DEF Shift
    <3> QED BY <3>1
  <2> QED BY <2>1, <2>2
<1>9. (head \o back)[p] = e
  BY <1>4, <1>6 DEF head
<1> QED BY <1>3, <1>6, <1>7, <1>8, <1>9 DEF head, Inserted

(* A definition of the stream that ends behind a position, new in a list   *)
(* or in the place of one at the same span, is not chosen there.           *)
LEMMA NotYetVisible ==
  ASSUME NEW S, NEW old \in Seq(S), NEW d, ~d.baseline, NEW pos \in Nat, d.to \in Nat, d.to > pos,
         NEW ids \in Seq(DOMAIN old), NEW p \in 1..(Len(ids) + 1)
  PROVE  VisibleCandidate(Append(old, d), InsertAt(ids, p, Len(old) + 1), pos)
           = VisibleCandidate(old, ids, pos)
<1> DEFINE new == Append(old, d)
           id == Len(old) + 1
           newIds == InsertAt(ids, p, id)
           n == Len(ids)
           A1 == InBand(old, ids, pos)
           A2 == Baseline(old, ids)
           B1 == InBand(new, newIds, pos)
           B2 == Baseline(new, newIds)
<1>1. /\ newIds \in Seq(DOMAIN old \cup {id}) /\ Len(newIds) = n + 1
      /\ \A i \in 1..n : newIds[Shift(p, i)] = ids[i]
      /\ newIds[p] = id
      /\ \A j \in 1..(n + 1) : j = p \/ \E i \in 1..n : j = Shift(p, i)
  <2> HIDE DEF id
  <2>1. Inserted(ids, p, id, DOMAIN old, InsertAt(ids, p, id))
    BY InsertedIs
  <2> QED BY <2>1 DEF Inserted
<1>2. new[id] = d /\ \A k \in DOMAIN old : new[k] = old[k]
  OBVIOUS
<1>3. DOMAIN ids = 1..n /\ n \in Nat /\ \A i \in 1..n : ids[i] \in DOMAIN old
  OBVIOUS
<1>4. DOMAIN newIds = 1..(n + 1) /\ \A i \in 1..n : Shift(p, i) \in 1..(n + 1)
  BY <1>1, <1>3 DEF Shift
<1> HIDE DEF new, newIds, id
<1>5. /\ \A i \in A1 : Shift(p, i) \in B1
      /\ \A i \in A2 : Shift(p, i) \in B2
  BY <1>1, <1>2, <1>3, <1>4 DEF InBand, Baseline
<1>6. p \notin B1 /\ p \notin B2
  <2>1. ~(d.to <= pos)
    OBVIOUS
  <2> QED BY <1>1, <1>2, <2>1 DEF InBand, Baseline
<1>7. \A j \in B1 : \E i \in A1 : j = Shift(p, i)
  <2> SUFFICES ASSUME NEW j \in B1 PROVE \E i \in A1 : j = Shift(p, i)
    OBVIOUS
  <2>1. PICK i \in 1..n : j = Shift(p, i)
    BY <1>1, <1>4, <1>6 DEF InBand
  <2>2. i \in A1
    BY <1>1, <1>2, <1>3, <2>1 DEF InBand
  <2> QED BY <2>1, <2>2
<1>8. \A j \in B2 : \E i \in A2 : j = Shift(p, i)
  <2> SUFFICES ASSUME NEW j \in B2 PROVE \E i \in A2 : j = Shift(p, i)
    OBVIOUS
  <2>1. PICK i \in 1..n : j = Shift(p, i)
    BY <1>1, <1>4, <1>6 DEF Baseline
  <2>2. i \in A2
    BY <1>1, <1>2, <1>3, <2>1 DEF Baseline
  <2> QED BY <2>1, <2>2
<1>9. /\ A1 \in SUBSET (1..n) /\ A2 \in SUBSET (1..n)
      /\ B1 \in SUBSET (1..(n + 1)) /\ B2 \in SUBSET (1..(n + 1))
  BY <1>3, <1>4 DEF InBand, Baseline
<1> HIDE DEF A1, A2, B1, B2, n
<1>10. Choice(newIds, Greatest(B1), Greatest(B2)) = Choice(ids, Greatest(A1), Greatest(A2))
  <2>1. Transposed(n, p, ids, newIds, A1, B1, A2, B2)
    <3>1. Shifted(p, A1, B1) /\ Shifted(p, A2, B2)
      BY <1>5, <1>7, <1>8 DEF Shifted
    <3>2. p \in 1..(n + 1)
      BY DEF n
    <3> QED BY <1>1, <1>3, <1>9, <3>1, <3>2 DEF Transposed
  <2> QED BY <2>1, ChoiceShifted
<1>11. VisibleCandidate(new, newIds, pos) = Choice(newIds, Greatest(B1), Greatest(B2))
  BY VisibleIs DEF B1, B2
<1>12. VisibleCandidate(old, ids, pos) = Choice(ids, Greatest(A1), Greatest(A2))
  BY VisibleIs DEF A1, A2
<1> QED BY <1>10, <1>11, <1>12 DEF new, newIds, id, n

LEMMA NotYetVisibleAgain ==
  ASSUME NEW S, NEW old \in Seq(S), NEW d, ~d.baseline, NEW pos \in Nat, d.to \in Nat, d.to > pos,
         NEW ids \in Seq(DOMAIN old), NEW previous \in DOMAIN old,
         ~old[previous].baseline, old[previous].to = d.to
  PROVE  VisibleCandidate(Append(old, d),
                          [i \in DOMAIN ids |-> IF ids[i] = previous THEN Len(old) + 1 ELSE ids[i]],
                          pos)
           = VisibleCandidate(old, ids, pos)
<1> DEFINE new == Append(old, d)
           id == Len(old) + 1
           newIds == [i \in DOMAIN ids |-> IF ids[i] = previous THEN id ELSE ids[i]]
           A1 == InBand(old, ids, pos)
           A2 == Baseline(old, ids)
           B1 == InBand(new, newIds, pos)
           B2 == Baseline(new, newIds)
<1>1. new[id] = d /\ \A k \in DOMAIN old : new[k] = old[k]
  OBVIOUS
<1>2. /\ DOMAIN newIds = DOMAIN ids
      /\ \A i \in DOMAIN ids : ids[i] \in DOMAIN old
      /\ \A i \in DOMAIN ids : newIds[i] = IF ids[i] = previous THEN id ELSE ids[i]
  OBVIOUS
<1>3. ~(d.to <= pos)
  OBVIOUS
<1> HIDE DEF new, newIds, id
<1>4. B1 = A1 /\ \A i \in A1 : newIds[i] = ids[i]
  BY <1>1, <1>2, <1>3 DEF InBand
<1>5. B2 = A2 /\ \A i \in A2 : newIds[i] = ids[i]
  BY <1>1, <1>2, <1>3 DEF Baseline
<1>6. Len(ids) \in Nat /\ A1 \in SUBSET (1..Len(ids)) /\ A2 \in SUBSET (1..Len(ids))
  BY DEF InBand, Baseline
<1> HIDE DEF A1, A2, B1, B2
<1>7. Greatest(A1) \in A1 \cup {0} /\ Greatest(A2) \in A2 \cup {0}
  BY <1>6, GreatestIs
<1>8. Choice(newIds, Greatest(A1), Greatest(A2)) = Choice(ids, Greatest(A1), Greatest(A2))
  BY <1>4, <1>5, <1>7 DEF Choice
<1>9. VisibleCandidate(new, newIds, pos) = Choice(newIds, Greatest(B1), Greatest(B2))
  BY VisibleIs DEF B1, B2
<1>10. VisibleCandidate(old, ids, pos) = Choice(ids, Greatest(A1), Greatest(A2))
  BY VisibleIs DEF A1, A2
<1> QED BY <1>4, <1>5, <1>8, <1>9, <1>10 DEF new, newIds, id

(* A candidate is an identifier of the directory, or none. *)
LEMMA VisibleType ==
  ASSUME NEW D, NEW defs, NEW ids \in Seq(D), NEW pos
  PROVE  VisibleCandidate(defs, ids, pos) \in D \cup {NoId}
<1> DEFINE A1 == InBand(defs, ids, pos)
           A2 == Baseline(defs, ids)
<1>1. Len(ids) \in Nat /\ A1 \in SUBSET (1..Len(ids)) /\ A2 \in SUBSET (1..Len(ids))
  BY DEF InBand, Baseline
<1>2. \A i \in 1..Len(ids) : ids[i] \in D
  OBVIOUS
<1>3. VisibleCandidate(defs, ids, pos) = Choice(ids, Greatest(A1), Greatest(A2))
  BY VisibleIs
<1> HIDE DEF A1, A2
<1>4. Greatest(A1) \in A1 \cup {0} /\ Greatest(A2) \in A2 \cup {0}
  BY <1>1, GreatestIs
<1> QED BY <1>1, <1>2, <1>3, <1>4 DEF Choice

LEMMA CandidateType ==
  ASSUME NEW dir, DirectorySound(dir), NEW key, NEW pos
  PROVE  Candidate(dir, key, pos) \in DOMAIN dir.defs \cup {NoId}
<1>1. IdsFor(dir, key) \in Seq(DOMAIN dir.defs)
  <2>1. PICK D : D = DOMAIN dir.defs
    OBVIOUS
  <2>2. CASE key \in DOMAIN dir.byKey
    BY <2>2 DEF IdsFor, DirectorySound
  <2>3. CASE key \notin DOMAIN dir.byKey
    <3>1. <<>> \in Seq(D)
      OBVIOUS
    <3> QED BY <2>1, <2>3, <3>1 DEF IdsFor
  <2> QED BY <2>2, <2>3
<1> QED BY <1>1, VisibleType DEF Candidate

-----------------------------------------------------------------------------
(* What a lookup at a position depends on: the definitions that were there *)
(* and the candidates at that position.                                    *)
Unaffected(old, new, pos) ==
  /\ \A d \in DOMAIN old.defs : new.defs[d] = old.defs[d]
  /\ DOMAIN old.byKey \subseteq DOMAIN new.byKey
  /\ \A key : Candidate(new, key, pos) = Candidate(old, key, pos)

Above(h, defs, d) == {h[defs[d].deps[i]] : i \in DOMAIN defs[d].deps} \cup {0}
HeightStep(h, defs, id) == [d \in 1..id |-> 1 + Max(Above(h, defs, d))]
HeightOf(defs, id) == CHOOSE h : h = HeightStep(h, defs, id)
CurrentStep(f, dir, id, pos, h) ==
  [d \in 1..id |-> /\ h[d] <= MaxDependencyDepth
                   /\ \A i \in DOMAIN dir.defs[d].deps :
                        LET dep == dir.defs[d].deps[i]
                        IN  Candidate(dir, dir.defs[dep].key, pos) = dep /\ f[dep]]
CurrentOf(dir, id, pos, h) == CHOOSE f : f = CurrentStep(f, dir, id, pos, h)
ClosureStep(c, defs, id) ==
  [d \in 1..id |-> {d} \cup UNION {c[defs[d].deps[i]] : i \in DOMAIN defs[d].deps}]
ClosureOf(defs, id) == CHOOSE c : c = ClosureStep(c, defs, id)

LEMMA UsableIs ==
  ASSUME NEW dir, NEW id, NEW pos
  PROVE  Usable(dir, id, pos) = CurrentOf(dir, id, pos, HeightOf(dir.defs, id))[id]
BY DEF Usable, CurrentOf, CurrentStep, HeightOf, HeightStep, Above

LEMMA ClosureIs ==
  ASSUME NEW dir, NEW id
  PROVE  Closure(dir, id) = ClosureOf(dir.defs, id)[id]
BY DEF Closure, ClosureOf, ClosureStep

LEMMA UsableUnaffected ==
  ASSUME NEW old, NEW new, NEW pos, DirectorySound(old), Unaffected(old, new, pos),
         NEW id \in DOMAIN old.defs
  PROVE  /\ Usable(new, id, pos) = Usable(old, id, pos)
         /\ Closure(new, id) = Closure(old, id)
<1>1. /\ \A d \in 1..id : d \in DOMAIN old.defs /\ new.defs[d] = old.defs[d]
      /\ \A d \in 1..id : \A i \in DOMAIN old.defs[d].deps :
           /\ old.defs[d].deps[i] \in DOMAIN old.defs
           /\ new.defs[old.defs[d].deps[i]] = old.defs[old.defs[d].deps[i]]
  BY DEF DirectorySound, Unaffected
<1>2. \A h : HeightStep(h, new.defs, id) = HeightStep(h, old.defs, id)
  <2>1. \A h : \A d \in 1..id : Above(h, new.defs, d) = Above(h, old.defs, d)
    BY <1>1 DEF Above
  <2>2. \A h : \A d \in 1..id : Max(Above(h, new.defs, d)) = Max(Above(h, old.defs, d))
    BY <2>1
  <2> QED BY <2>2 DEF HeightStep
<1>3. HeightOf(new.defs, id) = HeightOf(old.defs, id)
  BY <1>2 DEF HeightOf
<1>4. \A c : ClosureStep(c, new.defs, id) = ClosureStep(c, old.defs, id)
  BY <1>1 DEF ClosureStep
<1>5. ClosureOf(new.defs, id) = ClosureOf(old.defs, id)
  BY <1>4 DEF ClosureOf
<1>6. \A f, h : CurrentStep(f, new, id, pos, h) = CurrentStep(f, old, id, pos, h)
  BY <1>1 DEF CurrentStep, Unaffected
<1>7. \A h : CurrentOf(new, id, pos, h) = CurrentOf(old, id, pos, h)
  BY <1>6 DEF CurrentOf
<1> QED BY <1>3, <1>5, <1>7, UsableIs, ClosureIs

LEMMA LookupUnaffected ==
  ASSUME NEW old, NEW new, NEW pos, DirectorySound(old), Unaffected(old, new, pos),
         NEW id \in DOMAIN old.defs \cup {NoId}
  PROVE  Lookup(new, id, pos) = Lookup(old, id, pos)
<1>1. CASE id = NoId
  BY <1>1 DEF Lookup
<1>2. CASE id \in DOMAIN old.defs
  <2>1. Usable(new, id, pos) = Usable(old, id, pos)
    BY <1>2, UsableUnaffected
  <2> QED BY <2>1 DEF Lookup
<1> QED BY <1>1, <1>2

LEMMA ResolveUnaffected ==
  ASSUME NEW old, NEW new, NEW pos, DirectorySound(old), Unaffected(old, new, pos), NEW key
  PROVE  ResolveBefore(new, key, pos) = ResolveBefore(old, key, pos)
<1>1. Candidate(old, key, pos) \in DOMAIN old.defs \cup {NoId}
  BY CandidateType
<1>2. Candidate(new, key, pos) = Candidate(old, key, pos)
  BY DEF Unaffected
<1> QED BY <1>1, <1>2, LookupUnaffected DEF ResolveBefore

(* The candidates of a kind; keys that are new have none at the position.  *)
OfKind(dir, kind, pos) ==
  {Candidate(dir, key, pos) : key \in {k \in DOMAIN dir.byKey : k.kind = kind}} \ {NoId}

LEMMA NoneUnlessListed ==
  ASSUME NEW dir, NEW key, key \notin DOMAIN dir.byKey, NEW pos
  PROVE  Candidate(dir, key, pos) = NoId
<1> DEFINE A1 == InBand(dir.defs, <<>>, pos)
           A2 == Baseline(dir.defs, <<>>)
<1>1. A1 = {} /\ A2 = {}
  BY DEF InBand, Baseline
<1>2. Candidate(dir, key, pos) = VisibleCandidate(dir.defs, <<>>, pos)
  BY DEF Candidate, IdsFor
<1>3. VisibleCandidate(dir.defs, <<>>, pos) = Choice(<<>>, Greatest(A1), Greatest(A2))
  BY VisibleIs
<1>4. Greatest({}) = 0
  BY GreatestIs
<1> QED BY <1>1, <1>2, <1>3, <1>4 DEF Choice

LEMMA OfKindUnaffected ==
  ASSUME NEW old, NEW new, NEW pos, Unaffected(old, new, pos), NEW kind
  PROVE  OfKind(new, kind, pos) = OfKind(old, kind, pos)
<1>1. \A key : Candidate(new, key, pos) = Candidate(old, key, pos)
  BY DEF Unaffected
<1>2. DOMAIN old.byKey \subseteq DOMAIN new.byKey
  BY DEF Unaffected
<1>3. \A key : key \notin DOMAIN old.byKey => Candidate(old, key, pos) = NoId
  BY NoneUnlessListed
<1> QED BY <1>1, <1>2, <1>3 DEF OfKind

(* resolveLatestBefore() in terms of what it chooses among.                *)
Latest(dir, found) == EndingLast(dir, StreamFirst(dir, found))

LEMMA LatestIs ==
  ASSUME NEW dir, NEW kind, NEW pos
  PROVE  ResolveLatestBefore(dir, kind, pos) = Lookup(dir, Latest(dir, OfKind(dir, kind, pos)), pos)
BY DEF ResolveLatestBefore, Latest, OfKind

LEMMA OfKindType ==
  ASSUME NEW dir, DirectorySound(dir), NEW kind, NEW pos
  PROVE  OfKind(dir, kind, pos) \in SUBSET DOMAIN dir.defs
<1>1. \A key : Candidate(dir, key, pos) \in DOMAIN dir.defs \cup {NoId}
  BY CandidateType
<1> QED BY <1>1 DEF OfKind

EndsLast(defs, among, id) == id \in among /\ \A other \in among : defs[other].to <= defs[id].to
Ending(defs, among) == CHOOSE id : EndsLast(defs, among, id)

LEMMA EndingLastIs ==
  ASSUME NEW dir, NEW among
  PROVE  EndingLast(dir, among) = IF among = {} THEN NoId ELSE Ending(dir.defs, among)
BY DEF EndingLast, EndsLast, Ending

LEMMA LatestUnaffected ==
  ASSUME NEW old, NEW new, NEW pos, Unaffected(old, new, pos),
         NEW found \in SUBSET DOMAIN old.defs
  PROVE  Latest(new, found) = Latest(old, found)
<1>1. \A d \in found : new.defs[d] = old.defs[d]
  BY DEF Unaffected
<1>2. StreamFirst(new, found) = StreamFirst(old, found)
  BY <1>1 DEF StreamFirst
<1> DEFINE among == StreamFirst(old, found)
<1>3. among \subseteq found
  BY DEF StreamFirst
<1> HIDE DEF among
<1>4. \A id : EndsLast(new.defs, among, id) = EndsLast(old.defs, among, id)
  BY <1>1, <1>3 DEF EndsLast
<1>5. Ending(new.defs, among) = Ending(old.defs, among)
  BY <1>4 DEF Ending
<1> QED BY <1>2, <1>5, EndingLastIs DEF Latest, among

(* One of a finite nonempty set of definitions ends last.                  *)
LEMMA LatestType ==
  ASSUME NEW dir, DirectorySound(dir), NEW found \in SUBSET DOMAIN dir.defs
  PROVE  Latest(dir, found) \in DOMAIN dir.defs \cup {NoId}
<1> DEFINE among == StreamFirst(dir, found)
<1>1. among \subseteq DOMAIN dir.defs
  BY DEF StreamFirst
<1> HIDE DEF among
<1>2. CASE among = {}
  BY <1>2 DEF Latest, EndingLast, among
<1>3. CASE among # {}
  <2>1. \E id \in among : \A other \in among : dir.defs[other].to <= dir.defs[id].to
    <3> DEFINE n == Len(dir.defs)
               Part(k) == {d \in among : d <= k}
               Ends(k) == \E id \in Part(k) : \A d \in Part(k) : dir.defs[d].to <= dir.defs[id].to
               T == {k \in Nat : Part(k) # {} /\ ~Ends(k)}
    <3>1. /\ n \in Nat /\ among \subseteq 1..n
          /\ \A d \in among : dir.defs[d].to \in Nat
      <4>1. dir.defs \in Seq(DefinitionType)
        BY DEF DirectorySound
      <4>2. \A d \in DOMAIN dir.defs : dir.defs[d].to \in Nat
        <5>1. \A x \in DefinitionType : x.to \in Nat
          BY DEF DefinitionType
        <5> HIDE DEF n, T
        <5> QED BY <4>1, <5>1
      <4>3. n \in Nat /\ DOMAIN dir.defs = 1..n
        BY <4>1
      <4> QED BY <1>1, <4>2, <4>3
    <3> HIDE DEF n
    <3>2. Part(n) = among
      <4>1. \A d \in among : d \in Nat /\ d <= n
        BY <3>1
      <4> QED BY <4>1
    <3>3. SUFFICES ASSUME T # {} PROVE FALSE
      <4>1. Part(n) # {} /\ ~Ends(n) => n \in T
        BY <3>1
      <4> HIDE DEF T
      <4> QED BY <1>3, <3>2, <4>1
    <3>4. PICK k \in T : \A j \in T : k <= j
      <4>1. T \in SUBSET Nat
        OBVIOUS
      <4> HIDE DEF T
      <4> QED BY <3>3, <4>1, LeastNatural
    <3>5. k \in Nat /\ Part(k) # {} /\ ~Ends(k)
      BY <3>4
    <3>6. k # 0 /\ k - 1 \in Nat /\ k - 1 \notin T
      <4>1. Part(0) = {}
        <5>1. \A d \in among : ~(d <= 0)
          BY <3>1
        <5> QED BY <5>1
      <4>2. k # 0
        BY <3>5, <4>1
      <4>3. k - 1 \in Nat /\ ~(k <= k - 1)
        BY <3>5, <4>2
      <4> HIDE DEF T
      <4> QED BY <3>4, <4>2, <4>3
    <3>7. Part(k - 1) = {} \/ Ends(k - 1)
      BY <3>6
    <3>8. \A d \in Part(k) : d = k \/ d \in Part(k - 1)
      BY <3>1, <3>5
    <3>9. Part(k - 1) \subseteq Part(k)
      <4>1. \A d \in among : d <= k - 1 => d <= k
        BY <3>1, <3>5
      <4> QED BY <4>1
    <3> HIDE DEF T
    <3>10. CASE k \notin among
      <4>1. Part(k) = Part(k - 1)
        BY <3>8, <3>9, <3>10
      <4> QED BY <3>5, <3>7, <4>1
    <3>11. CASE k \in among
      <4>1. k \in Part(k)
        BY <3>5, <3>11
      <4>2. CASE Part(k - 1) = {}
        BY <3>1, <3>5, <3>8, <4>1, <4>2
      <4>3. CASE Ends(k - 1)
        <5>1. PICK id \in Part(k - 1) :
                \A d \in Part(k - 1) : dir.defs[d].to <= dir.defs[id].to
          BY <4>3
        <5>2. id \in Part(k) /\ id \in among
          BY <3>9, <5>1
        <5>3. PICK a, b : a = dir.defs[id].to /\ b = dir.defs[k].to
          OBVIOUS
        <5>4. a \in Nat /\ b \in Nat
          BY <3>1, <3>11, <5>2, <5>3
        <5>5. CASE b <= a
          <6>1. \A d \in Part(k) : dir.defs[d].to <= dir.defs[id].to
            BY <3>8, <5>1, <5>3, <5>5
          <6> QED BY <3>5, <5>2, <6>1
        <5>6. CASE a <= b
          <6>1. \A d \in Part(k - 1) : dir.defs[d].to \in Nat
            BY <3>1
          <6>2. \A d \in Part(k) : dir.defs[d].to <= dir.defs[k].to
            BY <3>8, <5>1, <5>3, <5>4, <5>6, <6>1
          <6> QED BY <3>5, <4>1, <6>2
        <5> QED BY <5>4, <5>5, <5>6
      <4> QED BY <3>7, <4>2, <4>3
    <3> QED BY <3>10, <3>11
  <2>2. Latest(dir, found) \in among
    BY <1>3, <2>1 DEF Latest, EndingLast, among
  <2> QED BY <1>1, <2>2
<1> QED BY <1>2, <1>3

LEMMA ResolveLatestUnaffected ==
  ASSUME NEW old, NEW new, NEW pos, DirectorySound(old), Unaffected(old, new, pos), NEW kind
  PROVE  ResolveLatestBefore(new, kind, pos) = ResolveLatestBefore(old, kind, pos)
<1>1. OfKind(old, kind, pos) \in SUBSET DOMAIN old.defs
  BY OfKindType
<1>2. OfKind(new, kind, pos) = OfKind(old, kind, pos)
  BY OfKindUnaffected
<1>3. /\ Latest(new, OfKind(old, kind, pos)) = Latest(old, OfKind(old, kind, pos))
      /\ Latest(old, OfKind(old, kind, pos)) \in DOMAIN old.defs \cup {NoId}
  BY <1>1, LatestUnaffected, LatestType
<1> QED BY <1>2, <1>3, LookupUnaffected, LatestIs

-----------------------------------------------------------------------------
(* What a unit imports, and the binding that is remembered.                *)

FoundIn(dir, found) == found.status = "Found" => found.id \in DOMAIN dir.defs

LEMMA LookupFinds ==
  ASSUME NEW dir, NEW id \in DOMAIN dir.defs \cup {NoId}, NEW pos
  PROVE  FoundIn(dir, Lookup(dir, id, pos))
BY DEF FoundIn, Lookup

LEMMA ImportFinds ==
  ASSUME NEW session, DirectorySound(session.dir), NEW unit, NEW i
  PROVE  FoundIn(session.dir, ImportLookup(session, unit, i))
<1>1. CASE unit.imports[i].value = AnyValue
  <2> DEFINE found == OfKind(session.dir, unit.imports[i].kind, unit.from)
  <2>1. found \in SUBSET DOMAIN session.dir.defs
    BY OfKindType
  <2>2. Latest(session.dir, found) \in DOMAIN session.dir.defs \cup {NoId}
    <3> HIDE DEF found
    <3> QED BY <2>1, LatestType
  <2>3. ImportLookup(session, unit, i) = Lookup(session.dir, Latest(session.dir, found), unit.from)
    BY <1>1, LatestIs DEF ImportLookup
  <2> HIDE DEF found
  <2> QED BY <2>2, <2>3, LookupFinds
<1>2. CASE unit.imports[i].value # AnyValue
  <2>1. Candidate(session.dir, unit.imports[i], unit.from) \in DOMAIN session.dir.defs \cup {NoId}
    BY CandidateType
  <2> QED BY <1>2, <2>1, LookupFinds DEF ImportLookup, ResolveBefore
<1> QED BY <1>1, <1>2

LEMMA ImportUnaffected ==
  ASSUME NEW old, NEW new, NEW unit, DirectorySound(old.dir),
         Unaffected(old.dir, new.dir, unit.from), NEW i
  PROVE  /\ ImportLookup(new, unit, i) = ImportLookup(old, unit, i)
         /\ ImportStatus(new, ImportLookup(new, unit, i))
              = ImportStatus(old, ImportLookup(old, unit, i))
<1>1. ImportLookup(new, unit, i) = ImportLookup(old, unit, i)
  BY ResolveUnaffected, ResolveLatestUnaffected DEF ImportLookup
<1> DEFINE found == ImportLookup(old, unit, i)
<1>2. found.status = "Found" => found.id \in DOMAIN old.dir.defs
  BY ImportFinds DEF FoundIn
<1> HIDE DEF found
<1>3. ASSUME found.status = "Found"
      PROVE  Closure(new.dir, found.id) = Closure(old.dir, found.id)
  BY <1>2, <1>3, UsableUnaffected
<1>4. ImportStatus(new, found) = ImportStatus(old, found)
  BY <1>3 DEF ImportStatus
<1> QED BY <1>1, <1>4 DEF found

LEMMA BindingUnaffected ==
  ASSUME NEW old, NEW new, NEW unit, DirectorySound(old.dir),
         Unaffected(old.dir, new.dir, unit.from), NEW outcome
  PROVE  /\ Binding(new, unit, outcome) = Binding(old, unit, outcome)
         /\ ImportFailure(new, unit) = ImportFailure(old, unit)
<1>1. \A i \in DOMAIN unit.imports :
        /\ ImportLookup(new, unit, i) = ImportLookup(old, unit, i)
        /\ ImportStatus(new, ImportLookup(new, unit, i))
             = ImportStatus(old, ImportLookup(old, unit, i))
  BY ImportUnaffected
<1>2. Binding(new, unit, outcome) = Binding(old, unit, outcome)
  BY <1>1 DEF Binding
<1>3. [i \in DOMAIN unit.imports |-> ImportStatus(new, ImportLookup(new, unit, i))]
        = [i \in DOMAIN unit.imports |-> ImportStatus(old, ImportLookup(old, unit, i))]
  BY <1>1
<1>4. ImportFailure(new, unit) = ImportFailure(old, unit)
  BY <1>3 DEF ImportFailure
<1> QED BY <1>2, <1>4

-----------------------------------------------------------------------------
(* Registration. *)

Appended(dir, spec, ids) ==
  [defs |-> Append(dir.defs, spec), byKey |-> WithKey(dir.byKey, spec.key, ids)]

LEMMA CandidateAppended ==
  ASSUME NEW dir, DirectorySound(dir), NEW spec, NEW ids, NEW pos,
         VisibleCandidate(Append(dir.defs, spec), ids, pos)
           = VisibleCandidate(dir.defs, IdsFor(dir, spec.key), pos)
  PROVE  Unaffected(dir, Appended(dir, spec, ids), pos)
<1> DEFINE new == Appended(dir, spec, ids)
<1>1. new.defs = Append(dir.defs, spec) /\ new.byKey = WithKey(dir.byKey, spec.key, ids)
  BY DEF Appended
<1>2. dir.defs \in Seq(DefinitionType)
  BY DEF DirectorySound
<1>3. \A d \in DOMAIN dir.defs : new.defs[d] = dir.defs[d]
  BY <1>1, <1>2
<1>4. DOMAIN new.byKey = DOMAIN dir.byKey \cup {spec.key}
  BY <1>1 DEF WithKey
<1>5. IdsFor(new, spec.key) = ids
  BY <1>1 DEF IdsFor, WithKey
<1>6. \A key : key # spec.key => IdsFor(new, key) = IdsFor(dir, key)
  BY <1>1 DEF IdsFor, WithKey
<1> HIDE DEF new
<1>7. ASSUME NEW key
      PROVE  Candidate(new, key, pos) = Candidate(dir, key, pos)
  <2>1. CASE key = spec.key
    BY <1>1, <1>5, <2>1 DEF Candidate
  <2>2. CASE key # spec.key
    <3> DEFINE old == IdsFor(dir, key)
    <3>1. old \in Seq(DOMAIN dir.defs)
      <4>1. PICK D : D = DOMAIN dir.defs
        OBVIOUS
      <4>2. <<>> \in Seq(D)
        OBVIOUS
      <4> QED BY <4>1, <4>2 DEF IdsFor, DirectorySound
    <3>2. /\ InBand(new.defs, old, pos) = InBand(dir.defs, old, pos)
          /\ Baseline(new.defs, old) = Baseline(dir.defs, old)
      <4>1. \A i \in DOMAIN old : old[i] \in DOMAIN dir.defs
        BY <3>1
      <4> HIDE DEF old
      <4> QED BY <1>3, <4>1 DEF InBand, Baseline
    <3> HIDE DEF old
    <3>3. VisibleCandidate(new.defs, old, pos) = VisibleCandidate(dir.defs, old, pos)
      BY <3>2, VisibleIs
    <3> QED BY <1>6, <2>2, <3>3 DEF Candidate, old
  <2> QED BY <2>1, <2>2
<1> QED BY <1>3, <1>4, <1>7 DEF Unaffected, new

LEMMA AppendedSound ==
  ASSUME NEW dir, DirectorySound(dir), NEW spec \in DefinitionType,
         \A i \in DOMAIN spec.deps : spec.deps[i] \in DOMAIN dir.defs,
         NEW ids \in Seq(DOMAIN dir.defs \cup {Len(dir.defs) + 1})
  PROVE  DirectorySound(Appended(dir, spec, ids))
<1> DEFINE new == Appended(dir, spec, ids)
           n == Len(dir.defs)
<1>1. /\ new.defs = Append(dir.defs, spec) /\ new.byKey = WithKey(dir.byKey, spec.key, ids)
      /\ new = [defs |-> new.defs, byKey |-> new.byKey]
  BY DEF Appended
<1>2. dir.defs \in Seq(DefinitionType) /\ n \in Nat /\ DOMAIN dir.defs = 1..n
  BY DEF DirectorySound
<1>3. /\ new.defs \in Seq(DefinitionType)
      /\ DOMAIN new.defs = DOMAIN dir.defs \cup {n + 1}
      /\ \A d \in DOMAIN dir.defs : new.defs[d] = dir.defs[d]
      /\ new.defs[n + 1] = spec
  BY <1>1, <1>2
<1> HIDE DEF new
<1>4. \A d \in DOMAIN new.defs : \A i \in DOMAIN new.defs[d].deps :
        new.defs[d].deps[i] \in DOMAIN new.defs
  BY <1>3 DEF DirectorySound
<1>5. \A k \in DOMAIN new.byKey : new.byKey[k] \in Seq(DOMAIN new.defs)
  <2> DEFINE D == DOMAIN dir.defs
             E == DOMAIN new.defs
  <2>1. D \subseteq E /\ ids \in Seq(E)
    BY <1>3
  <2>2. \A k \in DOMAIN dir.byKey : dir.byKey[k] \in Seq(D)
    BY DEF DirectorySound
  <2> HIDE DEF D, E
  <2>3. \A k \in DOMAIN dir.byKey : dir.byKey[k] \in Seq(E)
    BY <2>1, <2>2
  <2>4. \A k \in DOMAIN new.byKey :
          new.byKey[k] = ids \/ (k \in DOMAIN dir.byKey /\ new.byKey[k] = dir.byKey[k])
    BY <1>1 DEF WithKey
  <2>5. \A k \in DOMAIN new.byKey : new.byKey[k] \in Seq(E)
    BY <2>1, <2>3, <2>4
  <2> QED BY <2>5 DEF E
<1>6. DirectorySound(new)
  BY <1>1, <1>3, <1>4, <1>5 DEF DirectorySound
<1> QED BY <1>6 DEF new

(* The list of a key with a new identifier, in its place or in the place   *)
(* of the definition it replaces.                                          *)
NewIds(dir, previous, spec) ==
  IF previous = NoId
  THEN InsertById(dir, IdsFor(dir, spec.key), Len(dir.defs) + 1, spec.to)
  ELSE [i \in DOMAIN IdsFor(dir, spec.key) |->
          IF IdsFor(dir, spec.key)[i] = previous THEN Len(dir.defs) + 1
          ELSE IdsFor(dir, spec.key)[i]]

Overlaps(dir, previous, spec) ==
  {i \in DOMAIN IdsFor(dir, spec.key) :
     /\ IdsFor(dir, spec.key)[i] # previous
     /\ Overlap(dir.defs[IdsFor(dir, spec.key)[i]], spec)}

LEMMA RegisterForms ==
  ASSUME NEW dir, NEW previous, NEW spec, NEW r, r = Register(dir, previous, spec)
  PROVE  \/ /\ r.status = "Registered" /\ r.dir = Appended(dir, spec, NewIds(dir, previous, spec))
            /\ previous # NoId => MayReplace(dir, previous, spec)
         \/ /\ r.status = "DuplicateDefinition"
            /\ Overlaps(dir, previous, spec) # {}
            /\ r.conflict = IdsFor(dir, spec.key)[Min(Overlaps(dir, previous, spec))]
         \/ r.status \in {"InvalidDefinition", "DependencyUnavailable"}
<1>1. DependencyFailure(dir, spec) \in {"None", "InvalidDefinition", "DependencyUnavailable"}
  BY DEF DependencyFailure
<1> DEFINE f == DependencyFailure(dir, spec)
           o == Overlaps(dir, previous, spec)
           c == IdsFor(dir, spec.key)[Min(o)]
           n == NewIds(dir, previous, spec)
<1>2. r = IF previous # NoId /\ ~MayReplace(dir, previous, spec)
          THEN Refused(dir, "InvalidDefinition", NoId)
          ELSE IF f # "None" THEN Refused(dir, f, NoId)
          ELSE IF o # {} THEN Refused(dir, "DuplicateDefinition", c)
          ELSE [status |-> "Registered", id |-> Len(dir.defs) + 1, conflict |-> NoId,
                dir |-> Appended(dir, spec, n)]
  BY DEF Register, Overlaps, NewIds, Appended
<1> HIDE DEF f, o, c, n
<1>3. f \in {"None", "InvalidDefinition", "DependencyUnavailable"}
  BY <1>1 DEF f
<1>4. \/ /\ r.status = "Registered" /\ r.dir = Appended(dir, spec, n)
         /\ previous # NoId => MayReplace(dir, previous, spec)
      \/ r.status = "DuplicateDefinition" /\ o # {} /\ r.conflict = c
      \/ r.status \in {"InvalidDefinition", "DependencyUnavailable"}
  BY <1>2, <1>3 DEF Refused
<1> QED BY <1>4 DEF o, c, n

LEMMA LeastOf ==
  ASSUME NEW S \in SUBSET Nat, S # {}
  PROVE  Min(S) \in S
<1>1. \E x \in S : \A y \in S : x <= y
  BY LeastNatural
<1> QED BY <1>1 DEF Min

LEMMA ListedIds ==
  ASSUME NEW dir, DirectorySound(dir), NEW key
  PROVE  IdsFor(dir, key) \in Seq(DOMAIN dir.defs)
<1>1. PICK D : D = DOMAIN dir.defs
  OBVIOUS
<1>2. <<>> \in Seq(D)
  OBVIOUS
<1> QED BY <1>1, <1>2 DEF IdsFor, DirectorySound

(* What a registration from the stream adds is behind its start.           *)
Extended(old, new, spec) ==
  /\ DirectorySound(new)
  /\ new.defs = Append(old.defs, spec)
  /\ ~spec.baseline => \A pos \in 0..spec.from : Unaffected(old, new, pos)

Specifies(dir, spec) ==
  /\ spec \in DefinitionType
  /\ \A i \in DOMAIN spec.deps : spec.deps[i] \in DOMAIN dir.defs
  /\ ~spec.baseline => spec.from < spec.to

LEMMA InsertedExtends ==
  ASSUME NEW dir, DirectorySound(dir), NEW spec, Specifies(dir, spec)
  PROVE  Extended(dir, Appended(dir, spec, NewIds(dir, NoId, spec)), spec)
<1> DEFINE ids == IdsFor(dir, spec.key)
           small == {i \in DOMAIN ids : dir.defs[ids[i]].to < spec.to}
           p == Cardinality(small) + 1
           id == Len(dir.defs) + 1
           new == NewIds(dir, NoId, spec)
<1>1. ids \in Seq(DOMAIN dir.defs) /\ Len(ids) \in Nat /\ DOMAIN ids = 1..Len(ids)
  BY ListedIds
<1>2. new = InsertAt(ids, p, id)
  BY DEF NewIds, InsertById
<1>3. p \in 1..(Len(ids) + 1)
  <2>1. IsFiniteSet(1..Len(ids)) /\ Cardinality(1..Len(ids)) = Len(ids)
    BY <1>1, FS_Interval
  <2>2. small \in SUBSET (1..Len(ids))
    BY <1>1
  <2> HIDE DEF small
  <2>3. Cardinality(small) \in Nat /\ Cardinality(small) <= Len(ids)
    BY <2>1, <2>2, FS_Subset, FS_CardinalityType
  <2> QED BY <1>1, <2>3
<1>4. Inserted(ids, p, id, DOMAIN dir.defs, InsertAt(ids, p, id))
  <2> HIDE DEF ids, p, id
  <2> QED BY <1>1, <1>3, InsertedIs
<1>5. new \in Seq(DOMAIN dir.defs \cup {id})
  BY <1>2, <1>4 DEF Inserted
<1> HIDE DEF new
<1>6. DirectorySound(Appended(dir, spec, new))
  BY <1>5, AppendedSound DEF Specifies
<1>7. ASSUME ~spec.baseline, NEW pos \in 0..spec.from
      PROVE  Unaffected(dir, Appended(dir, spec, new), pos)
  <2>1. spec.from \in Nat /\ spec.to \in Nat /\ spec.from < spec.to
    BY <1>7 DEF Specifies, DefinitionType
  <2>2. pos \in Nat /\ spec.to > pos
    BY <2>1
  <2>3. dir.defs \in Seq(DefinitionType)
    BY DEF DirectorySound
  <2>4. VisibleCandidate(Append(dir.defs, spec), InsertAt(ids, p, id), pos)
          = VisibleCandidate(dir.defs, ids, pos)
    <3> HIDE DEF ids, p
    <3> QED BY <1>1, <1>3, <1>7, <2>1, <2>2, <2>3, NotYetVisible
  <2> QED BY <1>2, <2>4, CandidateAppended
<1>8. Appended(dir, spec, new).defs = Append(dir.defs, spec)
  BY DEF Appended
<1> QED BY <1>6, <1>7, <1>8 DEF Extended, new

LEMMA ReplacedExtends ==
  ASSUME NEW dir, DirectorySound(dir), NEW spec, Specifies(dir, spec),
         NEW previous \in DOMAIN dir.defs, MayReplace(dir, previous, spec)
  PROVE  Extended(dir, Appended(dir, spec, NewIds(dir, previous, spec)), spec)
<1> DEFINE ids == IdsFor(dir, spec.key)
           id == Len(dir.defs) + 1
           replaced == [i \in DOMAIN ids |-> IF ids[i] = previous THEN id ELSE ids[i]]
           new == NewIds(dir, previous, spec)
<1>1. ids \in Seq(DOMAIN dir.defs) /\ Len(ids) \in Nat /\ DOMAIN ids = 1..Len(ids)
  BY ListedIds
<1>2. dir.defs \in Seq(DefinitionType) /\ previous # NoId
  BY DEF DirectorySound, NoId
<1>3. new = replaced
  BY <1>2 DEF NewIds
<1>4. new \in Seq(DOMAIN dir.defs \cup {id})
  <2>1. \A i \in 1..Len(ids) : ids[i] \in DOMAIN dir.defs
    BY <1>1
  <2>2. replaced = [i \in 1..Len(ids) |-> IF ids[i] = previous THEN id ELSE ids[i]]
    BY <1>1
  <2> HIDE DEF ids, id
  <2>3. \A i \in 1..Len(ids) :
          (IF ids[i] = previous THEN id ELSE ids[i]) \in DOMAIN dir.defs \cup {id}
    BY <2>1
  <2>4. PICK D : D = DOMAIN dir.defs \cup {id}
    OBVIOUS
  <2>5. [i \in 1..Len(ids) |-> IF ids[i] = previous THEN id ELSE ids[i]] \in Seq(D)
    BY <1>1, <2>3, <2>4
  <2> QED BY <1>3, <2>2, <2>4, <2>5
<1> HIDE DEF new
<1>5. DirectorySound(Appended(dir, spec, new))
  BY <1>4, AppendedSound DEF Specifies
<1>6. ASSUME ~spec.baseline, NEW pos \in 0..spec.from
      PROVE  Unaffected(dir, Appended(dir, spec, new), pos)
  <2>1. spec.from \in Nat /\ spec.to \in Nat /\ spec.from < spec.to
    BY <1>6 DEF Specifies, DefinitionType
  <2>2. pos \in Nat /\ spec.to > pos
    BY <2>1
  <2>3. dir.defs[previous].baseline = spec.baseline /\ dir.defs[previous].to = spec.to
    BY DEF MayReplace, SameSpans
  <2>4. VisibleCandidate(Append(dir.defs, spec), replaced, pos)
          = VisibleCandidate(dir.defs, ids, pos)
    <3> HIDE DEF ids
    <3> QED BY <1>1, <1>2, <1>6, <2>1, <2>2, <2>3, NotYetVisibleAgain
  <2> QED BY <1>3, <2>4, CandidateAppended
<1>7. Appended(dir, spec, new).defs = Append(dir.defs, spec)
  BY DEF Appended
<1> QED BY <1>5, <1>6, <1>7 DEF Extended, new

Registers(r, dir, spec) ==
  /\ r.status = "Registered" => Extended(dir, r.dir, spec)
  /\ r.status = "DuplicateDefinition" => r.conflict \in DOMAIN dir.defs

LEMMA RegisterIs ==
  ASSUME NEW dir, DirectorySound(dir), NEW spec, Specifies(dir, spec),
         NEW previous \in DOMAIN dir.defs \cup {NoId}, NEW r, r = Register(dir, previous, spec)
  PROVE  Registers(r, dir, spec)
<1>1. ASSUME r.status = "Registered" PROVE Extended(dir, r.dir, spec)
  <2>1. /\ r.dir = Appended(dir, spec, NewIds(dir, previous, spec))
        /\ previous # NoId => MayReplace(dir, previous, spec)
    BY <1>1, RegisterForms
  <2>2. CASE previous = NoId
    BY <2>1, <2>2, InsertedExtends
  <2>3. CASE previous # NoId
    <3>1. previous \in DOMAIN dir.defs
      BY <2>3
    <3> QED BY <2>1, <2>3, <3>1, ReplacedExtends
  <2> QED BY <2>2, <2>3
<1>2. ASSUME r.status = "DuplicateDefinition" PROVE r.conflict \in DOMAIN dir.defs
  <2> DEFINE ids == IdsFor(dir, spec.key)
             o == Overlaps(dir, previous, spec)
  <2>1. o # {} /\ r.conflict = ids[Min(o)]
    BY <1>2, RegisterForms
  <2>2. ids \in Seq(DOMAIN dir.defs)
    BY ListedIds
  <2>3. o \subseteq DOMAIN ids
    BY DEF Overlaps
  <2>4. o \in SUBSET Nat
    BY <2>2, <2>3
  <2> HIDE DEF o, ids
  <2>5. Min(o) \in DOMAIN ids
    BY <2>1, <2>3, <2>4, LeastOf
  <2> QED BY <2>1, <2>2, <2>5
<1> QED BY <1>1, <1>2 DEF Registers

-----------------------------------------------------------------------------
(* What a unit does to the rules of its session: nothing, or it adds one   *)
(* definition with its payload.                                            *)
Payload == [structure: STRING, values: Nat]

DefinitionsSound(r) == DirectorySound(r.dir) /\ r.payloads \in Seq(Payload)

Same(old, new) == new.dir = old.dir /\ new.payloads = old.payloads

Defines(old, new, from, baseline) ==
  /\ DefinitionsSound(new)
  /\ Len(new.payloads) = Len(old.payloads) + 1
  /\ \E spec : /\ Extended(old.dir, new.dir, spec)
               /\ spec.from = from /\ spec.baseline = baseline

SameOrDefines(old, new, from, baseline) == Same(old, new) \/ Defines(old, new, from, baseline)

LEMMA UnchangedIs ==
  ASSUME NEW session, NEW s, NEW from, NEW baseline
  PROVE  SameOrDefines(session, Unchanged(session, s), from, baseline)
  BY DEF SameOrDefines, Same, Unchanged, Staged

LEMMA EnteredIs ==
  ASSUME NEW session, DefinitionsSound(session), NEW unit \in Unit, NEW spec,
         NEW result, Registers(result, session.dir, spec)
  PROVE  SameOrDefines(session, Entered(session, unit, result), spec.from, spec.baseline)
<1>1. CASE result.status # "Registered"
  BY <1>1, UnchangedIs DEF Entered
<1>2. CASE result.status = "Registered"
  <2> DEFINE x == [structure |-> unit.publishes.kind, values |-> unit.values]
             st == Entered(session, unit, result)
  <2>1. x \in Payload
    BY DEF Payload, Unit
  <2>2. session.payloads \in Seq(Payload)
    BY DEF DefinitionsSound
  <2>3. st.dir = result.dir /\ st.payloads = Append(session.payloads, x)
    BY <1>2 DEF Entered, Staged
  <2> HIDE DEF x, st
  <2>4. st.payloads \in Seq(Payload) /\ Len(st.payloads) = Len(session.payloads) + 1
    BY <2>1, <2>2, <2>3
  <2>5. Extended(session.dir, st.dir, spec)
    BY <1>2, <2>3 DEF Registers
  <2>6. DefinitionsSound(st)
    BY <2>4, <2>5 DEF DefinitionsSound, Extended
  <2>7. Defines(session, st, spec.from, spec.baseline)
    BY <2>4, <2>5, <2>6 DEF Defines
  <2> QED BY <2>7 DEF SameOrDefines, st
<1> QED BY <1>1, <1>2

LEMMA PublishedIs ==
  ASSUME NEW session, DefinitionsSound(session), NEW unit \in Unit, NEW spec,
         Specifies(session.dir, spec)
  PROVE  SameOrDefines(session, Published(session, unit, spec), spec.from, spec.baseline)
<1>0. DirectorySound(session.dir)
  BY DEF DefinitionsSound
<1>1. PICK first : first = Register(session.dir, NoId, spec)
  OBVIOUS
<1>2. NoId \in DOMAIN session.dir.defs \cup {NoId}
  OBVIOUS
<1>3. Registers(first, session.dir, spec)
  BY <1>0, <1>1, <1>2, RegisterIs
<1>4. PICK result : result = Register(session.dir, first.conflict, spec)
  OBVIOUS
<1>5. ASSUME first.status = "DuplicateDefinition" PROVE Registers(result, session.dir, spec)
  <2>1. first.conflict \in DOMAIN session.dir.defs \cup {NoId}
    BY <1>3, <1>5 DEF Registers
  <2> QED BY <1>0, <1>4, <2>1, RegisterIs
<1>6. SameOrDefines(session, Entered(session, unit, first), spec.from, spec.baseline)
  BY <1>3, EnteredIs
<1>7. first.status = "DuplicateDefinition" =>
        SameOrDefines(session, Entered(session, unit, result), spec.from, spec.baseline)
  BY <1>5, EnteredIs
<1>8. SameOrDefines(session, Unchanged(session, "None"), spec.from, spec.baseline)
  BY UnchangedIs
<1>9. Published(session, unit, spec) = Settled(session, unit, spec, first)
  BY <1>1 DEF Published
<1> QED BY <1>4, <1>6, <1>7, <1>8, <1>9 DEF Settled

LEMMA ResolveFinds ==
  ASSUME NEW dir, DirectorySound(dir), NEW key, NEW pos
  PROVE  FoundIn(dir, ResolveBefore(dir, key, pos))
<1>1. Candidate(dir, key, pos) \in DOMAIN dir.defs \cup {NoId}
  BY CandidateType
<1> QED BY <1>1, LookupFinds DEF ResolveBefore

(* Units of the stream are not empty; those of a configuration are not in  *)
(* the stream.                                                             *)
Placeable(unit, baseline) == ~baseline => unit.from < unit.to

LEMMA StagingIs ==
  ASSUME NEW session, DefinitionsSound(session), NEW unit \in Unit, NEW node \in Nat,
         NEW baseline \in BOOLEAN, Placeable(unit, baseline)
  PROVE  SameOrDefines(session, Staging(session, unit, node, baseline), unit.from, baseline)
<1> DEFINE lookups == [i \in DOMAIN unit.deps |->
                         ResolveBefore(session.dir, unit.deps[i], unit.from)]
           deps == [i \in DOMAIN lookups |-> lookups[i].id]
           spec == Definition(unit.publishes, unit.from, unit.to, node, deps, baseline)
           st == Staging(session, unit, node, baseline)
<1>1. st = IF unit.publishes = NoKey \/ unit.selects # "payload" THEN Unchanged(session, "None")
           ELSE Bound(session, unit, node, baseline, lookups)
  BY DEF Staging
<1>2. Bound(session, unit, node, baseline, lookups)
        = IF \E i \in DOMAIN lookups : lookups[i].status # "Found"
          THEN Unchanged(session, "DependencyUnavailable")
          ELSE Published(session, unit, spec)
  BY DEF Bound
<1>3. DirectorySound(session.dir)
  BY DEF DefinitionsSound
<1>4. unit.deps \in Seq(DefinitionKeys) /\ unit.publishes \in DefinitionKeys
      /\ unit.from \in Nat /\ unit.to \in Nat
  BY DEF Unit, DefinitionKeys
<1>5. DOMAIN lookups = 1..Len(unit.deps) /\ Len(unit.deps) \in Nat
  BY <1>4
<1>6. \A i \in DOMAIN lookups : FoundIn(session.dir, lookups[i])
  BY <1>3, ResolveFinds
<1>7. spec.from = unit.from /\ spec.baseline = baseline /\ spec.to = unit.to /\ spec.deps = deps
  BY DEF Definition
<1>8. ASSUME \A i \in DOMAIN lookups : lookups[i].status = "Found"
      PROVE  Specifies(session.dir, spec)
  <2>1. \A i \in DOMAIN lookups : lookups[i].id \in DOMAIN session.dir.defs
    BY <1>6, <1>8 DEF FoundIn
  <2>2. session.dir.defs \in Seq(DefinitionType)
    BY <1>3 DEF DirectorySound
  <2>3. \A i \in DOMAIN lookups : lookups[i].id \in Nat
    <3>1. DOMAIN session.dir.defs \subseteq Nat
      BY <2>2
    <3> HIDE DEF lookups
    <3> QED BY <2>1, <3>1
  <2> HIDE DEF lookups
  <2>4. deps \in Seq(Nat)
    <3>1. deps = [i \in 1..Len(unit.deps) |-> lookups[i].id]
      BY <1>5
    <3> QED BY <1>5, <2>3, <3>1
  <2>5. \A i \in DOMAIN deps : deps[i] \in DOMAIN session.dir.defs
    BY <2>1
  <2> HIDE DEF deps
  <2>6. spec \in DefinitionType
    BY <1>4, <2>4 DEF Definition, DefinitionType
  <2> HIDE DEF spec
  <2> QED BY <1>7, <2>5, <2>6 DEF Specifies, Placeable
<1> HIDE DEF spec, deps, lookups, st
<1>9. CASE st = Unchanged(session, "None") \/ st = Unchanged(session, "DependencyUnavailable")
  BY <1>9, UnchangedIs DEF st
<1>10. CASE /\ st = Published(session, unit, spec)
            /\ \A i \in DOMAIN lookups : lookups[i].status = "Found"
  <2>1. SameOrDefines(session, Published(session, unit, spec), spec.from, spec.baseline)
    BY <1>8, <1>10, PublishedIs
  <2> QED BY <1>7, <1>10, <2>1 DEF st
<1> QED BY <1>1, <1>2, <1>9, <1>10

(* A run that succeeds found everything it imports. *)
LEMMA ImportsFound ==
  ASSUME NEW session, NEW unit \in Unit, NEW staged, staged.status \in Failures,
         NEW left \in Nat, NEW stop \in {Undisturbed} \cup Interruptions,
         unit.selects # "payload" => unit.imports = <<>>,
         FirstFailure(Hurdles(session, unit, staged, left, stop)).failure = "Materialized"
  PROVE  ImportFailure(session, unit) = "None"
<1>1. CASE unit.selects # "payload"
  <2>1. DOMAIN unit.imports = {}
    BY <1>1
  <2> QED BY <2>1 DEF ImportFailure, FirstFailing
<1>2. CASE unit.selects = "payload"
  <2>0. PICK h : HurdlesOver(h, session, unit, staged, left, stop)
    BY <1>2, HurdlesWith
  <2>1. /\ h = Hurdles(session, unit, staged, left, stop)
        /\ DOMAIN h = 1..14 /\ Len(h) = 14
        /\ \A i \in 1..14 : h[i].failure \in Failures
        /\ h[11].failure = ImportFailure(session, unit)
    BY <2>0 DEF HurdlesOver
  <2>2. \/ \A i \in 1..14 : h[i].failure = "None"
        \/ \E i \in 1..14 : FirstFailure(h) = h[i] /\ h[i].failure # "None"
    <3>1. 14 \in Nat \ {0} /\ DOMAIN h = 1..14 /\ Len(h) = 14
      BY <2>1
    <3> QED BY ONLY <3>1, FirstFailureIs
  <2>3. "Materialized" \notin Failures
    BY DEF Failures, Codes
  <2>4. \A i \in 1..14 : h[i].failure = "None"
    BY <2>1, <2>2, <2>3
  <2> QED BY <2>1, <2>4
<1> QED BY <1>1, <1>2

(* The imports of a unit are those of the payload it selects.              *)
ImportsByPayload(unit) == unit.selects # "payload" => unit.imports = <<>>

(* The definitions after a run: those before it, or one more; and the unit *)
(* that was decoded found what it imports.                                 *)
Ran(run, r, unit, baseline) ==
  /\ SameOrDefines(r, run.session, unit.from, baseline)
  /\ (ImportsByPayload(unit) /\ run.status = "Materialized")
       => ImportFailure(r, unit) = "None"

LEMMA ChargedSame ==
  ASSUME NEW r, IsRules(r), NEW made \in Nat, NEW c, c = Charged(r, made)
  PROVE  Same(r, c) /\ IsRules(c)
<1>1. PICK d, p : \E l, s \in Nat :
        /\ r = [dir |-> d, payloads |-> p, limit |-> l, spent |-> s]
        /\ l = r.limit /\ s = r.spent
  BY RulesFields
<1>2. PICK l \in Nat, s \in Nat : r = [dir |-> d, payloads |-> p, limit |-> l, spent |-> s]
  BY <1>1
<1>3. PICK n \in Nat : n = s + made
  OBVIOUS
<1>4. c = [dir |-> d, payloads |-> p, limit |-> l, spent |-> n]
  BY <1>2, <1>3 DEF Charged
<1>5. Same(r, c)
  BY <1>2, <1>4 DEF Same
<1> QED BY <1>5, RulesCharged

LEMMA RegisteredFields ==
  ASSUME NEW r, IsRules(r), NEW dir, NEW payloads, NEW c, c = Registered(r, dir, payloads)
  PROVE  c.dir = dir /\ c.payloads = payloads
<1>1. PICK d, p : \E l, s \in Nat :
        /\ r = [dir |-> d, payloads |-> p, limit |-> l, spent |-> s]
        /\ l = r.limit /\ s = r.spent
  BY RulesFields
<1>2. PICK l \in Nat, s \in Nat : r = [dir |-> d, payloads |-> p, limit |-> l, spent |-> s]
  BY <1>1
<1> DEFINE y == [r EXCEPT !.dir = dir]
<1>3. y = [dir |-> dir, payloads |-> p, limit |-> l, spent |-> s]
  BY <1>2
<1>4. c = [y EXCEPT !.payloads = payloads]
  BY DEF Registered
<1> HIDE DEF y
<1>5. c = [dir |-> dir, payloads |-> payloads, limit |-> l, spent |-> s]
  BY <1>3, <1>4
<1> QED BY <1>5

LEMMA SameRules ==
  ASSUME NEW a, NEW b, NEW c, NEW from, NEW baseline, b.dir = c.dir, b.payloads = c.payloads,
         SameOrDefines(a, b, from, baseline)
  PROVE  SameOrDefines(a, c, from, baseline)
  BY DEF SameOrDefines, Same, Defines, DefinitionsSound

LEMMA RunDefines ==
  ASSUME NEW r, IsRules(r), DefinitionsSound(r), NEW t, Len(t) \in Nat, NEW p,
         NEW unit \in Unit, NEW baseline \in BOOLEAN, Placeable(unit, baseline),
         NEW limit \in Nat, NEW stop \in {Undisturbed} \cup Interruptions,
         NEW run, run = RunCompound(r, t, p, unit, baseline, limit, stop)
  PROVE  Ran(run, r, unit, baseline)
<1>1. PICK node : node = Len(t) + 2
  OBVIOUS
<1>2. PICK staged : staged = Staging(r, unit, node, baseline)
  OBVIOUS
<1>3. PICK left : left = Remaining(r, limit)
  OBVIOUS
<1>4. PICK at : at = FirstFailure(Hurdles(r, unit, staged, left, stop))
  OBVIOUS
<1>5. run = Outcome(r, t, p, staged, at)
  BY <1>1, <1>2, <1>3, <1>4 DEF RunCompound, Executed
<1>6. node \in Nat /\ left \in Nat
  BY <1>1, <1>3, RemainingIs
<1>7. staged.status \in Failures
  BY <1>2, StagingIsFailure
<1>8. SameOrDefines(r, staged, unit.from, baseline)
  BY <1>2, <1>6, StagingIs
<1>9. ASSUME ImportsByPayload(unit), at.failure = "Materialized"
      PROVE  ImportFailure(r, unit) = "None"
  BY <1>4, <1>6, <1>7, <1>9, ImportsFound DEF ImportsByPayload
<1>10. at.made \in Nat
  <2>1. PICK outcome \in {"Materialized"} \cup Codes, made \in 0..2 :
          /\ FirstFailure(Hurdles(r, unit, staged, left, stop)).failure = outcome
          /\ FirstFailure(Hurdles(r, unit, staged, left, stop)).made = made
    BY <1>6, <1>7, WithinBudget
  <2> QED BY <1>4, <2>1
<1>11. run.status = at.failure
  BY <1>5 DEF Outcome
<1>12. PICK c : c = Charged(r, at.made)
  OBVIOUS
<1>13. Same(r, c) /\ IsRules(c)
  BY <1>10, <1>12, ChargedSame
<1>14. PICK e : e = Registered(c, staged.dir, staged.payloads)
  OBVIOUS
<1>15. run.session = c \/ run.session = e
  BY <1>5, <1>12, <1>14 DEF Outcome, Registered
<1>16. SameOrDefines(r, e, unit.from, baseline)
  <2>1. e.dir = staged.dir /\ e.payloads = staged.payloads
    BY <1>13, <1>14, RegisteredFields
  <2> QED BY <1>8, <2>1, SameRules
<1>17. SameOrDefines(r, c, unit.from, baseline)
  BY <1>13 DEF SameOrDefines
<1> QED BY <1>9, <1>11, <1>15, <1>16, <1>17 DEF Ran

-----------------------------------------------------------------------------
(* What the units of a sample were decoded against stays what they would   *)
(* find, as long as no definition has been registered since: the generation*)
(* of a kept result is at most that of the rules and, when it is the same, *)
(* each of its units is bound as it would be now.                          *)
UnitCurrent(rules, unit, was) ==
  /\ Binding(rules, unit, was.status) = was
  /\ was.status = "Materialized" => ImportFailure(rules, unit) = "None"

ResultCurrent(rules, track, sample, bound) ==
  \A u \in DOMAIN UnitsOf(track, sample) :
    UnitCurrent(rules, UnitsOf(track, sample)[u], bound[u])

FollowsRules(track, rules, samples) ==
  /\ DefinitionsSound(rules)
  /\ \A s \in DOMAIN samples :
       /\ samples[s].generation \in Nat
       /\ samples[s].generation <= Generation(rules)
       /\ samples[s].generation = Generation(rules)
            => ResultCurrent(rules, track, s, samples[s].bound)

AllCurrent(ss) == \A t \in DOMAIN ss : FollowsRules(t, ss[t].rules, ss[t].samples)

LEMMA SameUnit ==
  ASSUME NEW r, NEW q, q.dir = r.dir, NEW unit, NEW was, UnitCurrent(r, unit, was)
  PROVE  UnitCurrent(q, unit, was)
<1>1. \A i : /\ ImportLookup(q, unit, i) = ImportLookup(r, unit, i)
             /\ ImportStatus(q, ImportLookup(q, unit, i))
                  = ImportStatus(r, ImportLookup(r, unit, i))
  BY DEF ImportLookup, ImportStatus
<1>2. Binding(q, unit, was.status) = Binding(r, unit, was.status)
  BY <1>1 DEF Binding
<1>3. [i \in DOMAIN unit.imports |-> ImportStatus(q, ImportLookup(q, unit, i))]
        = [i \in DOMAIN unit.imports |-> ImportStatus(r, ImportLookup(r, unit, i))]
  BY <1>1
<1>4. ImportFailure(q, unit) = ImportFailure(r, unit)
  BY <1>3 DEF ImportFailure
<1> QED BY <1>2, <1>4 DEF UnitCurrent

LEMMA ResultsFollow ==
  ASSUME NEW track, NEW r, NEW samples, FollowsRules(track, r, samples), NEW q,
         NEW from, NEW baseline, SameOrDefines(r, q, from, baseline)
  PROVE  FollowsRules(track, q, samples)
<1>1. DefinitionsSound(r) /\ Generation(r) \in Nat
  BY DEF FollowsRules, DefinitionsSound, Generation
<1>2. CASE Same(r, q)
  <2>1. DefinitionsSound(q) /\ Generation(q) = Generation(r) /\ q.dir = r.dir
    BY <1>1, <1>2 DEF Same, DefinitionsSound, Generation
  <2>2. ASSUME NEW s \in DOMAIN samples, ResultCurrent(r, track, s, samples[s].bound)
        PROVE  ResultCurrent(q, track, s, samples[s].bound)
    BY <2>1, <2>2, SameUnit DEF ResultCurrent
  <2> QED BY <2>1, <2>2 DEF FollowsRules
<1>3. CASE Defines(r, q, from, baseline)
  <2>1. DefinitionsSound(q) /\ Generation(q) = Generation(r) + 1
    BY <1>3 DEF Defines, Generation
  <2>2. ASSUME NEW s \in DOMAIN samples
        PROVE  /\ samples[s].generation \in Nat /\ samples[s].generation <= Generation(r)
    BY DEF FollowsRules
  <2>3. ASSUME NEW s \in DOMAIN samples
        PROVE  /\ samples[s].generation <= Generation(q)
               /\ samples[s].generation # Generation(q)
    BY <1>1, <2>1, <2>2
  <2> QED BY <2>1, <2>2, <2>3 DEF FollowsRules
<1> QED BY <1>2, <1>3 DEF SameOrDefines

(* What was found at or before the start of a unit is still found.         *)
LEMMA UnitStays ==
  ASSUME NEW r, DefinitionsSound(r), NEW q, NEW from, SameOrDefines(r, q, from, FALSE),
         NEW unit, unit.from \in 0..from, NEW was, UnitCurrent(r, unit, was)
  PROVE  UnitCurrent(q, unit, was)
<1>1. CASE Same(r, q)
  BY <1>1, SameUnit DEF Same
<1>2. CASE Defines(r, q, from, FALSE)
  <2>1. DirectorySound(r.dir) /\ Unaffected(r.dir, q.dir, unit.from)
    BY <1>2 DEF Defines, Extended, DefinitionsSound
  <2>2. /\ Binding(q, unit, was.status) = Binding(r, unit, was.status)
        /\ ImportFailure(q, unit) = ImportFailure(r, unit)
    BY <2>1, BindingUnaffected
  <2> QED BY <2>2 DEF UnitCurrent
<1> QED BY <1>1, <1>2 DEF SameOrDefines

LEMMA NewUnitCurrent ==
  ASSUME NEW r, DefinitionsSound(r), NEW unit \in Unit, ImportsByPayload(unit),
         NEW run, Ran(run, r, unit, FALSE), NEW was, was = Binding(r, unit, run.status)
  PROVE  UnitCurrent(run.session, unit, was)
<1>1. was.status = run.status
  BY DEF Binding
<1>2. UnitCurrent(r, unit, was)
  BY <1>1 DEF UnitCurrent, Ran
<1>3. unit.from \in 0..unit.from
  BY DEF Unit
<1>4. SameOrDefines(r, run.session, unit.from, FALSE)
  BY DEF Ran
<1> QED BY <1>2, <1>3, <1>4, UnitStays

(* No definition goes but with the call that registered it.                *)
LEMMA DefinitionsStay ==
  ASSUME NEW r, DefinitionsSound(r), NEW q, NEW from, NEW baseline,
         SameOrDefines(r, q, from, baseline)
  PROVE  Len(r.dir.defs) \in Nat /\ Len(q.dir.defs) \in Nat
         /\ Len(r.dir.defs) <= Len(q.dir.defs)
<1>1. r.dir.defs \in Seq(DefinitionType)
  BY DEF DefinitionsSound, DirectorySound
<1>2. CASE Same(r, q)
  BY <1>1, <1>2 DEF Same
<1>3. CASE Defines(r, q, from, baseline)
  <2>1. PICK spec : q.dir.defs = Append(r.dir.defs, spec)
    BY <1>3 DEF Defines, Extended
  <2>2. Len(q.dir.defs) = Len(r.dir.defs) + 1
    BY <1>1, <2>1
  <2> QED BY <1>1, <2>2
<1> QED BY <1>2, <1>3 DEF SameOrDefines

(* The units of a call that have been decoded, and what was bound to them. *)
IsSequence(b) == \E S : b \in Seq(S)

Longer(a, b, x) ==
  /\ IsSequence(a) /\ Len(b) \in Nat /\ Len(a) = Len(b) + 1
  /\ a[Len(b) + 1] = x /\ \A i \in 1..Len(b) : a[i] = b[i]

LEMMA AppendIs ==
  ASSUME NEW b, IsSequence(b), NEW x
  PROVE  Longer(Append(b, x), b, x)
<1>0. PICK a : a = Append(b, x)
  OBVIOUS
<1>1. PICK S : b \in Seq(S)
  BY DEF IsSequence
<1>2. PICK R : R = S \cup {x}
  OBVIOUS
<1>3. b \in Seq(R) /\ x \in R
  BY <1>1, <1>2
<1>4. a \in Seq(R) /\ Len(b) \in Nat /\ Len(a) = Len(b) + 1 /\ a[Len(b) + 1] = x
      /\ \A i \in 1..Len(b) : a[i] = b[i]
  BY <1>0, <1>3
<1> QED BY <1>0, <1>4 DEF IsSequence, Longer

DecodedSoFar(c, rules) ==
  /\ IsSequence(c.bound) /\ Len(c.bound) = c.next - 1
  /\ c.next - 1 <= Len(UnitsOf(c.track, c.sample))
  /\ \A u \in 1..(c.next - 1) :
       UnitCurrent(rules, UnitsOf(c.track, c.sample)[u], c.bound[u])

(* The session of a call has at least the definitions there were before it.*)
NoFewer(c, rules) ==
  ~c.created => Len(c.before[c.track].rules.dir.defs) <= Len(rules.dir.defs)

CallFollows(c, rules) ==
  /\ AllCurrent(c.before)
  /\ NoFewer(c, rules)
  /\ c.pc = "units" => DecodedSoFar(c, rules)

RulesInv ==
  /\ AllCurrent(sessions)
  /\ ~Idle => CallFollows(call, sessions[call.track].rules)

LEMMA SampleOrder ==
  ASSUME NEW track \in DOMAIN Tracks, NEW sample \in SampleIndices(track)
  PROVE  /\ InStreamOrder(UnitsOf(track, sample))
         /\ ~Tracks[track].prefixed => UnitsOf(track, sample) = <<>>
BY NavigationAssumption DEF SampleIndices, UnitsOf

(* Earlier units of a sample begin before a later one.                     *)
LEMMA EarlierUnits ==
  ASSUME NEW units \in Seq(Unit), InStreamOrder(units), NEW n \in 1..Len(units)
  PROVE  /\ units[n] \in Unit /\ Placeable(units[n], FALSE) /\ ImportsByPayload(units[n])
         /\ \A u \in 1..(n - 1) : units[u].from \in 0..units[n].from
<1>0. DOMAIN units = 1..Len(units) /\ Len(units) \in Nat
  OBVIOUS
<1>1. \A u \in 1..Len(units) : units[u] \in Unit
  OBVIOUS
<1>2. \A x \in Unit : x.from \in Nat /\ x.to \in Nat
  BY DEF Unit
<1>3. /\ units[n].from < units[n].to
      /\ \A v \in 1..(n - 1) : units[v].to <= units[n].from
      /\ units[n].selects # "payload" => units[n].imports = <<>>
  BY <1>0 DEF InStreamOrder
<1>4. ASSUME NEW u \in 1..(n - 1)
      PROVE  units[u].from \in 0..units[n].from
  <2>1. u \in 1..Len(units)
    BY <1>0
  <2>2. units[u].from < units[u].to
    BY <1>0, <2>1 DEF InStreamOrder
  <2>3. PICK a, b, d : a = units[u].from /\ b = units[u].to /\ d = units[n].from
    OBVIOUS
  <2>4. a \in Nat /\ b \in Nat /\ d \in Nat /\ a < b /\ b <= d
    BY <1>1, <1>2, <1>3, <2>1, <2>2, <2>3
  <2>5. a \in 0..d
    BY <2>4
  <2> QED BY <2>3, <2>5
<1> QED BY <1>1, <1>3, <1>4 DEF Placeable, ImportsByPayload

(* One more unit has been decoded.                                         *)
LEMMA OneMore ==
  ASSUME NEW c, c.track \in DOMAIN Tracks, c.sample \in SampleIndices(c.track),
         NEW r, DefinitionsSound(r), DecodedSoFar(c, r),
         c.next \in Nat \ {0}, c.next <= Len(UnitsOf(c.track, c.sample)),
         NEW source, source = UnitsOf(c.track, c.sample)[c.next],
         NEW run, Ran(run, r, source, FALSE),
         NEW d, d.track = c.track, d.sample = c.sample, d.next = c.next + 1,
         d.bound = Append(c.bound, Binding(r, source, run.status))
  PROVE  DecodedSoFar(d, run.session)
<1>1. PICK units, n, b, a, x : /\ units = UnitsOf(c.track, c.sample) /\ n = c.next
                               /\ b = c.bound /\ a = d.bound
                               /\ x = Binding(r, source, run.status)
  OBVIOUS
<1>2. units \in Seq(Unit) /\ InStreamOrder(units)
  BY <1>1, SampleIsNat, SampleOrder
<1>3. Len(units) \in Nat /\ n \in Nat \ {0} /\ n <= Len(units) /\ n \in 1..Len(units)
  BY <1>1, <1>2
<1>4. IsSequence(b) /\ Len(b) = n - 1 /\ a = Append(b, x)
  BY <1>1 DEF DecodedSoFar
<1>5. IsSequence(a) /\ Len(a) = n /\ a[n] = x /\ \A i \in 1..(n - 1) : a[i] = b[i]
  <2>1. Longer(a, b, x)
    BY <1>4, AppendIs
  <2> QED BY <1>3, <1>4, <2>1 DEF Longer
<1>6. /\ source = units[n] /\ source \in Unit /\ ImportsByPayload(source)
      /\ \A u \in 1..(n - 1) : units[u].from \in 0..source.from
  BY <1>1, <1>2, <1>3, EarlierUnits
<1>7. UnitCurrent(run.session, units[n], a[n])
  BY <1>1, <1>5, <1>6, NewUnitCurrent
<1>8. ASSUME NEW u \in 1..(n - 1)
      PROVE  UnitCurrent(run.session, units[u], a[u])
  <2>1. UnitCurrent(r, units[u], b[u])
    BY <1>1 DEF DecodedSoFar
  <2>2. SameOrDefines(r, run.session, source.from, FALSE)
    BY DEF Ran
  <2> QED BY <1>5, <1>6, <2>1, <2>2, UnitStays
<1>9. /\ d.next - 1 = n /\ UnitsOf(d.track, d.sample) = units
  BY <1>1, <1>3
<1>10. \A u \in 1..n : u = n \/ u \in 1..(n - 1)
  BY <1>3
<1> QED BY <1>1, <1>3, <1>5, <1>7, <1>8, <1>9, <1>10 DEF DecodedSoFar

(* A sample whose units have all been decoded can be kept.                 *)
LEMMA AllDecoded ==
  ASSUME NEW c, c.track \in DOMAIN Tracks, c.sample \in SampleIndices(c.track),
         NEW r, DecodedSoFar(c, r), c.next \in Nat \ {0},
         Tracks[c.track].prefixed => c.next > Len(UnitsOf(c.track, c.sample))
  PROVE  ResultCurrent(r, c.track, c.sample, c.bound)
<1>1. PICK units, n : units = UnitsOf(c.track, c.sample) /\ n = c.next
  OBVIOUS
<1>2. units \in Seq(Unit) /\ (~Tracks[c.track].prefixed => units = <<>>)
  BY <1>1, SampleIsNat, SampleOrder
<1>3. DOMAIN units = 1..Len(units) /\ Len(units) \in Nat
  BY <1>2
<1>4. ASSUME NEW u \in DOMAIN units
      PROVE  u \in 1..(n - 1)
  <2>1. units # <<>>
    BY <1>3, <1>4
  <2>2. n > Len(units) /\ n \in Nat
    BY <1>1, <1>2, <2>1
  <2> QED BY <1>3, <2>2
<1> QED BY <1>1, <1>4 DEF ResultCurrent, DecodedSoFar

LEMMA PutCurrent ==
  ASSUME NEW s, AllCurrent(s), s = [k \in DOMAIN s |-> s[k]], NEW track \in DOMAIN s,
         NEW t, NEW r, NEW a, FollowsRules(track, r, a),
         NEW u, u = Put(s, track, Session(t, r, a))
  PROVE  AllCurrent(u) /\ u[track].rules = r
<1>1. PICK x : x = Session(t, r, a)
  OBVIOUS
<1>2. x.rules = r /\ x.samples = a
  BY <1>1 DEF Session
<1>3. /\ DOMAIN u = DOMAIN s /\ u[track] = x
      /\ \A k \in DOMAIN s : k # track => u[k] = s[k]
  BY <1>1, PutIs
<1> QED BY <1>2, <1>3 DEF AllCurrent

-----------------------------------------------------------------------------
(* The steps keep it, and leave what lookups before a new definition give. *)
KeepsPast(old, new) ==
  Len(new.defs) > Len(old.defs) =>
    \A key \in DOMAIN old.byKey : \A pos \in 0..new.defs[Len(new.defs)].from :
      ResolveBefore(new, key, pos) = ResolveBefore(old, key, pos)

PastKept(old, new) ==
  \A t \in DOMAIN old \cap DOMAIN new : KeepsPast(old[t].rules.dir, new[t].rules.dir)

LEMMA DefinitionKeepsPast ==
  ASSUME NEW r, DefinitionsSound(r), NEW q, NEW from, SameOrDefines(r, q, from, FALSE)
  PROVE  KeepsPast(r.dir, q.dir)
<1>1. r.dir.defs \in Seq(DefinitionType) /\ Len(r.dir.defs) \in Nat /\ DirectorySound(r.dir)
  BY DEF DefinitionsSound, DirectorySound
<1>2. CASE Same(r, q)
  BY <1>1, <1>2 DEF Same, KeepsPast
<1>3. CASE Defines(r, q, from, FALSE)
  <2>1. PICK spec : Extended(r.dir, q.dir, spec) /\ spec.from = from /\ spec.baseline = FALSE
    BY <1>3 DEF Defines
  <2>2. q.dir.defs = Append(r.dir.defs, spec)
    BY <2>1 DEF Extended
  <2>3. q.dir.defs[Len(q.dir.defs)] = spec
    BY <1>1, <2>2
  <2>4. \A pos \in 0..spec.from : Unaffected(r.dir, q.dir, pos)
    BY <2>1 DEF Extended
  <2>5. ASSUME NEW pos \in 0..spec.from, NEW key
        PROVE  ResolveBefore(q.dir, key, pos) = ResolveBefore(r.dir, key, pos)
    BY <1>1, <2>4, ResolveUnaffected
  <2> QED BY <2>3, <2>5 DEF KeepsPast
<1> QED BY <1>2, <1>3 DEF SameOrDefines

LEMMA FewerKeepPast ==
  ASSUME NEW old, NEW new, Len(old.defs) \in Nat, Len(new.defs) \in Nat,
         Len(new.defs) <= Len(old.defs)
  PROVE  KeepsPast(old, new)
  BY DEF KeepsPast

LEMMA DefinitionsCounted ==
  ASSUME NEW ss, AllCurrent(ss), NEW t \in DOMAIN ss
  PROVE  DefinitionsSound(ss[t].rules) /\ Len(ss[t].rules.dir.defs) \in Nat
<1>1. DefinitionsSound(ss[t].rules)
  BY DEF AllCurrent, FollowsRules
<1> QED BY <1>1 DEF DefinitionsSound, DirectorySound

LEMMA PutKeepsPast ==
  ASSUME NEW s, AllCurrent(s), s = [k \in DOMAIN s |-> s[k]], NEW track \in DOMAIN s,
         NEW x, KeepsPast(s[track].rules.dir, x.rules.dir), NEW u, u = Put(s, track, x)
  PROVE  PastKept(s, u)
<1>1. /\ DOMAIN u = DOMAIN s /\ u[track] = x
      /\ \A k \in DOMAIN s : k # track => u[k] = s[k]
  BY PutIs
<1>2. ASSUME NEW t \in DOMAIN s, t # track
      PROVE  KeepsPast(s[t].rules.dir, u[t].rules.dir)
  <2>1. u[t] = s[t]
    BY <1>1, <1>2
  <2>2. PICK old : old = s[t].rules.dir
    OBVIOUS
  <2>3. Len(old.defs) \in Nat /\ Len(old.defs) <= Len(old.defs)
    BY <2>2, DefinitionsCounted
  <2>4. KeepsPast(old, old)
    BY <2>3, FewerKeepPast
  <2> QED BY <2>1, <2>2, <2>4
<1> QED BY <1>1, <1>2 DEF PastKept

LEMMA RulesStand ==
  ASSUME RulesInv, UNCHANGED <<sessions, call>>
  PROVE  RulesInv'
<1>1. Idle' = Idle
  BY DEF Idle
<1> QED BY <1>1 DEF RulesInv

LEMMA RulesGoOn ==
  ASSUME NEW s, s = sessions', NEW c, c = call', AllCurrent(s),
         CallFollows(c, s[c.track].rules)
  PROVE  RulesInv'
  BY DEF RulesInv

LEMMA RulesGoBack ==
  ASSUME NavInv, RulesInv, ~Idle, sessions' = call.before, call' = NoCall
  PROVE  RulesInv' /\ PastKept(sessions, call.before)
<1>1. Idle'
  BY DEF Idle, NoCall
<1>2. RulesInv'
  BY <1>1 DEF RulesInv, CallFollows
<1>3. Grown(call, sessions) /\ Created(call.created, call.before, call.track)
  BY Calling
<1>4. AllCurrent(call.before) /\ AllCurrent(sessions)
  BY DEF RulesInv, CallFollows
<1>5. ASSUME NEW t \in DOMAIN sessions \cap DOMAIN call.before
      PROVE  KeepsPast(sessions[t].rules.dir, call.before[t].rules.dir)
  <2>1. PICK old, new : old = sessions[t].rules.dir /\ new = call.before[t].rules.dir
    OBVIOUS
  <2>2. Len(old.defs) \in Nat /\ Len(new.defs) \in Nat
    BY <1>4, <2>1, DefinitionsCounted
  <2>3. Len(new.defs) <= Len(old.defs)
    <3>1. CASE t = call.track
      <4>1. ~call.created
        BY <1>3, <3>1 DEF Created
      <4> QED BY <2>1, <3>1, <4>1 DEF RulesInv, CallFollows, NoFewer
    <3>2. CASE t # call.track
      <4>1. sessions[t] = call.before[t]
        BY <1>3, <3>2 DEF Grown
      <4> QED BY <2>1, <2>2, <4>1
    <3> QED BY <3>1, <3>2
  <2> QED BY <2>1, <2>2, <2>3, FewerKeepPast
<1> QED BY <1>2, <1>5 DEF PastKept

LEMMA NewRulesFollow ==
  ASSUME NEW track, NEW limit
  PROVE  FollowsRules(track, NewSession(limit), <<>>)
<1>1. DOMAIN <<>> = {} /\ \A S : <<>> \in Seq(S)
  OBVIOUS
<1>2. DirectorySound(EmptyDirectory)
  BY <1>1 DEF DirectorySound, EmptyDirectory
<1>3. DefinitionsSound(NewSession(limit))
  BY <1>1, <1>2 DEF DefinitionsSound, NewSession
<1> QED BY <1>1, <1>3 DEF FollowsRules

LEMMA OpenCallRules ==
  ASSUME NavInv, RulesInv, NEW track \in DOMAIN Tracks, NEW sample \in SampleIndices(track),
         OpenCall(track, sample)
  PROVE  RulesInv'
<1>1. PICK k, created, limit, pc :
        /\ k = sessions /\ created = (track \notin DOMAIN sessions)
        /\ limit = IF created THEN Budget - 1 ELSE Budget
        /\ pc = IF created /\ Tracks[track].prefixed THEN "prime" ELSE "frame"
  OBVIOUS
<1>2. PICK s, c : s = sessions' /\ c = call'
  OBVIOUS
<1>3. /\ s = IF created THEN With(k, track, NewTrackSession(limit)) ELSE k
      /\ c = Preparation(pc, track, sample, created, 1, limit, k)
  BY <1>1, <1>2 DEF OpenCall, Preparation
<1>4. c.track = track /\ c.created = created /\ c.before = k /\ c.pc = pc
  BY <1>3 DEF Preparation
<1>5. AllCurrent(k) /\ pc # "units"
  BY <1>1 DEF RulesInv
<1>6. AllCurrent(s)
  <2>1. CASE created
    <3>1. PICK x : x = NewTrackSession(limit)
      OBVIOUS
    <3>2. FollowsRules(track, x.rules, x.samples)
      BY <3>1, NewRulesFollow DEF NewTrackSession
    <3>3. /\ DOMAIN s = DOMAIN k \cup {track} /\ s[track] = x
          /\ \A t \in DOMAIN k : t # track => s[t] = k[t]
      BY <1>3, <2>1, <3>1 DEF With
    <3> QED BY <1>5, <3>2, <3>3 DEF AllCurrent
  <2> QED BY <1>1, <1>3, <1>5, <2>1
<1>7. NoFewer(c, s[c.track].rules)
  <2>1. ASSUME ~c.created
        PROVE  Len(c.before[c.track].rules.dir.defs) <= Len(s[c.track].rules.dir.defs)
    <3>1. s = k /\ track \in DOMAIN k
      BY <1>1, <1>3, <1>4, <2>1
    <3>2. Len(k[track].rules.dir.defs) \in Nat
      BY <1>5, <3>1, DefinitionsCounted
    <3> QED BY <1>4, <3>1, <3>2
  <2> QED BY <2>1 DEF NoFewer
<1>8. CallFollows(c, s[c.track].rules)
  BY <1>4, <1>5, <1>7 DEF CallFollows
<1> QED BY <1>2, <1>6, <1>8, RulesGoOn

LEMMA PrimedRules ==
  ASSUME NavInv, RulesInv, Primed
  PROVE  RulesInv'
<1>1. /\ ~Idle /\ call.pc = "prime" /\ call' = [call EXCEPT !.pc = "frame"]
      /\ sessions' = sessions
  BY DEF Primed, Idle
<1>2. CallShape(call)
  BY <1>1, Calling
<1>3. PICK track, sample, created, next, limit, before :
        call = Preparation("prime", track, sample, created, next, limit, before)
  BY <1>1, <1>2 DEF CallShape
<1>4. PICK c, d : c = call /\ d = call'
  OBVIOUS
<1>5. c = [pc |-> "prime", track |-> track, sample |-> sample, created |-> created,
           next |-> next, limit |-> limit, before |-> before]
  BY <1>3, <1>4 DEF Preparation
<1>6. d = [c EXCEPT !.pc = "frame"]
  BY <1>1, <1>4
<1>7. d = [pc |-> "frame", track |-> track, sample |-> sample, created |-> created,
           next |-> next, limit |-> limit, before |-> before]
  BY ONLY <1>5, <1>6
<1>8. /\ d.pc = "frame" /\ d.track = c.track /\ d.created = c.created /\ d.before = c.before
  BY <1>5, <1>7
<1>9. AllCurrent(sessions) /\ CallFollows(c, sessions[c.track].rules)
  BY <1>1, <1>4 DEF RulesInv
<1>10. CallFollows(d, sessions[d.track].rules)
  BY <1>8, <1>9 DEF CallFollows, NoFewer
<1> QED BY <1>1, <1>4, <1>9, <1>10, RulesGoOn

(* What a step that runs a unit in the session of the call has to show.    *)
LEMMA RunRules ==
  ASSUME NEW c, NEW s, AllCurrent(s), s = [k \in DOMAIN s |-> s[k]], c.track \in DOMAIN s,
         NEW w, w = s[c.track], CallFollows(c, w.rules),
         Created(c.created, c.before, c.track),
         NEW q, NEW from, NEW baseline, SameOrDefines(w.rules, q, from, baseline),
         NEW t, NEW u, u = Put(s, c.track, Session(t, q, w.samples)),
         NEW d, SameCall(c, d), d.pc = "units" => DecodedSoFar(d, q)
  PROVE  AllCurrent(u) /\ CallFollows(d, u[d.track].rules)
<1>1. FollowsRules(c.track, w.rules, w.samples) /\ DefinitionsSound(w.rules)
  BY DEF AllCurrent, FollowsRules
<1>2. FollowsRules(c.track, q, w.samples)
  BY <1>1, ResultsFollow
<1>3. AllCurrent(u) /\ u[c.track].rules = q
  <2>1. PICK track, a : track = c.track /\ a = w.samples
    OBVIOUS
  <2>2. /\ AllCurrent(s) /\ s = [k \in DOMAIN s |-> s[k]] /\ track \in DOMAIN s
        /\ FollowsRules(track, q, a) /\ u = Put(s, track, Session(t, q, a))
    BY <1>2, <2>1
  <2>3. AllCurrent(u) /\ u[track].rules = q
    BY ONLY <2>2, PutCurrent
  <2> QED BY <2>1, <2>3
<1>4. NoFewer(d, q)
  <2>1. /\ Len(w.rules.dir.defs) \in Nat /\ Len(q.dir.defs) \in Nat
        /\ Len(w.rules.dir.defs) <= Len(q.dir.defs)
    BY <1>1, DefinitionsStay
  <2>2. ASSUME ~d.created
        PROVE  Len(d.before[d.track].rules.dir.defs) <= Len(q.dir.defs)
    <3>1. ~c.created /\ d.before[d.track] = c.before[c.track]
      BY <2>2 DEF SameCall
    <3>2. PICK n : n = Len(c.before[c.track].rules.dir.defs)
      OBVIOUS
    <3>3. n <= Len(w.rules.dir.defs)
      BY <3>1, <3>2 DEF CallFollows, NoFewer
    <3>4. n \in Nat
      <4>1. AllCurrent(c.before) /\ c.track \in DOMAIN c.before
        BY <3>1 DEF CallFollows, Created
      <4> QED BY <3>2, <4>1, DefinitionsCounted
    <3>5. PICK i, j : i = Len(w.rules.dir.defs) /\ j = Len(q.dir.defs)
      OBVIOUS
    <3>6. n <= j
      BY <2>1, <3>3, <3>4, <3>5
    <3>7. n = Len(d.before[d.track].rules.dir.defs)
      BY <3>1, <3>2
    <3> QED BY <3>5, <3>6, <3>7
  <2> QED BY <2>2 DEF NoFewer
<1> QED BY <1>3, <1>4 DEF CallFollows, SameCall

LEMMA PrimeRules ==
  ASSUME NavInv, RulesInv, NEW stop \in Stops(AllPlaces), Prime(stop)
  PROVE  RulesInv'
<1> DEFINE w == sessions[call.track]
           units == Tracks[call.track].config
<1>1. PICK run : run = RunCompound(w.rules, w.tree, RootId, units[call.next], TRUE,
                                   call.limit, stop)
  OBVIOUS
<1>2. /\ ~Idle /\ call.pc = "prime" /\ call.next <= Len(units)
      /\ IF run.status = "Materialized"
         THEN /\ sessions' = [sessions EXCEPT ![call.track].tree = run.tree,
                                              ![call.track].rules = run.session]
              /\ call' = [call EXCEPT !.next = @ + 1, !.limit = @ - run.made]
              /\ UNCHANGED stack
         ELSE GiveUp
  BY <1>1 DEF Prime, Idle
<1>3. /\ Underway(call, sessions) /\ CallShape(call) /\ Grown(call, sessions)
      /\ call.track \in DOMAIN Tracks
      /\ call.next \in Nat \ {0} /\ call.limit \in Nat
      /\ Created(call.created, call.before, call.track)
  BY <1>2, Calling
<1>4. call.created
  BY <1>2, <1>3 DEF Underway, Preparing
<1>5. CASE run.status = "Materialized"
  <2>1. PICK r, t, unit, limit : /\ r = w.rules /\ t = w.tree /\ unit = units[call.next]
                                 /\ limit = call.limit
    OBVIOUS
  <2>2. PICK c, s, x, q, tree : /\ c = call /\ s = sessions /\ x = w
                                /\ q = run.session /\ tree = run.tree
    OBVIOUS
  <2>3. /\ c.track \in DOMAIN s /\ s = [k \in DOMAIN s |-> s[k]] /\ x = s[c.track]
        /\ x = Session(t, r, x.samples) /\ IsRules(r) /\ Len(t) \in Nat /\ r = x.rules
    BY <1>3, <2>1, <2>2, SessionOf
  <2>4. AllCurrent(s) /\ CallFollows(c, x.rules)
    BY <1>2, <2>2 DEF RulesInv
  <2>5. DefinitionsSound(r)
    BY <2>3, <2>4, DefinitionsCounted
  <2>6. SameOrDefines(r, q, unit.from, TRUE)
    <3>1. unit \in Unit /\ limit \in Nat
      BY <1>2, <1>3, <2>1, ConfigUnit
    <3>2. stop \in {Undisturbed} \cup Interruptions
      BY StopsAre
    <3>3. TRUE \in BOOLEAN /\ Placeable(unit, TRUE)
      BY DEF Placeable
    <3>4. PICK p : p = RootId
      OBVIOUS
    <3>5. run = RunCompound(r, t, p, unit, TRUE, limit, stop)
      BY <1>1, <2>1, <3>4
    <3>6. Ran(run, r, unit, TRUE)
      BY ONLY <2>3, <2>5, <3>1, <3>2, <3>3, <3>5, RunDefines
    <3> QED BY <2>2, <3>6 DEF Ran
  <2>7. PICK u : u = Put(s, c.track, Session(tree, q, x.samples))
    OBVIOUS
  <2>8. sessions' = u
    <3>1. PICK g, track : g = x.samples /\ track = c.track
      OBVIOUS
    <3>2. s = [k \in DOMAIN s |-> s[k]] /\ track \in DOMAIN s /\ s[track] = Session(t, r, g)
      BY <2>3, <3>1
    <3>3. Updated(s, track, tree, q) = Put(s, track, Session(tree, q, g))
      BY ONLY <3>2, UpdatedIs
    <3>4. sessions' = Updated(s, track, tree, q)
      BY <1>2, <1>5, <2>2, <3>1 DEF Updated
    <3> QED BY <2>7, <3>1, <3>3, <3>4
  <2>9. PICK d : d = call'
    OBVIOUS
  <2>10. SameCall(c, d) /\ d.pc # "units"
    <3>1. PICK track, sample, created, next, lim, before, n, l :
            /\ call = Preparation("prime", track, sample, created, next, lim, before)
            /\ n = call.next + 1 /\ l = call.limit - run.made
      BY <1>2, <1>3 DEF CallShape
    <3>2. Proceeded(Preparation("prime", track, sample, created, next, lim, before), n, l)
            = Preparation("prime", track, sample, created, n, l, before)
      BY ProceededIs
    <3>3. d = Proceeded(call, n, l)
      BY <1>2, <1>5, <2>9, <3>1 DEF Proceeded
    <3>4. /\ d = Preparation("prime", track, sample, created, n, l, before)
          /\ c = Preparation("prime", track, sample, created, next, lim, before)
      BY <2>2, <3>1, <3>2, <3>3
    <3> QED BY <3>4 DEF Preparation, SameCall
  <2>11. AllCurrent(u) /\ CallFollows(d, u[d.track].rules)
    <3>1. PICK from, baseline : from = unit.from /\ baseline = TRUE
      OBVIOUS
    <3>2. SameOrDefines(x.rules, q, from, baseline) /\ (d.pc = "units" => DecodedSoFar(d, q))
      BY <2>3, <2>6, <2>10, <3>1
    <3>3. Created(c.created, c.before, c.track)
      BY <1>3, <2>2
    <3> QED BY ONLY <2>3, <2>4, <2>7, <2>10, <3>2, <3>3, RunRules
  <2> QED BY <2>8, <2>9, <2>11, RulesGoOn
<1>6. CASE run.status # "Materialized"
  <2>1. sessions' = call.before /\ call' = NoCall
    BY <1>2, <1>4, <1>6, RolledBackIs DEF GiveUp
  <2> QED BY <1>2, <2>1, RulesGoBack
<1> QED BY <1>5, <1>6

LEMMA TransactionSame ==
  ASSUME NEW e, IsRules(e), NEW l
  PROVE  Same(e, BeginTransaction(e, l))
<1>1. PICK d, p, m, n : e = [dir |-> d, payloads |-> p, limit |-> m, spent |-> n]
  BY DEF IsRules
<1> DEFINE y == [e EXCEPT !.limit = l]
<1>2. y = [dir |-> d, payloads |-> p, limit |-> l, spent |-> n]
  BY <1>1
<1>3. BeginTransaction(e, l) = [y EXCEPT !.spent = 0]
  BY DEF BeginTransaction
<1> HIDE DEF y
<1>4. [y EXCEPT !.spent = 0] = [dir |-> d, payloads |-> p, limit |-> l, spent |-> 0]
  BY <1>2
<1> QED BY <1>1, <1>3, <1>4 DEF Same

LEMMA FrameRules ==
  ASSUME NavInv, RulesInv, NEW stop, FrameSample(stop)
  PROVE  RulesInv'
<1> DEFINE w == sessions[call.track]
<1>1. PICK t, fields, u, r :
        /\ t = w.tree /\ fields = EnvelopeNodes(call.track) - 1
        /\ u = AppendFields(AppendChild(t, RootId, "sample", "Indexing", call.sample, 0),
                            Len(t) + 1, fields)
        /\ r = IF Tracks[call.track].prefixed THEN BeginTransaction(w.rules, call.limit)
               ELSE w.rules
  OBVIOUS
<1>2. ~Idle /\ call.pc = "frame"
  BY DEF FrameSample, Idle
<1>3. /\ Grown(call, sessions) /\ Created(call.created, call.before, call.track)
      /\ call.created \in BOOLEAN
  BY <1>2, Calling
<1>4. CASE FramingFails(stop)
  <2>1. /\ sessions' = IF call.created THEN Without(call.track) ELSE sessions
        /\ call' = NoCall /\ Idle'
    BY <1>4 DEF FrameSample, Idle, NoCall
  <2>2. CASE call.created
    <3>1. sessions' = call.before
      BY <1>2, <2>1, <2>2, WithoutIs
    <3> QED BY <1>2, <2>1, <3>1, RulesGoBack
  <2>3. CASE ~call.created
    BY <2>1, <2>3 DEF RulesInv
  <2> QED BY <1>3, <2>2, <2>3
<1>5. CASE ~FramingFails(stop)
  <2>1. /\ sessions' = [sessions EXCEPT ![call.track] = [w EXCEPT !.tree = u, !.rules = r]]
        /\ call' = [pc |-> "units", track |-> call.track, sample |-> call.sample,
                    created |-> call.created, next |-> 1, limit |-> call.limit,
                    before |-> call.before, node |-> Len(t) + 1, units |-> <<>>,
                    bound |-> <<>>, snapshot |-> Snapshot(t, RootId), saved |-> w.rules]
    BY <1>1, <1>5 DEF FrameSample
  <2>2. PICK c, s, x : c = call /\ s = sessions /\ x = w
    OBVIOUS
  <2>3. PICK e, f, g : e = x.tree /\ f = x.rules /\ g = x.samples
    OBVIOUS
  <2>4. /\ c.track \in DOMAIN s /\ s = [k \in DOMAIN s |-> s[k]] /\ x = s[c.track]
        /\ x = Session(e, f, g) /\ IsRules(f)
    BY <1>3, <2>2, <2>3, SessionOf
  <2>5. AllCurrent(s) /\ CallFollows(c, x.rules)
    BY <1>2, <2>2 DEF RulesInv
  <2>6. Same(f, r)
    <3>1. PICK l : l = call.limit
      OBVIOUS
    <3>2. Same(f, BeginTransaction(f, l))
      BY <2>4, TransactionSame
    <3>3. Same(f, f)
      BY DEF Same
    <3> QED BY <1>1, <2>2, <2>3, <3>1, <3>2, <3>3
  <2>7. PICK v : v = Put(s, c.track, Session(u, r, x.samples))
    OBVIOUS
  <2>8. sessions' = v
    <3>1. Restarted(x, u, r) = Session(u, r, g)
      BY <2>4, RestartedIs
    <3>2. [x EXCEPT !.tree = u, !.rules = r] = Session(u, r, g)
      BY <3>1 DEF Restarted
    <3>3. [s EXCEPT ![c.track] = Session(u, r, g)] = Put(s, c.track, Session(u, r, g))
      BY <2>4 DEF Put
    <3> QED BY <2>1, <2>2, <2>3, <2>7, <3>2, <3>3
  <2>9. PICK d : d = call'
    OBVIOUS
  <2>10. SameCall(c, d)
    BY <2>1, <2>2, <2>9 DEF SameCall
  <2>11. DecodedSoFar(d, r)
    <3>1. d.next = 1 /\ d.bound = <<>>
      BY <2>1, <2>9
    <3>2. d.track \in DOMAIN Tracks /\ d.sample \in SampleIndices(d.track)
      BY <1>2, <2>1, <2>9, Calling
    <3>3. PICK units : units = UnitsOf(d.track, d.sample)
      OBVIOUS
    <3>4. Len(units) \in Nat
      BY <3>2, <3>3, SampleIsNat
    <3>5. IsSequence(<<>>) /\ Len(<<>>) = 0 /\ 1 - 1 = 0 /\ 1..0 = {}
      <4>1. <<>> \in Seq({})
        OBVIOUS
      <4> QED BY <4>1 DEF IsSequence
    <3>6. 0 <= Len(units)
      BY <3>4
    <3> QED BY <3>1, <3>3, <3>5, <3>6 DEF DecodedSoFar
  <2>12. AllCurrent(v) /\ CallFollows(d, v[d.track].rules)
    <3>1. PICK from, baseline : from = 0 /\ baseline = FALSE
      OBVIOUS
    <3>2. SameOrDefines(x.rules, r, from, baseline) /\ (d.pc = "units" => DecodedSoFar(d, r))
      BY <2>3, <2>6, <2>11 DEF SameOrDefines
    <3>3. Created(c.created, c.before, c.track)
      BY <1>3, <2>2
    <3> QED BY ONLY <2>4, <2>5, <2>7, <2>10, <3>2, <3>3, RunRules
  <2> QED BY <2>8, <2>9, <2>12, RulesGoOn
<1> QED BY <1>4, <1>5

LEMMA RunUnitRules ==
  ASSUME NavInv, RulesInv, NEW stop \in Stops(AllPlaces), RunUnit(stop)
  PROVE  RulesInv' /\ PastKept(sessions, sessions')
<1> DEFINE w == sessions[call.track]
           source == UnitsOf(call.track, call.sample)[call.next]
<1>1. PICK t, framed : /\ t = w.tree
                       /\ framed = AppendFields(AppendChild(t, call.node, "unit", "Indexing",
                                                            call.next, 0), Len(t) + 1, 1)
  OBVIOUS
<1>2. PICK left : left = NodesLeft(framed)
  OBVIOUS
<1>3. PICK run : run = RunCompound(w.rules, framed, Len(t) + 1, source, FALSE, left, stop)
  OBVIOUS
<1>4. PICK u, units, bound :
        /\ u = IF run.status = "Materialized"
               THEN Transition(run.tree, Len(t) + 1, "Materialized")
               ELSE MarkPartial(run.tree, Len(t) + 1, StateForFailure(run.status), run.status)
        /\ units = Append(call.units, Len(t) + 1)
        /\ bound = Append(call.bound, Binding(w.rules, source, run.status))
  OBVIOUS
<1>5. /\ ~Idle /\ call.pc = "units" /\ call.next <= Len(UnitsOf(call.track, call.sample))
      /\ IF NodesLeft(t) < 2 \/ run.status \in RunTerminating
         THEN GiveUp
         ELSE /\ sessions' = [sessions EXCEPT ![call.track].tree = u,
                                              ![call.track].rules = run.session]
              /\ call' = [call EXCEPT !.next = @ + 1, !.units = units, !.bound = bound]
              /\ UNCHANGED stack
  <2>1. call.pc = "units" /\ call.next <= Len(UnitsOf(call.track, call.sample))
    BY DEF RunUnit
  <2>2. ~Idle
    BY <2>1 DEF Idle
  <2>3. IF NodesLeft(t) < 2 \/ run.status \in RunTerminating
        THEN GiveUp
        ELSE /\ sessions' = [sessions EXCEPT ![call.track].tree = u,
                                             ![call.track].rules = run.session]
             /\ call' = [call EXCEPT !.next = @ + 1, !.units = units, !.bound = bound]
             /\ UNCHANGED stack
    BY <1>1, <1>2, <1>3, <1>4 DEF RunUnit
  <2> QED BY <2>1, <2>2, <2>3
<1>6. /\ Underway(call, sessions) /\ CallShape(call) /\ Grown(call, sessions)
      /\ call.track \in DOMAIN Tracks /\ call.sample \in SampleIndices(call.track)
      /\ call.next \in Nat \ {0} /\ call.limit \in Nat
      /\ Created(call.created, call.before, call.track)
  BY <1>5, Calling
<1>7. CASE NodesLeft(t) < 2 \/ run.status \in RunTerminating
  <2>1. sessions' = call.before /\ call' = NoCall
    BY <1>5, <1>7, RolledBackIs DEF GiveUp
  <2> QED BY <1>5, <2>1, RulesGoBack
<1>8. CASE ~(NodesLeft(t) < 2 \/ run.status \in RunTerminating)
  <2>1. DecodingIn(call, t)
    BY <1>1, <1>5, <1>6 DEF Underway, Decoding
  <2>2. PICK node : node = call.node
    OBVIOUS
  <2>3. Tree(t) /\ Len(t) \in Nat /\ node \in 1..Len(t)
    <3>1. Tree(t) /\ Len(t) \in Nat
      BY <1>1, <1>6, SessionOf
    <3> QED BY <2>1, <2>2, <3>1 DEF DecodingIn
  <2>4. Len(framed) = Len(t) + 2
    <3>1. PICK tag \in Nat : tag = call.next
      BY <1>6
    <3>2. framed = AppendFields(AppendChild(t, node, "unit", "Indexing", tag, 0),
                                Len(t) + 1, 1)
      BY <1>1, <2>2, <3>1
    <3>3. "unit" \in Kinds /\ 1 \in Nat
      BY DEF Kinds
    <3>4. GrewBy(t, framed, node, 1 + 1)
      BY ONLY <2>3, <3>2, <3>3, tag \in Nat, BegunGrows
    <3> QED BY <3>4 DEF GrewBy
  <2>5. left \in Nat /\ Len(framed) \in Nat
    <3>1. PICK l, n, m : l = call.limit /\ n = call.snapshot.count /\ m = Len(t)
      OBVIOUS
    <3>2. l \in Nat /\ n \in Nat /\ m \in Nat /\ ~(l - (m - n) < 2)
      BY <1>6, <1>8, <2>1, <2>3, <3>1 DEF DecodingIn, NodesLeft
    <3>3. l - ((m + 2) - n) \in Nat
      BY <3>2
    <3> QED BY <1>2, <2>3, <2>4, <3>1, <3>3 DEF NodesLeft
  <2>6. PICK c, s, x, r, q, unit : /\ c = call /\ s = sessions /\ x = w /\ r = w.rules
                                   /\ q = run.session /\ unit = source
    OBVIOUS
  <2>7. /\ c.track \in DOMAIN s /\ s = [k \in DOMAIN s |-> s[k]] /\ x = s[c.track]
        /\ x = Session(t, r, x.samples) /\ IsRules(r) /\ r = x.rules
    BY <1>1, <1>6, <2>6, SessionOf
  <2>8. AllCurrent(s) /\ CallFollows(c, x.rules)
    BY <1>5, <2>6 DEF RulesInv
  <2>9. DefinitionsSound(r)
    BY <2>7, <2>8, DefinitionsCounted
  <2>10. unit \in Unit /\ Placeable(unit, FALSE)
    <3>1. PICK all : all = UnitsOf(call.track, call.sample)
      OBVIOUS
    <3>2. all \in Seq(Unit) /\ InStreamOrder(all)
      BY <1>6, <3>1, SampleIsNat, SampleOrder
    <3>3. call.next \in 1..Len(all)
      BY <1>5, <1>6, <3>1, <3>2
    <3> QED BY <2>6, <3>1, <3>2, <3>3, EarlierUnits
  <2>11. Ran(run, r, unit, FALSE)
    <3>1. PICK p : p = Len(t) + 1
      OBVIOUS
    <3>2. run = RunCompound(r, framed, p, unit, FALSE, left, stop)
      BY <1>3, <2>6, <3>1
    <3>3. stop \in {Undisturbed} \cup Interruptions /\ FALSE \in BOOLEAN
      BY StopsAre
    <3> QED BY ONLY <2>5, <2>7, <2>9, <2>10, <3>2, <3>3, RunDefines
  <2>12. SameOrDefines(r, q, unit.from, FALSE)
    BY <2>6, <2>11 DEF Ran
  <2>13. PICK v : v = Put(s, c.track, Session(u, q, x.samples))
    OBVIOUS
  <2>14. sessions' = v
    <3>1. PICK g, y : g = x.samples /\ y = c.track
      OBVIOUS
    <3>2. s = [k \in DOMAIN s |-> s[k]] /\ y \in DOMAIN s /\ s[y] = Session(t, r, g)
      BY <2>7, <3>1
    <3>3. Updated(s, y, u, q) = Put(s, y, Session(u, q, g))
      BY ONLY <3>2, UpdatedIs
    <3>4. sessions' = Updated(s, y, u, q)
      BY <1>5, <1>8, <2>6, <3>1 DEF Updated
    <3> QED BY <2>13, <3>1, <3>3, <3>4
  <2>15. PICK d : d = call'
    OBVIOUS
  <2>16. d = Execution(c, c.next + 1, units, bound)
    <3>1. c = Execution(c, c.next, c.units, c.bound)
      BY <1>5, <1>6, <2>6 DEF CallShape
    <3>2. PICK n : n = c.next + 1
      OBVIOUS
    <3>3. Advanced(c, n, units, bound) = Execution(c, n, units, bound)
      BY <3>1, AdvancedIs
    <3>4. call' = Advanced(c, n, units, bound)
      BY <1>5, <1>8, <2>6, <3>2 DEF Advanced
    <3> QED BY <2>15, <3>2, <3>3, <3>4
  <2>17. SameCall(c, d) /\ d.sample = c.sample /\ d.next = c.next + 1 /\ d.bound = bound
    BY <2>16 DEF Execution, SameCall
  <2>18. DecodedSoFar(d, q)
    <3>1. /\ c.track \in DOMAIN Tracks /\ c.sample \in SampleIndices(c.track)
          /\ DecodedSoFar(c, r) /\ c.next \in Nat \ {0}
          /\ c.next <= Len(UnitsOf(c.track, c.sample))
          /\ unit = UnitsOf(c.track, c.sample)[c.next]
          /\ d.track = c.track /\ d.sample = c.sample /\ d.next = c.next + 1
          /\ d.bound = Append(c.bound, Binding(r, unit, run.status))
      BY <1>4, <1>5, <1>6, <2>6, <2>7, <2>8, <2>17 DEF CallFollows, SameCall
    <3>2. DecodedSoFar(d, run.session)
      BY ONLY <2>9, <2>11, <3>1, OneMore
    <3> QED BY <2>6, <3>2
  <2>19. AllCurrent(v) /\ CallFollows(d, v[d.track].rules)
    <3>1. PICK from, baseline : from = unit.from /\ baseline = FALSE
      OBVIOUS
    <3>2. SameOrDefines(x.rules, q, from, baseline) /\ (d.pc = "units" => DecodedSoFar(d, q))
      BY <2>7, <2>12, <2>18, <3>1
    <3>3. Created(c.created, c.before, c.track)
      BY <1>6, <2>6
    <3> QED BY ONLY <2>7, <2>8, <2>13, <2>17, <3>2, <3>3, RunRules
  <2>20. PastKept(s, v)
    <3>1. KeepsPast(r.dir, q.dir)
      BY <2>9, <2>12, DefinitionKeepsPast
    <3>2. PICK y, track : y = Session(u, q, x.samples) /\ track = c.track
      OBVIOUS
    <3>3. KeepsPast(s[track].rules.dir, y.rules.dir)
      BY <2>7, <3>1, <3>2 DEF Session
    <3>4. /\ AllCurrent(s) /\ s = [k \in DOMAIN s |-> s[k]] /\ track \in DOMAIN s
          /\ v = Put(s, track, y)
      BY <2>7, <2>8, <2>13, <3>2
    <3> QED BY ONLY <3>3, <3>4, PutKeepsPast
  <2> QED BY <2>6, <2>14, <2>15, <2>19, <2>20, RulesGoOn
<1> QED BY <1>7, <1>8

LEMMA CloseRules ==
  ASSUME NavInv, RulesInv, CloseSample
  PROVE  RulesInv' /\ PastKept(sessions, sessions')
<1> DEFINE w == sessions[call.track]
<1>1. PICK u, a, result :
        /\ u = Transition(w.tree, call.node, "Materialized")
        /\ result = [node |-> call.node, units |-> call.units, bound |-> call.bound,
                     generation |-> Generation(w.rules)]
        /\ a = With(w.samples, call.sample, result)
  OBVIOUS
<1>2. /\ ~Idle /\ call.pc = "units" /\ call' = NoCall
      /\ Tracks[call.track].prefixed => call.next > Len(UnitsOf(call.track, call.sample))
  BY DEF CloseSample, Idle
<1>3. /\ CallShape(call) /\ Grown(call, sessions) /\ call.next \in Nat \ {0}
      /\ call.track \in DOMAIN Tracks /\ call.sample \in SampleIndices(call.track)
  BY <1>2, Calling
<1>4. PICK c, s, x, track, sample : /\ c = call /\ s = sessions /\ x = w
                                    /\ track = c.track /\ sample = c.sample
  OBVIOUS
<1>5. PICK e, r, g : e = x.tree /\ r = x.rules /\ g = x.samples
  OBVIOUS
<1>6. /\ track \in DOMAIN s /\ s = [k \in DOMAIN s |-> s[k]] /\ x = s[track]
      /\ s[track] = Session(e, r, g)
  BY <1>3, <1>4, <1>5, SessionOf
<1>7. PICK v : v = Put(s, track, Session(u, r, a))
  OBVIOUS
<1>8. sessions' = v
  <2>1. Closed(s, track, u, a) = Put(s, track, Session(u, r, a))
    BY ONLY <1>6, UpdatedIs
  <2>2. sessions' = Closed(s, track, u, a)
    BY <1>1, <1>4 DEF CloseSample, Closed
  <2> QED BY <1>7, <2>1, <2>2
<1>9. AllCurrent(s) /\ DecodedSoFar(c, r) /\ FollowsRules(track, r, g)
  <2>1. AllCurrent(s) /\ DecodedSoFar(c, r)
    BY <1>2, <1>4, <1>5 DEF RulesInv, CallFollows
  <2> QED BY <1>5, <1>6, <2>1 DEF AllCurrent
<1>10. FollowsRules(track, r, a)
  <2>1. ResultCurrent(r, track, sample, c.bound)
    <3>1. /\ c.track \in DOMAIN Tracks /\ c.sample \in SampleIndices(c.track)
          /\ c.next \in Nat \ {0}
          /\ (Tracks[c.track].prefixed => c.next > Len(UnitsOf(c.track, c.sample)))
      BY <1>2, <1>3, <1>4
    <3>2. ResultCurrent(r, c.track, c.sample, c.bound)
      BY ONLY <1>9, <3>1, AllDecoded
    <3> QED BY <1>4, <3>2
  <2>2. result.bound = c.bound /\ result.generation = Generation(r)
    BY <1>1, <1>4, <1>5
  <2>3. Generation(r) \in Nat /\ Generation(r) <= Generation(r)
    BY <1>9 DEF FollowsRules, DefinitionsSound, Generation
  <2>4. \A k \in DOMAIN a : (k = sample /\ a[k] = result)
                              \/ (k \in DOMAIN g /\ a[k] = g[k])
    BY <1>1, <1>4, <1>5 DEF With
  <2> QED BY <1>9, <2>1, <2>2, <2>3, <2>4 DEF FollowsRules
<1>11. AllCurrent(v)
  BY <1>6, <1>7, <1>9, <1>10, PutCurrent
<1>12. RulesInv'
  <2>1. Idle'
    BY <1>2 DEF Idle, NoCall
  <2> QED BY <1>8, <1>11, <2>1 DEF RulesInv
<1>13. PastKept(s, v)
  <2>1. PICK y : y = Session(u, r, a)
    OBVIOUS
  <2>2. PICK old : old = r.dir
    OBVIOUS
  <2>3. Len(old.defs) \in Nat /\ Len(old.defs) <= Len(old.defs)
    BY <1>5, <1>6, <1>9, <2>2, DefinitionsCounted
  <2>4. KeepsPast(old, old)
    BY <2>3, FewerKeepPast
  <2>5. KeepsPast(s[track].rules.dir, y.rules.dir)
    BY <1>5, <1>6, <2>1, <2>2, <2>4 DEF Session
  <2> QED BY <1>6, <1>7, <1>9, <2>1, <2>5, PutKeepsPast
<1> QED BY <1>4, <1>8, <1>12, <1>13

LEMMA InitRules == NavigationInit => RulesInv
<1> SUFFICES ASSUME NavigationInit PROVE RulesInv
  OBVIOUS
<1>1. sessions = <<>> /\ Idle /\ DOMAIN <<>> = {}
  BY DEF NavigationInit, Idle, NoCall
<1> QED BY <1>1 DEF RulesInv, AllCurrent

NoPastChanged == call.pc = "units" => PastKept(sessions, sessions')

LEMMA RulesStep ==
  ASSUME NavInv, RulesInv, [NavigationNext]_navigation
  PROVE  RulesInv' /\ (NoPastChanged \/ UNCHANGED navigation)
<1>1. CASE UNCHANGED navigation
  <2>1. UNCHANGED <<sessions, call>>
    BY <1>1 DEF navigation
  <2> QED BY <1>1, <2>1, RulesStand
<1>2. CASE Idle /\ NavigationNext
  <2>1. NoPastChanged
    BY <1>2 DEF NoPastChanged, Idle
  <2>2. ~Proceed
    BY <1>2 DEF Proceed, Primed, CloseSample, FrameSample, Prime, RunUnit, Idle
  <2>3. ASSUME NEW track \in DOMAIN Tracks, NEW sample \in SampleIndices(track),
               PresentCached(track, sample) \/ OpenCall(track, sample)
        PROVE  RulesInv'
    <3>1. CASE PresentCached(track, sample)
      BY <3>1, RulesStand DEF PresentCached
    <3>2. CASE OpenCall(track, sample)
      BY <3>2, OpenCallRules
    <3> QED BY <2>3, <3>1, <3>2
  <2>4. CASE Open
    BY <2>1, <2>3, <2>4 DEF Open
  <2>5. CASE ~Open
    <3>1. UNCHANGED <<sessions, call>>
      BY <1>2, <2>2, <2>5 DEF NavigationNext, AnalysisEnds, BuildIndices, EnterChild,
                              ReturnToParent
    <3> QED BY <2>1, <3>1, RulesStand
  <2> QED BY <2>1, <2>4, <2>5
<1>3. CASE ~Idle /\ NavigationNext
  <2>1. Proceed
    BY <1>3 DEF NavigationNext, AnalysisEnds, BuildIndices, Open, OpenCall, PresentCached,
                CanEnter, EnterChild, ReturnToParent
  <2>2. CASE Primed
    BY <2>2, PrimedRules DEF Primed, NoPastChanged
  <2>3. CASE CloseSample
    BY <2>3, CloseRules DEF NoPastChanged
  <2>4. ASSUME NEW stop \in Stops({"start", "header"}), FrameSample(stop)
        PROVE  RulesInv' /\ NoPastChanged
    BY <2>4, FrameRules DEF FrameSample, NoPastChanged
  <2>5. ASSUME NEW stop \in Stops(AllPlaces), Prime(stop) \/ RunUnit(stop)
        PROVE  RulesInv' /\ NoPastChanged
    <3>1. CASE Prime(stop)
      BY <3>1, PrimeRules DEF Prime, NoPastChanged
    <3>2. CASE RunUnit(stop)
      BY <3>2, RunUnitRules DEF NoPastChanged
    <3> QED BY <2>5, <3>1, <3>2
  <2> QED BY <2>1, <2>2, <2>3, <2>4, <2>5 DEF Proceed
<1> QED BY <1>1, <1>2, <1>3

LEMMA RulesInvariant == NavigationSpec => []RulesInv
<1>1. NavInv /\ RulesInv /\ [NavigationNext]_navigation => RulesInv'
  BY RulesStep
<1> QED BY <1>1, InitRules, NavigationInvariant, PTL DEF NavigationSpec

(* A result that would be presented again was decoded against what its     *)
(* units would find now, and those that found nothing still would not:     *)
(* enterSample in app/analysis_session.cpp looks results up by generation. *)
THEOREM ReusedAreCurrent == NavigationSpec => []ReusedIsCurrent
<1>1. RulesInv => ReusedIsCurrent
  <2> SUFFICES ASSUME RulesInv, NEW t \in DOMAIN sessions,
                      NEW s \in DOMAIN sessions[t].samples, Cached(t, s)
               PROVE  ResultCurrent(sessions[t].rules, t, s, sessions[t].samples[s].bound)
    BY DEF ReusedIsCurrent, ResultCurrent, UnitCurrent
  <2>1. FollowsRules(t, sessions[t].rules, sessions[t].samples)
    BY DEF RulesInv, AllCurrent
  <2>2. sessions[t].samples[s].generation = Generation(sessions[t].rules)
    BY DEF Cached
  <2> QED BY <2>1, <2>2 DEF FollowsRules
<1> QED BY <1>1, RulesInvariant, PTL

(* Whatever a unit registers, lookups at or before the start of its span   *)
(* give what they gave (docs/adr/0028), replaced definitions included.     *)
THEOREM PastStaysUnaffected == NavigationSpec => PastUnaffected
<1> DEFINE Body == \A t \in DOMAIN sessions \cap DOMAIN sessions' :
       LET old == sessions[t].rules.dir
           new == sessions[t]'.rules.dir
       IN  (call.pc = "units" /\ Len(new.defs) > Len(old.defs)) =>
             LET added == new.defs[Len(new.defs)]
             IN  \A key \in DOMAIN old.byKey : \A pos \in 0..added.from :
                   ResolveBefore(new, key, pos) = ResolveBefore(old, key, pos)
<1>1. NoPastChanged => Body
  BY DEF NoPastChanged, PastKept, KeepsPast
<1>2. NavInv /\ RulesInv /\ [NavigationNext]_navigation => [Body]_navigation
  BY <1>1, RulesStep
<1> QED BY <1>2, RulesInvariant, NavigationInvariant, PTL DEF NavigationSpec, PastUnaffected

=============================================================================
