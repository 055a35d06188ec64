# StreamView in TLA+

StreamView is a read-only analyzer of media files: it detects a format,
runs the rules of that format over the bytes and shows the result as a tree of
nodes with their bit locations.  Analysis is progressive (a small batch per turn
of the event loop), can be cancelled and resumed, decodes large tables on
demand, and writes what it found to an on-disk page cache through a background
thread.  This directory holds the TLA+ modules of its stateful core, the TLC
configurations that check them, and TLAPS proofs.  `PROJECT.json` maps every
definition to the source lines it stands for.

## 1. Inventory

| Component (source below `src/src`) | State | Operations | What is hard, what makes it correct |
|---|---|---|---|
| `rules/analysis_cache_owner` | task queue, two limits, accepted and completed sequence, admission and shutdown flags, promises | start, submit (write/read), flush, shutdown, worker loop | threads, three condition variables, one-time shutdown: bounded queue, every accepted request answered, no lost wakeup, flush and shutdown mean what they say |
| `core/paged_cache` | lock file, SQLite database, markers of open batches | open, recover, readPage, commitBatch, destroy | crashes and failing statements at every point: atomic batches, exact markers, one connection, a foreign database left alone |
| `app/analysis_session`, cache part | cache status, owner, pending futures, page index, submitted flag | enableCache, analyzeBatch, pollCacheWrites, overrideFormat, destruction | writes fail later than they are accepted; the owner is replaced under a session: an active cache is complete and its index genuine |
| `app/analysis_session`, navigation | stack of frames, sample indices, a tree and a rule session per track and per child format, the results of samples | ensureSampleIndices, enterSample, enterChildFormat, returnToParent | a result is shown again only while what it was decoded with is current; a failed entry leaves nothing behind; one bound on all that is kept |
| `app/main_window` | generation, posted timers, pending selection and expansions, snapshot of the root view | open media or session file, override, cancel, save, enter and return, selection in tree, diagnostics and raw view, batch and poll callbacks | callbacks of a replaced session; the cursor is moved by user, navigation and restoration, with and without the handler hearing of it; a view is saved while another tree is displayed |
| `core/analysis_model` (tree) | nodes with state, parent, children, diagnostics | appendChild, transition, markPartial, resumeCancelled, snapshot, restore, lookup | identifiers are reused after a rollback: nothing that was shown may be taken back |
| `rules/mp4_isobmff_analyzer`, `mp4_box_scanner` | scanner cursor, queue of records, next box index, shared budget, deferred scan status | analyzeBatch, resumeAfterCancellation, windowDecoder | each record is a transaction that can be cancelled or run out of budget: no box lost, repeated or renumbered |
| `rules/window_decoder` | decoded entries per window | decodeWindow | pages in any order between batches, an entry that fails is rolled back |
| `rules/wav_riff_analyzer`, `riff_chunk_scanner` | cursor, tree, status | analyzeBatch, resumeAfterCancellation | records live in a local batch: order, settling, termination |
| `rules/aac_adts_analyzer`, `aac_adts_scanner` | cursor, resynchronization, tree | as WAV | as WAV, and a rarely polled token |
| `rules/h264_annex_b_analyzer`, `h264_start_code_scanner`, `h264_ebsp_rbsp_mapper` | scanner window, queue of NAL units, pending NAL unit, mapper cursor, update for the cache | analyzeBatch, resume, mapping | a NAL unit half mapped across batches and cancellations; start codes across read windows |
| `rules/dsl`, `dsl_ir`, `dsl_vm` | typed program; registers, tree and cursor of a run | compile, check, execute | nested branches and loops become one flat list with conditions: it must decode what the source means, and what the compiler accepts must execute |
| `rules/rule_execution_session`, `compound_structural_runner`, `structural_entry_runner`, `sample_payload_runner` | context directory, payloads, budgets of a transaction | begin, commit, roll back, run a compound, run a sample | staging, budget and rollback across nested runs |
| `core/context_directory` | every definition ever registered, candidates by key | register, replace, look up | a definition is replaced while dependants and kept results refer to it; the past must not change |
| `rules/mp4_sample_table_*` | sample index | extract, build, look up | agreement of six tables, overflow |
| `core/coordinates`, `bit_reader`, `source_pager`, `bounded_source_view` | positions | map, read, page | boundary arithmetic |
| `rules/format_selection`, detectors | candidates and their confidence | detect, select, override | ties and truncation |
| `rules/rule_package*`, `rule_catalog` | packages on disk, catalog | import, replace, resolve | partial failure of file operations |
| `rules/analysis_cache`, `analysis_cache_payload` | none | encode, decode | round trip, damaged pages |
| `app/session_document`, item models, widgets | view state | save, load, sync | incremental sync of a growing tree |

How they interact: `MainWindow` schedules one `AnalysisSession::analyzeBatch`
per turn of the event loop; the session calls its analyzer, which scans, runs
the DSL on each record and appends to the `AnalysisTree`; the views read the
tree between two calls.  Sample and table windows call `WindowDecoder` on the
same tree and the same budget.  After a batch the session submits a page to
`AnalysisCacheOwner`, whose worker calls `PagedCache`; the session collects the
futures with a nonblocking poll.  A cancellation token is one shared atomic
flag.  Entering a sample or a child format pushes a frame on the session's stack;
what is decoded there goes into a tree of its own, which the tree view then
displays, while the batches of the root analysis go on.  The hazards this leads to are in `PROJECT.json`, each at its line.

## 2. Modules

Cache:

- `PageStore` (pure): pages, requests, replies, and what a write or read may
  do to a store.
- `CacheService`: the abstract cache. Requests are admitted to a log, performed
  one at a time in order, answered in order; closing happens only after all
  of them.
- `AnalysisCacheOwner`: the thread, the queue and the condition variables.  A
  step is one critical section, one notification, or one piece of unlocked
  work, so the windows between `account`, `fulfil` and `complete` and between
  unlocking and notifying are there.  Variables carry the names of the members;
  `wpc` and `cpc` are the program counters of the worker and the clients;
  `promises` are the shared states of the futures.  It implements
  `CacheService` (`ServiceSpec`).
- `BatchStore`: the abstract `commitBatch`, all of a batch or none of it.
- `PagedCache`: one step per SQL statement or lock-file change; every statement
  may fail, and a process may die between any two.  Implements `BatchStore`
  (`AtomicBatches`).
- `AnalysisSessionCache`: the session's write path composed with `CacheService`
  (which `AnalysisCacheOwner` implements) as the owner it starts, drains and
  replaces.

Analysis:

- `AnalysisTree` (pure): a tree is a sequence of nodes, a node identifier is
  its position, as in the code; the operators are the member functions.
  Locations and values are left out.
- `PublishedTree`: the abstract tree a reader sees between two calls. It only
  grows, a known node keeps its parent, kind and order, a terminal state stays.
- `DslExecutor`: what executing one structure can do: status, nodes made, their
  states, the charge on the budget.
- `WindowDecoder`: pages of a window with a transaction per entry.
- `Mp4IsobmffAnalyzer`: extends `WindowDecoder`, both work on one tree and one
  budget.  `pc` is where the thread stands inside `analyzeBatch`.  The box
  scanner is `scanned`; the queue, the deferred status and the next index are
  the members of the same names.  Implements `PublishedTree` with what was shown
  at the last return (`PublicationSpec`).
- `BatchScan`: what a scanner's call and its caller share: the file, the batch,
  its limits, the status, the token.  All three scanners below extend it.
- `RecordPublisher`: the part of an analyzer that the WAV and the AAC analyzer
  have line for line in common: decode and settle the records of a batch, end
  the call, resume.  It has neither a queue nor transactions.
- `RiffChunkScanner`, `WavRiffAnalyzer`: the scanner's loop, and the publisher on
  top of it.
- `AacAdtsScanner`, `AacAdtsAnalyzer`: stepping from frame to frame,
  resynchronization and its lookahead, and the publisher on top of it.  A file is
  the frame length that a header at each position would declare.
- `H264StartCodeScanner`, `H264AnnexBAnalyzer`: the scanner with a start code as
  one position, the analyzer with its queue, the NAL unit whose payload is being
  mapped (`unit`) and the byte budget of a call.  `updates` is a history of the
  index updates handed out; `spans` says which record a NAL node is located at.

Rules and navigation:

- `ContextDirectory` (pure): definitions, the generations that replace them,
  dependencies and both lookups.
- `RuleSession` (pure): a rule session as a value, its transactions, and
  `RunCompound`, the whole of one run of a header with its payload: imports,
  staging, publication, budget, and every place where it may be interrupted.
- `SessionNavigation`: extends `RuleSession`; `enterSample` with its kept
  results, priming, framing, units and rollback, one step from one poll of the
  token to the next; child formats; the stack of frames.

Format language:

- `DslSource`: the items of a structure as the parser nests them, reading of
  fields, evaluation of expressions, and `Reading`: what a structure means, item
  by item on the nested source.  This is the abstract specification.
- `DslCompiler`: flattening with conditions, unrolling of loops, the tracker of
  bit offsets, the references that may be used.
- `DslVm`: the checks before a run and the byte code, one instruction a step,
  under limits, read errors and cancellation.

Window:

- `MainWindow`: the event loop with its posted callbacks, the session as far as
  a batch changes it, the rows, cursor and expansions of the tree view, what is
  pending to be restored, and the session file.  The user moves the cursor in the
  tree (`SelectAnalysisNode`), by a diagnostic (`OnDiagnosticSelected`) and by a
  click on a byte in the raw view (`SelectSourceBit`); the first two run the
  handler of `currentChanged`, which gives up the pending selection (`Preempted`),
  when the cursor comes to another row, the click never does, as its signals are
  blocked.  `shown` and `opened` are histories for the properties; `opened.placed`
  says whether the handler has heard of a cursor placed since the session opened.

The `MC*` modules give the constants small values.  Operators called
`Name_Something`, before the definition they resemble, are plausible bugs of
`Name` used to see that a property notices them; nothing else refers to them.

## 3. Runs

| Run | Instance | Shows |
|---|---|---|
| `analysis_cache_owner` | 2 clients, 2 outstanding, 2 bytes, 2 requests out of three (0, 1 and 2 bytes), fairness | safety of the owner, refinement of the service, every request is answered, every call returns |
| `paged_cache` | 2 instances, 2 namespaces, 2 pages, 3 batches, 2 crashes | atomicity, markers, single connection, foreign files |
| `analysis_session_cache` | an indexed and a plain rule, 3 updates | completeness and order of what is written, failures surface, writes are collected |
| `mp4_isobmff_analyzer` | a container with a table of 2, a leaf, a container nested too deep; 2 records a batch, 10 nodes, 2 cancellations | transactions, windows, publication, termination |
| `wav_riff_analyzer` | files of 0, 1 and 4 records with and without trailing bytes, batches of 3 and 2 inspections, 2 cancellations | order, settling, termination |
| `aac_adts_analyzer` | files without a frame, with three frames of which the last is truncated, with a false header first, with false headers refuted by the next frame and by the one after; headers of 2 bytes, a poll every 3 bytes, 2 records and 3 positions a batch, 2 cancellations | what is published is the enumeration of the stream |
| `h264_annex_b_analyzer` | a file without a start code, one of three NAL units (payload and framing, empty, payload of two bytes); 2 records and 4 positions a batch, 1 mapped byte a call, 2 cancellations | nothing dropped, index updates, termination |
| `session_navigation` | a track of five samples that redefine, extend and use two configured parameter sets, an opaque track, a child format; 60 nodes kept, 14 a call, 3 units a sample, 2 frames, 1 interruption | results shown again are current, failures leave no trace, bounds hold, the past is unaffected |
| `dsl_vm` | 14 structures, each construct alone and nested, a lazy region whose length overflows, three of them to be rejected; every source of up to 6 bits (a byte has 2, a number 4), reads that fail, two sets of limits, a cancellation at any instruction | the byte code decodes what the source means and is never refused |
| `main_window` | one media file of two rows of one name, two formats, two session files; 2 sessions, 2 frames, 3 acts of the user | one live chain of callbacks, what is saved, what is restored |
| `wav_resume_loses_records` | as above, 1 cancellation | finding 1 |
| `dsl_while_iterations` | as `dsl_vm`, one structure | finding 2 |

What the properties say.  (The type invariants are not among them: `TypeOK` of the
owner, the paged cache, the session's write path, the window and the WAV, H.264 and
MP4 analyzers is proved, the others are in their modules.)

- *Owner.* `QueueBounded`: charged requests and bytes are what the counters say
  and within the limits.  `AnsweredNotCharged`: who has an answer no longer
  takes room.  `DrainedMeansAnswered`, `WaitingFlushDrains`: what a flush
  returns is true, also when a shutdown races it.  `ShutdownDrains`: nothing
  accepted is abandoned.  `NoLostWakeup`: a worker asleep with work or a
  shutdown to see always has a notification coming.
- *Pages.* `SingleConnection`: two live connections never exist, stale locks
  included.  `CommittedLeavesNoMarker` and `InterruptionLeavesMarker`: after any
  crash the markers name the interrupted batches and never a committed one.
- *Session.* `IndexPagesGenuine`: page i is update i of that rule, across
  refusals, late activation and overrides.  `ActiveIsComplete`: "active" means
  everything reported so far was accepted.  `FailureSurfaces`: it does not stay
  "active" over a failed write.  `WritesAreCollected`: nor is a write forgotten.
- *MP4.* `NoRecordLost`: published boxes and the queue are together the scanned
  prefix of the file, in order, after any rollback.  `EntriesInPlace`: the
  decoder's index and the tree agree.   `PublicationSpec`, `AnalysisEnds`.
- *WAV.* `GapsOnlyBehindCancelled`: never twice, never out of order, and nothing
  skipped except behind a record whose decoding was cancelled (finding 1 is
  about that exception).  `RecordsSettled`, `AnalysisEnds`.
- *AAC.* `FramesAsEnumerated`: wherever batches end, the frames published are those
  of a definition over the whole file that knows neither batches nor the
  scanner's belief to be in step, with gaps only behind a cancelled frame.  It
  stops speaking once a lookahead has failed (section 6).  Settling
  and the return of the call are the code of `RecordPublisher`, checked for WAV.
- *H.264.* `IndexIsFaithful`: the updates of the progressive index, across
  cancelled and resumed calls, are consecutive, and name the file's NAL units, in
  the end all of them, against a definition that does not mention the scanner.
  `NothingDropped`: what the index has named is in the tree or queued, in file
  order; a complete analysis has published every NAL unit of the file (the
  contrast to finding 1).
- *Navigation.* `ReusedIsCurrent`: a sample shown again without decoding it was
  decoded against what its units would find now.  `SweepHeals`: in whatever order
  samples are visited, once all are current the directory says what decoding the
  track from start to end says (for which tracks: section 4).  `FailureLeavesNoTrace`: a failed entry leaves no
  definition, node, charge or session, wherever it fails.  `PresentedIsSettled`:
  no half-built tree is presented.  `PastUnaffected`: what is registered is seen
  behind it only.  `RetentionBounded`: kept results and new ones share one limit.
- *Format language.* `DecodesAsWritten`: a run that ends has made the nodes, the
  values and the cursor that `Reading` gives, a failed or limited one a
  beginning of them.  `AcceptedIsExecutable`: the checks of the virtual machine
  refuse no program that the compiler accepted.
- *Window.* `ChainsLive`: a running analysis has exactly one chain of callbacks,
  an ended one none, and pending cache writes are polled.  `SavedIsRoots`: a save
  writes what the root tree shows or showed when it was left.
  `RestoredUnlessPreempted`: once the handler of `currentChanged` has heard of a
  cursor placed by the user or by navigation, no batch moves it, wherever later
  clicks put it; and where the cursor was not placed in any way, selection and
  expansions of a session file are there when the analysis is complete, whichever
  batches brought the nodes.  A cursor that was only placed unheard, by clicks in
  the raw view (or by selecting again the row it is on), is moved by a batch: that
  is what ADR-0110 rules out and the code does (section 5).

**Bounds.** Named constants bound submissions (`MaxRequests`), batches
(`MaxTokens`), crashes (`MaxCrashes`), index updates (`MaxUpdates`),
cancellations (`MaxCancels`), interruptions (`MaxFaults`), frames (`MaxDepth`),
sessions opened (`MaxGeneration`) and acts of the user (`MaxActs`); the others
are parameters of the code.  Two
clients suffice for the races of a flush or a submit with a shutdown, and for
two shutdowns; two requests fill the queue of two, and their sizes reach the byte
limit alone and together, so that the second one is refused by it (the count
limit refuses nothing in this run; the theorems of section 4 have both, for any
number).  Two instances contend
for a lock, three batches overwrite each other across a crash, two crashes hit a
recovery as well.  The MP4 file has a batch boundary inside it, a record behind
a failing one, a window, and a budget that runs out at different points
depending on what windows were opened; the WAV batches end by the record limit,
by the inspection limit and by the end of the file; so do the AAC batches, which
end in the middle of every resynchronization, and the H.264 batches, whose payload of two bytes is mapped over two calls.  Two cancellations hit a
resumed analysis again.  The samples contain a definition that replaces a
configured one, one that depends on it, units that use either, a unit that
fails and a sample that cannot be framed; the 60 nodes do not hold all of
them at once, one interruption falls at each of the places where a call
looks, and a second frame is entered on top of one that has to stay settled.  Six bits are three bytes, enough for two iterations of every loop, for
a value that ends in the middle of a byte and for trailing bits; the smaller set
of limits stops a run at its nodes or its instructions.  In the window, two
generations are one replacement at every point of the first session, two frames
a child below a child, three acts a selection, an entry and a save.

**Fairness.** The worker of the owner and an awake client thread are scheduled
by the operating system: weak fairness on `Run`, on `AwaitReady`, and on what
each client has to do to return from a call (never on making one).  The event
loop runs the batch that is scheduled, then the poll while futures are pending
(`advanceAnalysis`, `pollAnalysisCache`): weak fairness on those, on the worker
and on a destructor that joins it.  For the analyzers, a call that was entered
returns (weak fairness on its steps), and the host calls again until the
analysis is finished: weak for WAV and H.264, strong for MP4, because a window call on the
same thread may come between two batches and disables the batch while it lasts.
Nobody has to resume a cancelled analysis (the application itself never does, it
is the analyzer's interface and its tests that offer it).

**Deadlock** is not checked in these runs because each system really stops: the
owner once shut down, the session once destroyed, the cache when the explored
batches and crashes are used up, the analysis and the run of a structure when
they are finished, the window when the explored acts are used up.  That nothing
stops too early is what the liveness properties and `NoLostWakeup` are for.

## 4. Proofs

Eight modules hold the proofs: `AnalysisCache_proof` (the owner of a cache and
the database below it), `AnalysisSession_proof` (the write path and the navigation
of the session), `MainWindow_proof`, `AnalysisTree_proof` (with the runs of a
structure; the next four rest on it), `WavRiffAnalyzer_proof`,
`AacAdtsAnalyzer_proof`, `H264AnnexBAnalyzer_proof` and `Mp4IsobmffAnalyzer_proof`.
Each component has one strengthened invariant, `IInv` (`CacheInv` for the database,
`NavInv` for navigation), one lemma per action and one theorem per property.  The
only assumptions are those the modules name; they are listed at the end.

**The owner.**  For any set of clients, requests, sizes and
limits and any number of submissions: `TypeOK`, `AnsweredNotCharged`,
`DrainedMeansAnswered`, `ShutdownDrains`, `NoLostWakeup`, `WaitingFlushDrains`,
`QueueBounded`, and that the owner implements the service
(`OwnerImplementsService`).

None of these is inductive: whether a request is answered depends on where the
worker stands between taking and completing it.  The invariant `IInv` adds that
the queue is exactly the accepted sequences not yet taken, in order; that the
task in hand is the last one taken; that the answered requests are a prefix whose
length is the number taken, less one while the worker holds an unanswered task;
that the completed sequence trails it by the step between `fulfil` and
`complete`; that `outstanding` counts the queue plus an uncharged task in hand;
which flags go with which position of the worker (`WorkerLife`) and of the
callers (`CallLife`); and what flush targets relate to (`FlushGoals`).  The
refinement maps the log to the promises, the
service's hand to the worker's result, and each step of the owner to one
step of the service or a stutter.

`QueueBounded` compares the byte counter with a sum over a set of requests, and the
library's induction cannot be used for it.  Instead a *measure* is a function
on all subsets at once that gives each non-empty set the weight of some element plus
that of the rest.  The fold computes one, a set is split at its least element
(`LeastNatural` takes the place of induction), and adding an element to a
charged set adds its weight.  Navigation uses the same lemmas for the nodes of all
sessions.

**Pages.**  For any set of instances, namespaces, pages and
batches and any number of calls, crashes and failing statements, all six
properties of the module: `CacheTypeOK`, `SingleConnection`,
`CommittedLeavesNoMarker`, `InterruptionLeavesMarker`, `ForeignUntouched`, and
that it implements `BatchStore` (`BatchesAtomic`).  `CacheInv` says of each
instance: unless closed it holds the live lock, so nobody else is at work
(`HoldsLock`, lemma `Alone`); it has a connection only between `connect` and
`unlock` (`Connected`); it works only on a database of ours (`Identified`);
inside `commitBatch` its marker is on disk and belongs to no batch committed or
interrupted (`Marked`); and its open transaction is the disk plus exactly the
pages of the batch already written (`Transaction`), which is what makes the
COMMIT one atomic `Succeed`.

**The session's writes.**  For any rules and number of pages, `TypeOK`,
`IndexPagesGenuine` and `ActiveIsComplete`.  `IInv` looks ahead of the store:
requests that are queued are as genuine as pages that are written (`LogGenuine`),
or a page could still become foreign; an active cache has an owner and has numbered
a page for each update (`InStep`); before the first batch nothing has been
published under any rule (`Untouched`), which is what allows a late activation and
an override to start from an empty index; and `LogComplete` is `ActiveIsComplete`
also while the session waits inside an operation.

**Navigation.**  For any tracks, samples, units, headers, limits and depth of the
stack: `RetentionBounded`, `FailureLeavesNoTrace`, `PresentedIsSettled`,
`ReusedIsCurrent` and `PastUnaffected`.  A call
changes the session of its track step by step while the other sessions, and
those of the state it began in, wait to be shown again.  `NavInv` therefore speaks of
`Kept`, the sessions between two calls and `call.before` during one: their results are
finished, their trees are trees, their nodes are within the bound
(`KeptSound`); and of the call it says only what it added (`Underway`): the other
sessions are those it found (`Grown`), its session's tree is the one it found plus
what is below the sample's node (`DecodingIn`, `Saved`), and the nodes of the
others, the snapshot and the limit of the call together are within the bound
(`Preparing`), which is `RetentionBounded` with room for what is still to come.
`FailureLeavesNoTrace` then is `RestoreUndoes` of the tree lemmas and the
restored rules.  For a child format the tree is at most one node larger than what
its rule session has spent (`ChildrenSound`).

The other two are about definitions, and need both what a registration does and
when it happens.  `Unaffected` says that a directory answers at a position as
another one did: the same candidates there, and the same definitions behind them.
Then lookups, chains of dependencies, imports and bindings there are the same
(`ResolveUnaffected`, `BindingUnaffected`), because the recursive functions that walk
a chain solve the same equations.  A registration from the stream, new or in the
place of a stale definition, leaves every position up to the start of its span
unaffected (`InsertedExtends`, `ReplacedExtends`): its span is not empty and ends
behind them.  That is `PastUnaffected`, but for a call that gives up, which never
has more definitions afterwards (`NoFewer`).  For `ReusedIsCurrent` a
unit must also stay current while later units of its sample are decoded, which
`DecodedSoFar` says of the call under way: they begin behind it, so what they define is
behind it too.  When the sample is kept, its generation is that of the rules; any
later definition makes the generations differ, and a call that fails brings
back sessions of which the same held (`AllCurrent` of `call.before`).

**The tree.**  `AnalysisTree_proof` is about operators.  `Tree` says that every node
but the root is among the children of exactly one older node, its parent, once.
`AppendChildTree`: appending a child keeps that and everything else; every transition and mark
does.  `RestoreUndoes`: restoring a snapshot of a node gives back the tree, whatever
was marked, settled or appended below that node (`Below`) since.  `DecodedBelow`:
a run of a structure, however it ends, does nothing but that.  Its last section is
about records published below the root one by one, as WAV and AAC do: one more leaves
the others as they are (`RecordAppended`), and decoding the youngest settles it and
touches no other (`YoungestSettled`).

**WAV.**  For any files, batch and inspection bounds and numbers of cancellations:
`TypeOK`, `GapsOnlyBehindCancelled`, `RecordsSettled`.  The batch is local to the
code's call, so `IInv` has to say where in the file it lies: it is the run of records
framed last (`BatchIsRun`), the published ones are in order up to where it begins
(`SpansInOrder`, `GoesOn`), all but the one being decoded are settled (`Settled`), and
there is a cancellation request for each cancelled record (`Counted`), which is how the
number of gaps is bounded.

**AAC.**  For any files, header length, batch and inspection bounds and numbers of
cancellations: `TypeOK`, `FramesAsEnumerated`.  The enumeration is a recursive function
on positions of the file, which a prover only knows as some function that solves its
equation.  `SolutionExists` builds a solution from the end of the file towards its
beginning; from the equation follows that the frame behind the first `n` is the one
`NextAt` their end, and that there is none if nothing is next (`FramesRest`,
`FrameIsNext`).  `IInv` then needs no recursion.  The scanner has found the first `n`
frames (`Reached`): in sync it stands at the end of the last one; out of sync there is
no header at that end, and no position passed since has a header that its successors
confirm.  The batch is the last ones of these `n` (`BatchIsRun`), and `at` says which of
them the published nodes are (`SpansInOrder`, `GoesOn`).  A frame the scanner takes is
therefore the next one of the enumeration (`TakenIsNext`), wherever the batch before it
ended, and a byte it skips does not begin one (`ReachedBySkipping`).  All of this holds
until a read fails in a lookahead (`blind`), as the property does.

**H.264.**  For any file, batch, inspection and mapping bounds: `TypeOK`,
`NothingDropped`, `IndexIsFaithful`.  A NAL unit is in the tree, in the queue, in the
batch of a scan or still open.  `ScannedInOrder` says that these four, one behind the
other, are the beginning of the file's list of NAL units at every step;
`UpdatesJoin` that the index updates cut exactly this list into pieces; `Deferral` that
the end of a scan is kept until it is used up, so that Complete comes after the queue;
`Mapped` that the unit being mapped is the last one published.  The list of a file is
a recursive function in the properties; the proof solves it (`UnitsOf`) and shows that
the solution is the only one.

**MP4.**  For any boxes, however deep (`AnyBox`), any limits, page sizes and
cancellations: `TypeOK`, `EntriesInPlace`, `NoRecordLost`, and that the analyzer
implements `PublishedTree` (`AnalyzerPublishes`).  While a record is under way the
tree holds half a box, so everything is said of `Base`, the tree as it would be if
the record were rolled back now: its boxes and the queue are the scanned prefix
(`BoxesInOrder`), its windows and the decoder's index agree (`WindowsAgree`), and it
extends what was shown.  Inside a record no step changes `Base`
(`Transaction`); a commit and a rollback make it the tree.  The refinement is the last part: what a
reader sees only ever extends to `Base`.

**The window.**  For any files, formats, trees, depth of navigation,
number of sessions and acts of the user, `TypeOK`, `ChainsLive`, `SavedIsRoots` and
`RestoredUnlessPreempted`.  Its `IInv` says that the view holds the rows of the
active tree (`Displays`), so that the model never refuses a batch; that no callback
of the current generation is posted twice (`Once`) and which ones are posted
(`Chained`), from which the two cardinalities follow; that what the root showed
last is what it shows or what the snapshot keeps (`RootKept`); that nothing is
awaited once the handler has heard of a placed cursor (`Placed`); and that each path of the session file is
pending as long as the tree lacks it and restored as soon as it has it
(`Restoring`).

**Assumptions.**  Of the code's parameters: limits and batch sizes are positive
(`OptionsAssumption`, `BatchAssumption`, both `AnalyzerAssumption`s, `WindowAssumption`
of the window decoder); requests are well-formed writes or reads, batches
non-empty page sets, files sequences of records, frame lengths, positions or boxes
(`OwnerRequestsAssumption`, `BatchesAssumption`, `RiffAssumption`, `AdtsAssumption`,
`ScannerAssumption`); layouts are sequences of names and a child has at least its
root (`WindowAssumption` of the window); samples consist of units that lie one behind
the other and are not empty, as the framer produces them, imports are those of the
payload structure, and a sample without length prefixes has no units
(`NavigationAssumption`).  Of the model: its bounds are numbers, and the
marks for "no reply", "no owner", "no call", "nothing" and the like are not
values (`PendingAssumption`, `PageValuesAssumption`, `CancelAssumption`,
`BoundsAssumption`).  TLC evaluates each of them in a run.

The types are theorems and therefore no run spends a property on them.

**Only model-checked.**  Liveness and anything with `ENABLED`, which are out of the
prover's reach; everything about `DslCompiler` and `DslVm`, which are recursive; and
`SweepHeals` of navigation, which does not follow from `NavigationAssumption` and is
therefore a statement about tracks like that of the run.  TLC refutes it on three
variations of that track: samples that overlap (whichever is visited first
registers, the other is a duplicate), samples that lie in the source in another
order than they are numbered, and a chain of three definitions (a definition that
depends on a parameter set which itself depends on another stays behind as a stale
one when the first of the chain is redefined, where decoding in order never
registers it; lookups give `DependencyUnavailable` in place of `NotFound`).  With
the samples in stream order, disjoint, and chains of two, as SPS and PPS have them,
it holds on the track of the run, and held on two variations of it, with and without
configured parameter sets.

## 5. Findings

1. *WAV, cancellation loses records* (`wav_resume_loses_records`).  The batch is
   local to `analyzeBatch`; when decoding a record is cancelled the call returns
   (`wav_riff_analyzer.cpp:512`) and the rest of the batch is gone although the
   scanner has passed it.  After a resume the analysis says Complete without
   them.  ADR-0115 promises ADR-0027's recovery, which goes on with the next
   queued or unscanned record.  The AAC analyzer drops the rest of a batch in the
   same way (`aac_adts_analyzer.cpp:527`), which is why `FramesAsEnumerated` allows
   gaps behind a cancelled frame.
2. *A check decides again whether its iteration runs* (`dsl_while_iterations`).
   Whether an iteration of a `while` repeat is there is decided at its first
   field (`dsl_vm.cpp:2594`); a check anchored at that field has the same
   subject, so `more_rbsp_data()` is evaluated again after the field was read.
   When nothing is left by then, the check and the rest of an iteration that has
   begun are skipped and the structure ends Materialized; ADR-0080 has them
   decoded sequentially.

The reuse of node identifiers after a rollback is documented (ADR-0097) and not
a finding; `PublicationSpec` shows that it never reaches a reader.

Seen while modelling, without a run of their own:

- MP4: after a content error in a box header `publishRecord` returns without
  settling the box node (`mp4_isobmff_analyzer.cpp:443`); the finished analysis
  leaves it `Indexing`, which `docs/analysis-model.md` reserves for active work.
- AAC: the scanner starts in sync (`aac_adts_scanner.h:101`), so a false header at
  offset 0 becomes a frame; ADR-0092 has the lookahead "upon stream
  initialization", too.
- AAC: a read that fails in a lookahead (`aac_adts_scanner.cpp:218`) is looked
  at one position later, in a variable of the call.  When the batch ends in
  between it is lost, and with it a well-formed frame; ADR-0093 has only malformed
  bit sequences skipped.  `FramesAsEnumerated` holds as long as no lookahead fails.
- Compiler and virtual machine do not agree on everything: a `@range` on a value
  of ff coding is accepted (`tests/rules/dsl_ir_test.cpp:3263`) and refused at its
  instruction; a check anchored at such a value, a branch on a value of dynamic
  width and a context value in the size of a lazy region are accepted and
  refused before the run.  After values of unknown length the compiler keeps the
  last known offset within a byte (`dsl_ir.cpp:2355`), so that a lazy region may be
  accepted where none can start.  The structures of `MCDslVm` leave these out;
  `AcceptedIsExecutable` is about the rest.
- Window: a batch steals the cursor.  A click on a byte in the raw view
  (`main_window.cpp:98`) sets or clears the cursor of the tree under a
  `QSignalBlocker` (`selectSourceBit`, :1820 and :1827), so the handler at :305 does
  not run and `pendingSelectedAnalysisPath_` stays; the batch that brings the saved
  node moves the cursor there (:575).  In the model: a session file is opened whose
  selection is the second row, the first batch brings the first row, a byte of it
  is clicked, and the second batch puts the cursor on the second row
  (`opened.cursor # 0 => view.current = opened.cursor` is violated).  ADR-0110,
  "Interactive Preemption"
  (`docs/adr/0110-phase-7-fuzzing-hardening-performance-and-release.md:160`), has a
  manual selection in `analysisTreeView` clear the path, "preventing asynchronous batch arrivals from
  stealing the user's cursor".  After such a click even selecting the same row in
  the tree does not clear it: `currentChanged` is not emitted for the row the
  cursor is on.  `RestoredUnlessPreempted` promises a cursor its place only once
  the handler has heard of one.
- Window: `openSessionFile` runs the first batch before it replaces the pending
  paths (`main_window.cpp:935`), so that paths an earlier session file left
  pending are applied to the new tree if it has them; ADR-0109 says the state is
  "cleanly reconstructed".  Saving, or entering a child, while restored paths are
  still pending loses these; returning to the root does not bring its
  expansions back.  The properties of the window are worded so that they hold
  beside this.

## 6. Abstractions and what is left out

`QLockFile` and SQLite are external: a lock of a dead process is found stale and
a live one never is; a statement outside a transaction and a `COMMIT` are atomic
against the death of a process; `ROLLBACK` succeeds.  Power loss is not modelled.
A page is its contents, `Missing` or `Damaged`.  A condition variable has no
spurious wakeups, since they re-test the same predicate.  In the MP4 module a
failed read or an undecodable header inside a container is one failure;
arguments that are refused without effect (zero batch sizes) are no steps.
Sizes, offsets, messages and, outside the format language, decoded values are
left out, as are widgets, translations, the codec of cache pages and the
command-line tool.  For the analyzers the format language is `DslExecutor`, the
possible outcomes of a run; `DslVm` is what is behind it.

In `ContextDirectory` a location is an interval on one line.  In `RuleSession` a
structure is one node, and the node budget stands for the three that are kept
alike.  In the format language a byte has `ByteBits` bits; arrays, byte orders,
scans, payload dispatch, types, names and annotations are left out, as is a
`while` inside a `while`.

In the window the rows of a tree are flat: a row stands for a node of any level
and is found by name and row (`findIndexByPath` also tries weaker matches).  A
batch is what the session could have done.  `maybeSave` is a save followed by an
open.  An override is one whose detection was not ambiguous.  A click
in the raw view finds any row or none, and of the rows before it any may be
expanded as its ancestors; what the raw view highlights is left out, as are
what the docks show, dialogs, timeline pages and bookmarks.

*Not modelled*: `core/coordinates` and the pagers and views over a source, pure
arithmetic on ranges; `FileSource` and `SourceFingerprint`, file input whose failure
is an outcome where it is used; format detection and selection; payload
transforms; the MP4 sample tables; rule packages; the JSON of a session
document; the item models and widgets; `svtool`.  None of them runs concurrently
or keeps state across failing steps except the import of rule packages, which is
first in the plan.

## 7. Plan

1. `RulePackageStore` and `RuleCatalog` with failing file operations.
2. `H264EbspRbspMapper` byte by byte against a reference definition, across
   batches and limits; the bytes of a start code across read windows.
3. `Mp4SampleTableIndex`, `SourceMapping`, `SourcePager` and `FormatSelection` as
   operators against reference definitions; the 64-bit arithmetic of the two
   container scanners.
4. Arrays, byte orders and scans in the format language.
5. Nested rows in the window, with the incremental sync of the tree model.

Theorems to prove next: a `SweepHeals` restricted to tracks whose samples are disjoint
and in stream order and whose chains have two links, after an invariant that each
key's candidates are, up to those that are stale, the ones in-order decoding makes.
