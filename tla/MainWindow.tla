----------------------------- MODULE MainWindow -----------------------------
(***************************************************************************)
(* The scheduling of an analysis by MainWindow (app/main_window.cpp) and   *)
(* the state of the tree view that it saves and restores.                  *)
(*                                                                         *)
(* The window analyses its session in batches, each posted to the event    *)
(* loop by the one before it, so that the user acts between any two: opens *)
(* another file, overrides the format, enters a child format and returns,  *)
(* moves the cursor, saves.  A restored selection and restored expansions  *)
(* wait until the batch that brings their nodes.                           *)
(*                                                                         *)
(* A tree is the sequence of the names of its rows: a row stands for a     *)
(* node of any level, a path for the name#row text that is saved of it.    *)
(***************************************************************************)
EXTENDS Naturals, Sequences, FiniteSets, SequencesExt

CONSTANTS
  Nothing,        \* an empty optional
  Closed,         \* no session
  Media,          \* the media files
  Formats,        \* the entry points of the rule packages
  Detected,       \* the format detected for a media file
  Layout,         \* names of the rows of a media file analysed as a format
  Child,          \* names of the rows of a child format or a sample
  Containers,     \* names of the nodes that declare a target format
  Caching,        \* cacheOptions_: whether sessions have a cache
  Saved,          \* session files written before the window was opened
  MaxGeneration,  \* bound: sessions and formats opened one after the other
  MaxDepth,       \* bound: frames on the navigation stack
  MaxActs         \* bound: acts of the user in the open windows

(* A session, a view, a path that is saved, and what is saved of a view.   *)
Frames   == [kind : {"child", "sample"}, row : Nat]
Sessions == [media : Media, format : Formats, caching : BOOLEAN, published : Nat,
             status : {"running", "complete", "failed", "cancelled"},
             cancelled : BOOLEAN, writes : BOOLEAN, frames : Seq(Frames)]
Views    == [depth : Nat, rows : Seq(STRING), current : Nat, expanded : SUBSET Nat]
Paths      == [name : STRING, row : Nat]
ViewStates == [expanded : SUBSET Paths, selected : Paths \cup {Nothing}]
Documents  == [media : Media, format : Formats, state : ViewStates]

ASSUME WindowAssumption ==
  /\ \A m \in Media : Detected[m] \in Formats
  /\ \A m \in Media, f \in Formats : Layout[m][f] \in Seq(STRING)
  /\ Child \in Seq(STRING) \ {<<>>} /\ Caching \in BOOLEAN
  /\ Saved \subseteq Documents \cup {Nothing}
  /\ Nothing \notin Paths \cup ViewStates /\ Closed \notin Sessions
  /\ MaxGeneration \in Nat /\ MaxDepth \in Nat /\ MaxActs \in Nat

VARIABLES
  generation,  \* analysisGeneration_
  posted,      \* the single-shot timers that have not fired
  session,     \* session_
  view,        \* analysisModel_ and the cursor and expansions of its view
  pending,     \* pendingSelectedAnalysisPath_, pendingExpandedPaths_
  snapshot,    \* rootViewStateSnapshot_
  document,    \* the session file on disk
  shown,       \* history: what the root tree showed when last displayed
  opened,      \* history: what became of the view since the session opened
  acts         \* bookkeeping: acts of the user so far

vars == <<generation, posted, session, view, pending, snapshot, document, shown, opened,
          acts>>

Path(rows, row) == [name |-> rows[row], row |-> row]
Resolved(path, rows) ==
  {row \in DOMAIN rows : path # Nothing /\ path = Path(rows, row)}

(* cursor: where the user or navigation placed the cursor since; placed:   *)
(* whether they did, and whether the tree view's handler has heard of it.  *)
Opened(from) ==
  [from |-> from, cursor |-> 0, placed |-> "not", folded |-> FALSE, left |-> FALSE]

NoPending == [selected |-> Nothing, expanded |-> {}]

(* The model after resetFromTree(): the view forgets cursor and expansions.*)
Fresh(depth, rows) ==
  [depth |-> depth, rows |-> rows, current |-> 0, expanded |-> {}]

Depth == Len(session.frames)
RootActive == session # Closed /\ Depth = 0

RowsOf(s) == SubSeq(Layout[s.media][s.format], 1, s.published)
ActiveRows(s) == IF s.frames = <<>> THEN RowsOf(s) ELSE Child

NewSession(media, format, caching) ==
  [media |-> media, format |-> format, caching |-> caching, published |-> 0,
   status |-> "running", cancelled |-> FALSE, writes |-> FALSE, frames |-> <<>>]

Init ==
  /\ generation = 0 /\ posted = <<>>
  /\ session = Closed /\ view = Fresh(0, <<>>)
  /\ pending = NoPending /\ snapshot = Nothing
  /\ document \in Saved
  /\ shown = Nothing
  /\ opened = Opened(Nothing)
  /\ acts = 0

-----------------------------------------------------------------------------
(* The view *)

(* captureRootViewSnapshot() of what a view displays. *)
Captured(v) ==
  [expanded |-> {Path(v.rows, row) : row \in v.expanded},
   selected |-> IF v.current = 0 THEN Nothing ELSE Path(v.rows, v.current)]

CurrentUserState_Displayed == Captured(view)

CurrentUserState ==
  IF Depth > 0 /\ snapshot # Nothing THEN snapshot ELSE Captured(view)

ExpandedAll(v) == [v EXCEPT !.expanded = DOMAIN v.rows]

(* The handler of currentChanged, which is emitted when the cursor comes to*)
(* another row and the signals of the selection model are not blocked.     *)
Preempted(p, v, row) ==
  IF row = v.current THEN p ELSE [p EXCEPT !.selected = Nothing]

(* applyPendingTreeState() with the root tree displayed. *)
Restored(v, p) ==
  [v EXCEPT
     !.expanded = @ \cup UNION {Resolved(q, v.rows) : q \in p.expanded},
     !.current  = IF Resolved(p.selected, v.rows) = {} THEN @
                  ELSE CHOOSE row \in Resolved(p.selected, v.rows) : TRUE]

Remaining_Forgotten(v, p) == NoPending

Remaining(v, p) ==
  [selected |-> IF Resolved(p.selected, v.rows) = {} THEN p.selected ELSE Nothing,
   expanded |-> {q \in p.expanded : Resolved(q, v.rows) = {}}]

-----------------------------------------------------------------------------
(* One batch *)

(* What analyzeBatch() may do to a session that has not ended.  A request  *)
(* to cancel may go unnoticed by a batch.                                  *)
Batches(s) ==
  {b \in [published : s.published..Len(Layout[s.media][s.format]),
          status : {"running", "complete", "failed", "cancelled"}, writes : BOOLEAN] :
     /\ b.status = "cancelled" => s.cancelled
     /\ b.status = "complete" => b.published = Len(Layout[s.media][s.format])
     /\ b.writes => s.caching}

(* finished(): the analyzer is terminal, by success or by failure. *)
Finished(status) == status \in {"complete", "failed"}

Analysed(s, b) ==
  [s EXCEPT !.published = b.published, !.writes = b.writes, !.status = b.status]

(* appendTopLevelNodes() refuses nodes that are not new to the model, and  *)
(* any node when the model displays another tree.                          *)
Refused(s, v, b) ==
  /\ s.frames = <<>> /\ b.published > s.published
  /\ v.depth # 0 \/ Len(v.rows) > s.published

Appended(s, v, b) ==
  [v EXCEPT !.rows = IF b.published > s.published
                     THEN @ \o SubSeq(Layout[s.media][s.format],
                                      s.published + 1, b.published)
                     ELSE @]

(* advanceAnalysis(g) past its guard: session, view, pending state and     *)
(* generation after a batch b of session s, and the timers it posts.       *)
Advanced(g, s, v, p, b) ==
  LET root    == s.frames = <<>>
      refused == Refused(s, v, b)
      rows    == Appended(s, v, b)
      polls   == IF Finished(b.status) /\ b.writes THEN <<[run |-> "poll", of |-> g]>> ELSE <<>>
      again   == IF b.status = "running" THEN <<[run |-> "advance", of |-> g]>> ELSE <<>>
  IN  [session    |-> Analysed(s, b),
       generation |-> IF refused THEN g + 1 ELSE g,
       view       |-> IF refused THEN Fresh(0, RowsOf(Analysed(s, b)))
                      ELSE IF root THEN Restored(rows, p) ELSE v,
       pending    |-> IF refused \/ ~root THEN p
                      ELSE IF b.status = "complete" THEN NoPending
                      ELSE Remaining(rows, p),
       timers     |-> IF refused THEN <<>> ELSE polls \o again]

-----------------------------------------------------------------------------
(* Bookkeeping *)

Shows == IF session' # Closed /\ session'.frames = <<>> THEN Captured(view') ELSE shown

ByItself == shown' = Shows /\ UNCHANGED acts
ByUser   == shown' = Shows /\ acts < MaxActs /\ acts' = acts + 1

-----------------------------------------------------------------------------
(* The event loop *)

Post(timers) == posted' = posted \o timers

Current_AnyGeneration(g) == session # Closed

(* The guard of both callbacks. *)
Current(g) == g = generation /\ session # Closed

(* advanceAnalysis() called back by its timer. *)
AdvanceAnalysis(i) ==
  /\ posted[i].run = "advance"
  /\ \/ /\ Current(posted[i].of)
        /\ \E b \in Batches(session) :
             LET a == Advanced(generation, session, view, pending, b)
             IN  /\ session' = a.session /\ generation' = a.generation
                 /\ view' = a.view /\ pending' = a.pending
                 /\ posted' = RemoveAt(posted, i) \o a.timers
     \/ /\ ~Current(posted[i].of)
        /\ posted' = RemoveAt(posted, i)
        /\ UNCHANGED <<generation, session, view, pending>>
  /\ UNCHANGED <<snapshot, document, opened>> /\ ByItself

(* pollAnalysisCache(): some or all of the pending writes may be answered. *)
PollAnalysisCache(i) ==
  /\ posted[i].run = "poll"
  /\ \/ /\ Current(posted[i].of)
        /\ \E left \in BOOLEAN :
             /\ left => session.writes
             /\ session' = [session EXCEPT !.writes = left]
             /\ posted' = RemoveAt(posted, i) \o (IF left THEN <<posted[i]>> ELSE <<>>)
     \/ /\ ~Current(posted[i].of)
        /\ posted' = RemoveAt(posted, i) /\ UNCHANGED session
  /\ UNCHANGED <<generation, view, pending, snapshot, document, opened>>
  /\ ByItself

Callback ==
  \/ \E i \in DOMAIN posted : AdvanceAnalysis(i)
  \/ \E i \in DOMAIN posted : PollAnalysisCache(i)

-----------------------------------------------------------------------------
(* Opening *)

(* What openMediaSource() and overrideFormat() have in common: nothing of  *)
(* the view survives, and the first batch runs before they return.         *)
StartedOver(s) ==
  /\ generation < MaxGeneration
  /\ \E b \in Batches(s) :
       LET a == Advanced(generation + 1, s, Fresh(0, <<>>), NoPending, b)
       IN  /\ session' = a.session /\ generation' = a.generation
           /\ view' = ExpandedAll(a.view) /\ pending' = a.pending
           /\ Post(a.timers)
  /\ snapshot' = Nothing
  /\ opened' = Opened(Nothing)
  /\ UNCHANGED document /\ ByItself

OpenMediaSource(media) == StartedOver(NewSession(media, Detected[media], Caching))

(* overrideFormat() when the detection was not ambiguous. *)
OverrideFormat(format) ==
  /\ session # Closed /\ format # session.format
  /\ StartedOver(NewSession(session.media, format, FALSE))

(* openSessionFile(): what an earlier document left pending is still there *)
(* when the first batch runs; the new document's state is stored after it. *)
OpenSessionFile ==
  /\ document # Nothing /\ generation < MaxGeneration
  /\ LET s == NewSession(document.media, document.format, Caching) IN
       \E b \in Batches(s) :
         LET a == Advanced(generation + 1, s, Fresh(0, <<>>), pending, b)
             v == IF document.state.expanded = {} THEN ExpandedAll(a.view) ELSE a.view
         IN  /\ session' = a.session /\ generation' = a.generation
             /\ view' = Restored(v, document.state)
             /\ pending' = Remaining(v, document.state)
             /\ Post(a.timers)
  /\ snapshot' = Nothing
  /\ opened' = Opened(document.state)
  /\ UNCHANGED document /\ ByItself

CancelAnalysis ==
  /\ session # Closed
  /\ session' = [session EXCEPT !.cancelled = TRUE]
  /\ UNCHANGED <<generation, posted, view, pending, snapshot, document, opened>>
  /\ ByUser

SaveSession ==
  /\ session # Closed
  /\ document' = [media |-> session.media, format |-> session.format,
                  state |-> CurrentUserState]
  /\ UNCHANGED <<generation, posted, session, view, pending, snapshot, opened>>
  /\ ByUser

-----------------------------------------------------------------------------
(* The user in the tree view, the diagnostics and the raw view *)

(* The cursor at a row, the nodes above it expanded; they are of the rows  *)
(* before it.                                                              *)
Revealed(v, row, above) == [v EXCEPT !.current = row, !.expanded = @ \cup above]
Above(row) == SUBSET (1..(row - 1))

(* The cursor is moved to a row, which the handler hears of unless it is   *)
(* there already.                                                          *)
CursorMoved(row, above) ==
  /\ row \in DOMAIN view.rows
  /\ view' = Revealed(view, row, above)
  /\ pending' = Preempted(pending, view, row)
  /\ opened' = [opened EXCEPT !.cursor = row,
                              !.placed = IF row = view.current THEN @ ELSE "heard"]
  /\ UNCHANGED <<generation, posted, session, snapshot, document>> /\ ByUser

SelectAnalysisNode(row) == CursorMoved(row, {})

(* A diagnostic whose node has a row is selected in its dock.              *)
OnDiagnosticSelected(row) ==
  /\ session # Closed
  /\ \E above \in Above(row) : CursorMoved(row, above)

(* A byte is clicked in the raw view: the cursor goes to the row of the    *)
(* node found there, or away if there is none (row 0), with the signals of *)
(* the selection model blocked, so that what is pending stays pending.     *)
SelectSourceBit(row) ==
  /\ session # Closed /\ row \in 0..Len(view.rows)
  /\ \E above \in Above(row) : view' = Revealed(view, row, above)
  /\ opened' = [opened EXCEPT !.cursor = row,
                              !.placed = IF @ = "heard" THEN @ ELSE "unheard"]
  /\ UNCHANGED <<generation, posted, session, pending, snapshot, document>> /\ ByUser

FoldNode(row) ==
  /\ row \in DOMAIN view.rows
  /\ view' = [view EXCEPT !.expanded = SymDiff(@, {row})]
  /\ opened' = [opened EXCEPT !.folded = TRUE]
  /\ UNCHANGED <<generation, posted, session, pending, snapshot, document>>
  /\ ByUser

(* The child's tree is displayed, its root selected and expanded. *)
Entered(frame) ==
  LET fresh == Fresh(Depth + 1, Child) IN
  /\ Depth < MaxDepth
  /\ session' = [session EXCEPT !.frames = Append(@, frame)]
  /\ snapshot' = IF Depth = 0 THEN Captured(view) ELSE snapshot
  /\ view' = ExpandedAll([fresh EXCEPT !.current = 1])
  /\ pending' = Preempted(pending, fresh, 1)

(* The tree left is displayed again, its cursor at row, if there is one.   *)
Displayed(depth, rows, row) ==
  LET fresh == Fresh(depth, rows) IN
  /\ view' = [fresh EXCEPT !.current = row]
  /\ pending' = Preempted(pending, fresh, row)

Leaving ==
  /\ opened' = [opened EXCEPT !.left = TRUE, !.cursor = view'.current,
                              !.placed = IF view'.current = 0 THEN "not" ELSE "heard"]
  /\ UNCHANGED <<generation, posted, document>> /\ ByUser

(* enterChildFormatOnCurrentNode(): entered, or entered and left at once   *)
(* because the child's root is not to be found.                            *)
EnterChildFormat ==
  /\ session # Closed /\ view.current # 0
  /\ view.rows[view.current] \in Containers
  /\ \/ Entered([kind |-> "child", row |-> view.current])
     \/ Displayed(Depth, ActiveRows(session), view.current) /\ UNCHANGED <<session, snapshot>>
  /\ Leaving

(* enterSampleOnCurrentRow(): tracks are listed once nodes are published.  *)
EnterSample ==
  /\ session # Closed /\ session.published > 0
  /\ \/ Entered([kind |-> "sample", row |-> 0])
     \/ Displayed(Depth, ActiveRows(session), 0) /\ UNCHANGED <<session, snapshot>>
  /\ Leaving

ReturnToParentFormat ==
  /\ session # Closed /\ session.frames # <<>>
  /\ LET parent == [session EXCEPT !.frames = Front(@)]
     IN  /\ session' = parent
         /\ Displayed(Depth - 1, ActiveRows(parent), Last(session.frames).row)
         /\ snapshot' = IF Depth = 1 THEN Nothing ELSE snapshot
  /\ Leaving

-----------------------------------------------------------------------------

Open ==
  \/ \E m \in Media : OpenMediaSource(m)
  \/ \E f \in Formats : OverrideFormat(f)
  \/ OpenSessionFile

User ==
  \/ CancelAnalysis \/ SaveSession
  \/ \E row \in DOMAIN view.rows : SelectAnalysisNode(row) \/ OnDiagnosticSelected(row)
  \/ \E row \in 0..Len(view.rows) : SelectSourceBit(row)
  \/ \E row \in DOMAIN view.rows : FoldNode(row)
  \/ EnterChildFormat \/ EnterSample \/ ReturnToParentFormat

Next == Callback \/ Open \/ User

Spec == Init /\ [][Next]_vars

-----------------------------------------------------------------------------
(* Types: no callback is ahead of the generation, the cursor and the       *)
(* expansions are rows of the tree, a frame is entered from a row below it.*)
SessionOK(s) ==
  /\ s \in Sessions /\ s.published <= Len(Layout[s.media][s.format])
  /\ \A k \in DOMAIN s.frames :
       s.frames[k].row <= IF k = 1 THEN s.published ELSE Len(Child)

ViewOK(v) == v \in Views /\ v.current <= Len(v.rows) /\ v.expanded \subseteq DOMAIN v.rows

Histories ==
  [from : ViewStates \cup {Nothing}, cursor : Nat, placed : {"not", "unheard", "heard"},
   folded : BOOLEAN, left : BOOLEAN]

TypeOK ==
  /\ generation \in Nat /\ acts \in Nat
  /\ posted \in Seq([run : {"advance", "poll"}, of : 0..generation])
  /\ session # Closed => SessionOK(session)
  /\ ViewOK(view)
  /\ pending \in ViewStates
  /\ snapshot \in ViewStates \cup {Nothing} /\ shown \in ViewStates \cup {Nothing}
  /\ document \in Documents \cup {Nothing}
  /\ opened \in Histories

-----------------------------------------------------------------------------
(* Properties *)

Live(run) == {i \in DOMAIN posted : posted[i] = [run |-> run, of |-> generation]}

(* However sessions replace each other and whatever is displayed, exactly  *)
(* one chain of callbacks advances an analysis that has not ended, none    *)
(* one that has, and the cache writes of a finished one are polled: no     *)
(* analysis stalls, is advanced twice over or by a callback meant for the  *)
(* session before it.                                                      *)
ChainsLive ==
  session # Closed =>
    /\ Cardinality(Live("advance")) = IF session.status = "running" THEN 1 ELSE 0
    /\ Cardinality(Live("poll")) <= 1
    /\ Finished(session.status) /\ session.writes => Live("poll") # {}

(* docs/adr/0109: "When a user saves a session while navigated inside a    *)
(* sample, the session document captures the root container's [...]        *)
(* expanded paths".  Any save writes what the root tree shows or showed    *)
(* when it was left, failed navigation and batches since notwithstanding.  *)
SavedIsRoots == [][document' # document => document'.state = shown]_vars

(* docs/adr/0110, "Interactive Preemption": a selection by the user gives  *)
(* up what is pending, "preventing asynchronous batch arrivals from        *)
(* stealing the user's cursor".  Once the handler has heard of a cursor    *)
(* placed by the user or by navigation, no batch moves it, wherever later  *)
(* clicks put it; one that was only placed unheard, in the raw view, does  *)
(* get moved.  And unless it was placed in any way, the selection of a     *)
(* session file is there when the analysis has finished, as are the saved  *)
(* expansions unless the user has changed them, whichever batches brought  *)
(* the nodes.                                                              *)
RestoredUnlessPreempted ==
  /\ opened.placed = "heard" => view.current = opened.cursor
  /\ (/\ RootActive /\ session.status = "complete"
      /\ opened.from # Nothing /\ ~opened.left) =>
        LET rows == RowsOf(session) IN
        /\ opened.placed = "not" =>
             \A row \in Resolved(opened.from.selected, rows) : view.current = row
        /\ ~opened.folded =>
             UNION {Resolved(q, rows) : q \in opened.from.expanded} \subseteq view.expanded

=============================================================================
