---------------------------- MODULE WindowDecoder ----------------------------
(***************************************************************************)
(* rules/window_decoder.cpp: the entries of a sample-table window are      *)
(* decoded page by page into the analyzer's own tree.  One thread runs the *)
(* analyzer and its decoders, so a call is a sequence of steps nothing but *)
(* a cancellation request, which any thread may make, comes between.  The  *)
(* state of a decoder, which entry became which node, belongs to the       *)
(* analyzer, one per window identifier; a decoder object is taken anew for *)
(* every call.                                                             *)
(***************************************************************************)
EXTENDS DslExecutor

CONSTANTS PageSizes,     \* page sizes callers ask for
          MaxNodes,      \* RunnerExecutionBudget::remainingNodes at the start
          MaxCancels     \* bound of the model on cancellation requests

ASSUME WindowAssumption == /\ PageSizes \subseteq Nat \ {0}
                           /\ MaxNodes \in Nat
                           /\ MaxCancels \in Nat

VARIABLES nodes,        \* the analysis tree
          remaining,    \* nodes left in the budget all calls share
          cancelled,    \* whether cancellation of the present token is asked
          cancels,      \* cancellation requests made so far
          pc,           \* where the analyzing thread stands; "idle": in no call
          entries,      \* windowDecoderStates_: window id -> index -> node id
          call,         \* the page being decoded
          shown         \* the tree when the thread last returned from a call

NoCall == [window |-> 0, next |-> 0, end |-> 0]
Entry  == [form |-> "leaf", room |-> 0]

IsWindow(w) == w \in DOMAIN nodes /\ nodes[w].kind = "window"

(* The state createState() gives a window that has none. *)
StateOf(w) == IF w \in DOMAIN entries THEN entries[w] ELSE << >>

Put(f, x, y) == [z \in DOMAIN f \cup {x} |-> IF z = x THEN y ELSE f[z]]

Return == pc' = "idle" /\ shown' = nodes'

(* A page of an incomplete window needs it to be indexing again. *)
EnterIndexing(t, w) ==
  IF t[w].state = "Cancelled" THEN ResumeCancelled(t, w)
  ELSE Transition(t, w, "Indexing")

(* windowDecoder(w) and the head of decodeWindow: the page is clamped to   *)
(* what the region holds (a page past the end changes nothing); a window   *)
(* with undecoded entries in the page must accept children.                *)
DecodeWindow(w, pageIndex, pageSize) ==
  LET start == pageIndex * pageSize
      room  == nodes[w].room
      end   == IF start + pageSize < room THEN start + pageSize ELSE room
      needs == \E i \in start..(end - 1) : i \notin DOMAIN StateOf(w)
  IN  /\ pc = "idle"
      /\ IsWindow(w)
      /\ start < room
      /\ nodes' = IF needs THEN EnterIndexing(nodes, w) ELSE nodes
      /\ entries' = Put(entries, w, StateOf(w))
      /\ IF needs /\ nodes'[w].state # "Indexing"
         THEN Return /\ UNCHANGED call
         ELSE /\ pc' = "window"
              /\ call' = [window |-> w, next |-> start, end |-> end]
              /\ UNCHANGED shown
      /\ UNCHANGED <<remaining, cancelled, cancels>>

(* The next entry of the page was decoded by an earlier call. *)
ReuseEntry ==
  /\ pc = "window" /\ call.next < call.end
  /\ call.next \in DOMAIN entries[call.window]
  /\ call' = [call EXCEPT !.next = @ + 1]
  /\ UNCHANGED <<nodes, remaining, cancelled, cancels, pc, entries, shown>>

MustDecode == /\ pc = "window" /\ call.next < call.end
              /\ call.next \notin DOMAIN entries[call.window]

(* Cancellation and an empty budget are looked for before every entry. *)
StopPage ==
  /\ MustDecode
  /\ cancelled \/ remaining = 0
  /\ call' = NoCall
  /\ UNCHANGED <<nodes, remaining, cancelled, cancels, entries>>
  /\ Return

BeginEntry ==
  /\ MustDecode
  /\ ~cancelled /\ remaining > 0
  /\ pc' = "entry"
  /\ UNCHANGED <<nodes, remaining, cancelled, cancels, entries, call, shown>>

(* The node whose copy a failed entry's transaction puts back. *)
EntryAnchor_Root == RootId

EntryAnchor == call.window

(* One entry, as a transaction: a failure cuts the tree back to where the  *)
(* entry began, but its work stays charged to the budget.                  *)
DecodeEntry ==
  /\ pc = "entry"
  /\ \E o \in Executions(nodes, call.window, Entry, cancelled, remaining) :
       LET before == Snapshot(nodes, EntryAnchor)
           after  == Decoded(nodes, call.window, Entry, o, call.next)
       IN  /\ remaining' = remaining - o.made
           /\ IF o.status = "Materialized"
              THEN /\ nodes' = after
                   /\ entries' = [entries EXCEPT ![call.window] =
                                    Put(@, call.next, Len(nodes) + 1)]
                   /\ call' = [call EXCEPT !.next = @ + 1]
                   /\ pc' = "window" /\ UNCHANGED shown
              ELSE /\ nodes' = Restore(after, before)
                   /\ call' = NoCall
                   /\ UNCHANGED entries
                   /\ Return
  /\ UNCHANGED <<cancelled, cancels>>

(* All entries the region holds are there. *)
AllDecoded_LastPage(w) == call.end = nodes[w].room

AllDecoded(w) == Cardinality(DOMAIN entries[w]) = nodes[w].room

FinishPage ==
  /\ pc = "window" /\ call.next = call.end
  /\ nodes' = IF AllDecoded(call.window)
              THEN Transition(nodes, call.window, "Materialized") ELSE nodes
  /\ call' = NoCall
  /\ UNCHANGED <<remaining, cancelled, cancels, entries>>
  /\ Return

Pages == {p \in (0..MaxNodes) \X PageSizes : p[1] * p[2] < MaxNodes}

DecoderInit == /\ entries = << >>
               /\ call = NoCall

PageStep == ReuseEntry \/ StopPage \/ BeginEntry \/ DecodeEntry \/ FinishPage

=============================================================================
