----------------------------- MODULE QueueBoard -----------------------------
(***************************************************************************)
(* The Queue view: the list of live runs that loadQueue reads every ten    *)
(* seconds and corrects with a detail read per row, the projection of the  *)
(* selected run's events into it, the choice of a run to follow, and the   *)
(* cancel buttons.                                                         *)
(*                                                                         *)
(* A run's trail holds the statuses it has been through; the store shows   *)
(* some point of the selected run's trail and never an earlier one         *)
(* (ShownNeverRegresses of EventStream).                                   *)
(***************************************************************************)
EXTENDS Naturals, Sequences, FiniteSets, SequencesExt, FiniteSetsExt, PageValues

CONSTANTS
    Tasks,        \* runs of the platform
    Calls,        \* slots for cancelQueuedSimulation calls in flight
    MaxSteps,     \* bound: statuses all runs together go through
    MaxClicks,    \* bound: clicks of the user
    MaxLost       \* bound: requests that fail

ASSUME QueueAssumption ==
    None \notin Tasks /\ {MaxSteps, MaxClicks, MaxLost} \subseteq Nat

VARIABLES
    trail,        \* run -> statuses it has been through, <<>> before it exists
    board,        \* state.queue, with the load and the calls in flight
    task,         \* the store: selected run, how much of its trail it shows
    view,         \* state.view
    starting,     \* runs whose createSimulation has not been answered yet
    clicks, missed  \* clicks made, requests that failed

qvars == <<trail, board, task, view, starting, clicks, missed>>

----------------------------------------------------------------------------
(* The server.                                                             *)

Alive == {"QUEUED", "RUNNING", "CANCELLING"}
Over == {"CANCELLED", "ENDED"}              \* ENDED: completed or failed
Stages == Alive \cup Over
Cancellable == {"QUEUED", "RUNNING"}       \* simulationCancellable

StatusOf(r) == IF trail[r] = <<>> THEN None ELSE Last(trail[r])

Become(r, s) ==
    /\ FoldSet(LAMBDA q, n : n + Len(trail[q]), 0, Tasks) < MaxSteps
    /\ trail' = [trail EXCEPT ![r] = Append(@, s)]

Cancelled(s) == IF s = "QUEUED" THEN "CANCELLED" ELSE "CANCELLING"

\* The worker takes a run, a run ends, a run is cancelled from another page.
RunAdvances(r) ==
    /\ \/ /\ StatusOf(r) = "QUEUED"
          /\ \A q \in Tasks : StatusOf(q) \notin {"RUNNING", "CANCELLING"}
          /\ Become(r, "RUNNING")
       \/ StatusOf(r) = "RUNNING" /\ Become(r, "ENDED")
       \/ StatusOf(r) = "CANCELLING" /\ Become(r, "CANCELLED")
       \/ StatusOf(r) \in Cancellable /\ Become(r, Cancelled(StatusOf(r)))
    /\ UNCHANGED <<board, task, view, starting, clicks, missed>>

----------------------------------------------------------------------------
(* The store as the board sees it.                                         *)

ShownStatus(t) == IF t.run = None \/ t.seen = 0 THEN None ELSE trail[t.run][t.seen]

\* synchronizeQueueProjection, on every emission of the store.
Projected(items, t) ==
    CASE ShownStatus(t) = None -> items
      [] ShownStatus(t) \in Over -> [items EXCEPT ![t.run] = None]
      [] OTHER -> [items EXCEPT ![t.run] = ShownStatus(t)]

\* An event or a refresh of the selected run.
StoreShows ==
    /\ task.run # None
    /\ \E i \in task.seen + 1 .. Len(trail[task.run]) :
          LET t == [task EXCEPT !.seen = i]
          IN task' = t /\ board' = [board EXCEPT !.items = Projected(@, t)]
    /\ UNCHANGED <<trail, view, starting, clicks, missed>>

\* Readiness and connection changes emit, too.
StoreEmits ==
    /\ board' = [board EXCEPT !.items = Projected(@, task)]
    /\ UNCHANGED <<trail, task, view, starting, clicks, missed>>

Selecting(r) == [run |-> r, seen |-> 0]

----------------------------------------------------------------------------
(* Loading.  rows holds, per run, None, the status of the list or, once    *)
(* read, that of the run's own detail.                                     *)

Idle == [loading |-> FALSE, request |-> "none", rows |-> [r \in Tasks |-> None],
         unread |-> {}]

\* loadQueue: the ten-second interval, the Queue button, the end of a cancel.
Started(b) == IF b.load.loading THEN b
              ELSE [b EXCEPT !.load = [@ EXCEPT !.loading = TRUE, !.request = "list"]]

LoadQueue ==
    /\ ~board.load.loading
    /\ board' = Started(board)
    /\ UNCHANGED <<trail, task, view, starting, clicks, missed>>

ListServed ==
    LET rows == [r \in Tasks |-> IF StatusOf(r) \in Alive THEN StatusOf(r) ELSE None]
    IN /\ board.load.request = "list"
       /\ board' = [board EXCEPT !.load = [loading |-> TRUE, request |-> "details", rows |-> rows,
                                           unread |-> {r \in Tasks : rows[r] # None}]]
       /\ UNCHANGED <<trail, task, view, starting, clicks, missed>>

\* reconcileQueueItems: one detail read per row; a failed one keeps the row.
DetailServed(r) ==
    /\ r \in board.load.unread
    /\ board' = [board EXCEPT !.load = [@ EXCEPT !.unread = board.load.unread \ {r},
                                                 !.rows[r] = StatusOf(r)]]
    /\ UNCHANGED <<trail, task, view, starting, clicks, missed>>

DetailFails(r) ==
    /\ r \in board.load.unread
    /\ missed < MaxLost /\ missed' = missed + 1
    /\ board' = [board EXCEPT !.load.unread = @ \ {r}]
    /\ UNCHANGED <<trail, task, view, starting, clicks>>

\* A call that waited for the load ends with it, and its run may be cancelled
\* again.
Waiting(b) == {c \in Calls : b.calls[c] # None /\ b.calls[c].pc = "reload"}
Resumed(b) ==
    [b EXCEPT !.calls = [c \in Calls |-> IF c \in Waiting(b) THEN None ELSE @[c]],
              !.pending = @ \ {b.calls[c].run : c \in Waiting(b)}]

\* Mutant: only the first run is chosen for the user.
MayChooseFirst(v) == v # "history" /\ task.run = None

\* A run is chosen where none is followed, and on the Queue view also where
\* the followed one has ended.
MayChoose(v) ==
    v # "history" /\ (task.run = None \/ (v = "queue" /\ ShownStatus(task) \in Over))

\* The first live row; the order of the list is left open.
LoadDone ==
    LET rows == board.load.rows
        live == {r \in Tasks : rows[r] \in Alive}
    IN /\ board.load.request = "details" /\ board.load.unread = {}
       /\ board' = Resumed([board EXCEPT !.items = rows, !.load = Idle])
       /\ IF MayChoose(view) /\ live # {}
          THEN \E r \in live : task' = IF r = task.run THEN task ELSE Selecting(r)
          ELSE UNCHANGED task
       /\ UNCHANGED <<trail, view, starting, clicks, missed>>

\* Mutant: the catch keeps the error and nothing else.
LoadAbandoned(b) == Resumed([b EXCEPT !.load.request = "none"])

\* The catch of loadQueue.
LoadGivenUp(b) == Resumed([b EXCEPT !.load = Idle])

LoadFails ==
    /\ board.load.request = "list"
    /\ missed < MaxLost /\ missed' = missed + 1
    /\ board' = LoadGivenUp(board)
    /\ UNCHANGED <<trail, task, view, starting, clicks>>

----------------------------------------------------------------------------
(* The cancel buttons (cancelQueuedSimulation).                            *)

CallRecords == [pc : {"before", "post", "read", "patch", "refresh", "reload"},
                run : Tasks, after : Stages \cup {None}]
ASSUME CallAssumption == None \notin Stages /\ None \notin CallRecords

Click == clicks < MaxClicks /\ clicks' = clicks + 1

\* Mutant: the list of pending runs is emptied.
SettledAll(b, c) == [b EXCEPT !.pending = {}, !.calls[c] = None]

\* The finally block.
Settled(b, c) == [b EXCEPT !.pending = @ \ {b.calls[c].run}, !.calls[c] = None]

\* queueActiveRun: a run the active card may show.
ActiveRun(r) ==
    LET busy == {q \in Tasks : board.items[q] \in {"RUNNING", "CANCELLING"}}
    IN IF busy # {} THEN r \in busy /\ (r = task.run => ShownStatus(task) \notin Over)
       ELSE r = task.run /\ ShownStatus(task) \in {"RUNNING", "CANCELLING"}

\* queueActiveTask: the card of the followed run shows what the store knows.
CardStatus(r) ==
    IF r = task.run /\ ShownStatus(task) # None THEN ShownStatus(task) ELSE board.items[r]

\* The waiting rows and the active card have the button.
Offered(r) ==
    board.items[r] = "QUEUED" \/ (ActiveRun(r) /\ CardStatus(r) \in Cancellable)

CancelClicked(c, r) ==
    /\ Click /\ view = "queue" /\ Offered(r)
    /\ r \notin board.pending /\ board.calls[c] = None
    /\ board' = [board EXCEPT !.pending = @ \cup {r},
                              !.calls[c] = [pc |-> "before", run |-> r, after |-> None]]
    /\ UNCHANGED <<trail, task, view, starting, missed>>

At(c, pc) == board.calls[c] # None /\ board.calls[c].pc = pc

\* The run is read first; one that cannot be cancelled is reported.
BeforeServed(c) ==
    /\ At(c, "before")
    /\ board' = IF StatusOf(board.calls[c].run) \in Cancellable
                THEN [board EXCEPT !.calls[c].pc = "post"] ELSE Settled(board, c)
    /\ UNCHANGED <<trail, task, view, starting, clicks, missed>>

\* The cancellation itself: refused if the run has ended meanwhile, and a
\* success that changes nothing if somebody else has cancelled it.
PostServed(c) ==
    LET r == board.calls[c].run
    IN /\ At(c, "post")
       /\ IF StatusOf(r) = "ENDED" THEN board' = Settled(board, c)
          ELSE board' = [board EXCEPT !.calls[c].pc = "read"]
       /\ IF StatusOf(r) \in Cancellable THEN Become(r, Cancelled(StatusOf(r)))
          ELSE UNCHANGED trail
       /\ UNCHANGED <<task, view, starting, clicks, missed>>

AfterServed(c) ==
    /\ At(c, "read")
    /\ board' = [board EXCEPT !.calls[c] =
                    [@ EXCEPT !.pc = "patch", !.after = StatusOf(board.calls[c].run)]]
    /\ UNCHANGED <<trail, task, view, starting, clicks, missed>>

\* The row is patched, if it is still there; then the store refreshes.
RowPatched(c) ==
    LET call == board.calls[c]
    IN /\ At(c, "patch")
       /\ board' = [board EXCEPT !.calls[c] = [call EXCEPT !.pc = "refresh", !.after = None],
                                 !.items[call.run] = IF @ = None THEN None ELSE call.after]
       /\ UNCHANGED <<trail, task, view, starting, clicks, missed>>

\* await loadQueue: nothing to wait for while another load is on its way.
Reload(c) ==
    /\ At(c, "refresh")
    /\ board' = IF board.load.loading THEN Settled(board, c)
                ELSE Started([board EXCEPT !.calls[c].pc = "reload"])
    /\ UNCHANGED <<trail, task, view, starting, clicks, missed>>

CallFails(c) ==
    /\ At(c, "before") \/ At(c, "post") \/ At(c, "read")
    /\ missed < MaxLost /\ missed' = missed + 1
    /\ board' = Settled(board, c)
    /\ UNCHANGED <<trail, task, view, starting, clicks>>

----------------------------------------------------------------------------
(* The other controls.                                                     *)

\* startSimulation: the run exists before its answer selects it.
StartClicked(r) ==
    /\ Click /\ trail[r] = <<>>
    /\ Become(r, "QUEUED") /\ starting' = starting \cup {r}
    /\ UNCHANGED <<board, task, view, missed>>

StartAnswered(r) ==
    /\ r \in starting /\ starting' = starting \ {r}
    /\ task' = Selecting(r)
    /\ UNCHANGED <<trail, board, view, clicks, missed>>

\* The cancel button of the top bar: no pending list, no load.  A cancelled
\* or ended run stays as it is.
TopBarCancel ==
    /\ Click /\ ShownStatus(task) \in Cancellable /\ StatusOf(task.run) \in Cancellable
    /\ Become(task.run, Cancelled(StatusOf(task.run)))
    /\ UNCHANGED <<board, task, view, starting, missed>>

NavTo(v) ==
    /\ Click /\ v # view /\ view' = v
    /\ board' = IF v = "queue" THEN Started(board) ELSE board
    /\ UNCHANGED <<trail, task, starting, missed>>

----------------------------------------------------------------------------
QInit ==
    /\ trail \in [Tasks -> {<<>>, <<"QUEUED">>}]
    /\ board = [items |-> [r \in Tasks |-> None], load |-> Idle, pending |-> {},
                calls |-> [c \in Calls |-> None]]
    /\ task = [run |-> None, seen |-> 0]
    /\ view = "queue"
    /\ starting = {} /\ clicks = 0 /\ missed = 0

QNext ==
    \/ \E r \in Tasks : \/ RunAdvances(r) \/ StartClicked(r) \/ StartAnswered(r)
                        \/ DetailServed(r) \/ DetailFails(r)
    \/ \E c \in Calls : \/ BeforeServed(c) \/ PostServed(c) \/ AfterServed(c)
                        \/ RowPatched(c) \/ Reload(c) \/ CallFails(c)
                        \/ \E r \in Tasks : CancelClicked(c, r)
    \/ LoadQueue \/ ListServed \/ LoadDone \/ LoadFails
    \/ StoreShows \/ StoreEmits \/ TopBarCancel
    \/ \E v \in {"workspace", "queue", "history"} : NavTo(v)

QSpec == QInit /\ [][QNext]_qvars

\* The interval fires, requests are answered and the store catches up with
\* its run (EndIsShown of EventStream); users and runs owe nothing.
QAnswers ==
    /\ WF_qvars(ListServed) /\ WF_qvars(LoadDone)
    /\ WF_qvars(\E r \in Tasks : DetailServed(r))
    /\ WF_qvars(StoreShows) /\ WF_qvars(StoreEmits)
QFairness == WF_qvars(LoadQueue) /\ QAnswers

----------------------------------------------------------------------------
(* Properties.                                                             *)

\* Types of state.queue, of the calls and of what the board reads of the store.
QTypeOK ==
    /\ trail \in [Tasks -> Seq(Stages)]
    /\ board.items \in [Tasks -> Stages \cup {None}]
    /\ board.load.rows \in [Tasks -> Stages \cup {None}]
    /\ board.load.unread \subseteq Tasks /\ board.pending \subseteq Tasks
    /\ board.calls \in [Calls -> CallRecords \cup {None}]
    /\ task.run \in Tasks \cup {None} /\ task.seen \in Nat
    /\ view \in {"workspace", "queue", "history"} /\ starting \subseteq Tasks
    /\ clicks \in 0 .. MaxClicks /\ missed \in 0 .. MaxLost

\* A run is marked as being cancelled exactly while a call cancels it, and by
\* one call: no button stays disabled for good, and none sends a second
\* request, whatever loads and projections rewrite state.queue meanwhile
\* (cancelQueuedSimulation's pending list and its finally block).
PendingExact ==
    LET busy == {c \in Calls : board.calls[c] # None}
    IN /\ board.pending = {board.calls[c].run : c \in busy}
       /\ \A c, d \in busy : board.calls[c].run = board.calls[d].run => c = d

\* When the runs come to rest, the board shows the live ones as they are and
\* no other: snapshots that were overtaken, rows projected from old events,
\* late patches and failed loads are all corrected (loadQueue's interval).
BoardCatchesUp ==
    <>[](\A r \in Tasks : {board.items[r], StatusOf(r)} \cap Alive # {}
                             => board.items[r] = StatusOf(r))

\* A user who stays on the Queue view is not left on a run that has ended
\* while another one lives (the selection at the end of loadQueue).
PageFollowsQueue ==
    <>[](view = "queue") =>
        <>[](\/ \A r \in Tasks : StatusOf(r) \notin Alive
             \/ task.run # None /\ StatusOf(task.run) \in Alive)
=============================================================================
