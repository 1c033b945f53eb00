---------------------------- MODULE HistoryPage ----------------------------
(***************************************************************************)
(* The History and Replay views of the page: the server-filtered list with *)
(* its cursor, deep links, the selection of a terminal run (which goes     *)
(* through the SimulationStore), the replay resources of the selected      *)
(* agent and their playback.                                               *)
(*                                                                         *)
(* JavaScript runs each segment between two awaits whole, and a caller     *)
(* goes on before the next event is handled: an action is one such event   *)
(* with everything it resumes.                                             *)
(***************************************************************************)
EXTENDS Naturals, Sequences, FiniteSets, SequencesExt, FiniteSetsExt, PageValues

CONSTANTS
    NRuns,         \* runs, numbered in the order they were created
    Unusable,      \* those that end without committed artifacts
    Filters,       \* settings of search box, status and mode
    NoFilter,      \* the setting the page starts with
    Agents, FirstAgent,
    PageSize,      \* rows of one server page
    Points,        \* points of one replay
    MaxInputs,     \* bound: the user's inputs to list and selection
    MaxFailures    \* bound: requests that fail

Runs == 1 .. NRuns

\* historyArtifactGate: completed, with committed artifacts.
ArtifactGate(r) == r \notin Unusable

CONSTANT Matches(_, _)   \* filter, run: what the server selects

ASSUME HistoryAssumption ==
    /\ NRuns \in Nat /\ Unusable \subseteq Runs
    /\ NoFilter \in Filters /\ FirstAgent \in Agents
    /\ None \notin Runs /\ None \notin Filters /\ None \notin Agents
    /\ PageSize \in Nat \ {0} /\ Points \in Nat \ {0}
    /\ MaxInputs \in Nat /\ MaxFailures \in Nat

VARIABLES
    done,       \* terminal runs of the platform
    hist,       \* state.view, state.history, state.replayPlayback, the store
    inputs, failures

hvars == <<done, hist, inputs, failures>>

NoRequest == [then |-> "none", epoch |-> 0, run |-> None, open |-> None]

\* The view a selection opens in the end.
Opens == {None, "replay", "workspace"}

\* What goes on when the store has answered: a selection, an agent's replay, or
\* nothing.
StoreRequests == [then : {"none", "select", "agent"}, epoch : Nat, run : Runs \cup {None},
                  open : Opens]

ASSUME RequestAssumption == None \notin StoreRequests

----------------------------------------------------------------------------
(* Playback.  intervals counts the timers setInterval has running; the     *)
(* page knows one of them at most.                                         *)

\* Mutant: the handle is dropped, the interval is left running.
StopForgetful(p) == [p EXCEPT !.playing = FALSE, !.timer = FALSE]

\* stopReplayPlayback
StopPlayback(p) == [p EXCEPT !.playing = FALSE, !.timer = FALSE,
                     !.intervals = IF p.timer THEN @ - 1 ELSE @]

\* toggleReplayPlayback: only over loaded points, from the start at the end.
Toggle ==
    /\ hist.view = "replay" /\ hist.data # None
    /\ hist' = IF hist.playing THEN StopPlayback(hist)
               ELSE [hist EXCEPT !.playing = TRUE, !.timer = TRUE,
                                 !.intervals = @ + 1,
                                 !.position = IF @ >= Points - 1 THEN 0 ELSE @]
    /\ UNCHANGED <<done, inputs, failures>>

\* advanceReplayPlayback and the end of it.
Tick ==
    /\ hist.intervals > 0
    /\ LET next == Min({Points - 1, hist.position + 1})
           moved == [hist EXCEPT !.position = next]
       IN hist' = IF next = Points - 1 THEN StopPlayback(moved) ELSE moved
    /\ UNCHANGED <<done, inputs, failures>>

\* The position slider; it does not stop the playback.
Seek(i) ==
    /\ hist.view = "replay" /\ hist.data # None
    /\ hist' = [hist EXCEPT !.position = i]
    /\ UNCHANGED <<done, inputs, failures>>

----------------------------------------------------------------------------
(* Replay resources and selection.                                         *)

NoReplay(p) == [p EXCEPT !.agent = FirstAgent, !.replayLoading = FALSE, !.data = None]

\* The end of selectHistoryRun: to the view the button asked for.
Opened(p, epoch, open) ==
    IF open # None /\ p.selEpoch = epoch THEN [p EXCEPT !.view = open] ELSE p

\* loadReplayResources, up to its answers (three reads, taken as one).
LoadReplay(p, epoch, open) ==
    LET id == CHOOSE i \in 0 .. Cardinality(p.loads) : \A l \in p.loads : l.id # i
    IN IF p.sel = None \/ p.detail = None \/ ~ArtifactGate(p.detail)
       THEN Opened(p, epoch, open)
       ELSE [p EXCEPT !.replayLoading = TRUE, !.data = None,
                      !.loads = @ \cup {[id |-> id, run |-> p.sel, agent |-> p.agent,
                                         epoch |-> epoch, open |-> open]}]

\* Mutant: the answer is taken whatever is selected by now.
LandedForAny(p, l, data) == [p EXCEPT !.replayLoading = FALSE, !.data = data]

Landed(p, l, data) ==
    IF p.selEpoch = l.epoch /\ p.sel = l.run /\ p.agent = l.agent
    THEN [p EXCEPT !.replayLoading = FALSE, !.data = data] ELSE p

Finished(p, l, data) ==
    Opened(Landed([p EXCEPT !.loads = @ \ {l}], l, data), l.epoch, l.open)

ReplayArrives(l) ==
    /\ hist' = Finished(hist, l, [run |-> l.run, agent |-> l.agent])
    /\ UNCHANGED <<done, inputs, failures>>

ReplayFails(l) ==
    /\ failures < MaxFailures /\ failures' = failures + 1
    /\ hist' = Finished(hist, l, None)
    /\ UNCHANGED <<done, inputs>>

\* What waits for the store goes on.  A selection needs the run's results;
\* one whose run the store no longer follows returns and leaves detailLoading.
Continued(p, req) ==
    CASE req.then = "select" /\ req.epoch = p.selEpoch /\ req.run = p.store.run ->
            IF p.store.known /\ p.store.summary # None
            THEN LoadReplay([p EXCEPT !.detail = req.run, !.detailLoading = FALSE],
                            req.epoch, req.open)
            ELSE [p EXCEPT !.detailLoading = FALSE]
      [] req.then = "agent" /\ req.epoch = p.selEpoch /\ req.run = p.store.run ->
            LoadReplay(p, req.epoch, None)
      [] OTHER -> p

\* A new request of the store aborts the one in flight.
Request(p, store) ==
    LET sent == [p EXCEPT !.store = store]
    IN IF p.store.request = None THEN sent ELSE Continued(sent, p.store.request)

\* taskStore.selectRun
Follow(p, r, req) ==
    Request(p, [run |-> r, agent |-> FirstAgent, known |-> FALSE, summary |-> None,
                request |-> req])

\* selectHistoryRun
Select(p, r, open) ==
    IF ~ Contains(p.items, r) THEN p
    ELSE Follow([NoReplay(StopPlayback(p)) EXCEPT !.position = 0, !.sel = r, !.detail = None,
                     !.detailLoading = TRUE, !.selEpoch = @ + 1],
                r, [then |-> "select", epoch |-> p.selEpoch + 1, run |-> r, open |-> open])

\* upsertHistoryRun, on every emission of the store with a terminal detail.
Upsert(p) ==
    IF p.store.known /\ ~ Contains(p.items, p.store.run)
    THEN [p EXCEPT !.items = <<p.store.run>> \o @] ELSE p

\* refresh() of the store ends: detail, and the results of a usable run.
StoreAnswers ==
    LET s == hist.store
        emitted == [s EXCEPT !.known = s.run \in done, !.request = None,
                             !.summary = IF s.run \in done /\ ArtifactGate(s.run)
                                         THEN s.agent ELSE None]
    IN /\ s.request # None
       /\ hist' = Continued(Upsert([hist EXCEPT !.store = emitted]), s.request)
       /\ UNCHANGED <<done, inputs, failures>>

StoreFails ==
    /\ hist.store.request # None
    /\ failures < MaxFailures /\ failures' = failures + 1
    /\ hist' = Continued([hist EXCEPT !.store.request = None], hist.store.request)
    /\ UNCHANGED <<done, inputs>>

\* The event of the followed run's end makes the store refresh.
EndIsStreamed ==
    /\ hist.store.run \in done /\ ~hist.store.known /\ hist.store.request = None
    /\ hist' = [hist EXCEPT !.store.request = NoRequest]
    /\ UNCHANGED <<done, inputs, failures>>

\* refreshReadiness: the other emissions of the store.
ReadinessEmitted ==
    /\ hist.store.known
    /\ hist' = Upsert(hist)
    /\ UNCHANGED <<done, inputs, failures>>

----------------------------------------------------------------------------
(* The list.  A cursor is bound to its query; newest runs come first.  The *)
(* server lists runs that have not ended, too.                             *)

Listed(l) ==
    {r \in Runs : /\ Matches(l.filter, r)
                  /\ l.link # None => r = l.link
                  /\ l.cursor # None => r < l.cursor.after}

\* ListSimulations, and the runs of its page that the view keeps.
Answer(l) ==
    LET page == {r \in Listed(l) : Cardinality({q \in Listed(l) : q > r}) < PageSize}
    IN [rows |-> page \cap done,
        cursor |-> IF page = Listed(l) THEN None
                   ELSE [filter |-> l.filter, after |-> Min(page)]]

\* The server refuses a cursor of another query.
Accepted(l) == l.cursor # None => l.cursor.filter = l.filter

\* Mutant: the rows already listed are not looked for.
AppendedBlindly(prior, runs) == runs

\* The runs that get a row after the prior rows, newest first.
Appended(prior, runs) == runs \ ToSet(prior)

\* openHistoryDeepLink when its list did not load.
NoticeUnless(p, loaded, link) ==
    IF loaded \/ link = None THEN p ELSE [p EXCEPT !.notice = "load failed"]

\* loadHistory, up to its answer.
LoadHistory(p, append, link, open) ==
    IF p.loading \/ (append /\ p.cursor = None) THEN NoticeUnless(p, FALSE, link)
    ELSE LET cursor == IF append THEN p.cursor ELSE None
             prior == IF append THEN p.items ELSE <<>>
         IN [p EXCEPT !.epoch = @ + 1, !.loading = TRUE, !.items = prior, !.cursor = cursor,
                      !.lists = @ \cup {[epoch |-> p.epoch + 1, filter |-> p.filter,
                                         cursor |-> cursor, prior |-> prior, link |-> link,
                                         open |-> open, answer |-> None]}]

\* The list answer: dropped when a newer load or filter has been started,
\* otherwise kept until the metrics of its rows have been read.
ListArrives(l) ==
    LET rest == hist.lists \ {l}
    IN /\ l.answer = None /\ Accepted(l)
       /\ IF hist.epoch # l.epoch
          THEN hist' = NoticeUnless([hist EXCEPT !.lists = rest], FALSE, l.link)
          ELSE \E more \in InOrder(Appended(l.prior, Answer(l).rows)) :
                  hist' = [hist EXCEPT !.lists = rest \cup
                              {[l EXCEPT !.answer =
                                  [rows |-> l.prior \o Reverse(more),
                                   cursor |-> Answer(l).cursor]]}]
       /\ UNCHANGED <<done, inputs, failures>>

\* openHistoryDeepLink once its list has loaded.
FollowLink(p, link, open) ==
    IF link = None THEN p
    ELSE IF Contains(p.items, link) THEN Select(p, link, open)
    ELSE [p EXCEPT !.items = <<>>, !.sel = None, !.detail = None, !.notice = "unavailable"]

\* loadHistoryAggregateMetrics has ended: the epoch is not looked at again.
MetricsArrive(l) ==
    /\ l.answer # None
    /\ hist' = FollowLink([hist EXCEPT !.lists = @ \ {l}, !.items = l.answer.rows,
                                       !.cursor = l.answer.cursor, !.loading = FALSE],
                          l.link, l.open)
    /\ UNCHANGED <<done, inputs, failures>>

\* Mutant: the catch only keeps the error.
FailedSilently(p, l) == NoticeUnless([p EXCEPT !.lists = @ \ {l}], FALSE, l.link)

\* The catch of loadHistory.
Failed(p, l) ==
    NoticeUnless([p EXCEPT !.lists = @ \ {l},
                           !.loading = IF p.epoch = l.epoch THEN FALSE ELSE @],
                 FALSE, l.link)

ListFails(l) ==
    /\ l.answer = None
    /\ \/ ~Accepted(l) /\ UNCHANGED failures
       \/ failures < MaxFailures /\ failures' = failures + 1
    /\ hist' = Failed(hist, l)
    /\ UNCHANGED <<done, inputs>>

----------------------------------------------------------------------------
(* The user.                                                               *)

Input(p) ==
    /\ inputs < MaxInputs /\ inputs' = inputs + 1
    /\ hist' = p
    /\ UNCHANGED <<done, failures>>

Nav(v) ==
    LET seen == [(IF v = "replay" THEN hist ELSE StopPlayback(hist)) EXCEPT !.view = v]
    IN Input(IF v = "workspace" THEN seen ELSE LoadHistory(seen, FALSE, None, None))

\* popstate: the history entry of a list or of a link to a run.
OpenLink(v, r) ==
    Input(LoadHistory([NoReplay(StopPlayback(hist)) EXCEPT
                          !.view = v, !.items = <<>>, !.sel = None, !.detail = None,
                          !.detailLoading = FALSE, !.notice = None],
                      FALSE, r, IF v = "replay" THEN v ELSE None))

UpdateFilters(f) ==
    /\ hist.view = "history" /\ f # hist.filter
    /\ Input(LoadHistory([hist EXCEPT !.filter = f, !.items = <<>>, !.cursor = None,
                                      !.loading = FALSE, !.epoch = @ + 1],
                         FALSE, None, None))

\* filteredHistoryItems: the page filters the rows it holds, too.
FilteredHistoryItems == SelectSeq(hist.items, LAMBDA r : Matches(hist.filter, r))

\* The "load more" button under the rows; disabled while a list loads.
More ==
    /\ hist.view = "history" /\ FilteredHistoryItems # <<>>
    /\ hist.cursor # None /\ ~hist.loading
    /\ Input(LoadHistory(hist, TRUE, None, None))

\* The run and replay buttons of a row.
SelectRow(r, open) ==
    /\ hist.view = "history" /\ Contains(FilteredHistoryItems, r)
    /\ open = "replay" => ArtifactGate(r)
    /\ Input(Select(hist, r, open))

\* taskStore.selectAgent: nothing to do for the agent that is shown already.
StoreAgent(p, a, req) ==
    IF p.store.agent = a /\ p.store.summary = a THEN Continued(p, req)
    ELSE Request(p, [p.store EXCEPT !.agent = a, !.summary = None, !.request = req])

\* selectReplayAgent
ReplayAgent(a) ==
    /\ hist.view = "replay" /\ hist.detail # None /\ hist.detail = hist.sel
    /\ ~hist.replayLoading
    /\ Input(StoreAgent([StopPlayback(hist) EXCEPT !.position = 0, !.agent = a], a,
                        [then |-> "agent", epoch |-> hist.selEpoch, run |-> hist.sel,
                         open |-> None]))

\* The agent tabs of the workspace.
WorkspaceAgent(a) ==
    /\ hist.view = "workspace" /\ hist.store.summary # None
    /\ Input(StoreAgent(hist, a, NoRequest))

\* startSimulation or the queue makes the store follow a live run.
FollowLive(r) ==
    /\ r \notin done /\ r # hist.store.run
    /\ Input(Follow(hist, r, NoRequest))

RunEnds(r) ==
    /\ r \notin done
    /\ done' = done \cup {r}
    /\ UNCHANGED <<hist, inputs, failures>>

----------------------------------------------------------------------------
HInit ==
    /\ done = Runs \ {NRuns}
    /\ hist = [view |-> "workspace", filter |-> NoFilter, items |-> <<>>, cursor |-> None,
               loading |-> FALSE, epoch |-> 0, notice |-> None,
               sel |-> None, selEpoch |-> 0, detail |-> None, detailLoading |-> FALSE,
               agent |-> FirstAgent, replayLoading |-> FALSE, data |-> None,
               playing |-> FALSE, timer |-> FALSE, position |-> 0, intervals |-> 0,
               lists |-> {}, loads |-> {},
               store |-> [run |-> None, agent |-> FirstAgent, known |-> FALSE,
                          summary |-> None, request |-> None]]
    /\ inputs = 0 /\ failures = 0

ListStep == \E l \in hist.lists : ListArrives(l) \/ MetricsArrive(l) \/ ListFails(l)
ReplayStep == \E l \in hist.loads : ReplayArrives(l) \/ ReplayFails(l)

HNext ==
    \/ \E r \in Runs : \/ RunEnds(r) \/ FollowLive(r)
                       \/ \E open \in {"replay", "workspace"} : SelectRow(r, open)
    \/ \E v \in {"history", "replay", "workspace"} : Nav(v)
    \/ \E v \in {"history", "replay"}, r \in Runs : OpenLink(v, r)
    \/ \E f \in Filters : UpdateFilters(f)
    \/ \E a \in Agents : ReplayAgent(a) \/ WorkspaceAgent(a)
    \/ More \/ Toggle \/ Tick \/ \E i \in 0 .. Points - 1 : Seek(i)
    \/ StoreAnswers \/ StoreFails \/ EndIsStreamed \/ ReadinessEmitted
    \/ ListStep \/ ReplayStep

HSpec == HInit /\ [][HNext]_hvars

\* Requests for a list and for its metrics are answered or fail.
HFairness == WF_hvars(ListStep)

----------------------------------------------------------------------------
(* Properties.                                                             *)

\* Types of the page's history, playback and store (createApplicationState).
HTypeOK ==
    /\ done \subseteq Runs /\ inputs \in 0 .. MaxInputs /\ failures \in 0 .. MaxFailures
    /\ hist.view \in {"history", "replay", "workspace"} /\ hist.filter \in Filters
    /\ hist.items \in Seq(Runs)
    /\ hist.cursor \in {None} \cup [filter : Filters, after : Runs]
    /\ {hist.sel, hist.detail, hist.store.run} \subseteq Runs \cup {None}
    /\ hist.agent \in Agents /\ hist.data \in {None} \cup [run : Runs, agent : Agents]
    /\ hist.store.agent \in Agents /\ hist.store.summary \in {None, hist.store.agent}
    /\ hist.position \in 0 .. Points - 1
    /\ \A l \in hist.lists : l.epoch \in 1 .. hist.epoch
    /\ \A l \in hist.loads : l.epoch \in 1 .. hist.selEpoch

\* No run has two rows, however pages of the server, rows put in by the
\* store's emissions and answers of superseded loads follow each other
\* (loadHistory's merge, upsertHistoryRun).
NoDuplicateRows == IsInjective(hist.items)

\* replayView draws its content.
ReplayShown ==
    /\ hist.view = "replay" /\ hist.detail # None /\ hist.detail = hist.sel
    /\ ~hist.replayLoading /\ hist.data # None
    /\ hist.store.run = hist.detail /\ hist.store.summary # None

\* The points drawn are those of the selected run and of the agent whose tab
\* is active, whatever links, rows and agents were chosen while answers were
\* on their way (the guard after loadReplayResources' reads).
ReplayShowsSelection ==
    ReplayShown => hist.data = [run |-> hist.sel, agent |-> hist.agent]

\* At most one interval moves the playback; it is the one the page can stop,
\* and it runs only while the replay is in view (stopReplayPlayback before
\* every change of selection, agent and view).
OneTimer ==
    /\ hist.intervals = IF hist.timer THEN 1 ELSE 0
    /\ hist.playing = hist.timer
    /\ hist.timer => hist.view = "replay"

\* A list that loads is listed or fails in the end: no superseded, failed or
\* refused load leaves the list loading (the epochs of loadHistory).
ListSettles == hist.loading ~> ~hist.loading

\* tests/contract.test.mjs:1127: "History uses server-bound search and filters,
\* resets stale cursors, and appends only the next server page".  A page with
\* no load in flight holds no cursor of another filter.
NoStaleCursor ==
    hist.lists = {} /\ hist.cursor # None => hist.cursor.filter = hist.filter
=============================================================================
