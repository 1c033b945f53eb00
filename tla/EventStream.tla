---------------------------- MODULE EventStream ----------------------------
(***************************************************************************)
(* How a browser page follows a run: the persisted event log with its      *)
(* retention, the SSE handler of the Web API that replays it after a       *)
(* cursor, and the SimulationStore of the frontend, which combines the     *)
(* stream with REST reads of the run.                                      *)
(*                                                                         *)
(* Events of a run get their ids in commit order: whoever inserts one      *)
(* holds the scheduler row while the run is QUEUED and the run's row       *)
(* afterwards.  Ids come from one sequence, so they are sparse in a run.   *)
(***************************************************************************)
EXTENDS Integers, FiniteSets, Sequences, SequencesExt, FiniteSetsExt

CONSTANTS
    Runs,          \* runs of the platform
    Agents,        \* agents whose results the page can show
    Streams,       \* slots for the page's event streams
    FirstAgent,    \* the agent selectRun selects
    None,          \* null in the code
    Retention,     \* event_retention_per_run
    PageLimit,     \* rows one call of EventsAfter returns at most
    Window,        \* bound: frames in flight on one stream
    MaxEvents,     \* bound: events ever inserted
    RestFailures   \* bound: REST reads that fail

ASSUME StreamAssumption ==
    /\ IsFiniteSet(Streams) /\ None \notin Runs \cup Agents \cup Streams
    /\ FirstAgent \in Agents
    /\ Retention \in Nat \ {0} /\ PageLimit \in Nat \ {0}
    /\ Window \in Nat /\ MaxEvents \in Nat /\ RestFailures \in Nat

VARIABLES
    status,        \* run -> simulations.status, "ABSENT" before the run exists
    log,           \* run -> retained rows of simulation_events
    lastId,        \* last value of simulation_events_event_id_seq
    page,          \* the SimulationStore with its request, timers and streams
    failures       \* REST reads that failed

vars == <<status, log, lastId, page, failures>>

----------------------------------------------------------------------------
(* The event log.  FAILED_RECOVERABLE stands for FAILED too: the page makes  *)
(* no difference between them.                                             *)

Statuses == {"QUEUED", "RUNNING", "CANCELLING", "GENERATING_ARTIFACTS",
             "COMPLETED", "CANCELLED", "FAILED_RECOVERABLE"}
Terminal == {"COMPLETED", "CANCELLED", "FAILED_RECOVERABLE"}

\* Transactions on a run: the status they need and the status of each event
\* they insert; the last one is the status they leave.
Transactions ==
    { <<"ABSENT", <<"QUEUED">> >>,
      <<"QUEUED", <<"RUNNING">> >>,
      <<"QUEUED", <<"CANCELLED">> >>,
      <<"RUNNING", <<"CANCELLING">> >>,
      <<"RUNNING", <<"GENERATING_ARTIFACTS", "COMPLETED", "COMPLETED">> >>,
      <<"RUNNING", <<"FAILED_RECOVERABLE">> >>,
      <<"CANCELLING", <<"CANCELLED">> >> }

Ids(rows) == {e.id : e \in rows}
LatestId(rows) == IF rows = {} THEN 0 ELSE Max(Ids(rows))
OldestId(rows) == IF rows = {} THEN 0 ELSE Min(Ids(rows))

\* retain_simulation_events: the newest Retention rows survive.
Retained(rows) ==
    {e \in rows : Cardinality({f \in rows : f.id > e.id}) < Retention}

Inserted(rows, stats) ==
    Retained(rows \cup {[id |-> lastId + i, status |-> stats[i]] : i \in DOMAIN stats})

Insert(r, stats) ==
    /\ lastId + Len(stats) <= MaxEvents
    /\ log' = [log EXCEPT ![r] = Inserted(@, stats)]
    /\ lastId' = lastId + Len(stats)

\* A transaction that changes the run's status.
Advance(r) ==
    \E t \in Transactions :
        /\ status[r] = t[1]
        /\ status' = [status EXCEPT ![r] = Last(t[2])]
        /\ Insert(r, t[2])
        /\ UNCHANGED <<page, failures>>

\* Mutant: the events are inserted for a run that does not exist yet.
NoticeAlways(r) ==
    /\ Insert(r, <<status[r]>>)
    /\ UNCHANGED <<status, page, failures>>

\* A stage report, a lease renewal or a new queue position: an event that
\* repeats the status.
Notice(r) ==
    /\ status[r] \in {"QUEUED", "RUNNING", "CANCELLING"}
    /\ Insert(r, <<status[r]>>)
    /\ UNCHANGED <<status, page, failures>>

----------------------------------------------------------------------------
(* The page.  A stream record holds both ends of one event stream: the     *)
(* handler's variables and the frames on their way to the browser.         *)

Free == [pc |-> "free", run |-> None, lastID |-> 0, latest |-> 0, frames |-> <<>>]
Lost(r) == [Free EXCEPT !.pc = "lost", !.run = r]   \* reconnectTimer is set
Opened(r, cursor) == [Free EXCEPT !.pc = "read", !.run = r, !.lastID = cursor]

\* A request of refresh(), and whether its caller connects afterwards.
Answers == [status : Statuses, latest : Nat]
Requests ==
    [run : Runs, agent : Agents, phase : {"sent"}, answer : {None}, thenConnect : BOOLEAN]
    \cup [run : Runs, agent : Agents, phase : {"answered", "results"},
          answer : Answers, thenConnect : BOOLEAN]
ASSUME NullAssumption ==
    /\ None \notin Requests /\ None \notin Statuses
    /\ None \notin [run : Runs, status : Statuses]
    /\ None \notin [run : Runs, agent : Agents]

Live(s) == page.streams[s].pc \in {"read", "rows", "wait"}

\* this.subscription = api.subscribeSimulationEvents(runId, lastEventId, ...)
Connect(p) ==
    LET s == CHOOSE x \in Streams : p.streams[x].pc = "free"
    IN IF p.runId = None THEN p
       ELSE [p EXCEPT !.streams[s] = Opened(p.runId, p.lastEventId),
                      !.subscription = s]

Continued(p, req) == IF req.thenConnect THEN Connect(p) ELSE p

\* monotonicEventId
MonotonicEventId(previous, candidate) == Max({previous, candidate})

\* The guard and the emission at the end of refresh().
Emitted(p, req, results) ==
    IF req.run = p.runId /\ req.agent = p.agent
    THEN [p EXCEPT !.detail = [run |-> req.run, status |-> req.answer.status],
                   !.results = results,
                   !.lastEventId = MonotonicEventId(@, req.answer.latest)]
    ELSE p

\* Mutant: the abort is thrown to the caller, which does not connect.
AfterAbortThrown(p, req) ==
    IF req # None /\ req.phase = "results" THEN Emitted(p, req, None) ELSE p

\* An aborted refresh() settles before the next event is handled: its detail
\* read throws AbortError; its result reads (allSettled) are rejected but the
\* detail is still emitted.  Then its caller goes on.
AfterAbort(p, req) ==
    IF req = None THEN p
    ELSE Continued(IF req.phase = "results" THEN Emitted(p, req, None) ELSE p, req)

\* Mutant: the request in flight is left to finish; the newer one is dropped.
RefreshOnlyWhenIdle(p, thenConnect) ==
    IF p.runId = None \/ p.request # None THEN p
    ELSE [p EXCEPT !.request = [run |-> p.runId, agent |-> p.agent, phase |-> "sent",
                                answer |-> None, thenConnect |-> thenConnect]]

\* refresh(): abort the request in flight, start a new one.
Refresh(p, thenConnect) ==
    IF p.runId = None THEN p
    ELSE AfterAbort(
           [p EXCEPT !.request = [run |-> p.runId, agent |-> p.agent, phase |-> "sent",
                                  answer |-> None, thenConnect |-> thenConnect]],
           p.request)

\* closeRunSubscription(): only the last stream and the last timer are known.
CloseRunSubscription(p) ==
    [p EXCEPT !.streams = [s \in Streams |->
                  IF \/ s = p.subscription /\ p.streams[s].pc # "lost"
                     \/ s = p.reconnectTimer
                  THEN Free ELSE p.streams[s]],
              !.subscription = None,
              !.reconnectTimer = None]

\* Bound: streams, timers and pending connects of the page.
Claims(p) ==
    Cardinality({s \in Streams : p.streams[s].pc # "free"})
      + (IF p.request # None /\ p.request.thenConnect THEN 1 ELSE 0)

SelectRun(r) ==
    LET closed == CloseRunSubscription(page)
    IN /\ status[r] # "ABSENT"
       /\ Claims(closed) < Cardinality(Streams)
       /\ page' = Refresh([closed EXCEPT !.runId = r, !.detail = None, !.results = None,
                                         !.agent = FirstAgent, !.lastEventId = 0], TRUE)
       /\ UNCHANGED <<status, log, lastId, failures>>

\* Mutant: the results of the agent before stay.
SelectAgentOnly(a) ==
    /\ ~(page.agent = a /\ page.results # None /\ page.results.agent = a)
    /\ page' = Refresh([page EXCEPT !.agent = a], FALSE)
    /\ UNCHANGED <<status, log, lastId, failures>>

SelectAgent(a) ==
    /\ ~(page.agent = a /\ page.results # None /\ page.results.agent = a)
    /\ page' = Refresh([page EXCEPT !.agent = a, !.results = None], FALSE)
    /\ UNCHANGED <<status, log, lastId, failures>>

----------------------------------------------------------------------------
(* REST reads.                                                             *)

\* GetSimulation: one statement reads the row and its latest event id.
ServeDetail ==
    /\ page.request # None /\ page.request.phase = "sent"
    /\ page' = [page EXCEPT !.request.phase = "answered",
                            !.request.answer = [status |-> status[page.request.run],
                                                latest |-> LatestId(log[page.request.run])]]
    /\ UNCHANGED <<status, log, lastId, failures>>

Settled(p, results) ==
    Continued(Emitted([p EXCEPT !.request = None], p.request, results), p.request)

DetailArrives ==
    /\ page.request # None /\ page.request.phase = "answered"
    /\ page' = IF page.request.answer.status = "COMPLETED"
               THEN [page EXCEPT !.request.phase = "results"]
               ELSE Settled(page, None)
    /\ UNCHANGED <<status, log, lastId, failures>>

\* Summary, results, alarms and artifacts of the run, as one answer.
ResultsArrive ==
    /\ page.request # None /\ page.request.phase = "results"
    /\ page' = Settled(page, [run |-> page.request.run, agent |-> page.request.agent])
    /\ UNCHANGED <<status, log, lastId, failures>>

\* A failed detail read leaves the page as it was; failed result reads do not
\* keep the detail from being shown.
RequestFails ==
    /\ page.request # None /\ failures < RestFailures
    /\ page' = IF page.request.phase = "results" THEN Settled(page, None)
               ELSE Continued([page EXCEPT !.request = None], page.request)
    /\ failures' = failures + 1
    /\ UNCHANGED <<status, log, lastId>>

----------------------------------------------------------------------------
(* The SSE handler, one per stream.                                        *)

Handler(s, upd) ==
    /\ page' = [page EXCEPT !.streams[s] = upd]
    /\ UNCHANGED <<status, log, lastId, failures>>

Expired(cursor, rows) == cursor > 0 /\ OldestId(rows) > 0 /\ cursor < OldestId(rows) - 1

\* First statement of EventsAfter: the bounds of the log, and the reset.
ReadBounds(s) ==
    LET h == page.streams[s]
        latest == LatestId(log[h.run])
    IN /\ h.pc = "read" /\ Len(h.frames) < Window
       /\ Handler(s,
            IF Expired(h.lastID, log[h.run])
            THEN [h EXCEPT !.pc = "wait", !.latest = latest, !.lastID = latest,
                           !.frames = Append(@, [type |-> "stream.reset", id |-> latest,
                                                 status |-> None])]
            ELSE [h EXCEPT !.pc = "rows", !.latest = latest])

\* The PageLimit oldest rows after the cursor.
EventsAfter(cursor, rows) ==
    LET after == {e \in rows : e.id > cursor}
    IN {e \in after : Cardinality({f \in after : f.id < e.id}) < PageLimit}

\* The one sequence that orders rows by id.
InIdOrder(rows) ==
    {q \in [1 .. Cardinality(rows) -> rows] :
        \A i, j \in DOMAIN q : i < j => q[i].id < q[j].id}

EventFrame(e) == [type |-> "event", id |-> e.id, status |-> e.status]

\* Second statement of EventsAfter, and the frames the handler writes.
ReadRows(s) ==
    LET h == page.streams[s]
    IN /\ h.pc = "rows"
       /\ \E events \in InIdOrder(EventsAfter(h.lastID, log[h.run])) :
             Handler(s, [h EXCEPT !.pc = "wait",
                                  !.lastID = IF events = <<>> THEN @ ELSE Last(events).id,
                                  !.frames = @ \o [i \in DOMAIN events |->
                                                      EventFrame(events[i])]])

\* The heartbeat frame carries the latest id of the log, not the cursor.
Heartbeat(s) ==
    LET h == page.streams[s]
    IN /\ h.pc = "wait" /\ Len(h.frames) < Window
       /\ Handler(s, [h EXCEPT !.pc = "read",
                               !.frames = Append(@, [type |-> "heartbeat", id |-> h.latest,
                                                     status |-> None])])

PollAgain(s) ==
    /\ page.streams[s].pc = "wait"
    /\ Handler(s, [page.streams[s] EXCEPT !.pc = "read"])

----------------------------------------------------------------------------
(* The callbacks of a stream.                                              *)

\* isNewerEventId; an id of 0 stands for null in the store.
IsNewerEventId(previous, candidate) == candidate > previous

\* projectSseEvent, the new cursor, and the refresh a status asks for.
Applied(p, frame) ==
    LET shown == [p EXCEPT !.detail =
                     IF @ # None /\ frame.status # None
                     THEN [@ EXCEPT !.status = frame.status] ELSE @,
                  !.lastEventId = frame.id]
    IN IF frame.status # None THEN Refresh(shown, FALSE) ELSE shown

\* Mutant: a reset only marks the stream as connected.
OnEventIgnoringReset(p, r, frame) ==
    IF r = p.runId /\ frame.type # "stream.reset" /\ IsNewerEventId(p.lastEventId, frame.id)
    THEN Applied(p, frame) ELSE p

\* Mutant: every event is applied, whatever its id.
OnEventInAnyOrder(p, r, frame) ==
    IF r # p.runId THEN p
    ELSE IF frame.type = "stream.reset" THEN Refresh(p, FALSE)
    ELSE Applied(p, frame)

OnEvent(p, r, frame) ==
    IF r # p.runId THEN p
    ELSE IF frame.type = "stream.reset" THEN Refresh(p, FALSE)
    ELSE IF IsNewerEventId(p.lastEventId, frame.id) THEN Applied(p, frame)
    ELSE p

DeliverFrame(s) ==
    LET h == page.streams[s]
    IN /\ Live(s) /\ h.frames # <<>>
       /\ page' = OnEvent([page EXCEPT !.streams[s].frames = Tail(@)], h.run, Head(h.frames))
       /\ UNCHANGED <<status, log, lastId, failures>>

\* onDisconnect: the connection or the server is gone, with what it had sent.
Disconnect(s) ==
    LET r == page.streams[s].run
    IN /\ Live(s)
       /\ page' = IF r = page.runId
                  THEN [page EXCEPT !.streams[s] = Lost(r), !.reconnectTimer = s]
                  ELSE [page EXCEPT !.streams[s] = Free]
       /\ UNCHANGED <<status, log, lastId, failures>>

\* Five seconds later: refresh().then(connect), if the run is still selected.
Reconnect(s) ==
    LET r == page.streams[s].run
        fired == [page EXCEPT !.streams[s] = Free,
                              !.reconnectTimer = IF @ = s THEN None ELSE @]
    IN /\ page.streams[s].pc = "lost"
       /\ page' = IF r = page.runId THEN Refresh(fired, TRUE) ELSE fired
       /\ UNCHANGED <<status, log, lastId, failures>>

----------------------------------------------------------------------------
Init ==
    /\ status = [r \in Runs |-> "ABSENT"]
    /\ log = [r \in Runs |-> {}]
    /\ lastId = 0
    /\ page = [runId |-> None, agent |-> FirstAgent, detail |-> None, results |-> None,
               lastEventId |-> 0, request |-> None, subscription |-> None,
               reconnectTimer |-> None, streams |-> [s \in Streams |-> Free]]
    /\ failures = 0

Next ==
    \/ \E r \in Runs : Advance(r) \/ Notice(r) \/ SelectRun(r)
    \/ \E a \in Agents : SelectAgent(a)
    \/ ServeDetail \/ DetailArrives \/ ResultsArrive \/ RequestFails
    \/ \E s \in Streams : \/ ReadBounds(s) \/ ReadRows(s) \/ Heartbeat(s) \/ PollAgain(s)
                          \/ DeliverFrame(s) \/ Disconnect(s) \/ Reconnect(s)

Spec == Init /\ [][Next]_vars

\* Requests are answered, handlers and timers run, frames arrive; nothing is
\* owed by the user, by failures or by the runs.  A request that is aborted
\* and sent again for ever is answered in the end: timers wait five seconds.
Fairness ==
    /\ SF_vars(ServeDetail) /\ SF_vars(DetailArrives) /\ SF_vars(ResultsArrive)
    /\ \A s \in Streams : /\ WF_vars(ReadBounds(s)) /\ WF_vars(ReadRows(s))
                         /\ WF_vars(Heartbeat(s) \/ PollAgain(s))
                         /\ WF_vars(DeliverFrame(s)) /\ WF_vars(Reconnect(s))

FairSpec == Spec /\ Fairness

----------------------------------------------------------------------------
(* Properties.                                                             *)

Events == [id : Nat, status : Statuses]
Frames == [type : {"event", "heartbeat", "stream.reset"}, id : Nat,
           status : Statuses \cup {None}]

\* Types of the log, of the store and of the two ends of each stream
\* (SimulationStore.state, simulationEvents' locals).
StreamTypeOK ==
    /\ status \in [Runs -> Statuses \cup {"ABSENT"}]
    /\ \A r \in Runs : log[r] \subseteq Events
    /\ lastId \in 0 .. MaxEvents /\ failures \in 0 .. RestFailures
    /\ page.runId \in Runs \cup {None} /\ page.agent \in Agents
    /\ page.detail \in [run : Runs, status : Statuses] \cup {None}
    /\ page.results \in [run : Runs, agent : Agents] \cup {None}
    /\ page.lastEventId \in Nat
    /\ page.request \in Requests \cup {None}
    /\ {page.subscription, page.reconnectTimer} \subseteq Streams \cup {None}
    /\ \A s \in Streams :
          /\ page.streams[s].pc \in {"free", "read", "rows", "wait", "lost"}
          /\ page.streams[s].run \in Runs \cup {None}
          /\ page.streams[s].lastID \in Nat /\ page.streams[s].latest \in Nat
          /\ page.streams[s].frames \in Seq(Frames)

\* What the page shows belongs to the selected run, and results also to the
\* selected agent and to a completed run, whatever requests of earlier
\* selections are still in flight (the guard of refresh, onEvent's run check).
ShowsSelection ==
    /\ page.detail # None => page.detail.run = page.runId
    /\ page.results # None =>
          /\ page.results = [run |-> page.runId, agent |-> page.agent]
          /\ page.detail.status = "COMPLETED"

Rank == [st \in Statuses |->
            CASE st = "QUEUED" -> 0 [] st = "RUNNING" -> 1
              [] st \in {"CANCELLING", "GENERATING_ARTIFACTS"} -> 2
              [] OTHER -> 3]

\* The status shown for a run never goes back: a slow REST answer does not
\* overwrite a newer event, nor an old event a newer answer (the abort in
\* refresh, isNewerEventId in onEvent).
ShownNeverRegresses ==
    [][page'.runId = page.runId /\ page.detail # None /\ page'.detail # None
         => Rank[page'.detail.status] >= Rank[page.detail.status]]_vars

\* The page is never left without a stream for the run it shows: there is
\* one, or a reconnect timer, or a request whose caller will connect (the
\* catch in refresh swallows the abort so that the caller goes on).
StaysSubscribed ==
    page.runId # None =>
        \/ page.request # None /\ page.request.thenConnect
        \/ \E s \in Streams : page.streams[s].run = page.runId

Quiet(s) ==
    /\ Live(s) /\ page.streams[s].run = page.runId
    /\ page.request = None /\ page.streams[s].frames = <<>>
    /\ page.streams[s].lastID >= LatestId(log[page.runId])

Current ==
    /\ page.detail # None /\ page.detail.status = status[page.runId]
    /\ page.detail.status = "COMPLETED" => page.results # None

\* A page that has nothing left to read shows the run as it is, and the
\* results of a completed run; skipped events, resets, heartbeat ids ahead of
\* the cursor and lost connections included (as long as REST reads succeed).
QuietMeansCurrent == failures = 0 => \A s \in Streams : Quiet(s) => Current

\* frontend/README.md:33: "REST detail is authoritative.  SSE applies only newer
\* events to the selected run, while reconnect and terminal corrections refresh
\* the same run."  A page that has nothing left to read shows a run's end.
TerminalIsCorrected ==
    \A s \in Streams : Quiet(s) /\ status[page.runId] \in Terminal =>
        page.detail # None /\ page.detail.status = status[page.runId]

\* A page that stays on a run shows its end, and its results, in the end.
EndIsShown ==
    \A r \in Runs :
        (page.runId = r /\ status[r] \in Terminal) ~> (page.runId # r \/ Current)
============================================================================
