# A TLA+ development of the federated IoT platform

This directory models the platform's own logic in TLA+, checks the models with
TLC on small instances and proves the central properties with TLAPS for every
value of the constants.

The platform runs one data pipeline at a time. A browser uploads a dataset and
creates simulation runs; a Go web API stores them in PostgreSQL; one slot,
served in FIFO order by a Python worker holding a lease, preflights datasets
and executes runs; results are published by renaming a directory and read back
through the API; the browser follows a run through REST reads and an event
stream. What is hard is not the numerics but who may write what, when: leases
that expire under a worker that has not noticed, cancellations that race the
terminal write, a rename and a database commit that are two steps, REST
answers, stream frames and timers that overtake each other in the page.

## 1. Inventory

Paths are below `src/`. "pg" is `backend/internal/storage/postgres`, "worker"
is `algorithm-worker/src/federated_iot_worker`.

| component | where | state it keeps | operations |
|---|---|---|---|
| Scheduler and job control | pg/repository.go, pg/migrations 1, 2, 6, 8, 9 | `datasets`, `simulations`, `worker_jobs`, `worker_instances`, `idempotency_keys`, `scheduler_control` | RegisterDataset, CreateSimulation, CancelSimulation; worker_register, heartbeat, claim, report event, complete preflight, confirm cancel, fail, commit; recover expired leases |
| Lease recovery loop | backend/internal/recovery/lease.go, backend/cmd/web-api/main.go | a ticker | recovery at start-up and at every tick |
| Worker process | worker/runner.py, worker_service.py, postgres_repository.py, cancellation.py | registration flag, claimed task, renewal thread and its failure, stage reached | register, idle heartbeat, poll, run a task, check for cancellation, one terminal write |
| Artifact writer | worker/artifacts.py | `runs/<id>/tmp/<attempt>`, `runs/<id>/committed` | stage files, write the manifest, rename, abandon |
| Event log and SSE handler | migrations 1 and on, pg/repository.go (EventsAfter), backend/internal/httpapi/api.go | `simulation_events` with retention; the handler's cursor | insert and retain, replay after a cursor, reset, heartbeat |
| Frontend store | frontend/src/state/simulation-store.ts, frontend/src/api/live-api.ts | selected run and agent, detail, results, cursor, request, stream, reconnect timer | selectRun, selectAgent, refresh, onEvent, onDisconnect |
| Dataset upload | backend/internal/dataset/stream.go, httpapi/api.go | source files under `datasets/` | stream with a size limit and a hash, register, remove on failure |
| Dataset poller | frontend/src/state/dataset-poller.ts | generation, timer, request flag | watch, poll, stop |
| Constraints, profiles, mappings | backend/internal/parameters, pg/repository.go, worker/parameters.py | immutable profiles, mappings and snapshots | validate, materialise, create, rename, list |
| Lock order of the transactions | pg/repository.go, migrations 2, 6, 9 | row locks | the order in which each transaction takes them |
| History, result and artifact reads | httpapi/api.go, pg/repository.go | none | cursor paging, streaming of files |
| Schema, triggers, grants | pg/migrations | constraints | CHECKs, unique indexes, the terminal-row and retention triggers |
| Domain types and envelopes | backend/internal/domain, worker/contracts.py | none | status sets, capacities, canonical JSON |
| Numerical pipeline | worker/simulation.py, preprocessing.py, features.py, agents.py | arrays | preprocessing, learning, evaluation |
| History and replay views | frontend/src/ui.ts | filters, list, cursor, two epochs, selected run and agent, replay points, playback timer | load, load more, filter, follow a link, select, choose an agent, play |
| Queue view | frontend/src/ui.ts | list of live runs, load flag, runs being cancelled | load with a detail per row, project the store's status, cancel, follow a run |
| Configuration view | frontend/src/ui.ts | Reference, saved versions, draft, pending marks | draft, edit, reset, save, rename, choose |
| Configuration, health, deployment | config, healthcheck, deploy/ | none of interest | parsing, probes, packaging |

**How they interact.** The API and the workers never talk to each other: they
call transactions on the same tables. The web API's transactions lock the
`scheduler_control` row; so do a claim and a recovery. A heartbeat, a stage
report and the terminal writes lock the rows of their job and run; of these
only `worker_fail_job` locks `scheduler_control` as well (migration 9). A
worker learns of a cancellation by reading; it learns that its lease is gone
when a call returns FALSE or raises. Every status change inserts rows into
`simulation_events`, which the SSE handler polls. The page combines the stream
with REST reads of the same run.

**What is hard, and what makes each part correct.**

* *Job control* - a claim first recovers expired leases, then looks for a live
  one, then takes the head of the queue; `now()` is the time the transaction
  began, which may be long before it gets its locks. Correct: at most one job
  in the slot; the rows of a job, its run and its dataset move together; the
  order of acceptance is the order of service; a cancellation that was
  accepted while a run executes is never lost; a settled row is never written
  again; admission stays within its capacities; one run per idempotency key.
* *Worker process* - two threads share a lease; a process may compute for long
  with a lease that is gone; it may die between any two steps. Correct: no job
  is in the hands of two processes; a directory is renamed into place at most
  once; a run marked COMMITTED is on disk; a run that FAILED left nothing;
  every accepted job is settled in the end.
* *Event log, SSE and page* - retention deletes what a reader has not seen;
  the two statements of `EventsAfter` see different logs; an aborted request
  still runs the code after its `await`; streams break with frames on the way.
  Correct: the page shows what belongs to its selection, never goes back, is
  never left without a stream, and shows the end of a run in the end.
* *Dataset upload* - the source file is moved before the row exists. Correct:
  a registered dataset has its file, a rejected upload leaves none.
* *Dataset poller* - an answer of a stopped poll arrives while another dataset
  is watched. Correct: only the watched dataset is shown, polling goes on.
* *History and replay* - a list is two awaits, a selection goes through the
  store and then through three reads, and links, filters, rows and agents may
  be chosen meanwhile. Correct: no run is listed twice; the points drawn are
  those of the run and agent selected; at most one timer plays; a list that
  loads is listed or fails.
* *Queue view* - the list is a snapshot, corrected by one read per row,
  overwritten by the events of the followed run and patched by cancellations.
  Correct: once the runs rest the board shows them as they are; a run is marked
  as being cancelled exactly while one call cancels it; the page does not stay
  on an ended run while another one lives.
* *Configuration view* - saves of equal contents race each other, in the
  database as well; answers replace what was chosen since. Correct: one version
  per content; what the page holds of a version is what was stored; a pending
  save ends.
* *Constraints* - the same rules are written in Go and in Python. Correct: both
  accept exactly the values the declared constraint admits.
* *Lock order* - cancellation locks run and then job, the worker's
  transactions job and then run. Correct: no cycle of waits, or one that only
  costs one of the two transactions.

`PROJECT.json` lists the hazards of this code one by one, each at its line,
with the properties that would catch it going wrong.

## 2. The modules

    TicketQueue          what the scheduler promises (abstract)
      ^ refines
    JobControl           the transactions on the tables          JobControl_proofs
      ^ EXTENDS
    WorkerProcess        worker processes calling them           WorkerProcess_proofs
    EventStream          event log, SSE handler and page          EventStream_proofs
    DatasetIntake        uploads, files, preflight and poller     DatasetIntake_proofs
    PageValues           null, as the views' modules share it
      ^ EXTENDS
    HistoryPage          history list, selection and replay       HistoryPage_proofs
    ProfileDrafts        parameter versions and the page's draft  ProfileDrafts_proofs
    QueueBoard           the queue and its cancel calls           QueueBoard_proofs
      ^ EXTENDS
    MCConsole            one of the page's desks at a time        Console_proofs

`MCJobControl`, `MCWorkerProcess` and `MCEventStream` hold the symmetry sets
and, for two of the disagreements of section 6, the documented property;
`MCHistory` gives the history list a filter. Each proof module EXTENDS the module
it is about, `WorkerProcess_proofs` also `JobControl_proofs`, and `Console_proofs`
those of the four views.

Rows in the order of their ids, and what a filter or a query leaves of a list,
are written as the one sequence that enumerates a set in order (`InIdOrder`,
`InOrder`): the same sequence as sorting or `SelectSeq` would give, without the
recursion, which no proof could look into.

### JobControl

One action is one committed transaction. A call that returns FALSE, raises or
is rejected changes no row, so it is a stuttering step - except that a refused
heartbeat still refreshes the worker's registration (`HeartbeatInstance`).

| variable | column |
|---|---|
| `dataset`, `sim`, `job` | `datasets.status`, `simulations.status`, `worker_jobs.status`; "ABSENT" before the row exists |
| `current_stage`, `artifact_state`, `cancel_asked`, `input` | the columns of `simulations` |
| `enqueue_seq`, `last_seq` | `worker_jobs.enqueue_seq` and its sequence |
| `owner`, `lease` | `worker_jobs.lease_token` (by the worker that minted it) and the ticks left to `lease_expires_at` |
| `last_attempt` | `worker_jobs.last_attempt_id`, which outlives the lease |
| `registered`, `fresh` | `worker_instances` and its heartbeat's age |
| `idempotency` | `idempotency_keys` |

* A job is identified with what it works on: a dataset has one preflight job,
  a run one simulation job.
* A lease token is identified with the worker that minted it. Every job is
  claimed at most once - nothing puts a job back into the queue - so a worker
  never holds two tokens of the same job.
* **Time** is relative. `Tick` lowers every running lease and registration.
  `now()` in PostgreSQL is the start of the transaction; a transaction that
  waited for a lock acts on a time that lags by up to `MaxLag` ticks, and
  every worker transaction and recovery takes its lag as a parameter. That is
  why a lease may be renewed after it has run out for everybody else, and why
  `lease` goes down to `-MaxLag`.
* **Constraints are not guards.** The CHECKs, the unique indexes
  (`worker_jobs_single_execution_slot`) and `protect_terminal_simulation`
  of the schema are left out of the model on purpose. The invariants state
  what they state, so a run that passes also shows that no transaction of the
  code is ever aborted by them.
* Every transaction of the API and every claim, recovery and reported failure
  holds the `scheduler_control` row, the worker's other transactions hold the
  row of their job; the transactions are atomic here. Deadlocks between them
  are not modelled: their victims are, as calls that fail (WorkerProcess).

### TicketQueue

The promise to whoever submits work: tickets, one task served at a time in the
order of tickets, each at most once, a task whose cancellation was asked for
ends cancelled, a server that vanishes loses its task. No lease, no worker, no
clock. The refinement maps serving to the jobs in an active status, the ticket
to `enqueue_seq` and the outcome to the terminal status; a claim that first
recovers an expired job is one `Serve` step that gives up the old task.

### WorkerProcess

EXTENDS JobControl and adds, per process, the place of its main thread (`at`),
the claimed job (`task`), the renewal thread (`beat`: off, on, or on and
failed) and the stages it has reported (`reached`); per run, whether its
temporary and its committed directory exist (`staged`, `published`). The
places follow `WorkerService.run_one_poll` and `WorkerRunner`:

| place | code |
|---|---|
| `down`, `idle` | not running; polling in `WorkerService` |
| `start`, `renew`, `recheck` | the first renewal, made by the main thread; refused, the cancellation state decides |
| `compute` | stages and `check_cancel` at bounded intervals |
| `write`, `publish` | staging of the files; rename to `committed` |
| `review` | the last `check_cancel`, after the rename |
| `commit`, `confirm`, `fail` | the three terminal writes |

`CancelSeen` and `LeaseLostSeen` are `check_cancel` raising, in that order of
precedence. Each call of the repository acts on what an earlier call told it.
An exception that is not a reported failure - a refused terminal write, a
stale attempt, a broken connection - ends the process (`Die`): the service
does not catch it, and the container is restarted. A call of the main thread
that fails or is lost in transit, before or after its commit, is a `Crash`.
One of the renewal thread, which a deadlock may choose as its victim while
everything else goes on, is `RenewalFails`: it ends that thread, with the lease
still live, and the main thread works on without renewals until its next
check. `TaskFails` is a failure
the runner reports: it abandons the staged directory and goes to `fail`.

### EventStream

The event log (`status`, `log`, `lastId`), the page with its single request in
flight, its timers and its streams (`page`), and a count of failed REST reads.
A stream's record holds both ends: the handler's locals and the frames on
their way.

* `Advance` and `Notice` are the transactions of JobControl seen from the log:
  which status they need and which events they insert. The ids of one run's
  events are in commit order, because whoever inserts one holds the scheduler
  row while the run is QUEUED and the run's row afterwards. (A creation that
  emits queue positions from an older snapshot fails on its foreign-key check
  and inserts nothing.)
* `ReadBounds` and `ReadRows` are the two statements of `EventsAfter`, with the
  log free to change in between; `Heartbeat` and `PollAgain` are the two ways
  the handler's wait ends.
* JavaScript runs one callback at a time: each action is what happens from one
  `await` to the next. `Refresh` aborts the request in flight; the aborted
  call's own continuation runs first (`AfterAbort`): an aborted detail read
  ends there, aborted result reads still emit the detail, and in both cases
  the caller goes on to connect.
* `closeRunSubscription` knows only the last stream and the last timer. Two
  selections that overtake each other leave a stream behind, and the model
  keeps it.

### DatasetIntake

| variable | code |
|---|---|
| `request`, `size` | where the POST of a dataset is; the bytes the browser sends |
| `files`, `bytes` | what exists below `datasets/<id>`; the bytes stored |
| `row`, `preflight` | `datasets.status`; how far the worker has got |
| `page` | `state.dataset` and its epoch, the `DatasetPoller` with its requests |

* The file tree is a set of names. `RemoveImported` is the four `os.Remove`
  calls of `RemoveImportedDataset` in their order: a directory that is not
  empty stays. `Cleaned` adds the other deferred call, which runs before it.
  Making the dataset's directory and registering its removal are one step here;
  an `Lstat` of the new path that fails between the two (stream.go:116) leaves
  an empty directory in the code, which the model does not show.
* Whatever a row or a header of the CSV may have is one step, `RejectImport`.
  Lengths are kept: the reader stops one byte beyond the limit, and
  `CommitImport` is guarded by the size check.
* `Register`, `RegisterFails` and `RegisterAnswerLost` are the outcomes of
  `RegisterDataset` as the handler and the database see them; only in the last
  they disagree. `ApiCrash` ends every request where it is.
* The dataset's transactions are JobControl's; here they are one step each, and
  `FailPreflight` stands for every way to lose a preflight.
* In the page every action runs to the next `await`. A stopped poll stays in
  `polls` until it is answered or fails, and then meets the generation check.

### HistoryPage

`hist` is `state.view`, `state.history`, `state.replayPlayback` and what the
views read of the store, in one record, because a JavaScript segment changes
all of it at once; operators on that record stand for the functions of `ui.ts`
and an action is one event with everything it resumes.

* A list load is two steps, `ListArrives` with its look at the epoch and
  `MetricsArrive` without one. `Answer` is `ListSimulations`: newest first, a
  page, a cursor bound to its query; `Accepted` is the server's refusal of
  another query's cursor.
* `Select` stops the playback, makes the store follow the run and leaves a
  request whose continuation (`Continued`) loads the replay. A new request of
  the store aborts the one in flight, whose continuation still runs.
* `LoadReplay` to `ReplayArrives` is `loadReplayResources` with its guard on
  epoch, run and agent; its three reads are taken as one.
* `intervals` counts the timers `setInterval` has running, which the page
  itself does not know; `timer` is the handle it keeps.

### QueueBoard

`trail` holds the statuses every run has been through, `task` the followed run
and how much of its trail the store shows; that this never goes back is
`ShownNeverRegresses` of EventStream. `board` is `state.queue` with the load in
flight and the cancel calls.

* A load is a list (`ListServed`), one detail per row in any order
  (`DetailServed`, `DetailFails`), and `LoadDone`, which replaces the items and
  may choose a run to follow.
* `StoreShows` and `StoreEmits` project the followed run into the items.
* `cancelQueuedSimulation` is the sequence before - post - read - patch -
  refresh - reload of a call, each of its reads and its patch a step of its
  own; `Settled` is its `finally`. The request is refused if the run has ended
  (`ENDED`, completed or failed); if it is being or has been cancelled, from
  another page or by the button of the top bar, the request succeeds, changes
  nothing, and the call goes on to its end.

### ProfileDrafts

`stored` are the CUSTOM versions on the server (number 0 is the Reference), `config` the configuration
view, `saves` and `renames` the calls in flight. One editable path with a
shared value and an agent's override stands for all.

* The server side of a save is two steps, `CheckProfile` (base, constraints,
  lookup by content) and `InsertProfile` (unique index, second lookup): two
  saves interleave between them.
* The list route ignores the mode the page asks for: `ListedVersions` is all
  versions, newest first, cut after `ListLimit`, with the Reference as the
  last. The page picks it, drafts from it and renames it like a saved one;
  `ServeRename` refuses that renaming (`REFERENCE_CONFIG_IMMUTABLE`).
* `SaveFails` includes an answer that is lost after the commit.
* `Edited` takes the pending mark away, as `updateDraftValue` does.

## 3. What the runs check

Twelve runs; `PROJECT.json` gives each its module, configuration and properties,
and a mutation of the model that each property refutes.

| run | instance | shows |
|---|---|---|
| `control_plane` | 2 workers, 2 datasets, 2 runs, 2 stages | `SingleExecutionSlot`; rows that move together (`RunFollowsJob`, `DatasetFollowsPreflight`); `CancellationIntentWins`; `SettledIsFinal` |
| `admission` | 1 worker, 2 datasets, 3 runs, 3 keys | `CapacityRespected`, `FifoStart`, `OneRunPerKey`, `RunsUseValidDatasets`, and that JobControl implements TicketQueue (`ServesAsPromised`) |
| `worker_process` | 2 processes, 1 dataset, 2 runs | `SoleExecutor`, `PublishOnce`, `CommittedIsPublished`, `FailedLeavesNothing`, `StartedWithRenewal` |
| `worker_liveness` | 1 process, 1 dataset, 2 runs | `EveryJobSettles`, `ExpiredLeaseSettles` |
| `event_stream` | 1 run, 2 agents, 1 stream that breaks at will | `ShowsSelection`; `QuietMeansCurrent`: with nothing left to read, the page shows the run as it is; `EndIsShown`: it shows the end and the results in the end |
| `selection` | 2 runs, 2 agents, 2 streams, pages shorter than the backlog, a failing read | `StaysSubscribed`, `ShownNeverRegresses` |
| `console`, desk "data" | 2 uploads that may overlap, a limit of 1 and files of 0 to 2 bytes, 1 lost commit answer, API crashes | `StoredIsWhole`, `RefusedLeavesNothing`, `RegisteredHasSource`, `ShowsLatestUpload`, `VerdictIsShown` |
| `console`, desk "config" | 2 values of which 1 is accepted, 2 saves in flight, lists of 2 versions, 6 acts of the user, 1 request that fails or loses its answer | `OneVersionPerContent`, `CopiesAreFaithful`, `RequestsSettle` |
| `console`, desk "queue" | 2 runs, 2 cancel calls, 3 statuses, 2 clicks, 1 failing request | `PendingExact`, `BoardCatchesUp`, `PageFollowsQueue` |
| `console`, desk "history" | 2 runs (1 without artifacts), 2 filters, 2 agents, pages of one row, 3 inputs, 1 failing request | `NoDuplicateRows`, `ReplayShowsSelection`, `OneTimer`, `RequestsSettle` |
| `waiting_room`, `cancel_after_rename`, `terminal_correction`, `source_removed`, `stale_cursor` | | the disagreements of section 6 |

**Bounds.** The capacities are scaled from 4 and 10 to 1 and 1: what matters is
"full", "one too many" and "one larger while the slot is free of runs", and
with a slot, a waiting room of one and three runs each of them happens. One
tick of lease and one of lag are enough for a lease that is live for one
transaction and expired for another; `worker_liveness` uses a lease of two
ticks so that a renewal can be in time. Two workers are the fewest that can
compete; the stages only need a first and another one. The one counter of
JobControl, `last_seq`, is bounded by the number of jobs.

In EventStream `MaxEvents` bounds the insertions, `Window` the frames on their
way, `RestFailures` the reads that fail; `Retention` and `PageLimit` are
scaled from 2000 and 100. Retention of two rows with five events makes cursors
expire, and does so between the two statements of `EventsAfter` too. In
`event_stream` a page of rows is as long as the retained log, so that the
backlog fits one page: with a longer backlog the heartbeat's id overtakes the
rows (section 6), which is what `terminal_correction` shows. `selection` keeps
one row and sends one row at a time, with three events over two runs.

`console` composes the four views as a sum: a behaviour works at one desk and
the other views stay as they start. The views share no state but the store,
and each module has its own account of what the others do to it (links,
selections elsewhere, runs that start and end). In DatasetIntake one dataset id
serves one upload; two of them overlap in every order. Files one byte below, at
and above the limit are the boundary. A lost commit answer is bounded by
`LostAnswers`; `RefusedLeavesNothing` and `RegisteredHasSource` are about the
behaviours without one (section 6 has the other), `ConsoleTypeOK` checks with
it that a removal never takes a directory from under the worker's output. Six
acts are enough to draft, edit and name, save, edit while the save is pending,
name and save the same content again, or to pick the Reference from the list
and rename it; a list of two versions holds the Reference until a second one
is saved (`ListLimit` is 100 in the code). Two clicks in the queue are a cancel of
both runs or a cancel during a change of view; three statuses let one of two
runs be waiting, run and end. Three inputs in the history are, say, a
link, a row and an agent, each before the answer to the one before; pages of one
row make the merge of pages happen with two runs.

**Deadlock** is checked in JobControl, where time passes, and in EventStream,
where a handler can always poll again or a stream be lost. In the models of
the page's views the user's inputs are bounded and everything may be uploaded,
judged and shown: they may stop.

**Symmetry** is used for identifiers only, never in a run with liveness.

## 4. Fairness

Safety runs assume none. `WFairSpec` assumes

* weak fairness of `RecoveryStep`: `web-api/main.go` runs recovery at start-up
  and `recovery/lease.go` repeats it at every tick of a ticker, for as long as
  the API lives; `deploy/compose.postgres.yaml` restarts the API and the worker
  (`restart: unless-stopped`);
* weak fairness of `Tick`: time passes;
* weak fairness of `Launch`, for the same restart policy, of `PollRefused`
  (the next poll of a process whose registration lapsed ends it) and of the
  main thread of a process that holds a task;
* strong fairness of `Poll`: a process registers and then claims in the same
  loop within seconds, while a registration lasts for a lease (60 s by default)
  and is refreshed by every idle heartbeat. That it lapses or that the process
  dies between the two *every* time is excluded; that it does so any finite
  number of times is not.

Nothing is owed by the user, by a cancellation, by a renewal thread or by a
crash: a process may crash at every task it claims, and jobs are settled all
the same.

`FairSpec` of EventStream assumes weak fairness of each step of a handler, of
frame delivery and of the reconnect timer, and strong fairness of the three
REST steps. A request may be aborted and sent again by every frame that
arrives; a run emits finitely many events, and afterwards only timers of five
seconds repeat, so an answer is not outrun for ever. Connections may break
for ever.

`FairSpec` of DatasetIntake assumes weak fairness of the poll timer and strong
fairness of serving and of answering a poll: polls fail and are repeated every
two seconds for ever, and not every one of them fails. Nothing is owed by the
API's handlers or the worker.

`MCConsole` adds, for the other views,

* `HFairness`: a request of the history list, or of the metrics of its rows, is
  answered or fails (fetch settles);
* `PFairness`: each save is served, and its answer arrives or is lost;
* `QFairness`: the ten-second interval fires, the list and its details are
  answered, and the store catches up with the run it follows, which is
  `EndIsShown` of EventStream. `MCConsole` states it as `QAnswers` and the
  interval's fairness at the queue's own desk. A request may fail
  `MaxLost` times; one that never arrives and never fails is excluded.

The user, the runs and the workers owe nothing there.

## 5. What is proved

TLAPS proves the following for every value of the constants: any number of
datasets, runs, keys, workers, stages, agents, streams, events, saves, calls,
filters and points, any capacities, lease, lag, retention and limit. The
assumptions on constants are named where the constants are declared
(`ConstantsAssumption`, `StageOrderAssumption`, `RequestAssumption`,
`DraftAssumption`, `NullAssumption` and those of EventStream, DatasetIntake and
QueueBoard): identifiers of different kinds are different, sets are finite
where they are counted, NULL is no identifier, no number, no status and no
record (of a request, of what is shown), bounds are naturals. TLC evaluates all
of them.

| theorem | states |
|---|---|
| `TypeCorrect` | `TypeOK` |
| `OneSlot`, `RunsFollowJobs`, `DatasetsFollowPreflights`, `CancellationWins` | `SingleExecutionSlot`, `RunFollowsJob`, `DatasetFollowsPreflight`, `CancellationIntentWins` |
| `FifoOrder`, `ValidInputs`, `Idempotence`, `Admission` | the invariants of `admission` |
| `Finality` | `SettledIsFinal`, an action property |
| `ImplementsQueue` | `Spec => TQ!TSpec`: JobControl implements TicketQueue |
| `ProcessTypes` | `WTypeOK` |
| `ImplementsControlPlane`, `ProcessesServeTheQueue` | `WSpec => Spec`: processes only take steps of the control plane, so that every theorem above holds with them; in particular they implement TicketQueue |
| `OneExecutor`, `OneRename`, `PublishedOutcomes`, `FailuresLeaveNothing` | `SoleExecutor`, `PublishOnce`, `CommittedIsPublished`, `FailedLeavesNothing` |
| `NoThreadNoResult` | `StartedWithRenewal` |
| `StreamTypes`, `SelectionShown`, `AlwaysSubscribed` | `StreamTypeOK`, `ShowsSelection`, `StaysSubscribed` |
| `ShownOnlyAdvances` | `ShownNeverRegresses`, an action property |
| `QuietPagesAreCurrent` | `Spec /\ []BacklogFits => []QuietMeansCurrent` |
| `LogsStayShort` | `ShortLogs`: at most `Retention` rows per run, with distinct ids |
| `WholeFiles`, `NothingLeft`, `SourcesExist` | `StoredIsWhole`, `RefusedLeavesNothing`, `RegisteredHasSource` |
| `IntakeTypes`, `LatestUploadShown` | `IntakeTypeOK`, `ShowsLatestUpload` |
| `QueueTypes`, `PendingIsExact` | `QTypeOK`, `PendingExact` |
| `DraftTypes`, `VersionsAreUnique`, `CopiesStayFaithful` | `PTypeOK`, `OneVersionPerContent`, `CopiesAreFaithful` |
| `HistoryTypes`, `RowsAreDistinct`, `DrawnReplayIsSelected`, `PlaybackHasOneTimer` | `HTypeOK`, `NoDuplicateRows`, `ReplayShowsSelection`, `OneTimer` |
| `DesksAreViews`, `ViewsKeepTypes` | `CFairSpec` implies each view's specification, and `ConsoleTypeOK` |

**JobControl.** No single property is inductive. Recovery decides from the
job's row what becomes of the run's row, so "run follows job" needs the lease
columns (`LeaseAndStageColumns`); "a cancellation is never lost" needs that a
job is only CANCELLING when its run was asked for it (`CancellingIsAsked`);
FIFO needs that sequence numbers are at most the last one handed out and that a
waiting job was never claimed (`TicketsInOrder`); the validity of a run's
dataset needs that a VALID dataset's preflight is COMPLETED. `IInv` is the
conjunction of these, with one lemma per group of actions that disturb the same
conjuncts: accepting work, cancelling, recovery (`RecoveredConsistent`: what
the tables look like after it), claiming - which is recovery followed by a
start -, keeping alive, and the terminal writes. The slot survives a claim
because every job that is active before it is expired in the eyes of *this*
transaction, with the same lag, and is settled by it. `Admission` counts: it
uses that a step either adds one run to those in the system under the guard, or
adds none (`NoNewJob`, `AdmissionBound`, and cardinality facts of the library).
A refused call needs no case: it is a stuttering step.

**Refinement.** `RefinementStep` has one case per action: accepting is
`Submit`, cancelling a queued run `Withdraw`, cancelling a running one
`AskCancel`, the terminal writes and recovery `Finish`, a claim `Serve`; the
others do not move the mapped variables. It uses `IInv` for the uniqueness of
the active job and for the order of the tickets.

**WorkerProcess.** `ImplementsControlPlane` is a case split over the processes'
actions. With it `IInv` is available in every state, and `WInv` adds what the
processes know: a process works on the job it was the last to claim
(`TaskIsAttempt`), which gives `SoleExecutor` because a job is claimed once;
published output belongs to an attempt past its rename (`PublishedIsRenamed`),
and whoever commits has renamed (`RenamedBeforeCommit`); only runs write
(`RunsWrite`); and a run that failed by its worker's account has no executor
any more (`FailedIsOver`), without which a late rename could follow the
failure. `Quiet` names the steps that neither claim, publish nor fail a job;
most actions are quiet and keep `WInv` by one lemma. `NoThreadNoResult` is
about a thread that was never started, not about one that failed since: a
renewal that fails leaves the main thread the rest of the lease. `ThreadInv` is
its induction: the way into `compute` without a renewal thread is a
cancellation asked for, and that intent is never taken back while the process
holds the run (`NoThreadNoWork`, `IntentStays`); to write or commit without a
thread a process would have to have reported stages or finished a preflight,
which it could not (`FreshStart`, `NoThreadNoOutput`).

**EventStream.** `StreamInv` has four parts. `LogOK`: every id of a log is at
most the last one handed out; an insertion's newest event survives the
retention it triggers (`InsertedRows`), so the latest id of a log never goes
back. `PageOK`: an answer that says COMPLETED is still true and carries the
log's latest id, frames on their way that carry a status are no newer than the
log, and results are only shown of a run that is COMPLETED with a cursor that
has reached the log's latest id - which is why no late frame can take the
status away from under the results (`ShowsSelection`). `Room`: the streams in use and the one a pending request
promises do not exceed the slots, so that `Connect` finds a free one.
`Followed`: the selected run has a stream, a timer or a request whose caller
connects. There is one lemma per operation of the page (`ConnectKeeps`,
`EmittedKeeps`, `RefreshKeeps`, `SettledKeeps`, `AppliedKeeps`), each about any
page that satisfies the parts it needs, because actions compose them.

*The status shown never goes back.* Comparing the page with the log does not
do: a frame on its way may carry a row that the retention has dropped, and a
REST answer a status that the log no longer holds. `OrderInv` therefore says
that there *is* a history, a function from runs and ids to how far the run had
come when its log reached that id, which is monotonic, agrees with the log and
ends in the run's present status (`LogTold`). A frame on its way has exactly
the rank the history gives its id (`Told`); the detail shown and an answer on
its way are at most as far as the history at the cursor and at the answer's id
(`DetailTold`, `AnswerTold`). A newer event can then only advance what is
shown. An answer is different, as its cursor may be behind the page's: it is
kept from taking the page back because an event that overtakes it starts a new
request (`NotBehind`). When the log grows the witness is extended at the new
ids (`HistoryGrows`); every other step keeps it.

*A quiet page is current.* `QuietInv` follows how far the page has come.
`Knows(p, n)`: the cursor has reached n, or the request in flight will bring it
there, being not yet served or already served at n or later. `Leads(p, h)`: of a stream of the
selected run, whatever the handler has passed is known to the page or in a
frame on its way - other than a heartbeat, which brings nothing to show - and
each heartbeat comes after what its id claims. So a heartbeat that advances the
cursor finds a request on its way that is at least as new, and the detail is
right as soon as the cursor is at the log's end and no request is left
(`Displayed`). A reset covers what was dropped because it makes the page
refresh (`RefreshFollows`), and a lost connection because the next stream
starts at the page's own cursor (`OpenedLeads`). The handler's heartbeat
carries the id it read before the rows; it stays behind the rows it follows
only if one page of `EventsAfter` brought all of them (`WholeBacklog`). That is
the hypothesis `BacklogFits`: whenever a handler is about to read rows, at
most `PageLimit` of them are ahead of its cursor. Without it the property is
false, which is what `terminal_correction` shows. It is not a hypothesis on the
constants: with the defaults of 2000 rows kept and 100 per page it speaks of all
behaviours in which a handler is never more than 100 rows behind. How far one
can be behind is bounded by `LogsStayShort`: an insertion leaves distinct ids
and at most `Retention` rows (`InsertedIsShort`), 20 pages with the defaults.
In `event_stream` that bound is a page.

**DatasetIntake.** The server's half (`ServerInv`) rests on what each place of
a request says about its files (`Progress`), on directories that enclose what
exists (`Tree`) and on `Honest`: as long as no commit's answer was lost, a
request that failed has no row and a row has its source. The page's half
(`PageInv`) has `Registry` - what the poller watches and asks for is
registered, so its answers are statuses of rows - and `Latest`, which is
`ShowsLatestUpload` of any page, shown for each of the poller's operations.

**QueueBoard.** `QInv` types the board and keeps the store's point within its
run's trail (`TaskOK`), which is what makes the projected rows statuses.
`PendingExact` is inductive together with the types of the calls. Two lemmas
carry it: a call that goes on cancels the same run (`CallGoesOn`), and calls
that end take their runs' marks and no other with them, one call by its own
`finally` or several at the end of the load they waited for (`CallsEnd`).

**ProfileDrafts.** `PInv` says where every copy of a version comes from: what
the page lists, shows, edits and renames, what the calls carry and what is on
its way back has the content and base of the version with its id or is the
Reference itself (`Copies`, `Listable`), which closes the list (`ListedOK`).
Versions only grow and are only renamed (`Grown`), so a copy stays a copy
(`CopiesGrow`), whatever order answers arrive in. That equal contents share one
version (`StoredOK`) is preserved by the insertion because it looks again under
the unique index: the first lookup of a save is worth nothing by then, and the
proof does not use it.

**HistoryPage.** `HInv` is about the page record in two parts, the list
(`ListOK`) and the selection with its replay (`ReplayOK`), as most functions of
`ui.ts` touch only one of them (`ListFrame`, `ReplayFrame`). Rows are a sequence
without repetition of terminal runs, in the list, in a load's copy of it and in
an answer; appending a page keeps that because the merge filters it against the
rows it is appended to. `OneTimer` is not inductive: what a selection opens at
its end must not find a playback. `SelectionOK` says that a selection waiting
for the store has no points, no timer and no load of the same epoch;
`OpeningOK` that a load which will change the view is the only one of its epoch,
without points or a timer, and with no agent's request waiting. `DataOK` is
what `ReplayShowsSelection` needs: points of another agent are on the page only
while the store is asked for the agent chosen, and are not drawn then.

**The page.** `DesksAreViews`: whoever works at one desk leaves the other
views' variables alone, so a behaviour of `CFairSpec` is one of each view's
specification, and the views' theorems hold of what `console` checks.


**Only model-checked.** Liveness: `EveryJobSettles`, `ExpiredLeaseSettles`,
`EndIsShown`, `VerdictIsShown`, `RequestsSettle`, `BoardCatchesUp`,
`PageFollowsQueue`. Liveness under fairness and ENABLED are beyond this prover,
as are induction over data and RECURSIVE operators. Every invariant and every
action property that a passing run checks is stated by a theorem; `QuietMeansCurrent`
under the hypothesis above, which it needs.

## 6. Where the code and its documents disagree

* **Waiting room** (`waiting_room`). README.md and the front end promise ten
  waiting simulations. `CreateSimulation` admits eleven while no run holds the
  slot, on the assumption that one of them starts at once; while a preflight
  holds the slot, or no worker claims, eleven wait.
* **Cancelled after the rename** (`cancel_after_rename`). The lifecycle
  contract says that a cancellation never commits a complete artifact manifest.
  The last `check_cancel` comes after the rename into `committed`, so a run
  cancelled in between ends CANCELLED with its complete manifest in place.
  (It is not served: `CommittedIsPublished` and the API's guard on
  `artifact_state` see to that.)
* **A heartbeat ahead of the cursor** (`terminal_correction`). The handler
  writes its heartbeat with the id of the log's latest event. While rows are
  still to be sent, the browser takes that id as its cursor and drops them,
  the terminal event included. The page then shows the old status until the
  connection breaks.

* **A cursor of the filter before** (`stale_cursor`). `loadHistory` compares
  its epoch after the list has arrived, then waits for the metrics of the rows
  and does not compare it again. Filters changed during that second wait get
  the rows and the cursor of the filters before; the server refuses that cursor
  ("load more" ends in an error). The test of the page says that a change of
  filter resets stale cursors.
* **A registered dataset without its source** (`source_removed`). The handler
  of an upload takes every error of `RegisterDataset` for a registration that
  did not happen and removes the source. A commit whose answer is lost - the
  request's context is cancelled, or the connection breaks, while COMMIT is
  under way - did happen: the dataset is queued, and its preflight finds no
  file. The comments of `RemoveImportedDataset` and `RegisterDataset` speak of
  unregistered and uncommitted sources only.

A sixth one is not a run: the two statements of `EventsAfter` may straddle a
retention, and then no `stream.reset` is written for an expired cursor, which
the API contract promises. It takes as many insertions between the statements
as the retention keeps, 2000 by default.

## 7. What is not modelled

* **Contents.** File contents, hashes, `fsync` and manifest entries, event
  payloads other than the status, canonical JSON (a request is identified with
  its dataset), parameters and snapshots.
* **Staging in detail.** Staging, renaming and abandoning a directory are one
  step each; a crash leaves what the last step left. Temporary directories of
  dead attempts are never removed by the code; no property is about them.
* **Orphaned uploads.** A crash of the API leaves an upload's files where they
  are, registered or not, and no code collects them; the model has these
  states, no property is about them.
* **Database errors.** A serialization failure, a detected deadlock or a
  unique violation changes nothing in the database. For a request of the API
  it is a stuttering step; that some of them become a 500 is listed among the
  hazards. For a call of the worker see `Crash` and `RenewalFails`.
* **Snapshots.** `CreateSimulation` runs SERIALIZABLE and may count runs as they
  were when it began to wait for the scheduler row. An older state only makes
  admission stricter; creation sees the present here.
* **Readiness polling of the page**: one flag and one timer, touching nothing
  else.
* **Numerical pipeline**: floating-point values TLC cannot enumerate, and
  properties that are statistical. Its stages, its failures and its
  cancellation points are in WorkerProcess.
* **Configuration, health checks, deployment**: start-up parsing, stateless
  probes, packaging.
* **Of the page's views**: rendering, charts, texts, focus, downloads, the
  playback speed, the waiting count (derived, and wrong for a moment when an
  emission carries no events: `Number(null)` is 0),
  imports of profiles and mappings (which take the way of a save), the deep
  link the page starts with (it is followed like one of `popstate`, which is
  modelled). An edit made while a save is pending is lost with the answer; the
  model has these behaviours, and no document speaks about them.
* **Parameter constraints**: `ProfileDrafts` has a set of values the server
  accepts. How a value is compared with its constraint, in Go and again in
  Python, is not modelled: it is a pure function of floating-point values.
* **Lock order**: the transactions of JobControl are atomic, so two of them
  never wait for each other. What becomes of the one PostgreSQL ends is
  modelled where the worker meets it: `Crash` of its main thread's call,
  `RenewalFails` of its renewal thread's.
* **Result and artifact reads**: answers that arrive or fail.

## 8. Plan

Built: JobControl with TicketQueue, WorkerProcess, EventStream, DatasetIntake,
HistoryPage, QueueBoard and ProfileDrafts, in this order; proofs about all of
them. Not built, in the order in which they would be worth building:

1. **LockOrder**: the transactions of JobControl split at their row locks, the
   lock graph as state. Question: which pairs can wait for each other, and does
   the victim PostgreSQL chooses leave the system where a retry or a restart
   settles it? Bounds: two transactions at a time of each kind.
2. **ArtifactWriter** in detail: files, manifest and directory entries with the
   crash states that `fsync` leaves, refining the three steps WorkerProcess has.
3. **Constraints and materialisation** as functions against a reference
   definition over bounded inputs, at the boundaries of integers, numbers and
   exclusive minima, in the Go and in the Python reading.

Theorems worth proving next: that two transactions that follow the lock order
never wait for each other; that the board of QueueBoard shows statuses its runs
have had, which needs the trail of each run as the history of EventStream is
used here; that the store of QueueBoard and HistoryPage is implemented by the
page of EventStream.
