----------------------------- MODULE JobControl -----------------------------
(***************************************************************************)
(* The control plane kept in PostgreSQL: datasets, simulations and the     *)
(* worker_jobs that the single execution slot serves in FIFO order.  Each  *)
(* action is one committed transaction: a Go repository method called by   *)
(* the web API, or a SQL function called by the algorithm worker.  A call  *)
(* that returns FALSE, raises or is rejected changes no row and is a       *)
(* stuttering step.                                                        *)
(*                                                                         *)
(* A job is identified with what it works on: the preflight job of dataset *)
(* d is d, the simulation job of run r is r.  Time is relative: a lease    *)
(* and a worker registration hold a number of ticks left to live.  SQL's   *)
(* now() is the start of the transaction, which may have waited for a lock *)
(* since: a transaction sees a time that lags by up to MaxLag ticks.       *)
(***************************************************************************)
EXTENDS Integers, FiniteSets

CONSTANTS
  Datasets,           \* dataset identifiers
  Runs,               \* simulation run identifiers
  Keys,               \* values of the Idempotency-Key header
  Workers,            \* worker processes, each minting its own lease tokens
  Stages,             \* algorithm stages a run reports
  FirstStage,         \* PREPROCESSING
  PreflightCapacity,  \* scheduler_control.preflight_queue_capacity
  WaitCapacity,       \* domain.SimulationWaitCapacity
  LeaseTicks,         \* lease duration
  MaxLag,             \* longest wait of a transaction for its locks
  None                \* SQL NULL

Jobs == Datasets \cup Runs

ASSUME ConstantsAssumption ==
  /\ Datasets \cap Runs = {}
  /\ IsFiniteSet(Datasets) /\ IsFiniteSet(Runs)
  /\ FirstStage \in Stages
  /\ PreflightCapacity \in Nat \ {0}
  /\ WaitCapacity \in Nat
  /\ LeaseTicks \in Nat \ {0}
  /\ MaxLag \in Nat
  /\ None \notin Runs \cup Datasets \cup Workers \cup Stages
  /\ None \notin [run : Runs, request : Datasets]

VARIABLES
  dataset,         \* datasets.status
  sim,             \* simulations.status
  current_stage,   \* simulations.current_stage
  artifact_state,  \* simulations.artifact_state
  cancel_asked,    \* simulations.cancel_requested_at IS NOT NULL
  input,           \* simulations.dataset_id
  job,             \* worker_jobs.status
  enqueue_seq,     \* worker_jobs.enqueue_seq, 0 while there is no row
  last_seq,        \* the enqueue_sequence generator
  owner,           \* the worker that minted worker_jobs.lease_token
  last_attempt,    \* the worker that minted worker_jobs.last_attempt_id
  lease,           \* ticks until worker_jobs.lease_expires_at, 0 for NULL
  registered,      \* workers with a worker_instances row
  fresh,           \* ticks for which worker_instances.last_heartbeat_at counts
  idempotency      \* idempotency_keys: the run and request stored for a key

simVars    == <<sim, current_stage, artifact_state, cancel_asked, input>>
queueVars  == <<enqueue_seq, last_seq>>
workerVars == <<registered, fresh>>
jobVars    == <<job, owner, last_attempt, lease>>
vars == <<dataset, simVars, queueVars, workerVars, jobVars, idempotency>>

Active   == {"RUNNING", "CANCELLING"}
Terminal == {"COMPLETED", "CANCELLED", "FAILED", "FAILED_RECOVERABLE"}
Status   == {"ABSENT", "QUEUED"} \cup Active \cup Terminal

KeyRows == [run : Runs, request : Datasets]
Lags    == 0..MaxLag
Ticks   == (-MaxLag)..LeaseTicks

TypeOK ==
  /\ dataset \in [Datasets -> {"ABSENT", "VALIDATING", "VALID", "INVALID"}]
  /\ sim \in [Runs -> Status]
  /\ current_stage \in [Runs -> Stages \cup {None}]
  /\ artifact_state \in [Runs -> {"NOT_STARTED", "COMMITTED", "INCOMPLETE"}]
  /\ cancel_asked \in [Runs -> BOOLEAN]
  /\ input \in [Runs -> Datasets \cup {None}]
  /\ job \in [Jobs -> Status]
  /\ enqueue_seq \in [Jobs -> Nat]
  /\ last_seq \in Nat
  /\ owner \in [Jobs -> Workers \cup {None}]
  /\ last_attempt \in [Jobs -> Workers \cup {None}]
  /\ lease \in [Jobs -> Ticks]
  /\ registered \subseteq Workers
  /\ fresh \in [Workers -> Ticks]
  /\ idempotency \in [Keys -> KeyRows \cup {None}]

Init ==
  /\ dataset = [d \in Datasets |-> "ABSENT"]
  /\ sim = [r \in Runs |-> "ABSENT"]
  /\ current_stage = [r \in Runs |-> None]
  /\ artifact_state = [r \in Runs |-> "NOT_STARTED"]
  /\ cancel_asked = [r \in Runs |-> FALSE]
  /\ input = [r \in Runs |-> None]
  /\ job = [j \in Jobs |-> "ABSENT"]
  /\ enqueue_seq = [j \in Jobs |-> 0]
  /\ last_seq = 0
  /\ owner = [j \in Jobs |-> None]
  /\ last_attempt = [j \in Jobs |-> None]
  /\ lease = [j \in Jobs |-> 0]
  /\ registered = {}
  /\ fresh = [w \in Workers |-> 0]
  /\ idempotency = [k \in Keys |-> None]

-----------------------------------------------------------------------------
(***************************************************************************)
(* The web API.  Every transaction holds the scheduler_control row lock.   *)
(***************************************************************************)

InStatus(S) == {r \in Runs : sim[r] \in S}

\* One slot and WaitCapacity waiting runs, the waiting room being one larger
\* while no run occupies the slot.
QueueFullIgnoresSlot ==  \* mutant
  Cardinality(InStatus({"QUEUED"})) >= WaitCapacity + 1

QueueFull ==
  LET waiting == Cardinality(InStatus({"QUEUED"})) IN
    IF InStatus(Active) = {} THEN waiting >= WaitCapacity + 1
                             ELSE waiting >= WaitCapacity

Enqueue(j) ==
  /\ job' = [job EXCEPT ![j] = "QUEUED"]
  /\ enqueue_seq' = [enqueue_seq EXCEPT ![j] = last_seq + 1]
  /\ last_seq' = last_seq + 1

RegisterDataset(d) ==
  /\ dataset[d] = "ABSENT"
  /\ Cardinality({e \in Datasets : job[e] = "QUEUED"}) < PreflightCapacity
  /\ dataset' = [dataset EXCEPT ![d] = "VALIDATING"]
  /\ Enqueue(d)
  /\ UNCHANGED <<simVars, owner, last_attempt, lease, workerVars, idempotency>>

KeyLookupDropped(k) == TRUE  \* mutant
KeyUnused(k) == idempotency[k] = None

DatasetReadyOnceUploaded(d) == dataset[d] # "ABSENT"  \* mutant
DatasetReady(d) == dataset[d] = "VALID"

\* The request is identified by its dataset.  A key already stored makes the
\* call a replay (same request) or a conflict, neither of which writes.
CreateSimulation(k, r, d) ==
  /\ KeyUnused(k)
  /\ sim[r] = "ABSENT"
  /\ DatasetReady(d)
  /\ ~QueueFull
  /\ sim' = [sim EXCEPT ![r] = "QUEUED"]
  /\ input' = [input EXCEPT ![r] = d]
  /\ idempotency' = [idempotency EXCEPT ![k] = [run |-> r, request |-> d]]
  /\ Enqueue(r)
  /\ UNCHANGED <<dataset, current_stage, artifact_state, cancel_asked, owner,
                 last_attempt, lease, workerVars>>

CancelQueued(r) ==
  /\ sim[r] = "QUEUED"
  /\ sim' = [sim EXCEPT ![r] = "CANCELLED"]
  /\ artifact_state' = [artifact_state EXCEPT ![r] = "INCOMPLETE"]
  /\ job' = [job EXCEPT ![r] = IF @ = "QUEUED" THEN "CANCELLED" ELSE @]
  /\ UNCHANGED <<dataset, current_stage, cancel_asked, input, queueVars, owner,
                 last_attempt, lease, workerVars, idempotency>>

CancelRunning(r) ==
  /\ sim[r] = "RUNNING"
  /\ sim' = [sim EXCEPT ![r] = "CANCELLING"]
  /\ cancel_asked' = [cancel_asked EXCEPT ![r] = TRUE]
  /\ job' = [job EXCEPT ![r] = IF @ = "RUNNING" THEN "CANCELLING" ELSE @]
  /\ UNCHANGED <<dataset, current_stage, artifact_state, input, queueVars,
                 owner, last_attempt, lease, workerVars, idempotency>>

CancelSimulation(r) == CancelQueued(r) \/ CancelRunning(r)

-----------------------------------------------------------------------------
(***************************************************************************)
(* Lease recovery, run by the API's recovery loop and inside every claim.  *)
(***************************************************************************)

NoCancelIntent(j) == FALSE  \* mutant
CancelIntent(j) == job[j] = "CANCELLING" \/ (j \in Runs /\ cancel_asked[j])

ExpiredRunning(lag) ==
  {j \in Jobs : job[j] = "RUNNING" /\ lease[j] + lag <= 0}  \* mutant
Expired(lag) == {j \in Jobs : job[j] \in Active /\ lease[j] + lag <= 0}

Requeued(j) == IF CancelIntent(j) THEN "CANCELLED" ELSE "QUEUED"  \* mutant
RecoveredStatus(j) ==
  IF CancelIntent(j) THEN "CANCELLED" ELSE "FAILED_RECOVERABLE"

\* The tables as worker_recover_expired_leases leaves them.
RecoveredJob(lag) ==
  [j \in Jobs |-> IF j \in Expired(lag) THEN RecoveredStatus(j) ELSE job[j]]
RecoveredOwner(lag) ==
  [j \in Jobs |-> IF j \in Expired(lag) THEN None ELSE owner[j]]
RecoveredLease(lag) ==
  [j \in Jobs |-> IF j \in Expired(lag) THEN 0 ELSE lease[j]]
RecoveredRunning(lag) ==
  {r \in Runs \cap Expired(lag) : sim[r] = "RUNNING"}  \* mutant
RecoveredRuns(lag) == {r \in Runs \cap Expired(lag) : sim[r] \in Active}
RecoveredSim(lag) ==
  [r \in Runs |-> IF r \in RecoveredRuns(lag) THEN RecoveredStatus(r)
                                              ELSE sim[r]]
RecoveredStage(lag) ==
  [r \in Runs |-> IF r \in RecoveredRuns(lag) THEN None ELSE current_stage[r]]
RecoveredDatasetForgotten(lag) == dataset  \* mutant
RecoveredDataset(lag) ==
  [d \in Datasets |->
     IF d \in Expired(lag) /\ ~CancelIntent(d) /\ dataset[d] = "VALIDATING"
       THEN "INVALID" ELSE dataset[d]]
RecoveredArtifacts(lag) ==
  [r \in Runs |-> IF r \in RecoveredRuns(lag) THEN "INCOMPLETE"
                                              ELSE artifact_state[r]]

RecoverExpiredLeases(lag) ==
  /\ Expired(lag) # {}
  /\ job' = RecoveredJob(lag)
  /\ owner' = RecoveredOwner(lag)
  /\ sim' = RecoveredSim(lag)
  /\ current_stage' = RecoveredStage(lag)
  /\ artifact_state' = RecoveredArtifacts(lag)
  /\ dataset' = RecoveredDataset(lag)
  /\ lease' = RecoveredLease(lag)
  /\ UNCHANGED <<cancel_asked, input, queueVars, last_attempt, workerVars,
                 idempotency>>

-----------------------------------------------------------------------------
(***************************************************************************)
(* The worker's repository functions.  A heartbeat for a job whose lease is *)
(* gone still refreshes the registration before it returns FALSE: that is  *)
(* HeartbeatInstance.                                                      *)
(***************************************************************************)

RenewedFromExpiry(n, lag) == n + LeaseTicks  \* mutant
\* Time left after a renewal to now() + duration, n being what was left.
Renewed(n, lag) == LeaseTicks - lag

RegisterInstance(w, lag) ==
  /\ registered' = registered \cup {w}
  /\ fresh' = [fresh EXCEPT ![w] = Renewed(@, lag)]
  /\ UNCHANGED <<dataset, simVars, queueVars, jobVars, idempotency>>

HeartbeatInstance(w, lag) ==
  /\ w \in registered
  /\ fresh' = [fresh EXCEPT ![w] = Renewed(@, lag)]
  /\ UNCHANGED <<dataset, simVars, queueVars, jobVars, registered, idempotency>>

Queued == {j \in Jobs : job[j] = "QUEUED"}

IsHeadOfItsKind(j) ==  \* mutant
  /\ j \in Queued
  /\ \A i \in Queued \cap Runs : j \in Runs => enqueue_seq[j] <= enqueue_seq[i]

IsHead(j) ==
  /\ j \in Queued
  /\ \A i \in Queued : enqueue_seq[j] <= enqueue_seq[i]

SlotBusyRunning(lag) ==
  \E j \in Jobs : job[j] = "RUNNING" /\ lease[j] + lag > 0  \* mutant
SlotBusy(lag) == \E j \in Jobs : job[j] \in Active /\ lease[j] + lag > 0

\* A claim that finds work.  The recovery it begins with has already settled
\* every expired lease when the head of the queue is taken.
Claim(w, j, lag) ==
  /\ fresh[w] + lag > 0
  /\ ~SlotBusy(lag)
  /\ IsHead(j)
  /\ j \in Runs => sim[j] = "QUEUED"
  /\ fresh' = [fresh EXCEPT ![w] = Renewed(@, lag)]
  /\ job' = [RecoveredJob(lag) EXCEPT ![j] = "RUNNING"]
  /\ owner' = [RecoveredOwner(lag) EXCEPT ![j] = w]
  /\ last_attempt' = [last_attempt EXCEPT ![j] = w]
  /\ lease' = [RecoveredLease(lag) EXCEPT ![j] = Renewed(@, lag)]
  /\ sim' = [r \in Runs |-> IF r = j THEN "RUNNING" ELSE RecoveredSim(lag)[r]]
  /\ current_stage' = [r \in Runs |-> IF r = j THEN FirstStage
                                              ELSE RecoveredStage(lag)[r]]
  /\ artifact_state' = RecoveredArtifacts(lag)
  /\ dataset' = RecoveredDataset(lag)
  /\ UNCHANGED <<cancel_asked, input, queueVars, registered, idempotency>>

\* A claim that returns no job still keeps the registration fresh and commits
\* the recovery.
ClaimNothing(w, lag) ==
  /\ fresh[w] + lag > 0
  /\ SlotBusy(lag) \/ Queued = {}
  /\ fresh' = [fresh EXCEPT ![w] = Renewed(@, lag)]
  /\ job' = RecoveredJob(lag)
  /\ owner' = RecoveredOwner(lag)
  /\ sim' = RecoveredSim(lag)
  /\ current_stage' = RecoveredStage(lag)
  /\ artifact_state' = RecoveredArtifacts(lag)
  /\ dataset' = RecoveredDataset(lag)
  /\ lease' = RecoveredLease(lag)
  /\ UNCHANGED <<cancel_asked, input, queueVars, last_attempt, registered,
                 idempotency>>

\* worker_jobs row selected by job_id, attempt_id, lease_token and a live lease.
HeldLast(w, j, S, lag) == last_attempt[j] = w  \* mutant
Holds(w, j, S, lag) ==
  owner[j] = w /\ job[j] \in S /\ lease[j] + lag > 0

Heartbeat(w, j, lag) ==
  /\ w \in registered
  /\ Holds(w, j, Active, lag)
  /\ fresh' = [fresh EXCEPT ![w] = Renewed(@, lag)]
  /\ lease' = [lease EXCEPT ![j] = Renewed(@, lag)]
  /\ UNCHANGED <<dataset, simVars, queueVars, job, owner, last_attempt,
                 registered, idempotency>>

\* The reported status must be the job's status, or the event is rejected.
ReportEvent(w, r, status, stage, lag) ==
  /\ Holds(w, r, Active, lag)
  /\ status = job[r]
  /\ current_stage' = [current_stage EXCEPT
       ![r] = IF sim[r] = job[r] THEN stage ELSE @]
  /\ UNCHANGED <<dataset, sim, artifact_state, cancel_asked, input, queueVars,
                 workerVars, jobVars, idempotency>>

\* Terminal status of a job, its attempt, token and expiry cleared.
ReleaseJob(j, status) ==
  /\ job' = [job EXCEPT ![j] = status]
  /\ owner' = [owner EXCEPT ![j] = None]
  /\ lease' = [lease EXCEPT ![j] = 0]
  /\ UNCHANGED last_attempt

\* Terminal status of a run that publishes nothing.
AbandonRun(r, status) ==
  /\ sim' = [sim EXCEPT ![r] = status]
  /\ current_stage' = [current_stage EXCEPT ![r] = None]
  /\ artifact_state' = [artifact_state EXCEPT ![r] = "INCOMPLETE"]

CompletePreflight(w, d, lag) ==
  /\ Holds(w, d, {"RUNNING"}, lag)
  /\ dataset[d] = "VALIDATING"
  /\ dataset' = [dataset EXCEPT ![d] = "VALID"]
  /\ ReleaseJob(d, "COMPLETED")
  /\ UNCHANGED <<simVars, queueVars, workerVars, idempotency>>

ConfirmCancel(w, r, lag) ==
  /\ Holds(w, r, {"CANCELLING"}, lag)
  /\ ReleaseJob(r, "CANCELLED")
  /\ IF sim[r] = "CANCELLING" THEN AbandonRun(r, "CANCELLED")
                              ELSE UNCHANGED <<sim, current_stage, artifact_state>>
  /\ UNCHANGED <<dataset, cancel_asked, input, queueVars, workerVars, idempotency>>

FailPreflight(w, d, final, lag) ==
  /\ Holds(w, d, Active, lag)
  /\ ReleaseJob(d, final)
  /\ dataset' = [dataset EXCEPT ![d] = "INVALID"]
  /\ UNCHANGED <<simVars, queueVars, workerVars, idempotency>>

\* A durable cancellation intent turns the failure into a cancellation.
FailRun(w, r, final, lag) ==
  /\ Holds(w, r, Active, lag)
  /\ IF CancelIntent(r)
       THEN /\ ReleaseJob(r, "CANCELLED")
            /\ IF sim[r] \in Active
                 THEN AbandonRun(r, "CANCELLED")
                 ELSE UNCHANGED <<sim, current_stage, artifact_state>>
       ELSE /\ ReleaseJob(r, final)
            /\ AbandonRun(r, final)
  /\ UNCHANGED <<dataset, cancel_asked, input, queueVars, workerVars, idempotency>>

CommitSimulation(w, r, lag) ==
  /\ Holds(w, r, {"RUNNING"}, lag)
  /\ sim[r] = "RUNNING"
  /\ ReleaseJob(r, "COMPLETED")
  /\ sim' = [sim EXCEPT ![r] = "COMPLETED"]
  /\ current_stage' = [current_stage EXCEPT ![r] = None]
  /\ artifact_state' = [artifact_state EXCEPT ![r] = "COMMITTED"]
  /\ UNCHANGED <<dataset, cancel_asked, input, queueVars, workerVars, idempotency>>

-----------------------------------------------------------------------------
(***************************************************************************)
(* The passage of time on now().                                           *)
(***************************************************************************)

Elapse(n) == IF n = -MaxLag THEN n ELSE n - 1

Tick ==
  /\ lease' = [j \in Jobs |-> IF job[j] \in Active THEN Elapse(lease[j])
                                                   ELSE lease[j]]
  /\ fresh' = [w \in Workers |-> Elapse(fresh[w])]
  /\ UNCHANGED <<dataset, simVars, queueVars, job, owner, last_attempt,
                 registered, idempotency>>

Failures == {"FAILED", "FAILED_RECOVERABLE"}

ApiStep ==
  \/ \E d \in Datasets : RegisterDataset(d)
  \/ \E k \in Keys, r \in Runs, d \in Datasets : CreateSimulation(k, r, d)
  \/ \E r \in Runs : CancelSimulation(r)

RecoveryStep == \E lag \in Lags : RecoverExpiredLeases(lag)

WorkerStep(w, lag) ==
  \/ RegisterInstance(w, lag)
  \/ HeartbeatInstance(w, lag)
  \/ ClaimNothing(w, lag)
  \/ \E j \in Jobs : Claim(w, j, lag) \/ Heartbeat(w, j, lag)
  \/ \E d \in Datasets :
       \/ CompletePreflight(w, d, lag)
       \/ \E final \in Failures : FailPreflight(w, d, final, lag)
  \/ \E r \in Runs :
       \/ \E status \in Active, stage \in Stages :
            ReportEvent(w, r, status, stage, lag)
       \/ ConfirmCancel(w, r, lag)
       \/ CommitSimulation(w, r, lag)
       \/ \E final \in Failures : FailRun(w, r, final, lag)

Next ==
  \/ ApiStep
  \/ RecoveryStep
  \/ \E w \in Workers, lag \in Lags : WorkerStep(w, lag)
  \/ Tick

Spec == Init /\ [][Next]_vars
-----------------------------------------------------------------------------
(***************************************************************************)
(* Safety.  None of these is enforced by a guard of the model: the unique  *)
(* indexes, CHECK constraints and the terminal-row trigger of the schema   *)
(* are not modelled, so each property also shows that no transaction of    *)
(* the code is ever rejected by the constraint that backs it.              *)
(***************************************************************************)

ActiveJobs == {j \in Jobs : job[j] \in Active}

\* At most one job, preflight or simulation, occupies the execution slot: a
\* claim never runs into worker_jobs_single_execution_slot, whatever expired
\* leases it finds.
SingleExecutionSlot == \A i, j \in ActiveJobs : i = j

\* The rows of a run and of its job are only ever changed together: recovery,
\* cancellation, failure and commit never leave one behind the other.
RunFollowsJob == \A r \in Runs : sim[r] = job[r]

DatasetOf(status) ==
  CASE status = "ABSENT"                -> "ABSENT"
    [] status \in {"QUEUED", "RUNNING"} -> "VALIDATING"
    [] status = "COMPLETED"             -> "VALID"
    [] OTHER                            -> "INVALID"

\* A dataset's status is decided by the fate of its one preflight job, through
\* completion, failure and lease loss alike.
DatasetFollowsPreflight == \A d \in Datasets : dataset[d] = DatasetOf(job[d])

\* The lease columns are set exactly while a job is active (worker_jobs CHECK),
\* and the stage exactly while its run is (simulations CHECK).
LeaseAndStageColumns ==
  /\ \A j \in Jobs : /\ job[j] \in Active <=> owner[j] # None
                     /\ lease[j] # 0 => job[j] \in Active
  /\ \A r \in Runs : sim[r] \in Active <=> current_stage[r] # None

\* A cancellation accepted while the run executes is never lost to a late
\* commit, a worker failure or a lost lease.
CancellationIntentWins ==
  \A r \in Runs : cancel_asked[r] => sim[r] \in {"CANCELLING", "CANCELLED"}

\* A run only ever refers to a dataset that is valid, now and later: the
\* unlocked read of the dataset by the creation rests on VALID being final.
RunsUseValidDatasets ==
  \A r \in Runs : sim[r] # "ABSENT" =>
    input[r] \in Datasets /\ dataset[input[r]] = "VALID"

\* Admission holds: runs waiting and running together never exceed the slot and
\* the waiting room, and preflights never exceed their queue.
CapacityRespected ==
  /\ Cardinality(InStatus({"QUEUED"} \cup Active)) <= WaitCapacity + 1
  /\ Cardinality({d \in Datasets : job[d] = "QUEUED"}) <= PreflightCapacity

\* Jobs of both kinds start in the order they were accepted: when one has been
\* claimed, no job accepted before it is still waiting.
FifoStart ==
  \A i, j \in Jobs :
    (last_attempt[j] # None /\ enqueue_seq[i] < enqueue_seq[j]) => job[i] # "QUEUED"

\* Runs and stored idempotency keys correspond one to one, whatever retries
\* and conflicting reuses clients send.
OneRunPerKey ==
  /\ \A r \in Runs : sim[r] # "ABSENT" =>
       \E k \in Keys : idempotency[k] = [run |-> r, request |-> input[r]]
  /\ \A k, m \in Keys :
       (idempotency[k] # None /\ idempotency[m] # None
          /\ idempotency[k].run = idempotency[m].run) => k = m

\* What is settled stays settled: a terminal run row and a validated or
\* rejected dataset are never written again, by a late worker or by recovery,
\* so the protect_terminal_simulation trigger never aborts a transaction.
SettledIsFinal ==
  [][/\ \A r \in Runs : sim[r] \in Terminal =>
          /\ sim'[r] = sim[r]
          /\ current_stage'[r] = current_stage[r]
          /\ artifact_state'[r] = artifact_state[r]
          /\ cancel_asked'[r] = cancel_asked[r]
     /\ \A d \in Datasets : dataset[d] \in {"VALID", "INVALID"} =>
          dataset'[d] = dataset[d]]_vars

\* The scheduler's contract with its clients: one task served at a time, in
\* order of acceptance, with cancellation final.
TQ == INSTANCE TicketQueue WITH
  Tasks   <- Jobs,
  ticket  <- enqueue_seq,
  waiting <- Queued,
  serving <- ActiveJobs,
  asked   <- {r \in Runs : cancel_asked[r]},
  outcome <- [j \in Jobs |-> IF job[j] \in Terminal THEN job[j] ELSE "OPEN"]

ServesAsPromised == TQ!TSpec

\* A job whose lease ran out is settled without its worker, by the recovery
\* loop or the next claim, unless a heartbeat that had started in time renews
\* the lease.
ExpiredLeaseSettles ==
  \A j \in Jobs : j \in Expired(0) ~> job[j] \in Terminal \/ lease[j] > 0
=============================================================================
