--------------------------- MODULE JobControl_proofs ---------------------------
(***************************************************************************)
(* Proofs about JobControl for every set of datasets, runs, keys and       *)
(* workers, every capacity, lease duration and lag.                        *)
(***************************************************************************)
EXTENDS JobControl, FiniteSetTheorems, TLAPS

-----------------------------------------------------------------------------
(***************************************************************************)
(* Lemmas about the operators.                                             *)
(***************************************************************************)

\* The tables that recovery leaves behind are well typed.
LEMMA RecoveredType ==
  ASSUME TypeOK, NEW lag \in Lags
  PROVE  /\ RecoveredJob(lag) \in [Jobs -> Status]
         /\ RecoveredOwner(lag) \in [Jobs -> Workers \cup {None}]
         /\ RecoveredLease(lag) \in [Jobs -> Ticks]
         /\ RecoveredSim(lag) \in [Runs -> Status]
         /\ RecoveredStage(lag) \in [Runs -> Stages \cup {None}]
         /\ RecoveredArtifacts(lag) \in
              [Runs -> {"NOT_STARTED", "COMMITTED", "INCOMPLETE"}]
         /\ RecoveredDataset(lag) \in
              [Datasets -> {"ABSENT", "VALIDATING", "VALID", "INVALID"}]
<1>1. 0 \in Ticks
  BY ConstantsAssumption DEF Ticks
<1>2. \A j \in Jobs : RecoveredStatus(j) \in Status
  BY DEF RecoveredStatus, Status, Terminal
<1> QED
  BY <1>1, <1>2 DEF TypeOK, RecoveredJob, RecoveredOwner, RecoveredLease,
     RecoveredSim, RecoveredStage, RecoveredArtifacts, RecoveredDataset, Jobs

\* A renewed lease or registration is within bounds, and so is one that ages.
LEMMA TicksType ==
  /\ 0 \in Ticks
  /\ \A n \in Ticks, lag \in Lags : Renewed(n, lag) \in Ticks
  /\ \A n \in Ticks : Elapse(n) \in Ticks
BY ConstantsAssumption DEF Ticks, Lags, Elapse, Renewed

\* Terminal statuses are not active ones.
LEMMA StatusTypes ==
  /\ Failures \subseteq Terminal
  /\ Terminal \cup Active \cup {"ABSENT", "QUEUED"} = Status
  /\ Active \cap Terminal = {}
  /\ "ABSENT" \notin Active \cup Terminal /\ "QUEUED" \notin Active \cup Terminal
BY DEF Failures, Terminal, Active, Status

\* Every step keeps the state well typed.
LEMMA TypeStep == TypeOK /\ [Next]_vars => TypeOK'
<1> SUFFICES ASSUME TypeOK, [Next]_vars PROVE TypeOK'
  OBVIOUS
<1> USE StatusTypes, TicksType
<1>1. ASSUME NEW d \in Datasets, RegisterDataset(d) PROVE TypeOK'
  BY <1>1 DEF TypeOK, RegisterDataset, Enqueue, simVars, workerVars, Jobs
<1>2. ASSUME NEW k \in Keys, NEW r \in Runs, NEW d \in Datasets,
             CreateSimulation(k, r, d)
      PROVE  TypeOK'
  BY <1>2 DEF TypeOK, CreateSimulation, Enqueue, workerVars, Jobs, KeyRows
<1>3. ASSUME NEW r \in Runs, CancelSimulation(r) PROVE TypeOK'
  <2>1. CASE CancelQueued(r)
    BY <2>1 DEF TypeOK, CancelQueued, queueVars, workerVars, Jobs, Terminal
  <2>2. CASE CancelRunning(r)
    BY <2>2 DEF TypeOK, CancelRunning, queueVars, workerVars, Jobs, Active
  <2> QED
    BY <1>3, <2>1, <2>2 DEF CancelSimulation
<1>4. ASSUME NEW lag \in Lags, RecoverExpiredLeases(lag) PROVE TypeOK'
  BY <1>4, RecoveredType DEF TypeOK, RecoverExpiredLeases, queueVars, workerVars
<1>5. ASSUME NEW lag \in Lags, NEW w \in Workers,
             RegisterInstance(w, lag) \/ HeartbeatInstance(w, lag)
      PROVE  TypeOK'
  BY <1>5 DEF TypeOK, RegisterInstance, HeartbeatInstance, simVars, queueVars,
     jobVars
<1>6. ASSUME NEW lag \in Lags, NEW w \in Workers, ClaimNothing(w, lag)
      PROVE  TypeOK'
  BY <1>6, RecoveredType DEF TypeOK, ClaimNothing, queueVars
<1>7. ASSUME NEW lag \in Lags, NEW w \in Workers, NEW j \in Jobs,
             Claim(w, j, lag)
      PROVE  TypeOK'
  BY <1>7, RecoveredType, ConstantsAssumption
  DEF TypeOK, Claim, queueVars, Status, Active
<1>8. ASSUME NEW lag \in Lags, NEW w \in Workers, NEW j \in Jobs,
             Heartbeat(w, j, lag)
      PROVE  TypeOK'
  BY <1>8 DEF TypeOK, Heartbeat, simVars, queueVars
<1>9. ASSUME NEW lag \in Lags, NEW w \in Workers, NEW d \in Datasets,
             \/ CompletePreflight(w, d, lag)
             \/ \E final \in Failures : FailPreflight(w, d, final, lag)
      PROVE  TypeOK'
  BY <1>9 DEF TypeOK, CompletePreflight, FailPreflight, ReleaseJob, simVars,
     queueVars, workerVars, Jobs, Status, Terminal
<1>10. ASSUME NEW lag \in Lags, NEW w \in Workers, NEW r \in Runs,
             \E status \in Active, stage \in Stages :
               ReportEvent(w, r, status, stage, lag)
      PROVE  TypeOK'
  BY <1>10 DEF TypeOK, ReportEvent, queueVars, workerVars, jobVars
<1>11. ASSUME NEW lag \in Lags, NEW w \in Workers, NEW r \in Runs,
             \/ ConfirmCancel(w, r, lag)
             \/ CommitSimulation(w, r, lag)
      PROVE  TypeOK'
  <2>1. CASE ConfirmCancel(w, r, lag)
    BY <2>1 DEF TypeOK, ConfirmCancel, ReleaseJob, AbandonRun, queueVars,
       workerVars, Jobs, Status, Terminal
  <2>2. CASE CommitSimulation(w, r, lag)
    BY <2>2 DEF TypeOK, CommitSimulation, ReleaseJob, queueVars, workerVars,
       Jobs, Status, Terminal
  <2> QED
    BY <1>11, <2>1, <2>2
<1>12. ASSUME NEW lag \in Lags, NEW w \in Workers, NEW r \in Runs,
              NEW final \in Failures, FailRun(w, r, final, lag)
       PROVE  TypeOK'
  BY <1>12 DEF TypeOK, FailRun, ReleaseJob, AbandonRun, queueVars, workerVars,
     Jobs, Status, Terminal
<1>13. CASE Tick
  BY <1>13 DEF TypeOK, Tick, simVars, queueVars
<1>14. CASE UNCHANGED vars
  BY <1>14 DEF TypeOK, vars, simVars, queueVars, workerVars, jobVars
<1> QED
  BY <1>1, <1>2, <1>3, <1>4, <1>5, <1>6, <1>7, <1>8, <1>9, <1>10, <1>11, <1>12,
     <1>13, <1>14 DEF Next, ApiStep, RecoveryStep, WorkerStep

\* The rows always hold values of their columns' types, through every
\* transaction and every recovery.
THEOREM TypeCorrect == Spec => []TypeOK
<1>1. Init => TypeOK
  BY TicksType DEF Init, TypeOK, Status
<1> QED
  BY <1>1, TypeStep, PTL DEF Spec

-----------------------------------------------------------------------------
(***************************************************************************)
(* The inductive invariant.                                                *)
(***************************************************************************)

\* Sequence numbers are handed out once per job, and a job that was claimed is
\* past the queue for good.
TicketsInOrder ==
  \A j \in Jobs :
    /\ job[j] = "ABSENT" <=> enqueue_seq[j] = 0
    /\ enqueue_seq[j] <= last_seq
    /\ job[j] \in {"ABSENT", "QUEUED"} => last_attempt[j] = None

\* Only runs are being cancelled, and only after somebody asked.
CancellingIsAsked ==
  \A j \in Jobs : job[j] = "CANCELLING" => j \in Runs /\ cancel_asked[j]

IInv ==
  /\ TypeOK
  /\ RunFollowsJob
  /\ DatasetFollowsPreflight
  /\ LeaseAndStageColumns
  /\ SingleExecutionSlot
  /\ CancellationIntentWins
  /\ RunsUseValidDatasets
  /\ CancellingIsAsked
  /\ TicketsInOrder
  /\ FifoStart

\* Recovery settles what expired and keeps the tables consistent.
LEMMA RecoveredConsistent ==
  ASSUME IInv, NEW lag \in Lags
  PROVE  /\ \A j \in Jobs :
              IF j \in Expired(lag) THEN RecoveredJob(lag)[j] \in Terminal
                                    ELSE RecoveredJob(lag)[j] = job[j]
         /\ \A r \in Runs : RecoveredSim(lag)[r] = RecoveredJob(lag)[r]
         /\ \A d \in Datasets :
              /\ RecoveredDataset(lag)[d] = DatasetOf(RecoveredJob(lag)[d])
              /\ dataset[d] \in {"VALID", "INVALID"}
                   => RecoveredDataset(lag)[d] = dataset[d]
         /\ \A j \in Jobs :
              /\ RecoveredJob(lag)[j] \in Active <=> RecoveredOwner(lag)[j] # None
              /\ RecoveredLease(lag)[j] # 0 => RecoveredJob(lag)[j] \in Active
         /\ \A r \in Runs :
              /\ RecoveredSim(lag)[r] \in Active <=> RecoveredStage(lag)[r] # None
              /\ cancel_asked[r] =>
                   RecoveredSim(lag)[r] \in {"CANCELLING", "CANCELLED"}
<1> USE StatusTypes DEF IInv
<1>1. \A j \in Jobs : RecoveredStatus(j) \in {"CANCELLED", "FAILED_RECOVERABLE"}
  BY DEF RecoveredStatus
<1>2. \A j \in Jobs :
        IF j \in Expired(lag) THEN RecoveredJob(lag)[j] \in Terminal
                              ELSE RecoveredJob(lag)[j] = job[j]
  BY <1>1 DEF RecoveredJob, Terminal
<1>3. \A r \in Runs : r \in Expired(lag) <=> r \in RecoveredRuns(lag)
  BY DEF RecoveredRuns, Expired, RunFollowsJob, Jobs
<1>4. \A r \in Runs : RecoveredSim(lag)[r] = RecoveredJob(lag)[r]
  BY <1>3 DEF RecoveredSim, RecoveredJob, RunFollowsJob, Jobs
<1>5. ASSUME NEW d \in Datasets
      PROVE  /\ RecoveredDataset(lag)[d] = DatasetOf(RecoveredJob(lag)[d])
             /\ dataset[d] \in {"VALID", "INVALID"}
                  => RecoveredDataset(lag)[d] = dataset[d]
  <2>1. d \in Jobs /\ d \notin Runs
    BY ConstantsAssumption DEF Jobs
  <2>2. dataset[d] = DatasetOf(job[d])
    BY DEF DatasetFollowsPreflight
  <2>3. CASE d \notin Expired(lag)
    BY <2>1, <2>2, <2>3 DEF RecoveredDataset, RecoveredJob
  <2>4. CASE d \in Expired(lag) /\ job[d] = "RUNNING"
    BY <2>1, <2>2, <2>4
    DEF RecoveredDataset, RecoveredJob, RecoveredStatus, CancelIntent, DatasetOf
  <2>5. CASE d \in Expired(lag) /\ job[d] = "CANCELLING"
    BY <2>1, <2>2, <2>5
    DEF RecoveredDataset, RecoveredJob, RecoveredStatus, CancelIntent, DatasetOf
  <2> QED
    BY <2>3, <2>4, <2>5 DEF Expired, Active
<1>6. ASSUME NEW j \in Jobs
      PROVE  /\ RecoveredJob(lag)[j] \in Active <=> RecoveredOwner(lag)[j] # None
             /\ RecoveredLease(lag)[j] # 0 => RecoveredJob(lag)[j] \in Active
  BY <1>2 DEF RecoveredOwner, RecoveredLease, LeaseAndStageColumns
<1>7. ASSUME NEW r \in Runs
      PROVE  /\ RecoveredSim(lag)[r] \in Active <=> RecoveredStage(lag)[r] # None
             /\ cancel_asked[r] =>
                  RecoveredSim(lag)[r] \in {"CANCELLING", "CANCELLED"}
  <2>1. RecoveredSim(lag)[r] \in Active <=> RecoveredStage(lag)[r] # None
    BY <1>1 DEF RecoveredSim, RecoveredStage, LeaseAndStageColumns, RecoveredRuns,
       Jobs, Active
  <2>2. cancel_asked[r] => RecoveredSim(lag)[r] \in {"CANCELLING", "CANCELLED"}
    BY DEF RecoveredSim, RecoveredStatus, CancelIntent, CancellationIntentWins
  <2> QED
    BY <2>1, <2>2
<1> QED
  BY <1>2, <1>4, <1>5, <1>6, <1>7

\* Recovery alone keeps the invariant.
LEMMA RecoveryKeepsInv ==
  ASSUME IInv, NEW lag \in Lags, TypeOK',
         job' = RecoveredJob(lag), owner' = RecoveredOwner(lag),
         lease' = RecoveredLease(lag), sim' = RecoveredSim(lag),
         current_stage' = RecoveredStage(lag), dataset' = RecoveredDataset(lag),
         UNCHANGED <<cancel_asked, input, queueVars, last_attempt>>
  PROVE  IInv'
<1> USE StatusTypes, RecoveredConsistent DEF IInv
<1>1. RunFollowsJob' /\ DatasetFollowsPreflight'
  BY DEF RunFollowsJob, DatasetFollowsPreflight
<1>2. LeaseAndStageColumns'
  BY DEF LeaseAndStageColumns
<1>3. SingleExecutionSlot'
  BY DEF SingleExecutionSlot, ActiveJobs, Expired
<1>4. CancellationIntentWins'
  BY DEF CancellationIntentWins
<1>5. RunsUseValidDatasets'
  <2> SUFFICES ASSUME NEW r \in Runs, sim'[r] # "ABSENT"
               PROVE  input'[r] \in Datasets /\ dataset'[input'[r]] = "VALID"
    BY DEF RunsUseValidDatasets
  <2>1. sim[r] # "ABSENT"
    BY DEF RunFollowsJob, Jobs, Expired
  <2> QED
    BY <2>1 DEF RunsUseValidDatasets
<1>6. CancellingIsAsked' /\ TicketsInOrder' /\ FifoStart'
  BY DEF CancellingIsAsked, TicketsInOrder, FifoStart, queueVars, Expired, Terminal
<1> QED
  BY <1>1, <1>2, <1>3, <1>4, <1>5, <1>6

\* Accepting a job.
LEMMA AcceptKeepsInv ==
  ASSUME IInv, TypeOK', NEW j \in Jobs, job[j] = "ABSENT", Enqueue(j),
         UNCHANGED <<current_stage, cancel_asked, owner, last_attempt, lease>>
  PROVE  SingleExecutionSlot' /\ CancellingIsAsked' /\ TicketsInOrder' /\ FifoStart'
<1> USE DEF IInv, Enqueue
<1>1. SingleExecutionSlot'
  BY StatusTypes DEF SingleExecutionSlot, ActiveJobs, TypeOK
<1>2. TicketsInOrder'
  BY DEF TicketsInOrder, TypeOK
<1>3. CancellingIsAsked' /\ FifoStart'
  BY DEF CancellingIsAsked, FifoStart, TicketsInOrder, TypeOK
<1> QED
  BY <1>1, <1>2, <1>3

LEMMA RegisterDatasetInv ==
  ASSUME IInv, TypeOK', NEW d \in Datasets, RegisterDataset(d)
  PROVE  IInv'
<1> USE StatusTypes DEF IInv
<1>1. d \in Jobs /\ d \notin Runs /\ job[d] = "ABSENT"
  BY ConstantsAssumption
  DEF Jobs, DatasetFollowsPreflight, DatasetOf, RegisterDataset
<1>2. SingleExecutionSlot' /\ CancellingIsAsked' /\ TicketsInOrder' /\ FifoStart'
  BY <1>1, AcceptKeepsInv DEF RegisterDataset, simVars
<1>3. RunFollowsJob' /\ CancellationIntentWins'
  BY <1>1 DEF RegisterDataset, simVars, Enqueue, RunFollowsJob,
     CancellationIntentWins, TypeOK
<1>4. DatasetFollowsPreflight' /\ LeaseAndStageColumns'
  BY <1>1 DEF RegisterDataset, simVars, Enqueue, DatasetFollowsPreflight,
     DatasetOf, LeaseAndStageColumns, TypeOK, Jobs
<1>5. RunsUseValidDatasets'
  BY DEF RegisterDataset, simVars, RunsUseValidDatasets, TypeOK
<1> QED
  BY <1>2, <1>3, <1>4, <1>5

LEMMA CreateSimulationInv ==
  ASSUME IInv, TypeOK', NEW k \in Keys, NEW r \in Runs, NEW d \in Datasets,
         CreateSimulation(k, r, d)
  PROVE  IInv'
<1> USE StatusTypes DEF IInv
<1>1. r \in Jobs /\ r \notin Datasets /\ job[r] = "ABSENT"
  BY ConstantsAssumption DEF Jobs, RunFollowsJob, CreateSimulation
<1>2. SingleExecutionSlot' /\ CancellingIsAsked' /\ TicketsInOrder' /\ FifoStart'
  BY <1>1, AcceptKeepsInv DEF CreateSimulation
<1>3. RunFollowsJob' /\ CancellationIntentWins'
  BY <1>1 DEF CreateSimulation, Enqueue, RunFollowsJob, CancellationIntentWins,
     TypeOK
<1>4. DatasetFollowsPreflight' /\ LeaseAndStageColumns'
  BY <1>1 DEF CreateSimulation, Enqueue, DatasetFollowsPreflight, 
     LeaseAndStageColumns, TypeOK, Jobs
<1>5. RunsUseValidDatasets'
  BY DEF CreateSimulation, DatasetReady, RunsUseValidDatasets, TypeOK
<1> QED
  BY <1>2, <1>3, <1>4, <1>5

LEMMA CancelSimulationInv ==
  ASSUME IInv, TypeOK', NEW r \in Runs, CancelSimulation(r)
  PROVE  IInv'
<1> USE StatusTypes DEF IInv
<1>1. r \in Jobs /\ r \notin Datasets /\ job[r] = sim[r]
  BY ConstantsAssumption DEF Jobs, RunFollowsJob
<1>2. CASE CancelQueued(r)
  <2> USE <1>1, <1>2 DEF CancelQueued
  <2>1. RunFollowsJob' /\ CancellationIntentWins'
    BY DEF RunFollowsJob, CancellationIntentWins, TypeOK, Jobs
  <2>2. DatasetFollowsPreflight' /\ LeaseAndStageColumns'
    BY DEF DatasetFollowsPreflight, LeaseAndStageColumns, TypeOK, Jobs, Active
  <2>3. SingleExecutionSlot' /\ CancellingIsAsked'
    BY DEF SingleExecutionSlot, CancellingIsAsked, ActiveJobs, TypeOK, Active
  <2>4. RunsUseValidDatasets'
    BY DEF RunsUseValidDatasets, TypeOK
  <2>5. TicketsInOrder' /\ FifoStart'
    BY DEF TicketsInOrder, FifoStart, TypeOK, queueVars
  <2> QED
    BY <2>1, <2>2, <2>3, <2>4, <2>5
<1>3. CASE CancelRunning(r)
  <2> USE <1>1, <1>3 DEF CancelRunning
  <2>1. RunFollowsJob' /\ CancellationIntentWins'
    BY DEF RunFollowsJob, CancellationIntentWins, TypeOK, Jobs
  <2>2. DatasetFollowsPreflight' /\ LeaseAndStageColumns'
    BY DEF DatasetFollowsPreflight, LeaseAndStageColumns, TypeOK, Jobs, Active
  <2>3. SingleExecutionSlot' /\ CancellingIsAsked'
    BY DEF SingleExecutionSlot, CancellingIsAsked, ActiveJobs, TypeOK, Active
  <2>4. RunsUseValidDatasets'
    BY DEF RunsUseValidDatasets, TypeOK
  <2>5. TicketsInOrder' /\ FifoStart'
    BY DEF TicketsInOrder, FifoStart, TypeOK, queueVars
  <2> QED
    BY <2>1, <2>2, <2>3, <2>4, <2>5
<1> QED
  BY <1>2, <1>3 DEF CancelSimulation

\* A claim settles every expired lease and finds no live one, so that nothing
\* but the claimed job is active afterwards.
LEMMA ClaimInv ==
  ASSUME IInv, TypeOK', NEW w \in Workers, NEW j \in Jobs, NEW lag \in Lags,
         Claim(w, j, lag)
  PROVE  IInv'
<1> USE StatusTypes, RecoveredType, RecoveredConsistent DEF IInv
<1>1. /\ job[j] = "QUEUED" /\ w # None /\ FirstStage # None
      /\ "RUNNING" \in Active
  BY ConstantsAssumption DEF Claim, IsHead, Queued, Active
<1>2. \A i \in Jobs : i # j => job'[i] \notin Active
  BY ConstantsAssumption DEF Claim, SlotBusy, Expired, TypeOK, Ticks, Lags
<1>3. RunFollowsJob'
  BY DEF Claim, RunFollowsJob, Jobs
<1>4. DatasetFollowsPreflight'
  BY <1>1 DEF Claim, DatasetFollowsPreflight, DatasetOf, Jobs, Expired
<1>5. LeaseAndStageColumns'
  BY <1>1 DEF Claim, LeaseAndStageColumns, Jobs
<1>6. SingleExecutionSlot' /\ CancellingIsAsked'
  BY <1>1, <1>2 DEF SingleExecutionSlot, ActiveJobs, CancellingIsAsked, Claim,
     Active
<1>7. CancellationIntentWins'
  BY <1>1 DEF Claim, CancellationIntentWins, RunFollowsJob
<1>8. RunsUseValidDatasets'
  <2> SUFFICES ASSUME NEW r \in Runs, sim'[r] # "ABSENT"
               PROVE  input'[r] \in Datasets /\ dataset'[input'[r]] = "VALID"
    BY DEF RunsUseValidDatasets
  <2>1. sim[r] # "ABSENT"
    BY <1>1 DEF Claim, RunFollowsJob, Jobs, Expired
  <2> QED
    BY <2>1 DEF Claim, RunsUseValidDatasets
<1>9. TicketsInOrder'
  BY <1>1 DEF Claim, TicketsInOrder, queueVars, Expired, TypeOK
<1>10. FifoStart'
  <2> SUFFICES ASSUME NEW i \in Jobs, NEW k \in Jobs, last_attempt'[k] # None,
                      enqueue_seq[i] < enqueue_seq[k]
               PROVE  job'[i] # "QUEUED"
    BY DEF FifoStart, Claim, queueVars
  <2>1. job'[i] = "QUEUED" => job[i] = "QUEUED" /\ i # j
    BY DEF Claim, Expired
  <2>2. CASE k = j
    BY <2>1, <2>2 DEF Claim, IsHead, Queued, TypeOK
  <2>3. CASE k # j
    BY <2>1, <2>3 DEF Claim, FifoStart, TypeOK
  <2> QED
    BY <2>2, <2>3
<1> QED
  BY <1>3, <1>4, <1>5, <1>6, <1>7, <1>8, <1>9, <1>10

\* Heartbeats, reports and the passage of time settle nothing.
LEMMA KeepAliveInv ==
  /\ IInv /\ TypeOK'
  /\ UNCHANGED <<dataset, sim, cancel_asked, input, job, owner, last_attempt,
                 enqueue_seq, last_seq>>
  /\ \A i \in Jobs : lease'[i] = lease[i] \/ job[i] \in Active
  /\ \A r \in Runs : \/ current_stage'[r] = current_stage[r]
                     \/ current_stage'[r] # None /\ sim[r] \in Active
  => IInv'
<1> SUFFICES
      ASSUME IInv, TypeOK',
             UNCHANGED <<dataset, sim, cancel_asked, input, job, owner,
                         last_attempt, enqueue_seq, last_seq>>,
             \A i \in Jobs : lease'[i] = lease[i] \/ job[i] \in Active,
             \A r \in Runs : \/ current_stage'[r] = current_stage[r]
                             \/ current_stage'[r] # None /\ sim[r] \in Active
      PROVE  IInv'
  OBVIOUS
<1> USE DEF IInv
<1>1. LeaseAndStageColumns'
  BY DEF LeaseAndStageColumns
<1> QED
  BY <1>1
  DEF RunFollowsJob, DatasetFollowsPreflight, SingleExecutionSlot,
      CancellationIntentWins, RunsUseValidDatasets, CancellingIsAsked,
      TicketsInOrder, FifoStart, ActiveJobs

\* A job leaves the slot with a terminal status.
LEMMA ReleaseKeepsInv ==
  ASSUME IInv, TypeOK', NEW j \in Jobs, job[j] \in Active,
         NEW status \in Terminal, ReleaseJob(j, status),
         UNCHANGED <<queueVars, cancel_asked>>
  PROVE  SingleExecutionSlot' /\ CancellingIsAsked' /\ TicketsInOrder' /\ FifoStart'
<1> USE StatusTypes DEF IInv, ReleaseJob, queueVars
<1>1. SingleExecutionSlot'
  BY DEF SingleExecutionSlot, ActiveJobs, TypeOK
<1>2. CancellingIsAsked' /\ TicketsInOrder' /\ FifoStart'
  BY DEF CancellingIsAsked, TicketsInOrder, FifoStart, TypeOK, Terminal
<1> QED
  BY <1>1, <1>2

\* The end of a preflight, well or badly.
LEMMA PreflightEndInv ==
  ASSUME IInv, TypeOK', NEW d \in Datasets, job[d] \in Active,
         NEW status \in Terminal, ReleaseJob(d, status),
         dataset' = [dataset EXCEPT ![d] = DatasetOf(status)],
         UNCHANGED <<simVars, queueVars>>
  PROVE  IInv'
<1> USE StatusTypes DEF IInv
<1>1. d \in Jobs /\ d \notin Runs
  BY ConstantsAssumption DEF Jobs
<1>2. dataset[d] # "VALID"
  BY DEF DatasetFollowsPreflight, DatasetOf, Active
<1>3. SingleExecutionSlot' /\ CancellingIsAsked' /\ TicketsInOrder' /\ FifoStart'
  BY <1>1, ReleaseKeepsInv DEF simVars
<1>4. RunFollowsJob' /\ CancellationIntentWins'
  BY <1>1 DEF ReleaseJob, simVars, RunFollowsJob, CancellationIntentWins, TypeOK
<1>5. DatasetFollowsPreflight' /\ LeaseAndStageColumns'
  BY <1>1 DEF ReleaseJob, simVars, DatasetFollowsPreflight, LeaseAndStageColumns,
     TypeOK, Jobs
<1>6. RunsUseValidDatasets'
  BY <1>2 DEF simVars, RunsUseValidDatasets, TypeOK
<1> QED
  BY <1>3, <1>4, <1>5, <1>6

\* The end of a simulation: run and job settle together, and as CANCELLED when
\* a cancellation was accepted.
LEMMA RunEndInv ==
  ASSUME IInv, TypeOK', NEW r \in Runs, job[r] \in Active,
         NEW status \in Terminal, ReleaseJob(r, status),
         cancel_asked[r] => status = "CANCELLED",
         sim' = [sim EXCEPT ![r] = status],
         current_stage' = [current_stage EXCEPT ![r] = None],
         UNCHANGED <<dataset, cancel_asked, input, queueVars>>
  PROVE  IInv'
<1> USE StatusTypes DEF IInv
<1>1. r \in Jobs /\ r \notin Datasets
  BY ConstantsAssumption DEF Jobs
<1>2. SingleExecutionSlot' /\ CancellingIsAsked' /\ TicketsInOrder' /\ FifoStart'
  BY <1>1, ReleaseKeepsInv
<1>3. RunFollowsJob' /\ CancellationIntentWins'
  BY <1>1 DEF ReleaseJob, RunFollowsJob, CancellationIntentWins, TypeOK
<1>4. DatasetFollowsPreflight' /\ LeaseAndStageColumns'
  BY <1>1 DEF ReleaseJob, DatasetFollowsPreflight, LeaseAndStageColumns,
     TypeOK, Jobs
<1>5. RunsUseValidDatasets'
  BY <1>1 DEF RunsUseValidDatasets, RunFollowsJob, TypeOK
<1> QED
  BY <1>2, <1>3, <1>4, <1>5

\* What the worker's terminal calls do to a run, given the invariant.
LEMMA RunEnds ==
  ASSUME IInv, NEW w \in Workers, NEW r \in Runs, NEW lag \in Lags,
         \/ ConfirmCancel(w, r, lag)
         \/ CommitSimulation(w, r, lag)
         \/ \E final \in Failures : FailRun(w, r, final, lag)
  PROVE  /\ job[r] \in Active
         /\ \E status \in Terminal :
              /\ ReleaseJob(r, status)
              /\ cancel_asked[r] => status = "CANCELLED"
              /\ sim' = [sim EXCEPT ![r] = status]
              /\ current_stage' = [current_stage EXCEPT ![r] = None]
         /\ UNCHANGED <<dataset, cancel_asked, input, queueVars>>
<1> USE StatusTypes DEF IInv, Holds
<1>1. sim[r] = job[r]
  BY DEF RunFollowsJob
<1>2. CASE ConfirmCancel(w, r, lag)
  BY <1>1, <1>2 DEF ConfirmCancel, AbandonRun, Terminal, Active
<1>3. CASE CommitSimulation(w, r, lag)
  <2>1. ~cancel_asked[r]
    BY <1>3 DEF CommitSimulation, CancellationIntentWins
  <2> QED
    BY <1>1, <1>3, <2>1 DEF CommitSimulation, Terminal, Active
<1>4. ASSUME NEW final \in Failures, FailRun(w, r, final, lag)
      PROVE  /\ job[r] \in Active
             /\ \E status \in Terminal :
                  /\ ReleaseJob(r, status)
                  /\ cancel_asked[r] => status = "CANCELLED"
                  /\ sim' = [sim EXCEPT ![r] = status]
                  /\ current_stage' = [current_stage EXCEPT ![r] = None]
             /\ UNCHANGED <<dataset, cancel_asked, input, queueVars>>
  <2>1. CASE CancelIntent(r)
    BY <1>1, <1>4, <2>1 DEF FailRun, AbandonRun, Terminal
  <2>2. CASE ~CancelIntent(r)
    BY <1>1, <1>4, <2>2 DEF FailRun, AbandonRun, CancelIntent
  <2> QED
    BY <2>1, <2>2
<1> QED
  BY <1>2, <1>3, <1>4

LEMMA InvStep == IInv /\ [Next]_vars => IInv'
<1> SUFFICES ASSUME IInv, [Next]_vars PROVE IInv'
  OBVIOUS
<1>0. TypeOK' /\ TypeOK
  BY TypeStep DEF IInv
<1> USE <1>0
<1>1. ASSUME NEW d \in Datasets, RegisterDataset(d) PROVE IInv'
  BY <1>1, RegisterDatasetInv
<1>2. ASSUME NEW k \in Keys, NEW r \in Runs, NEW d \in Datasets,
             CreateSimulation(k, r, d)
      PROVE  IInv'
  BY <1>2, CreateSimulationInv
<1>3. ASSUME NEW r \in Runs, CancelSimulation(r) PROVE IInv'
  BY <1>3, CancelSimulationInv
<1>4. ASSUME NEW lag \in Lags, RecoverExpiredLeases(lag) PROVE IInv'
  BY <1>4, RecoveryKeepsInv DEF RecoverExpiredLeases
<1>5. ASSUME NEW lag \in Lags, NEW w \in Workers,
             RegisterInstance(w, lag) \/ HeartbeatInstance(w, lag)
      PROVE  IInv'
  BY <1>5, KeepAliveInv
  DEF RegisterInstance, HeartbeatInstance, simVars, queueVars, jobVars
<1>6. ASSUME NEW lag \in Lags, NEW w \in Workers, ClaimNothing(w, lag)
      PROVE  IInv'
  BY <1>6, RecoveryKeepsInv DEF ClaimNothing
<1>7. ASSUME NEW lag \in Lags, NEW w \in Workers, NEW j \in Jobs,
             Claim(w, j, lag)
      PROVE  IInv'
  BY <1>7, ClaimInv
<1>8. ASSUME NEW lag \in Lags, NEW w \in Workers, NEW j \in Jobs,
             Heartbeat(w, j, lag)
      PROVE  IInv'
  BY <1>8, KeepAliveInv DEF Heartbeat, Holds, simVars, queueVars, TypeOK
<1>9. ASSUME NEW lag \in Lags, NEW w \in Workers, NEW d \in Datasets,
             CompletePreflight(w, d, lag)
      PROVE  IInv'
  BY <1>9, PreflightEndInv
  DEF CompletePreflight, Holds, DatasetOf, Terminal, Active
<1>10. ASSUME NEW lag \in Lags, NEW w \in Workers, NEW d \in Datasets,
              NEW final \in Failures, FailPreflight(w, d, final, lag)
       PROVE  IInv'
  BY <1>10, PreflightEndInv, StatusTypes
  DEF FailPreflight, Holds, DatasetOf, Failures
<1>11. ASSUME NEW lag \in Lags, NEW w \in Workers, NEW r \in Runs,
              NEW status \in Active, NEW stage \in Stages,
              ReportEvent(w, r, status, stage, lag)
       PROVE  IInv'
  BY <1>11, KeepAliveInv, ConstantsAssumption
  DEF ReportEvent, Holds, jobVars, queueVars, TypeOK
<1>12. ASSUME NEW lag \in Lags, NEW w \in Workers, NEW r \in Runs,
              \/ ConfirmCancel(w, r, lag)
              \/ CommitSimulation(w, r, lag)
              \/ \E final \in Failures : FailRun(w, r, final, lag)
       PROVE  IInv'
  BY <1>12, RunEnds, RunEndInv
<1>13. CASE Tick
  BY <1>13, KeepAliveInv DEF Tick, simVars, queueVars, TypeOK
<1>14. CASE UNCHANGED vars
  BY <1>14, KeepAliveInv DEF vars, simVars, jobVars, queueVars
<1> QED
  BY <1>1, <1>2, <1>3, <1>4, <1>5, <1>6, <1>7, <1>8, <1>9, <1>10, <1>11, <1>12,
     <1>13, <1>14 DEF Next, ApiStep, RecoveryStep, WorkerStep

LEMMA InvInit == Init => IInv
<1> SUFFICES ASSUME Init PROVE IInv
  OBVIOUS
<1>1. TypeOK
  BY TicksType DEF Init, TypeOK, Status
<1>2. /\ RunFollowsJob /\ DatasetFollowsPreflight /\ LeaseAndStageColumns
      /\ SingleExecutionSlot /\ CancellationIntentWins /\ RunsUseValidDatasets
      /\ CancellingIsAsked /\ TicketsInOrder /\ FifoStart
  BY StatusTypes
  DEF Init, RunFollowsJob, DatasetFollowsPreflight, DatasetOf, Jobs, ActiveJobs,
      LeaseAndStageColumns, SingleExecutionSlot, CancellationIntentWins,
      RunsUseValidDatasets, CancellingIsAsked, TicketsInOrder, FifoStart
<1> QED
  BY <1>1, <1>2 DEF IInv

\* Everything the inductive invariant says holds in every reachable state.
THEOREM Invariance == Spec => []IInv
BY InvInit, InvStep, PTL DEF Spec

\* One job at a time has the slot, whatever the transactions and however they lag.
THEOREM OneSlot == Spec => []SingleExecutionSlot
<1>1. IInv => SingleExecutionSlot
  BY DEF IInv
<1> QED
  BY <1>1, Invariance, PTL

\* A run and its job settle together.
THEOREM RunsFollowJobs == Spec => []RunFollowsJob
<1>1. IInv => RunFollowsJob
  BY DEF IInv
<1> QED
  BY <1>1, Invariance, PTL

\* A dataset is decided by its preflight.
THEOREM DatasetsFollowPreflights == Spec => []DatasetFollowsPreflight
<1>1. IInv => DatasetFollowsPreflight
  BY DEF IInv
<1> QED
  BY <1>1, Invariance, PTL

\* A cancellation that was asked for wins over every failure and recovery.
THEOREM CancellationWins == Spec => []CancellationIntentWins
<1>1. IInv => CancellationIntentWins
  BY DEF IInv
<1> QED
  BY <1>1, Invariance, PTL

\* Jobs of both kinds start in the order they were accepted.
THEOREM FifoOrder == Spec => []FifoStart
<1>1. IInv => FifoStart
  BY DEF IInv
<1> QED
  BY <1>1, Invariance, PTL

\* A run's dataset is valid for as long as the run exists.
THEOREM ValidInputs == Spec => []RunsUseValidDatasets
<1>1. IInv => RunsUseValidDatasets
  BY DEF IInv
<1> QED
  BY <1>1, Invariance, PTL

-----------------------------------------------------------------------------
(***************************************************************************)
(* Terminal rows are never written again.                                  *)
(***************************************************************************)

\* What SettledIsFinal says of one step.
FinalStep ==
  /\ \A r \in Runs : sim[r] \in Terminal =>
       /\ sim'[r] = sim[r]
       /\ current_stage'[r] = current_stage[r]
       /\ artifact_state'[r] = artifact_state[r]
       /\ cancel_asked'[r] = cancel_asked[r]
  /\ \A d \in Datasets : dataset[d] \in {"VALID", "INVALID"} =>
       dataset'[d] = dataset[d]

\* Recovery touches active rows only.
LEMMA RecoveryIsFinal ==
  ASSUME IInv, NEW lag \in Lags, NEW r \in Runs, sim[r] \in Terminal
  PROVE  /\ RecoveredSim(lag)[r] = sim[r]
         /\ RecoveredStage(lag)[r] = current_stage[r]
         /\ RecoveredArtifacts(lag)[r] = artifact_state[r]
BY StatusTypes
DEF RecoveredSim, RecoveredStage, RecoveredArtifacts, RecoveredRuns

LEMMA FinalityStep == IInv /\ [Next]_vars => FinalStep
<1> SUFFICES ASSUME IInv, [Next]_vars PROVE FinalStep
  OBVIOUS
<1> USE StatusTypes DEF IInv
<1>0. /\ TypeOK
      /\ \A r \in Runs : r \in Jobs /\ sim[r] = job[r]
      /\ \A d \in Datasets : d \in Jobs
      /\ \A d \in Datasets : job[d] \in Active => dataset[d] # "VALID"
  BY DEF RunFollowsJob, Jobs, DatasetFollowsPreflight, DatasetOf, Active
<1>1. ASSUME NEW d \in Datasets, RegisterDataset(d) PROVE FinalStep
  BY <1>1 DEF RegisterDataset, FinalStep, simVars, TypeOK
<1>2. ASSUME NEW k \in Keys, NEW r \in Runs, NEW d \in Datasets,
             CreateSimulation(k, r, d)
      PROVE  FinalStep
  BY <1>2 DEF CreateSimulation, FinalStep, TypeOK
<1>3. ASSUME NEW r \in Runs, CancelSimulation(r) PROVE FinalStep
  BY <1>3 DEF CancelSimulation, CancelQueued, CancelRunning, FinalStep, TypeOK,
     Active
<1>4. ASSUME NEW lag \in Lags, RecoverExpiredLeases(lag) PROVE FinalStep
  BY <1>4, RecoveryIsFinal, RecoveredConsistent
  DEF RecoverExpiredLeases, FinalStep
<1>5. ASSUME NEW lag \in Lags, NEW w \in Workers,
             \/ RegisterInstance(w, lag) \/ HeartbeatInstance(w, lag)
             \/ \E j \in Jobs : Heartbeat(w, j, lag)
      PROVE  FinalStep
  BY <1>5
  DEF RegisterInstance, HeartbeatInstance, Heartbeat, simVars, FinalStep
<1>6. ASSUME NEW lag \in Lags, NEW w \in Workers, ClaimNothing(w, lag)
      PROVE  FinalStep
  BY <1>6, RecoveryIsFinal, RecoveredConsistent DEF ClaimNothing, FinalStep
<1>7. ASSUME NEW lag \in Lags, NEW w \in Workers, NEW j \in Jobs,
             Claim(w, j, lag)
      PROVE  FinalStep
  BY <1>7, RecoveryIsFinal, RecoveredConsistent DEF Claim, FinalStep
<1>8. ASSUME NEW lag \in Lags, NEW w \in Workers, NEW d \in Datasets,
             CompletePreflight(w, d, lag)
      PROVE  FinalStep
  BY <1>8 DEF CompletePreflight, simVars, FinalStep, TypeOK
<1>9. ASSUME NEW lag \in Lags, NEW w \in Workers, NEW d \in Datasets,
             NEW final \in Failures, FailPreflight(w, d, final, lag)
      PROVE  FinalStep
  BY <1>0, <1>9 DEF FailPreflight, Holds, simVars, FinalStep, TypeOK
<1>10. ASSUME NEW lag \in Lags, NEW w \in Workers, NEW r \in Runs,
              NEW status \in Active, NEW stage \in Stages,
              ReportEvent(w, r, status, stage, lag)
       PROVE  FinalStep
  BY <1>0, <1>10 DEF ReportEvent, Holds, FinalStep, TypeOK
<1>11. ASSUME NEW lag \in Lags, NEW w \in Workers, NEW r \in Runs,
              \/ ConfirmCancel(w, r, lag)
              \/ CommitSimulation(w, r, lag)
              \/ \E final \in Failures : FailRun(w, r, final, lag)
       PROVE  FinalStep
  <2>1. sim[r] \notin Terminal /\ UNCHANGED <<dataset, cancel_asked>>
    BY <1>0, <1>11
    DEF ConfirmCancel, CommitSimulation, FailRun, Holds, Active
  <2>2. \A s \in Runs \ {r} :
          /\ sim'[s] = sim[s]
          /\ current_stage'[s] = current_stage[s]
          /\ artifact_state'[s] = artifact_state[s]
    BY <1>11 DEF ConfirmCancel, CommitSimulation, FailRun, AbandonRun, TypeOK
  <2> QED
    BY <2>1, <2>2 DEF FinalStep
<1>12. CASE Tick
  BY <1>12 DEF Tick, simVars, FinalStep
<1>13. CASE UNCHANGED vars
  BY <1>13 DEF vars, simVars, FinalStep
<1> QED
  BY <1>1, <1>2, <1>3, <1>4, <1>5, <1>6, <1>7, <1>8, <1>9, <1>10, <1>11, <1>12,
     <1>13 DEF Next, ApiStep, RecoveryStep, WorkerStep

\* No transaction rewrites a settled run or dataset, so that the trigger
\* protect_terminal_simulation never aborts one.
THEOREM Finality == Spec => SettledIsFinal
<1>1. IInv /\ [Next]_vars => [FinalStep]_vars
  BY FinalityStep
<1> QED
  BY <1>1, Invariance, PTL DEF Spec, SettledIsFinal, FinalStep

-----------------------------------------------------------------------------
(***************************************************************************)
(* Idempotent creation and admission: what is said of runs changes only    *)
(* when one is created, and otherwise only shrinks.                        *)
(***************************************************************************)

\* Runs in the system, waiting or executing, and preflights that wait.
Live == InStatus({"QUEUED"} \cup Active)
PreflightQueue == {d \in Datasets : job[d] = "QUEUED"}

\* A job enters the queue in no other way than by being accepted.
LEMMA NoNewJob ==
  IInv /\ [Next]_vars =>
    \/ \E k \in Keys, r \in Runs, d \in Datasets : CreateSimulation(k, r, d)
    \/ /\ UNCHANGED <<input, idempotency>>
       /\ \A r \in Runs : sim[r] = "ABSENT" <=> sim'[r] = "ABSENT"
       /\ Live' \subseteq Live
       /\ \/ \E d \in Datasets : RegisterDataset(d)
          \/ PreflightQueue' \subseteq PreflightQueue
<1> SUFFICES
      ASSUME IInv, [Next]_vars,
             ~ \E k \in Keys, r \in Runs, d \in Datasets : CreateSimulation(k, r, d)
      PROVE  /\ UNCHANGED <<input, idempotency>>
             /\ \A r \in Runs : sim[r] = "ABSENT" <=> sim'[r] = "ABSENT"
             /\ Live' \subseteq Live
             /\ \/ \E d \in Datasets : RegisterDataset(d)
                \/ PreflightQueue' \subseteq PreflightQueue
  OBVIOUS
<1> DEFINE Advances(j) == \/ job'[j] = job[j]
                          \/ /\ job[j] \in {"QUEUED"} \cup Active
                             /\ job'[j] \in Active \cup Terminal
           Quiet == /\ \A j \in Jobs : Advances(j)
                    /\ UNCHANGED <<input, idempotency>>
<1> USE StatusTypes
<1>0. /\ IInv' /\ TypeOK
      /\ \A r \in Runs : r \in Jobs /\ sim[r] = job[r] /\ sim'[r] = job'[r]
      /\ \A d \in Datasets : d \in Jobs /\ d \notin Runs
  BY InvStep, ConstantsAssumption DEF IInv, RunFollowsJob, Jobs
<1>1. Quiet => /\ UNCHANGED <<input, idempotency>>
               /\ \A r \in Runs : sim[r] = "ABSENT" <=> sim'[r] = "ABSENT"
               /\ Live' \subseteq Live
               /\ PreflightQueue' \subseteq PreflightQueue
  BY <1>0 DEF Live, InStatus, PreflightQueue
<1>2. CASE \E d \in Datasets : RegisterDataset(d)
  BY <1>2 DEF RegisterDataset, simVars, Live, InStatus
<1>3. ASSUME NEW r \in Runs, CancelSimulation(r) PROVE Quiet
  BY <1>0, <1>3
  DEF CancelSimulation, CancelQueued, CancelRunning, TypeOK, Active, Terminal
<1>4. ASSUME NEW lag \in Lags, job' = RecoveredJob(lag),
             UNCHANGED <<input, idempotency>>
      PROVE  Quiet
  BY <1>4, RecoveredConsistent DEF Expired
<1>5. ASSUME NEW lag \in Lags, NEW w \in Workers, NEW j \in Jobs, Claim(w, j, lag)
      PROVE  Quiet
  BY <1>5, RecoveredConsistent, RecoveredType
  DEF IInv, Claim, IsHead, Queued, Expired, Active
<1>6. ASSUME NEW lag \in Lags, NEW w \in Workers,
             \/ RegisterInstance(w, lag) \/ HeartbeatInstance(w, lag)
             \/ \E j \in Jobs : Heartbeat(w, j, lag)
             \/ \E r \in Runs, status \in Active, stage \in Stages :
                  ReportEvent(w, r, status, stage, lag)
      PROVE  Quiet
  BY <1>6 DEF RegisterInstance, HeartbeatInstance, Heartbeat, ReportEvent,
     simVars, jobVars
<1>7. ASSUME NEW lag \in Lags, NEW w \in Workers, NEW d \in Datasets,
             \/ CompletePreflight(w, d, lag)
             \/ \E final \in Failures : FailPreflight(w, d, final, lag)
      PROVE  Quiet
  BY <1>0, <1>7 DEF CompletePreflight, FailPreflight, ReleaseJob, Holds, simVars,
     TypeOK, Active, Terminal
<1>8. ASSUME NEW lag \in Lags, NEW w \in Workers, NEW r \in Runs,
             \/ ConfirmCancel(w, r, lag)
             \/ CommitSimulation(w, r, lag)
             \/ \E final \in Failures : FailRun(w, r, final, lag)
      PROVE  Quiet
  <2>1. UNCHANGED <<input, idempotency>>
    BY <1>8 DEF ConfirmCancel, CommitSimulation, FailRun
  <2> QED
    BY <1>0, <1>8, <2>1, RunEnds DEF ReleaseJob, TypeOK
<1>9. CASE Tick
  BY <1>1, <1>9 DEF Tick, simVars
<1>10. CASE UNCHANGED vars
  BY <1>1, <1>10 DEF vars, simVars, jobVars
<1> QED
  BY <1>1, <1>2, <1>3, <1>4, <1>5, <1>6, <1>7, <1>8, <1>9, <1>10
  DEF Next, ApiStep, RecoveryStep, WorkerStep, RecoverExpiredLeases, ClaimNothing

\* Stored keys name runs that exist, each as its creation recorded it.
KeysInv ==
  /\ OneRunPerKey
  /\ \A k \in Keys : idempotency[k] # None => sim[idempotency[k].run] # "ABSENT"

LEMMA KeysStep == IInv /\ KeysInv /\ [Next]_vars => KeysInv'
<1> SUFFICES ASSUME IInv, KeysInv, [Next]_vars PROVE KeysInv'
  OBVIOUS
<1>0. TypeOK
  BY DEF IInv
<1>1. ASSUME NEW k \in Keys, NEW r \in Runs, NEW d \in Datasets,
             CreateSimulation(k, r, d)
      PROVE  KeysInv'
  <2>1. /\ idempotency[k] = None
        /\ idempotency' = [idempotency EXCEPT ![k] = [run |-> r, request |-> d]]
        /\ sim[r] = "ABSENT" /\ sim' = [sim EXCEPT ![r] = "QUEUED"]
        /\ input' = [input EXCEPT ![r] = d]
    BY <1>1 DEF CreateSimulation, KeyUnused
  <2>2. \A s \in Runs : input[s] \in Datasets =>
          [run |-> s, request |-> input[s]] # None
    BY ConstantsAssumption
  <2>3. \A s \in Runs : sim'[s] # "ABSENT" =>
          \E m \in Keys : idempotency'[m] = [run |-> s, request |-> input'[s]]
    <3> SUFFICES ASSUME NEW s \in Runs, sim'[s] # "ABSENT"
                 PROVE  \E m \in Keys :
                          idempotency'[m] = [run |-> s, request |-> input'[s]]
      OBVIOUS
    <3>1. CASE s = r
      BY <1>0, <2>1, <3>1 DEF TypeOK
    <3>2. CASE s # r
      <4>1. sim[s] # "ABSENT" /\ input'[s] = input[s] /\ input[s] \in Datasets
        BY <1>0, <2>1, <3>2 DEF TypeOK, IInv, RunsUseValidDatasets
      <4>2. PICK m \in Keys : idempotency[m] = [run |-> s, request |-> input[s]]
        BY <4>1 DEF KeysInv, OneRunPerKey
      <4>3. m # k
        BY <2>1, <2>2, <4>1, <4>2
      <4> QED
        BY <1>0, <2>1, <4>1, <4>2, <4>3 DEF TypeOK
    <3> QED
      BY <3>1, <3>2
  <2>4. \A m \in Keys : idempotency'[m] # None =>
          /\ sim'[idempotency'[m].run] # "ABSENT"
          /\ m # k => idempotency'[m] = idempotency[m] /\ idempotency[m].run # r
          /\ m = k => idempotency'[m].run = r
    BY <1>0, <2>1 DEF TypeOK, KeysInv, KeyRows
  <2> QED
    BY <2>3, <2>4 DEF KeysInv, OneRunPerKey
<1>2. CASE ~ \E k \in Keys, r \in Runs, d \in Datasets : CreateSimulation(k, r, d)
  <2>1. /\ \A r \in Runs : sim[r] = "ABSENT" <=> sim'[r] = "ABSENT"
        /\ UNCHANGED <<input, idempotency>>
    BY <1>2, NoNewJob
  <2>2. \A k \in Keys : idempotency[k] # None => idempotency[k].run \in Runs
    BY <1>0 DEF TypeOK, KeyRows
  <2> QED
    BY <2>1, <2>2 DEF KeysInv, OneRunPerKey
<1> QED
  BY <1>1, <1>2

\* Retries and reused keys never create a second run, nor lose the first.
THEOREM Idempotence == Spec => []OneRunPerKey
<1>1. Init => KeysInv
  BY DEF Init, KeysInv, OneRunPerKey
<1>2. KeysInv => OneRunPerKey
  BY DEF KeysInv
<1> QED
  BY <1>1, <1>2, KeysStep, Invariance, PTL DEF Spec

\* One element more is at most one more to count.
LEMMA AddOne ==
  ASSUME NEW S, NEW x, IsFiniteSet(S)
  PROVE  /\ Cardinality(S \cup {x}) \in Nat
         /\ Cardinality(S \cup {x}) <= Cardinality(S) + 1
<1>1. Cardinality(S \cup {x}) =
        IF x \in S THEN Cardinality(S) ELSE Cardinality(S) + 1
  BY FS_AddElement, Zenon
<1>2. Cardinality(S) \in Nat
  BY FS_CardinalityType
<1> QED
  BY <1>1, <1>2

\* Finite sets of datasets and of runs only.
LEMMA Finite ==
  /\ IsFiniteSet(Live) /\ IsFiniteSet(PreflightQueue)
  /\ Live \subseteq Runs /\ PreflightQueue \subseteq Datasets
  /\ Cardinality(Live) \in Nat /\ Cardinality(PreflightQueue) \in Nat
<1>1. Live \in SUBSET Runs /\ PreflightQueue \in SUBSET Datasets
  BY DEF Live, InStatus, PreflightQueue
<1> QED
  BY <1>1, FS_Subset, FS_CardinalityType, ConstantsAssumption

\* One run more than wait can be live, the one in the slot.
LEMMA AdmissionBound ==
  IInv /\ ~QueueFull /\ Cardinality(Live) <= WaitCapacity + 1 =>
    Cardinality(Live) <= WaitCapacity
<1> SUFFICES ASSUME IInv, ~QueueFull
             PROVE  Cardinality(Live) <= WaitCapacity
  OBVIOUS
<1> DEFINE W == InStatus({"QUEUED"})
           A == InStatus(Active)
<1>1. Live = W \cup A
  BY DEF Live, InStatus
<1>2. /\ W \in SUBSET Runs /\ IsFiniteSet(W) /\ Cardinality(W) \in Nat
      /\ A \in SUBSET Runs /\ IsFiniteSet(A)
  <2>1. W \in SUBSET Runs /\ A \in SUBSET Runs
    BY DEF InStatus
  <2> QED
    BY <2>1, FS_Subset, FS_CardinalityType, ConstantsAssumption
<1>3. CASE A = {}
  <2>1. Cardinality(W) < WaitCapacity + 1
    BY <1>2, <1>3, ConstantsAssumption DEF QueueFull
  <2> QED
    BY <1>1, <1>2, <1>3, <2>1, ConstantsAssumption
<1>4. CASE A # {}
  <2>1. Cardinality(W) < WaitCapacity
    BY <1>2, <1>4, ConstantsAssumption DEF QueueFull
  <2>2. PICK r \in A : A = {r}
    BY <1>4
    DEF InStatus, IInv, RunFollowsJob, SingleExecutionSlot, ActiveJobs, Jobs
  <2>3. /\ Cardinality(W \cup {r}) \in Nat
        /\ Cardinality(W \cup {r}) <= Cardinality(W) + 1
    BY <1>2, AddOne
  <2> QED
    BY <1>1, <1>2, <2>1, <2>2, <2>3, ConstantsAssumption
<1> QED
  BY <1>3, <1>4

LEMMA CapacityStep == IInv /\ CapacityRespected /\ [Next]_vars => CapacityRespected'
<1> SUFFICES ASSUME IInv, CapacityRespected, [Next]_vars
             PROVE  /\ Cardinality(Live') <= WaitCapacity + 1
                    /\ Cardinality(PreflightQueue') <= PreflightCapacity
  BY DEF CapacityRespected, Live, PreflightQueue
<1>0. /\ TypeOK
      /\ Cardinality(Live) <= WaitCapacity + 1
      /\ Cardinality(PreflightQueue) <= PreflightCapacity
      /\ \A d \in Datasets : d \in Jobs
      /\ \A r \in Runs : r \in Jobs /\ r \notin Datasets
  BY ConstantsAssumption DEF IInv, CapacityRespected, Live, PreflightQueue, Jobs
<1>1. ASSUME NEW k \in Keys, NEW r \in Runs, NEW d \in Datasets,
             CreateSimulation(k, r, d)
      PROVE  /\ Cardinality(Live') <= WaitCapacity + 1
             /\ Cardinality(PreflightQueue') <= PreflightCapacity
  <2>1. Live' = Live \cup {r} /\ PreflightQueue' = PreflightQueue
    BY <1>0, <1>1
    DEF CreateSimulation, Enqueue, TypeOK, Live, InStatus, PreflightQueue
  <2>2. Cardinality(Live) <= WaitCapacity
    BY <1>0, <1>1, AdmissionBound DEF CreateSimulation
  <2>3. /\ Cardinality(Live \cup {r}) \in Nat
        /\ Cardinality(Live \cup {r}) <= Cardinality(Live) + 1
    BY Finite, AddOne
  <2> QED
    BY <1>0, <2>1, <2>2, <2>3, Finite, ConstantsAssumption
<1>2. ASSUME Live' \subseteq Live PROVE Cardinality(Live') <= WaitCapacity + 1
  <2>1. Cardinality(Live') \in Nat /\ Cardinality(Live') <= Cardinality(Live)
    BY <1>2, Finite, FS_Subset, FS_CardinalityType
  <2> QED
    BY <1>0, <2>1, Finite, ConstantsAssumption
<1>3. ASSUME NEW d \in Datasets, RegisterDataset(d)
      PROVE  Cardinality(PreflightQueue') <= PreflightCapacity
  <2>1. PreflightQueue' = PreflightQueue \cup {d}
    BY <1>0, <1>3 DEF RegisterDataset, Enqueue, TypeOK, PreflightQueue
  <2>2. Cardinality(PreflightQueue) < PreflightCapacity
    BY <1>3 DEF RegisterDataset, PreflightQueue
  <2>3. /\ Cardinality(PreflightQueue \cup {d}) \in Nat
        /\ Cardinality(PreflightQueue \cup {d}) <= Cardinality(PreflightQueue) + 1
    BY Finite, AddOne
  <2> QED
    BY <2>1, <2>2, <2>3, Finite, ConstantsAssumption
<1>4. ASSUME PreflightQueue' \subseteq PreflightQueue
      PROVE  Cardinality(PreflightQueue') <= PreflightCapacity
  <2>1. /\ Cardinality(PreflightQueue') \in Nat
        /\ Cardinality(PreflightQueue') <= Cardinality(PreflightQueue)
    BY <1>4, Finite, FS_Subset, FS_CardinalityType
  <2> QED
    BY <1>0, <2>1, Finite, ConstantsAssumption
<1> QED
  BY <1>1, <1>2, <1>3, <1>4, NoNewJob

\* Admission bounds the runs in the system and the preflights waiting, for
\* every capacity.
THEOREM Admission == Spec => []CapacityRespected
<1>1. Init => CapacityRespected
  <2> SUFFICES ASSUME Init PROVE CapacityRespected
    OBVIOUS
  <2>1. Live = {} /\ PreflightQueue = {}
    BY StatusTypes DEF Init, Live, InStatus, PreflightQueue, Jobs
  <2>2. Cardinality(Live) = 0 /\ Cardinality(PreflightQueue) = 0
    BY <2>1, FS_EmptySet
  <2>3. Cardinality(Live) <= WaitCapacity + 1
    BY <2>2, ConstantsAssumption
  <2>4. Cardinality(PreflightQueue) <= PreflightCapacity
    BY <2>2, ConstantsAssumption
  <2> QED
    BY <2>3, <2>4, Zenon DEF CapacityRespected, Live, PreflightQueue
<1> QED
  BY <1>1, CapacityStep, Invariance, PTL DEF Spec

-----------------------------------------------------------------------------
(***************************************************************************)
(* JobControl implements TicketQueue, and what the queue's length owes to  *)
(* that: a job enters the queue only when it is accepted.                  *)
(***************************************************************************)

\* The variables of TicketQueue under the mapping of JobControl.
Asked == {r \in Runs : cancel_asked[r]}
Outcome == [j \in Jobs |-> IF job[j] \in Terminal THEN job[j] ELSE "OPEN"]

\* A settled job ends in one of the endings of TicketQueue.
LEMMA EndingsAreTerminal ==
  TQ!Endings = Terminal /\ "CANCELLED" \in Terminal /\ Failures \subseteq Terminal
BY DEF TQ!Endings, Terminal, Failures

\* Accepting a job submits a task.
LEMMA AcceptSubmits ==
  ASSUME IInv, NEW j \in Jobs, job[j] = "ABSENT", Enqueue(j),
         UNCHANGED cancel_asked
  PROVE  TQ!Submit(j)
<1> USE StatusTypes DEF IInv, Enqueue
<1>1. /\ TypeOK
      /\ enqueue_seq[j] = 0
      /\ \A i \in Jobs : enqueue_seq[i] <= last_seq
  BY DEF TicketsInOrder
<1>2. /\ enqueue_seq' = [enqueue_seq EXCEPT ![j] = enqueue_seq'[j]]
      /\ \A i \in Jobs : enqueue_seq[i] < enqueue_seq'[j]
  BY <1>1 DEF TypeOK
<1>3. Queued' = Queued \cup {j}
  BY <1>1 DEF Queued, TypeOK
<1>4. ActiveJobs' = ActiveJobs
  BY <1>1 DEF ActiveJobs, TypeOK
<1>5. Outcome' = Outcome
  BY <1>1 DEF Outcome, TypeOK
<1> QED
  BY <1>1, <1>2, <1>3, <1>4, <1>5 DEF TQ!Submit, Outcome, Asked

\* Settling the job in the slot finishes the task being served, as CANCELLED
\* exactly when that was asked for.
LEMMA ReleaseFinishes ==
  ASSUME IInv, NEW j \in Jobs, job[j] \in Active, NEW status \in Terminal,
         job' = [job EXCEPT ![j] = status],
         j \in Asked <=> status = "CANCELLED",
         UNCHANGED <<cancel_asked, queueVars>>
  PROVE  TQ!Finish(j)
<1> USE StatusTypes, EndingsAreTerminal DEF IInv
<1>1. TypeOK
  OBVIOUS
<1>2. j \in ActiveJobs /\ ActiveJobs' = ActiveJobs \ {j}
  BY <1>1 DEF ActiveJobs, TypeOK
<1>3. Queued' = Queued
  BY <1>1 DEF Queued, TypeOK
<1>4. Outcome' = [Outcome EXCEPT ![j] = status]
  BY <1>1 DEF Outcome, TypeOK
<1>5. TQ!MayEnd(j, status)
  BY DEF TQ!MayEnd, Asked
<1>6. Asked' = Asked /\ enqueue_seq' = enqueue_seq
  BY DEF Asked, queueVars
<1> QED
  BY <1>2, <1>3, <1>4, <1>5, <1>6 DEF TQ!Finish, Outcome, Asked

\* Recovery finishes the task being served, or finds nothing expired.
LEMMA RecoveryFinishes ==
  ASSUME IInv, NEW lag \in Lags, job' = RecoveredJob(lag),
         UNCHANGED <<cancel_asked, queueVars>>
  PROVE  (\E j \in Jobs : TQ!Finish(j)) \/ UNCHANGED TQ!tvars
<1> USE DEF IInv
<1>1. CASE Expired(lag) = {}
  <2>1. job' = job
    BY <1>1 DEF RecoveredJob, TypeOK
  <2> QED
    BY <2>1 DEF TQ!tvars, queueVars, Queued, ActiveJobs
<1>2. ASSUME NEW j \in Expired(lag) PROVE TQ!Finish(j)
  <2>1. j \in Jobs /\ job[j] \in Active /\ Expired(lag) = {j}
    BY <1>2 DEF Expired, SingleExecutionSlot, ActiveJobs
  <2>2. job' = [job EXCEPT ![j] = RecoveredStatus(j)]
    BY <2>1 DEF RecoveredJob, TypeOK
  <2>3. RecoveredStatus(j) \in Terminal
    BY DEF RecoveredStatus, Terminal
  <2>4. j \in Asked <=> RecoveredStatus(j) = "CANCELLED"
    BY <2>1 DEF RecoveredStatus, CancelIntent, Asked, CancellingIsAsked
  <2> QED
    BY <2>1, <2>2, <2>3, <2>4, ReleaseFinishes
<1> QED
  BY <1>1, <1>2 DEF Expired

\* A claim serves the head of the queue, giving up what it found expired.
LEMMA ClaimServes ==
  ASSUME IInv, NEW w \in Workers, NEW j \in Jobs, NEW lag \in Lags,
         Claim(w, j, lag)
  PROVE  TQ!Serve(j)
<1> USE StatusTypes, RecoveredType, RecoveredConsistent DEF IInv
<1>1. TypeOK
  OBVIOUS
<1>2. \A i \in Jobs : i \in Expired(lag) <=> job[i] \in Active
  BY <1>1, ConstantsAssumption
  DEF Claim, SlotBusy, Expired, TypeOK, Ticks, Lags
<1>3. /\ j \in Queued /\ \A i \in Queued : enqueue_seq[j] <= enqueue_seq[i]
      /\ job[j] = "QUEUED" /\ "RUNNING" \in Active
      /\ UNCHANGED <<cancel_asked, enqueue_seq>>
  BY DEF Claim, IsHead, Queued, queueVars, Active
<1>4. \A i \in Jobs : job'[i] = IF i = j THEN "RUNNING"
                                ELSE IF job[i] \in Active THEN RecoveredStatus(i)
                                                          ELSE job[i]
  BY <1>1, <1>2, <1>3 DEF Claim, RecoveredJob
<1>5. \A i \in Jobs : /\ RecoveredStatus(i) \in Terminal
                      /\ job[i] \in Active => RecoveredStatus(i) = TQ!Lost(i)
  BY DEF RecoveredStatus, CancelIntent, Asked, CancellingIsAsked, TQ!Lost,
     Terminal
<1>6. Queued' = Queued \ {j}
  BY <1>3, <1>4, <1>5 DEF Queued
<1>7. ActiveJobs' = {j}
  BY <1>3, <1>4, <1>5 DEF ActiveJobs
<1>8. \A i \in Jobs :
        IF job'[i] \in Terminal
          THEN job'[i] = IF i \in ActiveJobs THEN TQ!Lost(i) ELSE Outcome[i]
          ELSE Outcome[i] = "OPEN" /\ i \notin ActiveJobs
  BY <1>3, <1>4, <1>5 DEF Outcome, ActiveJobs
<1> QED
  BY <1>3, <1>6, <1>7, <1>8 DEF TQ!Serve, Outcome, Asked

\* Steps that settle, accept and start no job are steps of no task.
LEMMA Unnoticed ==
  UNCHANGED <<job, enqueue_seq, cancel_asked>> => UNCHANGED TQ!tvars
BY DEF TQ!tvars, Queued, ActiveJobs

LEMMA RefinementStep == IInv /\ [Next]_vars => [TQ!TNext]_(TQ!tvars)
<1> SUFFICES ASSUME IInv, [Next]_vars
             PROVE  (\E j \in Jobs : \/ TQ!Submit(j) \/ TQ!Withdraw(j)
                                     \/ TQ!AskCancel(j) \/ TQ!Finish(j)
                                     \/ TQ!Serve(j))
                    \/ UNCHANGED TQ!tvars
  BY DEF TQ!TNext
<1> DEFINE Task == \E j \in Jobs : \/ TQ!Submit(j) \/ TQ!Withdraw(j)
                                   \/ TQ!AskCancel(j) \/ TQ!Finish(j)
                                   \/ TQ!Serve(j)
<1> USE StatusTypes DEF IInv
<1>0. /\ TypeOK
      /\ \A r \in Runs : r \in Jobs /\ sim[r] = job[r]
      /\ \A d \in Datasets : d \in Jobs /\ d \notin Runs
      /\ \A d \in Datasets : dataset[d] = DatasetOf(job[d])
  BY ConstantsAssumption DEF RunFollowsJob, Jobs, DatasetFollowsPreflight
<1>1. ASSUME NEW d \in Datasets, RegisterDataset(d) PROVE Task
  BY <1>0, <1>1, AcceptSubmits DEF RegisterDataset, DatasetOf, simVars
<1>2. ASSUME NEW k \in Keys, NEW r \in Runs, NEW d \in Datasets,
             CreateSimulation(k, r, d)
      PROVE  Task
  BY <1>0, <1>2, AcceptSubmits DEF CreateSimulation
<1>3. ASSUME NEW r \in Runs, CancelQueued(r) PROVE TQ!Withdraw(r)
  <2>1. job[r] = "QUEUED" /\ job' = [job EXCEPT ![r] = "CANCELLED"]
    BY <1>0, <1>3 DEF CancelQueued, TypeOK
  <2>2. r \in Queued /\ Queued' = Queued \ {r}
    BY <1>0, <2>1 DEF Queued, TypeOK
  <2>3. ActiveJobs' = ActiveJobs
    BY <1>0, <2>1 DEF ActiveJobs, TypeOK, Active
  <2>4. Outcome' = [Outcome EXCEPT ![r] = "CANCELLED"]
    BY <1>0, <2>1 DEF Outcome, TypeOK, Terminal
  <2> QED
    BY <1>0, <1>3, <2>2, <2>3, <2>4 DEF CancelQueued, queueVars, TQ!Withdraw, Outcome, Asked
<1>4. ASSUME NEW r \in Runs, CancelRunning(r) PROVE TQ!AskCancel(r)
  <2>1. /\ r \in ActiveJobs /\ ActiveJobs' = ActiveJobs /\ Queued' = Queued
        /\ Outcome' = Outcome /\ Asked' = Asked \cup {r}
    BY <1>0, <1>4
    DEF CancelRunning, Queued, ActiveJobs, Outcome, Asked, TypeOK, Active
  <2> QED
    BY <1>4, <2>1 DEF CancelRunning, queueVars, TQ!AskCancel, Outcome, Asked
<1>5. ASSUME NEW lag \in Lags, job' = RecoveredJob(lag),
             UNCHANGED <<cancel_asked, queueVars>>
      PROVE  Task \/ UNCHANGED TQ!tvars
  BY <1>5, RecoveryFinishes
<1>6. ASSUME NEW lag \in Lags, NEW w \in Workers, NEW j \in Jobs, Claim(w, j, lag)
      PROVE  Task
  BY <1>6, ClaimServes
<1>7. ASSUME NEW lag \in Lags, NEW w \in Workers,
             \/ RegisterInstance(w, lag) \/ HeartbeatInstance(w, lag)
             \/ \E j \in Jobs : Heartbeat(w, j, lag)
             \/ \E r \in Runs, status \in Active, stage \in Stages :
                  ReportEvent(w, r, status, stage, lag)
      PROVE  UNCHANGED TQ!tvars
  BY <1>7, Unnoticed DEF RegisterInstance, HeartbeatInstance, Heartbeat,
     ReportEvent, simVars, queueVars, jobVars
<1>8. ASSUME NEW lag \in Lags, NEW w \in Workers, NEW d \in Datasets,
             \/ CompletePreflight(w, d, lag)
             \/ \E final \in Failures : FailPreflight(w, d, final, lag)
      PROVE  TQ!Finish(d)
  <2>1. /\ job[d] \in Active /\ d \in Jobs /\ d \notin Asked
        /\ \E status \in Terminal \ {"CANCELLED"} :
             job' = [job EXCEPT ![d] = status]
        /\ UNCHANGED <<cancel_asked, queueVars>>
    BY <1>0, <1>8
    DEF CompletePreflight, FailPreflight, ReleaseJob, Holds, simVars, Active,
        Terminal, Failures, Asked
  <2> QED
    BY <2>1, ReleaseFinishes
<1>9. ASSUME NEW lag \in Lags, NEW w \in Workers, NEW r \in Runs,
             \/ ConfirmCancel(w, r, lag)
             \/ CommitSimulation(w, r, lag)
             \/ \E final \in Failures : FailRun(w, r, final, lag)
      PROVE  TQ!Finish(r)
  <2>1. job[r] \in Active /\ UNCHANGED <<cancel_asked, queueVars>>
    BY <1>9, RunEnds
  <2>2. \E status \in Terminal :
          /\ job' = [job EXCEPT ![r] = status]
          /\ r \in Asked <=> status = "CANCELLED"
    <3>1. CASE ConfirmCancel(w, r, lag)
      BY <1>0, <3>1
      DEF ConfirmCancel, ReleaseJob, Holds, Asked, CancellingIsAsked, Terminal
    <3>2. CASE CommitSimulation(w, r, lag)
      BY <3>2
      DEF CommitSimulation, ReleaseJob, Asked, CancellationIntentWins, Terminal
    <3>3. ASSUME NEW final \in Failures, FailRun(w, r, final, lag)
          PROVE  \E status \in Terminal :
                   /\ job' = [job EXCEPT ![r] = status]
                   /\ r \in Asked <=> status = "CANCELLED"
      BY <1>0, <3>3
      DEF FailRun, CancelIntent, ReleaseJob, Asked, CancellingIsAsked, Terminal,
          Failures
    <3> QED
      BY <1>9, <3>1, <3>2, <3>3
  <2> QED
    BY <1>0, <2>1, <2>2, ReleaseFinishes
<1>10. CASE Tick
  BY <1>10, Unnoticed DEF Tick, simVars, queueVars
<1>11. CASE UNCHANGED vars
  BY <1>11, Unnoticed DEF vars, simVars, queueVars, jobVars
<1> QED
  BY <1>0, <1>1, <1>2, <1>3, <1>4, <1>5, <1>6, <1>7, <1>8, <1>9, <1>10, <1>11
  DEF Next, ApiStep, RecoveryStep, WorkerStep, CancelSimulation,
      RecoverExpiredLeases, ClaimNothing

\* The control plane keeps the scheduler's contract: one task at a time, in
\* order of acceptance, each served at most once, cancellation final.
THEOREM ImplementsQueue == Spec => ServesAsPromised
<1>1. Init => TQ!TInit
  BY StatusTypes
  DEF Init, TQ!TInit, Queued, ActiveJobs
<1> QED
  BY <1>1, RefinementStep, Invariance, PTL DEF Spec, ServesAsPromised, TQ!TSpec
=============================================================================
