------------------------- MODULE WorkerProcess_proofs -------------------------
(***************************************************************************)
(* The worker processes stay within the control plane, so its theorems     *)
(* hold of them; and, for any number of processes and runs, each job has   *)
(* one executor and each run one rename into committed.                    *)
(***************************************************************************)
EXTENDS WorkerProcess, JobControl_proofs

\* Every step of a process is one transaction of the control plane or none.
LEMMA ProcessStep ==
  ASSUME NEW w \in Workers, NEW lag \in Lags, WTypeOK, Process(w, lag)
  PROVE  [Next]_vars
<1>1. 0 \in Lags
  BY ConstantsAssumption DEF Lags
<1>2. UNCHANGED vars => [Next]_vars
  OBVIOUS
<1>3. WorkerStep(w, lag) => [Next]_vars
  BY DEF Next
<1>4. at[w] \in Working => task[w] \in Jobs
  BY DEF WTypeOK
<1>5. CASE Service(w, lag)
  BY <1>5, <1>2, <1>3 DEF Service, Launch, IdleHeartbeat, Poll, PollNothing,
     PollRefused, Die, WorkerStep
<1>6. CASE StartHeartbeat(w) \/ Recheck(w) \/ CancelSeen(w) \/ LeaseLostSeen(w)
             \/ ReportRefused(w, lag) \/ ComputeDone(w) \/ Write(w)
             \/ Publish(w) \/ ReviewPassed(w) \/ SettleRefused(w, lag)
  BY <1>6, <1>2 DEF StartHeartbeat, Recheck, CancelSeen, LeaseLostSeen,
     ReportRefused, ComputeDone, Write, Publish, ReviewPassed, SettleRefused, Die
<1>7. CASE FirstRenewal(w, lag) \/ FirstRenewalRefused(w, lag)
  BY <1>7, <1>3, <1>4 DEF FirstRenewal, FirstRenewalRefused, WorkerStep, Working
<1>8. CASE ReportStage(w, lag)
  <2>1. StageOrder[reached[w] + 1] \in Stages
    BY <1>8, StageOrderAssumption DEF ReportStage, WTypeOK
  <2> QED
    BY <1>8, <1>3, <2>1 DEF ReportStage, WorkerStep, Active
<1>9. CASE Settle(w, lag)
  BY <1>9, <1>3 DEF Settle, WorkerStep
<1>10. CASE Renew(w, lag) \/ RenewRefused(w, lag) \/ RenewalFails(w, lag)
  BY <1>10, <1>2, <1>3, <1>4 DEF Renew, RenewRefused, RenewalFails, WorkerStep, WTypeOK
<1>11. CASE TaskFails(w) \/ Crash(w)
  BY <1>11, <1>2 DEF TaskFails, Crash, Die
<1> QED
  BY <1>5, <1>6, <1>7, <1>8, <1>9, <1>10, <1>11 DEF Process, MainThread

LEMMA EnvironmentStep == Environment => [Next]_vars
BY DEF Environment, Next

\* The processes keep their state well formed.
LEMMA ProcessTypeStep ==
  ASSUME NEW w \in Workers, NEW lag \in Lags, WTypeOK, Process(w, lag)
  PROVE  WTypeOK'
<1>1. None \notin Jobs
  BY ConstantsAssumption DEF Jobs
<1>2. "down" \notin Working /\ "idle" \notin Working
  BY DEF Working
<1>3. Len(StageOrder) \in Nat
  BY StageOrderAssumption
<1>4. Die(w) => WTypeOK'
  BY <1>2, <1>3 DEF WTypeOK, Die, Goto, diskVars
<1>5. CASE Service(w, lag)
  <2>1. CASE Launch(w, lag) \/ IdleHeartbeat(w, lag) \/ PollNothing(w, lag)
    BY <2>1, <1>2 DEF WTypeOK, Launch, IdleHeartbeat, PollNothing, Goto,
       processVars, diskVars
  <2>2. CASE Poll(w, lag)
    BY <2>2, <1>1 DEF WTypeOK, Poll, Goto, diskVars, Working
  <2>3. CASE PollRefused(w, lag)
    BY <2>3, <1>4 DEF PollRefused
  <2> QED
    BY <1>5, <2>1, <2>2, <2>3 DEF Service
<1>6. CASE MainThread(w, lag)
  <2>1. CASE StartHeartbeat(w) \/ ComputeDone(w) \/ ReviewPassed(w)
    BY <2>1 DEF WTypeOK, StartHeartbeat, ComputeDone, ReviewPassed, Goto,
       diskVars, Working
  <2>2. CASE Recheck(w)
    <3>1. CASE Die(w)
      BY <3>1, <1>4
    <3>2. CASE ~Die(w)
      BY <2>2, <3>2 DEF WTypeOK, Recheck, Goto, diskVars, Working
    <3> QED
      BY <3>1, <3>2
  <2>3. CASE FirstRenewal(w, lag) \/ FirstRenewalRefused(w, lag)
    BY <2>3 DEF WTypeOK, FirstRenewal, FirstRenewalRefused, Goto, diskVars,
       Working
  <2>4. CASE CancelSeen(w)
    BY <2>4 DEF WTypeOK, CancelSeen, Goto, diskVars, Working
  <2>5. CASE LeaseLostSeen(w) \/ ReportRefused(w, lag) \/ SettleRefused(w, lag)
    BY <2>5, <1>4 DEF LeaseLostSeen, ReportRefused, SettleRefused
  <2>6. CASE ReportStage(w, lag)
    <3>1. reached[w] + 1 \in 0..Len(StageOrder)
      BY <2>6, <1>3 DEF WTypeOK, ReportStage
    <3> QED
      BY <2>6, <3>1 DEF WTypeOK, ReportStage, diskVars
  <2>7. CASE Write(w) \/ Publish(w)
    BY <2>7 DEF WTypeOK, Write, Publish, Goto, Working
  <2>8. CASE Settle(w, lag)
    <3>1. Finish(w) /\ UNCHANGED diskVars
      BY <2>8 DEF Settle
    <3> QED
      BY <3>1, <1>2, <1>3 DEF WTypeOK, Finish, Goto, diskVars
  <2> QED
    BY <1>6, <2>1, <2>2, <2>3, <2>4, <2>5, <2>6, <2>7, <2>8 DEF MainThread
<1>7. CASE Renew(w, lag) \/ RenewRefused(w, lag) \/ RenewalFails(w, lag)
  BY <1>7 DEF WTypeOK, Renew, RenewRefused, RenewalFails, processVars, diskVars
<1>8. CASE TaskFails(w)
  BY <1>8 DEF WTypeOK, TaskFails, Goto, Working
<1>9. CASE Crash(w)
  BY <1>9, <1>4 DEF Crash
<1> QED
  BY <1>5, <1>6, <1>7, <1>8, <1>9 DEF Process

LEMMA WTypeStep == WTypeOK /\ [WNext]_wvars => WTypeOK'
<1> SUFFICES ASSUME WTypeOK, [WNext]_wvars PROVE WTypeOK'
  OBVIOUS
<1>1. CASE Environment
  BY <1>1 DEF Environment, WTypeOK, processVars, diskVars
<1>2. CASE UNCHANGED wvars
  BY <1>2 DEF wvars, WTypeOK, processVars, diskVars
<1> QED
  BY <1>1, <1>2, ProcessTypeStep DEF WNext

LEMMA WTypeInit == WInit => WTypeOK
BY StageOrderAssumption DEF WInit, WTypeOK, Working

THEOREM ProcessTypes == WSpec => []WTypeOK
BY WTypeInit, WTypeStep, PTL DEF WSpec

\* The processes implement the control plane: every theorem about Spec holds of
\* them, however they crash, stall and overlap.
THEOREM ImplementsControlPlane == WSpec => Spec
<1>1. WInit => Init
  BY DEF WInit
<1>2. WTypeOK /\ [WNext]_wvars => [Next]_vars
  BY ProcessStep, EnvironmentStep DEF WNext, wvars
<1> QED
  BY <1>1, <1>2, ProcessTypes, PTL DEF WSpec, Spec

\* So the workers' processes, the API and the recovery loop together serve jobs
\* as TicketQueue promises, through crashes and lost leases.
THEOREM ProcessesServeTheQueue == WSpec => ServesAsPromised
BY ImplementsControlPlane, ImplementsQueue, PTL

-----------------------------------------------------------------------------
(***************************************************************************)
(* One executor per job, one rename per run.                               *)
(***************************************************************************)

\* A process works on the job it was the last to claim.
TaskIsAttempt == \A w \in Workers : task[w] # None => last_attempt[task[w]] = w

\* Published output belongs to an attempt that is past its rename.
PublishedIsRenamed ==
  \A r \in Runs : published[r] =>
    /\ last_attempt[r] # None
    /\ \A w \in Workers : task[w] = r => at[w] \in {"review", "commit", "confirm"}

\* Whoever is about to commit a run has published it.
RenamedBeforeCommit ==
  \A w \in Workers : at[w] \in {"review", "commit"} /\ task[w] \in Runs =>
                       published[task[w]]

\* Only runs write results.
RunsWrite ==
  \A w \in Workers : at[w] \in {"write", "publish", "review", "confirm"} =>
                       task[w] \in Runs

\* A run that failed by its worker's account has no executor any more.
FailedIsOver ==
  \A r \in Runs : sim[r] = "FAILED" => /\ ~published[r]
                                       /\ \A w \in Workers : task[w] # r

WInv ==
  /\ WTypeOK
  /\ TaskIsAttempt
  /\ PublishedIsRenamed
  /\ RenamedBeforeCommit
  /\ RunsWrite
  /\ FailedIsOver
  /\ CommittedIsPublished

\* No job is claimed, published or failed by the step.
Quiet ==
  /\ last_attempt' = last_attempt
  /\ \A r \in Runs :
       /\ artifact_state'[r] = "COMMITTED" => artifact_state[r] = "COMMITTED"
       /\ sim'[r] = "FAILED" => sim[r] = "FAILED"

LEMMA RecoveryIsQuiet ==
  ASSUME NEW lag \in Lags
  PROVE  \A r \in Runs :
           /\ RecoveredArtifacts(lag)[r] = "COMMITTED" => artifact_state[r] = "COMMITTED"
           /\ RecoveredSim(lag)[r] = "FAILED" => sim[r] = "FAILED"
BY DEF RecoveredArtifacts, RecoveredSim, RecoveredStatus

LEMMA EnvironmentIsQuiet == IInv /\ Environment => Quiet
<1> SUFFICES ASSUME IInv, Environment PROVE Quiet
  OBVIOUS
<1> USE DEF IInv, TypeOK
<1>1. CASE \E d \in Datasets : RegisterDataset(d)
  BY <1>1 DEF Quiet, RegisterDataset, simVars
<1>2. CASE \E k \in Keys, r \in Runs, d \in Datasets : CreateSimulation(k, r, d)
  BY <1>2 DEF Quiet, CreateSimulation
<1>3. CASE \E r \in Runs : CancelSimulation(r)
  BY <1>3 DEF Quiet, CancelSimulation, CancelQueued, CancelRunning
<1>4. CASE RecoveryStep
  BY <1>4, RecoveryIsQuiet DEF Quiet, RecoveryStep, RecoverExpiredLeases
<1>5. CASE Tick
  BY <1>5 DEF Quiet, Tick, simVars
<1> QED
  BY <1>1, <1>2, <1>3, <1>4, <1>5 DEF Environment, ApiStep

LEMMA QuietSteps ==
  ASSUME IInv, NEW w \in Workers, NEW lag \in Lags,
         \/ UNCHANGED vars
         \/ RegisterInstance(w, lag) \/ HeartbeatInstance(w, lag)
         \/ ClaimNothing(w, lag)
         \/ \E j \in Jobs : Heartbeat(w, j, lag)
         \/ \E r \in Runs, s \in Stages : ReportEvent(w, r, "RUNNING", s, lag)
  PROVE  Quiet
<1> USE DEF IInv, TypeOK
<1>1. CASE UNCHANGED vars
  BY <1>1 DEF Quiet, vars, simVars, jobVars
<1>2. CASE RegisterInstance(w, lag) \/ HeartbeatInstance(w, lag)
  BY <1>2 DEF Quiet, RegisterInstance, HeartbeatInstance, simVars, jobVars
<1>3. CASE ClaimNothing(w, lag)
  BY <1>3, RecoveryIsQuiet DEF Quiet, ClaimNothing
<1>4. CASE \E j \in Jobs : Heartbeat(w, j, lag)
  BY <1>4 DEF Quiet, Heartbeat, simVars
<1>5. CASE \E r \in Runs, s \in Stages : ReportEvent(w, r, "RUNNING", s, lag)
  BY <1>5 DEF Quiet, ReportEvent, jobVars
<1> QED
  BY <1>1, <1>2, <1>3, <1>4, <1>5

LEMMA WInvInit == WInit => WInv
<1> SUFFICES ASSUME WInit PROVE WInv
  OBVIOUS
<1>1. WTypeOK
  BY WTypeInit
<1> QED
  BY <1>1 DEF WInv, WInit, Init, TaskIsAttempt, PublishedIsRenamed,
     RenamedBeforeCommit, RunsWrite, FailedIsOver, CommittedIsPublished

\* What a process may do in a step that claims, publishes and fails nothing:
\* stay, drop its task, or move on with it.
Moves(w) ==
  \/ at'[w] = at[w] /\ task'[w] = task[w]
  \/ task'[w] = None
  \/ /\ task'[w] = task[w]
     /\ at'[w] \in {"review", "commit"} /\ task[w] \in Runs => published[task[w]]
     /\ at[w] \in {"review", "commit", "confirm"} =>
          at'[w] \in {"review", "commit", "confirm"}
     /\ at'[w] \in {"write", "publish", "review", "confirm"} => task[w] \in Runs

LEMMA QuietKeepsInv ==
  ASSUME WInv, WTypeOK', Quiet, published' = published, \A w \in Workers : Moves(w)
  PROVE  WInv'
<1> USE DEF WInv, Quiet
<1>1. \A w \in Workers : task'[w] = None \/ task'[w] = task[w]
  BY DEF Moves
<1>2. None \notin Runs /\ None \notin Jobs
  BY ConstantsAssumption DEF Jobs
<1>3. TaskIsAttempt'
  BY <1>1 DEF TaskIsAttempt
<1>4. PublishedIsRenamed'
  <2> SUFFICES ASSUME NEW r \in Runs, published[r], NEW w \in Workers, task'[w] = r
               PROVE  at'[w] \in {"review", "commit", "confirm"}
    BY DEF PublishedIsRenamed
  <2>1. task[w] = r /\ at[w] \in {"review", "commit", "confirm"}
    BY <1>1, <1>2 DEF PublishedIsRenamed
  <2> QED
    BY <2>1, <1>2 DEF Moves
<1>5. RenamedBeforeCommit'
  BY <1>2 DEF RenamedBeforeCommit, Moves
<1>6. RunsWrite'
  <2>1. \A w \in Workers : task'[w] = None => at'[w] \notin Working
    BY DEF WTypeOK
  <2> QED
    BY <2>1 DEF RunsWrite, Working, Moves
<1>7. FailedIsOver'
  BY <1>1, <1>2 DEF FailedIsOver
<1>8. CommittedIsPublished'
  BY DEF CommittedIsPublished
<1> QED
  BY <1>3, <1>4, <1>5, <1>6, <1>7, <1>8

\* A job is claimed from the queue, where nobody has worked on it yet.
LEMMA PollKeepsInv ==
  ASSUME IInv, WInv, WTypeOK', NEW w \in Workers, NEW lag \in Lags, Poll(w, lag)
  PROVE  WInv'
<1> USE DEF WInv
<1>1. PICK j \in Jobs : /\ Claim(w, j, lag)
                        /\ task' = [task EXCEPT ![w] = j]
                        /\ Goto(w, "start") \/ Goto(w, "fail")
  BY DEF Poll
<1>2. /\ published' = published
      /\ \A v \in Workers \ {w} : at'[v] = at[v] /\ task'[v] = task[v]
      /\ task'[w] = j /\ at'[w] \in {"start", "fail"}
      /\ task[w] = None
  BY <1>1 DEF Poll, Goto, WTypeOK, diskVars, Working
<1>3. last_attempt[j] = None /\ job[j] = "QUEUED"
  BY <1>1 DEF Claim, IsHead, Queued, IInv, TicketsInOrder
<1>4. /\ \A i \in Jobs \ {j} : last_attempt'[i] = last_attempt[i]
      /\ last_attempt'[j] = w
  BY <1>1 DEF Claim, IInv, TypeOK
<1>5. None \notin Workers /\ None \notin Jobs /\ Runs \subseteq Jobs
  BY ConstantsAssumption DEF Jobs
<1>6. \A v \in Workers \ {w} : task[v] # j
  BY <1>3, <1>5 DEF TaskIsAttempt
<1>7. j \in Runs => ~published[j]
  BY <1>3 DEF PublishedIsRenamed
<1>8. TaskIsAttempt'
  <2> SUFFICES ASSUME NEW v \in Workers, task'[v] # None
               PROVE  last_attempt'[task'[v]] = v
    BY DEF TaskIsAttempt
  <2>1. CASE v = w
    BY <2>1, <1>2, <1>4
  <2>2. CASE v # w
    <3>1. task[v] \in Jobs \ {j} /\ task'[v] = task[v]
      BY <2>2, <1>2, <1>6 DEF WTypeOK
    <3> QED
      BY <3>1, <1>4 DEF TaskIsAttempt
  <2> QED
    BY <2>1, <2>2
<1>9. PublishedIsRenamed'
  BY <1>2, <1>4, <1>5, <1>7 DEF PublishedIsRenamed
<1>10. RenamedBeforeCommit' /\ RunsWrite'
  BY <1>2 DEF RenamedBeforeCommit, RunsWrite
<1>11. /\ \A r \in Runs : sim'[r] = "FAILED" => sim[r] = "FAILED" /\ r # j
       /\ \A r \in Runs : artifact_state'[r] = "COMMITTED" => artifact_state[r] = "COMMITTED"
  BY <1>1 DEF Claim, RecoveredSim, RecoveredArtifacts, RecoveredStatus
<1>12. FailedIsOver'
  BY <1>2, <1>11 DEF FailedIsOver
<1>13. CommittedIsPublished'
  BY <1>2, <1>11 DEF CommittedIsPublished
<1> QED
  BY <1>8, <1>9, <1>10, <1>12, <1>13

\* The rename publishes the one attempt there is.
LEMMA PublishKeepsInv ==
  ASSUME IInv, WInv, WTypeOK', NEW w \in Workers, Publish(w)
  PROVE  WInv'
<1> USE DEF WInv
<1>1. /\ task[w] \in Runs /\ task'[w] = task[w] /\ at'[w] = "review"
      /\ published' = [published EXCEPT ![task[w]] = TRUE]
      /\ UNCHANGED <<vars, task>>
      /\ \A v \in Workers \ {w} : at'[v] = at[v]
  BY DEF Publish, Goto, RunsWrite, WTypeOK
<1>2. last_attempt[task[w]] = w /\ task[w] # None
  BY <1>1, ConstantsAssumption DEF TaskIsAttempt
<1>3. None \notin Workers
  BY ConstantsAssumption
<1>4. \A v \in Workers \ {w} : task[v] # task[w]
  BY <1>2 DEF TaskIsAttempt
<1>5. TaskIsAttempt'
  BY <1>1 DEF TaskIsAttempt, vars, jobVars
<1>6. PublishedIsRenamed'
  BY <1>1, <1>2, <1>3, <1>4 DEF PublishedIsRenamed, vars, jobVars, WTypeOK
<1>7. RenamedBeforeCommit' /\ RunsWrite'
  BY <1>1 DEF RenamedBeforeCommit, RunsWrite, WTypeOK
<1>8. FailedIsOver'
  BY <1>1 DEF FailedIsOver, vars, simVars, WTypeOK
<1>9. CommittedIsPublished'
  BY <1>1 DEF CommittedIsPublished, vars, simVars, WTypeOK
<1> QED
  BY <1>5, <1>6, <1>7, <1>8, <1>9

\* A terminal write concerns the process's own job, which nobody else executes.
LEMMA SettleKeepsInv ==
  ASSUME IInv, WInv, WTypeOK', NEW w \in Workers, NEW lag \in Lags, Settle(w, lag)
  PROVE  WInv'
<1> USE DEF WInv
<1> DEFINE j == task[w]
<1>1. /\ task'[w] = None /\ at'[w] = "idle" /\ published' = published
      /\ \A v \in Workers \ {w} : at'[v] = at[v] /\ task'[v] = task[v]
      /\ at[w] \in {"commit", "confirm", "fail"}
      /\ j \in Jobs /\ j # None
  BY DEF Settle, Finish, Goto, WTypeOK, diskVars, Working
<1>2. last_attempt' = last_attempt
  BY DEF Settle, CommitSimulation, CompletePreflight, ConfirmCancel, FailRun,
     FailPreflight, ReleaseJob
<1>3. \A v \in Workers \ {w} : task[v] # j
  BY <1>1 DEF TaskIsAttempt
<1>4. \A r \in Runs :
        /\ artifact_state'[r] = "COMMITTED" =>
             artifact_state[r] = "COMMITTED" \/ (r = j /\ at[w] = "commit")
        /\ sim'[r] = "FAILED" => sim[r] = "FAILED" \/ (r = j /\ at[w] = "fail")
  <2> USE DEF IInv, TypeOK
  <2>1. CASE at[w] = "commit" /\ j \in Runs /\ CommitSimulation(w, j, lag)
    BY <2>1 DEF CommitSimulation
  <2>2. CASE j \in Runs /\ ConfirmCancel(w, j, lag)
    BY <2>2 DEF ConfirmCancel, AbandonRun
  <2>3. CASE /\ at[w] = "fail" /\ j \in Runs
             /\ \E final \in Failures : FailRun(w, j, final, lag)
    BY <2>3 DEF FailRun, AbandonRun
  <2>4. CASE \/ CompletePreflight(w, j, lag)
             \/ \E final \in Failures : FailPreflight(w, j, final, lag)
    BY <2>4 DEF CompletePreflight, FailPreflight, simVars
  <2> QED
    BY <2>1, <2>2, <2>3, <2>4 DEF Settle
<1>5. TaskIsAttempt'
  BY <1>1, <1>2 DEF TaskIsAttempt
<1>6. None \notin Runs
  BY ConstantsAssumption
<1>7. PublishedIsRenamed'
  BY <1>1, <1>2, <1>6 DEF PublishedIsRenamed
<1>8. RenamedBeforeCommit' /\ RunsWrite'
  BY <1>1 DEF RenamedBeforeCommit, RunsWrite
<1>9. FailedIsOver'
  <2>1. \A r \in Runs : r = j /\ at[w] = "fail" => ~published[r]
    BY DEF PublishedIsRenamed
  <2> QED
    BY <1>1, <1>3, <1>4, <1>6, <2>1 DEF FailedIsOver
<1>10. CommittedIsPublished'
  BY <1>1, <1>4 DEF CommittedIsPublished, RenamedBeforeCommit
<1> QED
  BY <1>5, <1>7, <1>8, <1>9, <1>10

\* The steps of a process other than claiming, publishing and settling.
LEMMA ProcessMoves ==
  ASSUME IInv, WInv, WTypeOK', NEW w \in Workers, NEW lag \in Lags,
         Process(w, lag), ~Poll(w, lag), ~Publish(w), ~Settle(w, lag)
  PROVE  Quiet /\ published' = published /\ Moves(w)
<1> USE DEF WInv
<1>1. at[w] \in Working => task[w] \in Jobs
  BY DEF WTypeOK
<1>2. Die(w) => Quiet /\ published' = published /\ Moves(w)
  BY QuietSteps DEF Die, Moves, diskVars, WTypeOK
<1>3. CASE Service(w, lag)
  <2>1. CASE Launch(w, lag)
    BY <2>1, QuietSteps DEF Launch, Goto, Moves, diskVars, WTypeOK, Working
  <2>2. CASE IdleHeartbeat(w, lag) \/ PollNothing(w, lag)
    BY <2>2, QuietSteps DEF IdleHeartbeat, PollNothing, Moves, diskVars, processVars
  <2>3. CASE PollRefused(w, lag)
    BY <2>3, <1>2 DEF PollRefused
  <2> QED
    BY <1>3, <2>1, <2>2, <2>3 DEF Service
<1>4. CASE MainThread(w, lag)
  <2>1. CASE StartHeartbeat(w) \/ ComputeDone(w) \/ ReviewPassed(w)
    <3>1. Quiet /\ published' = published /\ task'[w] = task[w]
      BY <2>1, QuietSteps DEF StartHeartbeat, ComputeDone, ReviewPassed, diskVars
    <3>2. CASE StartHeartbeat(w)
      BY <3>1, <3>2 DEF StartHeartbeat, Goto, Moves, WTypeOK
    <3>3. CASE ComputeDone(w)
      BY <3>1, <3>3, ConstantsAssumption DEF ComputeDone, Goto, Moves, WTypeOK
    <3>4. CASE ReviewPassed(w)
      BY <3>1, <3>4 DEF ReviewPassed, Goto, Moves, WTypeOK, RenamedBeforeCommit
    <3> QED
      BY <2>1, <3>1, <3>2, <3>3, <3>4
  <2>2. CASE Recheck(w)
    BY <2>2, <1>2, QuietSteps DEF Recheck, Goto, Moves, diskVars, WTypeOK
  <2>3. CASE FirstRenewal(w, lag) \/ FirstRenewalRefused(w, lag)
    BY <2>3, <1>1, QuietSteps DEF FirstRenewal, FirstRenewalRefused, Goto, Moves,
       diskVars, WTypeOK, Working
  <2>4. CASE CancelSeen(w)
    <3>1. task[w] \in Runs
      BY <2>4, <1>1 DEF CancelSeen, CancelRequested, CancelIntent, IInv,
         CancellingIsAsked, Working
    <3> QED
      BY <2>4, <3>1, QuietSteps DEF CancelSeen, Goto, Moves, diskVars, WTypeOK
  <2>5. CASE LeaseLostSeen(w) \/ ReportRefused(w, lag) \/ SettleRefused(w, lag)
    BY <2>5, <1>2 DEF LeaseLostSeen, ReportRefused, SettleRefused
  <2>6. CASE ReportStage(w, lag)
    <3>1. StageOrder[reached[w] + 1] \in Stages
      BY <2>6, StageOrderAssumption DEF ReportStage, WTypeOK
    <3> QED
      BY <2>6, <3>1, QuietSteps DEF ReportStage, Moves, diskVars
  <2>7. CASE Write(w)
    BY <2>7, QuietSteps DEF Write, Goto, Moves, WTypeOK, RunsWrite
  <2> QED
    BY <1>4, <2>1, <2>2, <2>3, <2>4, <2>5, <2>6, <2>7 DEF MainThread
<1>5. CASE Renew(w, lag) \/ RenewRefused(w, lag) \/ RenewalFails(w, lag)
  BY <1>5, <1>1, QuietSteps DEF Renew, RenewRefused, RenewalFails, Moves, diskVars,
     processVars, WTypeOK
<1>6. CASE TaskFails(w)
  BY <1>6, QuietSteps DEF TaskFails, Goto, Moves, WTypeOK
<1>7. CASE Crash(w)
  BY <1>7, <1>2 DEF Crash
<1> QED
  BY <1>3, <1>4, <1>5, <1>6, <1>7 DEF Process

\* A process leaves the others' state alone.
LEMMA OthersStay ==
  ASSUME WTypeOK, NEW w \in Workers, NEW lag \in Lags, Process(w, lag)
  PROVE  \A v \in Workers \ {w} : /\ at'[v] = at[v] /\ task'[v] = task[v]
                                  /\ beat'[v] = beat[v] /\ reached'[v] = reached[v]
<1> USE DEF WTypeOK, Goto
<1>1. Die(w) => \A v \in Workers \ {w} :
                  /\ at'[v] = at[v] /\ task'[v] = task[v]
                  /\ beat'[v] = beat[v] /\ reached'[v] = reached[v]
  BY DEF Die
<1>2. CASE Service(w, lag)
  BY <1>2, <1>1 DEF Service, Launch, IdleHeartbeat, Poll, PollNothing, PollRefused,
     processVars
<1>3. CASE MainThread(w, lag)
  BY <1>3, <1>1 DEF MainThread, StartHeartbeat, Recheck, FirstRenewal,
     FirstRenewalRefused, CancelSeen, LeaseLostSeen, ReportStage, ReportRefused,
     ComputeDone, Write, Publish, ReviewPassed, Settle, SettleRefused, Finish
<1>4. CASE Renew(w, lag) \/ RenewRefused(w, lag) \/ RenewalFails(w, lag)
           \/ TaskFails(w) \/ Crash(w)
  BY <1>4, <1>1 DEF Renew, RenewRefused, RenewalFails, TaskFails, Crash, processVars
<1> QED
  BY <1>2, <1>3, <1>4 DEF Process

LEMMA WInvStep == IInv /\ WInv /\ [WNext]_wvars => WInv'
<1> SUFFICES ASSUME IInv, WInv, [WNext]_wvars PROVE WInv'
  OBVIOUS
<1>1. WTypeOK'
  BY WTypeStep DEF WInv
<1>2. CASE UNCHANGED wvars
  <2>1. Quiet /\ published' = published /\ \A w \in Workers : Moves(w)
    BY <1>2 DEF wvars, vars, simVars, jobVars, processVars, diskVars, Quiet, Moves
  <2> QED
    BY <1>1, <2>1, QuietKeepsInv
<1>3. CASE Environment
  <2>1. Quiet /\ published' = published /\ \A w \in Workers : Moves(w)
    BY <1>3, EnvironmentIsQuiet DEF Environment, processVars, diskVars, Moves
  <2> QED
    BY <1>1, <2>1, QuietKeepsInv
<1>4. ASSUME NEW w \in Workers, NEW lag \in Lags, Process(w, lag) PROVE WInv'
  <2>1. CASE Poll(w, lag)
    BY <1>1, <2>1, PollKeepsInv
  <2>2. CASE Publish(w)
    BY <1>1, <2>2, PublishKeepsInv
  <2>3. CASE Settle(w, lag)
    BY <1>1, <2>3, SettleKeepsInv
  <2>4. CASE ~Poll(w, lag) /\ ~Publish(w) /\ ~Settle(w, lag)
    <3>1. Quiet /\ published' = published /\ Moves(w)
      BY <1>1, <1>4, <2>4, ProcessMoves
    <3>2. \A v \in Workers : Moves(v)
      BY <1>4, <3>1, OthersStay DEF WInv, Moves
    <3> QED
      BY <1>1, <3>1, <3>2, QuietKeepsInv
  <2> QED
    BY <2>1, <2>2, <2>3, <2>4
<1> QED
  BY <1>2, <1>3, <1>4 DEF WNext

THEOREM ProcessInvariance == WSpec => []WInv
<1>1. WSpec => []IInv
  BY ImplementsControlPlane, Invariance, PTL
<1> QED
  BY <1>1, WInvInit, WInvStep, PTL DEF WSpec

\* One executor per job, stale processes included.
THEOREM OneExecutor == WSpec => []SoleExecutor
<1>1. WInv => SoleExecutor
  BY DEF WInv, TaskIsAttempt, SoleExecutor
<1> QED
  BY <1>1, ProcessInvariance, PTL

\* The rename never meets a committed directory.
THEOREM OneRename == WSpec => []PublishOnce
<1>1. WInv => PublishOnce
  BY DEF WInv, PublishedIsRenamed, RunsWrite, PublishOnce
<1> QED
  BY <1>1, ProcessInvariance, PTL

\* A committed run is served from a directory that exists.
THEOREM PublishedOutcomes == WSpec => []CommittedIsPublished
<1>1. WInv => CommittedIsPublished
  BY DEF WInv
<1> QED
  BY <1>1, ProcessInvariance, PTL

\* A failed run left no results.
THEOREM FailuresLeaveNothing == WSpec => []FailedLeavesNothing
<1>1. WInv => FailedLeavesNothing
  BY DEF WInv, FailedIsOver, FailedLeavesNothing
<1> QED
  BY <1>1, ProcessInvariance, PTL

-----------------------------------------------------------------------------
(* Who computes without a renewal thread.                                  *)

\* A task begins with no stage reported.
FreshStart ==
  \A w \in Workers :
    at[w] \in {"down", "idle", "start", "renew", "recheck"} => reached[w] = 0

\* Without a thread a process only works on a run it was asked to cancel before
\* its first stage; an expired lease makes no difference.
NoThreadNoWork ==
  \A w \in Workers : at[w] = "compute" /\ beat[w] = "off" =>
    /\ task[w] \in Runs /\ reached[w] = 0
    /\ owner[task[w]] = w /\ job[task[w]] \in Active => CancelIntent(task[w])

Producing == {"write", "publish", "review", "commit"}
NoThreadNoOutput == \A w \in Workers : beat[w] = "off" => at[w] \notin Producing

ThreadInv == FreshStart /\ NoThreadNoWork /\ NoThreadNoOutput

\* An attempt that is still under way was so before, and its cancellation is
\* not taken back.
LEMMA IntentStays ==
  ASSUME IInv, [Next]_vars, NEW w \in Workers, NEW j \in Jobs,
         job[j] # "QUEUED", owner'[j] = w, job'[j] \in Active
  PROVE  owner[j] = w /\ job[j] \in Active /\ (CancelIntent(j) => CancelIntent(j)')
<1> USE ConstantsAssumption DEF IInv, TypeOK, Active, CancelIntent, Jobs
<1>1. CASE \E d \in Datasets : RegisterDataset(d)
  BY <1>1 DEF RegisterDataset, Enqueue, simVars
<1>2. CASE \E k \in Keys, r \in Runs, d \in Datasets : CreateSimulation(k, r, d)
  BY <1>2 DEF CreateSimulation, Enqueue
<1>3. CASE \E r \in Runs : CancelSimulation(r)
  BY <1>3 DEF CancelSimulation, CancelQueued, CancelRunning
<1>4. ASSUME NEW lag \in Lags, job' = RecoveredJob(lag), owner' = RecoveredOwner(lag),
             UNCHANGED cancel_asked
      PROVE  owner[j] = w /\ job[j] \in Active /\ (CancelIntent(j) => CancelIntent(j)')
  BY <1>4 DEF RecoveredJob, RecoveredOwner
<1>5. CASE RecoveryStep
  BY <1>4, <1>5 DEF RecoveryStep, RecoverExpiredLeases
<1>6. CASE Tick \/ UNCHANGED vars
  BY <1>6 DEF Tick, vars, simVars, jobVars
<1>7. ASSUME NEW v \in Workers, NEW lag \in Lags, WorkerStep(v, lag)
      PROVE  owner[j] = w /\ job[j] \in Active /\ (CancelIntent(j) => CancelIntent(j)')
  <2>1. CASE RegisterInstance(v, lag) \/ HeartbeatInstance(v, lag)
             \/ \E i \in Jobs : Heartbeat(v, i, lag)
    BY <2>1 DEF RegisterInstance, HeartbeatInstance, Heartbeat, simVars, jobVars
  <2>2. CASE ClaimNothing(v, lag)
    BY <1>4, <2>2 DEF ClaimNothing
  <2>3. ASSUME NEW i \in Jobs, Claim(v, i, lag)
        PROVE  owner[j] = w /\ job[j] \in Active /\ (CancelIntent(j) => CancelIntent(j)')
    <3>1. i # j
      BY <2>3 DEF Claim, IsHead, Queued
    <3>2. job'[j] = RecoveredJob(lag)[j] /\ owner'[j] = RecoveredOwner(lag)[j]
          /\ UNCHANGED cancel_asked
      BY <2>3, <3>1 DEF Claim, RecoveredJob, RecoveredOwner
    <3> QED
      BY <3>2 DEF RecoveredJob, RecoveredOwner
  <2>4. CASE \E d \in Datasets : \/ CompletePreflight(v, d, lag)
                                 \/ \E final \in Failures : FailPreflight(v, d, final, lag)
    BY <2>4 DEF CompletePreflight, FailPreflight, Failures, ReleaseJob, simVars
  <2>5. CASE \E r \in Runs, s \in Active, stage \in Stages : ReportEvent(v, r, s, stage, lag)
    BY <2>5 DEF ReportEvent, jobVars
  <2>6. CASE \E r \in Runs : \/ ConfirmCancel(v, r, lag) \/ CommitSimulation(v, r, lag)
                             \/ \E final \in Failures : FailRun(v, r, final, lag)
    BY <2>6 DEF ConfirmCancel, CommitSimulation, FailRun, Failures, ReleaseJob
  <2> QED
    BY <1>7, <2>1, <2>2, <2>3, <2>4, <2>5, <2>6 DEF WorkerStep
<1> QED
  BY <1>1, <1>2, <1>3, <1>5, <1>6, <1>7 DEF Next, ApiStep

\* How a process comes to compute without a thread: its cancellation was seen.
\* Reporting a stage needs a run that is not being cancelled.
LEMMA ThreadMoves ==
  ASSUME WTypeOK, [WNext]_wvars, NEW w \in Workers, at'[w] = "compute", beat'[w] = "off"
  PROVE  /\ task'[w] = task[w] /\ task[w] \in Jobs
         /\ \/ /\ at[w] = "compute" /\ beat[w] = "off"
               /\ \/ reached'[w] = reached[w]
                  \/ \E lag \in Lags : ReportStage(w, lag)
            \/ /\ at[w] \in {"start", "recheck"} /\ CancelRequested(w)
               /\ reached'[w] = reached[w] /\ UNCHANGED vars
<1> USE DEF WTypeOK, Working, Goto
<1>1. CASE Environment \/ UNCHANGED wvars
  BY <1>1 DEF Environment, wvars, processVars
<1>2. ASSUME NEW v \in Workers, NEW lag \in Lags, Process(v, lag), v # w
      PROVE  /\ at[w] = "compute" /\ beat[w] = "off" /\ task'[w] = task[w]
             /\ reached'[w] = reached[w]
  BY <1>2, OthersStay
<1>3. ASSUME NEW lag \in Lags, Process(w, lag)
      PROVE  /\ task'[w] = task[w] /\ at[w] \in Working
             /\ \/ /\ at[w] = "compute" /\ beat[w] = "off"
                   /\ reached'[w] = reached[w] \/ ReportStage(w, lag)
                \/ /\ at[w] \in {"start", "recheck"} /\ CancelRequested(w)
                   /\ reached'[w] = reached[w] /\ UNCHANGED vars
  <2>1. ~Die(w) /\ ~Finish(w)
    BY DEF Die, Finish
  <2>2. CASE Service(w, lag)
    BY <2>1, <2>2 DEF Service, Launch, IdleHeartbeat, Poll, PollNothing, PollRefused, processVars
  <2>3. CASE StartHeartbeat(w) \/ Recheck(w)
    BY <2>1, <2>3 DEF StartHeartbeat, Recheck
  <2>4. CASE FirstRenewal(w, lag) \/ FirstRenewalRefused(w, lag)
             \/ CancelSeen(w) \/ LeaseLostSeen(w) \/ ReportRefused(w, lag)
             \/ ComputeDone(w) \/ Write(w) \/ Publish(w) \/ ReviewPassed(w)
             \/ SettleRefused(w, lag) \/ Settle(w, lag)
    BY <2>1, <2>4 DEF FirstRenewal, FirstRenewalRefused, CancelSeen, LeaseLostSeen,
       ReportRefused, ComputeDone, Write, Publish, ReviewPassed, SettleRefused, Settle
  <2>5. CASE ReportStage(w, lag)
    BY <2>5 DEF ReportStage
  <2>6. CASE Renew(w, lag) \/ RenewRefused(w, lag) \/ RenewalFails(w, lag)
             \/ TaskFails(w) \/ Crash(w)
    BY <2>1, <2>6 DEF Renew, RenewRefused, RenewalFails, TaskFails, Crash, processVars
  <2> QED
    BY <1>3, <2>2, <2>3, <2>4, <2>5, <2>6 DEF Process, MainThread
<1> QED
  BY <1>1, <1>2, <1>3, ConstantsAssumption DEF WNext

LEMMA NoWorkStep ==
  ASSUME IInv, WInv, FreshStart, NoThreadNoWork, [WNext]_wvars
  PROVE  NoThreadNoWork'
<1> SUFFICES ASSUME NEW w \in Workers, at'[w] = "compute", beat'[w] = "off"
             PROVE  /\ task'[w] \in Runs /\ reached'[w] = 0
                    /\ owner'[task'[w]] = w /\ job'[task'[w]] \in Active
                         => CancelIntent(task[w])'
  BY DEF NoThreadNoWork
<1> DEFINE j == task[w]
<1>1. task'[w] = j /\ j \in Jobs
  BY ThreadMoves DEF WInv
<1>2. CASE /\ at[w] \in {"start", "recheck"} /\ CancelRequested(w)
           /\ reached'[w] = reached[w] /\ UNCHANGED vars
  <2>1. j \in Runs /\ reached'[w] = 0
    BY <1>1, <1>2 DEF CancelRequested, CancelIntent, IInv, CancellingIsAsked, FreshStart
  <2>2. CancelIntent(task[w])'
    BY <1>1, <1>2 DEF CancelRequested, CancelIntent, vars, simVars, jobVars
  <2> QED
    BY <1>1, <2>1, <2>2
<1>3. CASE /\ at[w] = "compute" /\ beat[w] = "off"
           /\ reached'[w] = reached[w] \/ \E lag \in Lags : ReportStage(w, lag)
  <2>1. /\ j \in Runs /\ reached[w] = 0
        /\ owner[j] = w /\ job[j] \in Active => CancelIntent(j)
    BY <1>3 DEF NoThreadNoWork
  <2>2. ASSUME NEW lag \in Lags PROVE ~ReportStage(w, lag)
    <3> SUFFICES ASSUME ReportStage(w, lag) PROVE FALSE
      OBVIOUS
    <3>1. owner[j] = w /\ job[j] = "RUNNING"
      BY DEF ReportStage, ReportEvent, Holds
    <3>2. CancelIntent(j) /\ sim[j] = "RUNNING"
      BY <2>1, <3>1 DEF Active, IInv, RunFollowsJob
    <3> QED
      BY <2>1, <3>1, <3>2 DEF CancelIntent, IInv, CancellationIntentWins
  <2>3. reached'[w] = 0
    BY <1>3, <2>1, <2>2
  <2>4. job[j] # "QUEUED"
    BY <1>1, ConstantsAssumption DEF WInv, TaskIsAttempt, IInv, TicketsInOrder, Jobs
  <2>5. [Next]_vars
    BY ProcessStep, EnvironmentStep DEF WInv, WNext, wvars
  <2>6. ASSUME owner'[j] = w, job'[j] \in Active
        PROVE  job'[j] = "CANCELLING" \/ (j \in Runs /\ cancel_asked'[j])
    BY <1>1, <2>1, <2>4, <2>5, <2>6, IntentStays DEF CancelIntent
  <2> QED
    BY <1>1, <2>1, <2>3, <2>6 DEF CancelIntent
<1> QED
  BY <1>2, <1>3, ThreadMoves DEF WInv

\* Output is produced by processes that computed with a thread.
LEMMA NoOutputStep ==
  ASSUME WTypeOK, NoThreadNoWork, NoThreadNoOutput, [WNext]_wvars
  PROVE  NoThreadNoOutput'
<1> SUFFICES ASSUME NEW w \in Workers, beat'[w] = "off", at'[w] \in Producing PROVE FALSE
  BY DEF NoThreadNoOutput
<1> USE DEF WTypeOK, Working, Producing, Goto
<1>1. ~(beat[w] = "off" /\ at[w] \in Producing)
  BY DEF NoThreadNoOutput
<1>2. CASE Environment \/ UNCHANGED wvars
  BY <1>1, <1>2 DEF Environment, wvars, processVars
<1>3. ASSUME NEW v \in Workers, NEW lag \in Lags, Process(v, lag), v # w PROVE FALSE
  BY <1>1, <1>3, OthersStay
<1>4. ASSUME NEW lag \in Lags, Process(w, lag) PROVE FALSE
  <2>1. ~Die(w) /\ ~Finish(w)
    BY DEF Die, Finish
  <2>2. CASE Service(w, lag)
    BY <1>1, <2>1, <2>2 DEF Service, Launch, IdleHeartbeat, Poll, PollNothing, PollRefused, processVars
  <2>3. CASE ComputeDone(w)
    <3>1. at[w] = "compute" /\ beat[w] = "off"
      BY <2>3 DEF ComputeDone
    <3>2. task[w] \in Runs /\ reached[w] = 0
      BY <3>1 DEF NoThreadNoWork
    <3>3. reached[w] = Len(StageOrder)
      BY <2>3, <3>2, ConstantsAssumption DEF ComputeDone
    <3>4. Len(StageOrder) # 0
      BY StageOrderAssumption
    <3> QED
      BY <3>2, <3>3, <3>4
  <2>4. CASE StartHeartbeat(w) \/ Recheck(w)
             \/ FirstRenewal(w, lag) \/ FirstRenewalRefused(w, lag)
             \/ CancelSeen(w) \/ LeaseLostSeen(w) \/ ReportStage(w, lag)
             \/ ReportRefused(w, lag) \/ Write(w) \/ Publish(w) \/ ReviewPassed(w)
             \/ SettleRefused(w, lag) \/ Settle(w, lag)
    BY <1>1, <2>1, <2>4 DEF StartHeartbeat, Recheck, FirstRenewal, FirstRenewalRefused,
       CancelSeen, LeaseLostSeen, ReportStage, ReportRefused, Write, Publish,
       ReviewPassed, SettleRefused, Settle
  <2>5. CASE Renew(w, lag) \/ RenewRefused(w, lag) \/ RenewalFails(w, lag)
             \/ TaskFails(w) \/ Crash(w)
    BY <1>1, <2>1, <2>5 DEF Renew, RenewRefused, RenewalFails, TaskFails, Crash, processVars
  <2> QED
    BY <1>4, <2>2, <2>3, <2>4, <2>5 DEF Process, MainThread
<1> QED
  BY <1>2, <1>3, <1>4 DEF WNext

LEMMA FreshStartStep ==
  ASSUME WTypeOK, FreshStart, [WNext]_wvars
  PROVE  FreshStart'
<1> DEFINE Early == {"down", "idle", "start", "renew", "recheck"}
<1> SUFFICES ASSUME NEW w \in Workers, at'[w] \in Early PROVE reached'[w] = 0
  BY DEF FreshStart
<1> USE DEF WTypeOK, Goto
<1>1. at[w] \in Early => reached[w] = 0
  BY DEF FreshStart
<1>2. CASE Environment \/ UNCHANGED wvars
  BY <1>1, <1>2 DEF Environment, wvars, processVars
<1>3. ASSUME NEW v \in Workers, NEW lag \in Lags, Process(v, lag), v # w
      PROVE  reached'[w] = 0
  BY <1>1, <1>3, OthersStay
<1>4. ASSUME NEW lag \in Lags, Process(w, lag) PROVE reached'[w] = 0
  <2>1. Die(w) \/ Finish(w) => reached'[w] = 0
    BY DEF Die, Finish
  <2>2. CASE Service(w, lag)
    BY <1>1, <2>1, <2>2 DEF Service, Launch, IdleHeartbeat, Poll, PollNothing, PollRefused, processVars
  <2>3. CASE MainThread(w, lag)
    BY <1>1, <2>1, <2>3 DEF MainThread, StartHeartbeat, Recheck, FirstRenewal,
       FirstRenewalRefused, CancelSeen, LeaseLostSeen, ReportStage, ReportRefused,
       ComputeDone, Write, Publish, ReviewPassed, Settle, SettleRefused
  <2>4. CASE Renew(w, lag) \/ RenewRefused(w, lag) \/ RenewalFails(w, lag)
             \/ TaskFails(w) \/ Crash(w)
    BY <1>1, <2>1, <2>4 DEF Renew, RenewRefused, RenewalFails, TaskFails, Crash, processVars
  <2> QED
    BY <1>4, <2>2, <2>3, <2>4 DEF Process
<1> QED
  BY <1>2, <1>3, <1>4 DEF WNext

\* Who has no renewal thread is about to see a cancellation, and produces
\* nothing: whatever is written, renamed or committed had a thread behind it
\* when its computation began.
THEOREM NoThreadNoResult == WSpec => []StartedWithRenewal
<1>1. WInit => ThreadInv
  BY DEF WInit, ThreadInv, FreshStart, NoThreadNoWork, NoThreadNoOutput, Producing
<1>2. IInv /\ WInv /\ ThreadInv /\ [WNext]_wvars => ThreadInv'
  BY FreshStartStep, NoWorkStep, NoOutputStep DEF ThreadInv, WInv
<1>3. ThreadInv => StartedWithRenewal
  BY DEF ThreadInv, NoThreadNoWork, NoThreadNoOutput, Producing, StartedWithRenewal,
     LeaseValid, Holds
<1>4. WSpec => []IInv
  BY ImplementsControlPlane, Invariance, PTL
<1> QED
  BY <1>1, <1>2, <1>3, <1>4, ProcessInvariance, PTL DEF WSpec
=============================================================================
