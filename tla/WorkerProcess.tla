---------------------------- MODULE WorkerProcess ----------------------------
(***************************************************************************)
(* The algorithm worker: processes that poll for a job, renew its lease    *)
(* from a second thread, check for cancellation between bounded batches,   *)
(* stage and publish result files and write one terminal outcome.  Each    *)
(* call of the repository is one transaction of JobControl; a process acts *)
(* on what the call told it, which may be out of date when it does.        *)
(*                                                                         *)
(* A call of the main thread that fails in the database or in transit ends *)
(* the process, before or after its transaction took effect: both are a    *)
(* Crash.  One of the renewal thread ends that thread (RenewalFails).      *)
(* Reads wait for no lock, so they see the present: their lag is 0.        *)
(***************************************************************************)
EXTENDS JobControl, Sequences

CONSTANT StageOrder  \* the stages in the order in which a run goes through them

ASSUME StageOrderAssumption ==
  /\ StageOrder \in Seq(Stages)
  /\ StageOrder # <<>>
  /\ StageOrder[1] = FirstStage

VARIABLES
  at,         \* where the main thread of a process is
  task,       \* the job a process works on
  beat,       \* the renewal thread: not running, running, stopped by a failure
  reached,    \* how many stages the process has reported for its task
  staged,     \* runs/<run>/tmp/<attempt> exists
  published   \* runs/<run>/committed exists

processVars == <<at, task, beat, reached>>
diskVars    == <<staged, published>>
wvars       == <<vars, processVars, diskVars>>

Working == {"start", "renew", "recheck", "compute", "write", "publish",
            "review", "commit", "confirm", "fail"}

\* The processes' state: a task exactly while one is run, and no renewal thread
\* that outlives its task into the next claim.
WTypeOK ==
  /\ at \in [Workers -> {"down", "idle"} \cup Working]
  /\ task \in [Workers -> Jobs \cup {None}]
  /\ beat \in [Workers -> {"off", "on", "failed"}]
  /\ reached \in [Workers -> 0..Len(StageOrder)]
  /\ staged \in [Runs -> BOOLEAN]
  /\ published \in [Runs -> BOOLEAN]
  /\ \A w \in Workers : /\ at[w] \in Working <=> task[w] # None
                        /\ beat[w] # "off" => at[w] \in Working

WInit ==
  /\ Init
  /\ at = [w \in Workers |-> "down"]
  /\ task = [w \in Workers |-> None]
  /\ beat = [w \in Workers |-> "off"]
  /\ reached = [w \in Workers |-> 0]
  /\ staged = [r \in Runs |-> FALSE]
  /\ published = [r \in Runs |-> FALSE]

Goto(w, place) == at' = [at EXCEPT ![w] = place]

FinishWithoutJoin(w) ==  \* mutant
  /\ Goto(w, "idle")
  /\ task' = [task EXCEPT ![w] = None]
  /\ reached' = [reached EXCEPT ![w] = 0]
  /\ UNCHANGED beat

\* The task is over and its renewal thread joined; the service polls on.
Finish(w) ==
  /\ Goto(w, "idle")
  /\ task' = [task EXCEPT ![w] = None]
  /\ beat' = [beat EXCEPT ![w] = "off"]
  /\ reached' = [reached EXCEPT ![w] = 0]

\* The process ends, whatever it was doing; files stay as they are.
Die(w) ==
  /\ Goto(w, "down")
  /\ task' = [task EXCEPT ![w] = None]
  /\ beat' = [beat EXCEPT ![w] = "off"]
  /\ reached' = [reached EXCEPT ![w] = 0]
  /\ UNCHANGED <<vars, diskVars>>

Crash(w) == at[w] # "down" /\ Die(w)

-----------------------------------------------------------------------------
(* The service: register, keep the registration fresh, claim.              *)

Launch(w, lag) ==
  /\ at[w] = "down"
  /\ RegisterInstance(w, lag)
  /\ Goto(w, "idle")
  /\ UNCHANGED <<task, beat, reached, diskVars>>

IdleHeartbeat(w, lag) ==
  /\ at[w] = "idle"
  /\ HeartbeatInstance(w, lag)
  /\ UNCHANGED <<processVars, diskVars>>

\* An envelope that does not satisfy the contract is failed without being run.
Poll(w, lag) ==
  /\ at[w] = "idle"
  /\ \E j \in Jobs :
       /\ Claim(w, j, lag)
       /\ task' = [task EXCEPT ![w] = j]
       /\ Goto(w, "start") \/ Goto(w, "fail")
  /\ UNCHANGED <<beat, reached, diskVars>>

PollNothing(w, lag) ==
  /\ at[w] = "idle"
  /\ ClaimNothing(w, lag)
  /\ UNCHANGED <<processVars, diskVars>>

\* The claim raises when the registration is no longer fresh.
PollRefused(w, lag) ==
  /\ at[w] = "idle"
  /\ fresh[w] + lag <= 0
  /\ Die(w)

-----------------------------------------------------------------------------
(* The lease: first renewal by the main thread, the others by a thread.    *)

\* What cancellation_state reads for an attempt.
LeaseValid(w) == Holds(w, task[w], Active, 0)
CancelRequested(w) == LeaseValid(w) /\ CancelIntent(task[w])

StartWithoutRenewal(w) ==  \* mutant
  /\ at[w] = "start"
  /\ Goto(w, "compute")
  /\ UNCHANGED <<vars, task, beat, reached, diskVars>>

\* A task that is already being cancelled gets no renewal thread.
StartHeartbeat(w) ==
  /\ at[w] = "start"
  /\ Goto(w, IF CancelRequested(w) THEN "compute" ELSE "renew")
  /\ UNCHANGED <<vars, task, beat, reached, diskVars>>

FirstRenewal(w, lag) ==
  /\ at[w] = "renew"
  /\ Heartbeat(w, task[w], lag)
  /\ Goto(w, "compute")
  /\ beat' = [beat EXCEPT ![w] = "on"]
  /\ UNCHANGED <<task, reached, diskVars>>

\* A refused renewal has refreshed the registration all the same.
FirstRenewalRefused(w, lag) ==
  /\ at[w] = "renew"
  /\ ~Holds(w, task[w], Active, lag)
  /\ HeartbeatInstance(w, lag)
  /\ Goto(w, "recheck")
  /\ UNCHANGED <<task, beat, reached, diskVars>>

Recheck(w) ==
  /\ at[w] = "recheck"
  /\ IF CancelRequested(w)
       THEN Goto(w, "compute") /\ UNCHANGED <<vars, task, beat, reached, diskVars>>
       ELSE Die(w)

Renew(w, lag) ==
  /\ beat[w] = "on"
  /\ Heartbeat(w, task[w], lag)
  /\ UNCHANGED <<processVars, diskVars>>

RenewRefused(w, lag) ==
  /\ beat[w] = "on"
  /\ ~Holds(w, task[w], Active, lag)
  /\ HeartbeatInstance(w, lag)
  /\ beat' = [beat EXCEPT ![w] = "failed"]
  /\ UNCHANGED <<at, task, reached, diskVars>>

\* The call raises: the transaction was the victim of a deadlock, or its answer
\* got lost.  The thread ends while the lease is live and the main thread
\* works on, without renewals, until its next check_cancel.
RenewalFails(w, lag) ==
  /\ beat[w] = "on"
  /\ Heartbeat(w, task[w], lag) \/ UNCHANGED vars
  /\ beat' = [beat EXCEPT ![w] = "failed"]
  /\ UNCHANGED <<at, task, reached, diskVars>>

-----------------------------------------------------------------------------
(* The task.  check_cancel is called at bounded intervals while computing  *)
(* and once more between the rename and the commit; passing the former     *)
(* changes nothing.                                                        *)

\* Cancellation outranks a lost lease.  The thread is stopped before the
\* cancellation is confirmed.
CancelSeen(w) ==
  /\ at[w] \in {"compute", "review"}
  /\ CancelRequested(w)
  /\ Goto(w, "confirm")
  /\ beat' = [beat EXCEPT ![w] = "off"]
  /\ UNCHANGED <<vars, task, reached, diskVars>>

LeaseLostSeen(w) ==
  /\ at[w] \in {"compute", "review"}
  /\ ~CancelRequested(w)
  /\ ~LeaseValid(w) \/ beat[w] = "failed"
  /\ Die(w)

\* Every event says RUNNING, which is refused once cancellation is requested.
ReportStage(w, lag) ==
  /\ at[w] = "compute"
  /\ reached[w] < Len(StageOrder)
  /\ \E r \in Runs : /\ task[w] = r
                     /\ ReportEvent(w, r, "RUNNING", StageOrder[reached[w] + 1], lag)
  /\ reached' = [reached EXCEPT ![w] = @ + 1]
  /\ UNCHANGED <<at, task, beat, diskVars>>

ReportRefused(w, lag) ==
  /\ at[w] = "compute"
  /\ ~Holds(w, task[w], {"RUNNING"}, lag)
  /\ Die(w)

ComputeDone(w) ==
  /\ at[w] = "compute"
  /\ \/ task[w] \in Runs /\ reached[w] = Len(StageOrder) /\ Goto(w, "write")
     \/ task[w] \in Datasets /\ Goto(w, "commit")
  /\ UNCHANGED <<vars, task, beat, reached, diskVars>>

TaskFailsLate(w) ==  \* mutant
  /\ at[w] \in {"compute", "write", "publish", "review"}
  /\ Goto(w, "fail")
  /\ staged' = [r \in Runs |-> IF r = task[w] THEN FALSE ELSE staged[r]]
  /\ UNCHANGED <<vars, task, beat, reached, published>>

\* Bad input, a numerical failure, or files that cannot be written: the staged
\* directory is abandoned before the failure is reported.
TaskFails(w) ==
  /\ at[w] \in {"compute", "write", "publish"}
  /\ Goto(w, "fail")
  /\ staged' = [r \in Runs |-> IF r = task[w] THEN FALSE ELSE staged[r]]
  /\ UNCHANGED <<vars, task, beat, reached, published>>

WriteInPlace(w) ==  \* mutant
  /\ at[w] = "write"
  /\ staged' = [staged EXCEPT ![task[w]] = TRUE]
  /\ Goto(w, "review")
  /\ UNCHANGED <<vars, task, beat, reached, published>>

Write(w) ==
  /\ at[w] = "write"
  /\ staged' = [staged EXCEPT ![task[w]] = TRUE]
  /\ Goto(w, "publish")
  /\ UNCHANGED <<vars, task, beat, reached, published>>

\* One rename of the whole directory, only where none was committed before.
Publish(w) ==
  /\ at[w] = "publish"
  /\ ~published[task[w]]
  /\ published' = [published EXCEPT ![task[w]] = TRUE]
  /\ staged' = [staged EXCEPT ![task[w]] = FALSE]
  /\ Goto(w, "review")
  /\ UNCHANGED <<vars, task, beat, reached>>

ReviewPassed(w) ==
  /\ at[w] = "review"
  /\ ~CancelRequested(w) /\ LeaseValid(w) /\ beat[w] # "failed"
  /\ Goto(w, "commit")
  /\ UNCHANGED <<vars, task, beat, reached, diskVars>>

-----------------------------------------------------------------------------
(* The terminal write.  Refused, it ends the process: the attempt is stale. *)

Settle(w, lag) ==
  LET j == task[w] IN
  /\ \/ at[w] = "commit" /\ j \in Runs /\ CommitSimulation(w, j, lag)
     \/ at[w] = "commit" /\ j \in Datasets /\ CompletePreflight(w, j, lag)
     \/ at[w] = "confirm" /\ j \in Runs /\ ConfirmCancel(w, j, lag)
     \/ /\ at[w] = "fail"
        /\ \E final \in Failures :
             \/ j \in Runs /\ FailRun(w, j, final, lag)
             \/ j \in Datasets /\ FailPreflight(w, j, final, lag)
  /\ Finish(w)
  /\ UNCHANGED diskVars

Expected == [commit |-> {"RUNNING"}, confirm |-> {"CANCELLING"}, fail |-> Active]

SettleRefused(w, lag) ==
  /\ at[w] \in DOMAIN Expected
  /\ ~Holds(w, task[w], Expected[at[w]], lag)
  /\ Die(w)

-----------------------------------------------------------------------------
MainThread(w, lag) ==
  \/ StartHeartbeat(w) \/ Recheck(w)
  \/ FirstRenewal(w, lag) \/ FirstRenewalRefused(w, lag)
  \/ CancelSeen(w) \/ LeaseLostSeen(w)
  \/ ReportStage(w, lag) \/ ReportRefused(w, lag)
  \/ ComputeDone(w) \/ Write(w) \/ Publish(w) \/ ReviewPassed(w)
  \/ Settle(w, lag) \/ SettleRefused(w, lag)

Service(w, lag) ==
  \/ Launch(w, lag) \/ IdleHeartbeat(w, lag)
  \/ Poll(w, lag) \/ PollNothing(w, lag) \/ PollRefused(w, lag)

Process(w, lag) ==
  \/ Service(w, lag)
  \/ MainThread(w, lag)
  \/ Renew(w, lag) \/ RenewRefused(w, lag) \/ RenewalFails(w, lag)
  \/ TaskFails(w) \/ Crash(w)

Environment ==
  /\ ApiStep \/ RecoveryStep \/ Tick
  /\ UNCHANGED <<processVars, diskVars>>

WNext == Environment \/ \E w \in Workers, lag \in Lags : Process(w, lag)

WSpec == WInit /\ [][WNext]_wvars

\* Every process is restarted when it ends and its main thread goes on; the
\* API's recovery loop (main.go) runs and time passes.  A process that is given infinitely
\* many chances to claim takes one: registering and claiming follow each other
\* too closely for the registration to lapse, or the process to end, each time.
WFairSpec ==
  /\ WSpec
  /\ WF_wvars(RecoveryStep /\ UNCHANGED <<processVars, diskVars>>)
  /\ WF_wvars(Tick /\ UNCHANGED <<processVars, diskVars>>)
  /\ \A w \in Workers :
       /\ WF_wvars(\E lag \in Lags : Launch(w, lag))
       /\ WF_wvars(\E lag \in Lags : PollRefused(w, lag))
       /\ SF_wvars(\E lag \in Lags : Poll(w, lag))
       /\ WF_wvars(\E lag \in Lags : MainThread(w, lag))
-----------------------------------------------------------------------------
(***************************************************************************)
(* Properties.                                                             *)
(***************************************************************************)

\* No job is ever in the hands of two processes, not even after its lease was
\* lost and the first of them has not noticed.
SoleExecutor ==
  \A v, w \in Workers : task[v] # None /\ task[v] = task[w] => v = w

\* The rename into committed never meets the directory of an earlier attempt.
PublishOnce ==
  \A w \in Workers : at[w] \in {"write", "publish"} => ~published[task[w]]

\* What the API serves as committed is on disk: a run is marked COMMITTED only
\* after its directory was renamed into place.
CommittedIsPublished ==
  \A r \in Runs : artifact_state[r] = "COMMITTED" => published[r]

\* A run its worker declared FAILED left no results in committed.  An orphaned
\* directory is only ever left by a lost lease, a crash or a cancellation.
FailedLeavesNothing == \A r \in Runs : sim[r] = "FAILED" => ~published[r]

\* A process that was given no renewal thread works on a task whose cancellation
\* was asked for, so that its next check ends it (and the renewal in
\* is_cancel_requested, for want of a thread, is never made); it writes and
\* commits nothing.  A thread may have failed since it was started: what it
\* leaves to the main thread is the rest of the lease.
StartedWithRenewal ==
  \A w \in Workers : beat[w] = "off" =>
    /\ at[w] = "compute" /\ LeaseValid(w) => CancelIntent(task[w])
    /\ at[w] \notin {"write", "publish", "review", "commit"}

\* Every job accepted is settled, whatever crashes, lost leases and
\* cancellations its processes go through.
EveryJobSettles == \A j \in Jobs : job[j] = "QUEUED" ~> job[j] \in Terminal
=============================================================================
