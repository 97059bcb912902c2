----------------------------- MODULE ClusterJoin -----------------------------
(***************************************************************************)
(* Join jobs (internal/server/cluster_join_jobs.go and                     *)
(* cluster_join_executor.go): how a standby node is brought in.  API calls *)
(* create, cancel and retry a job, or remove its node; a goroutine per run takes it through    *)
(* snapshot, catch-up and verification; every change of a job is followed  *)
(* by a write of all jobs to the configuration store, outside the mutex.   *)
(* After a restart the stored jobs are restored and resumed.               *)
(*                                                                         *)
(* All jobs are for one node.  Run tokens are numbers; token 0 is "".      *)
(***************************************************************************)
EXTENDS Integers, FiniteSets

CONSTANTS
  JoinJobs,       \* job ids
  JoinCalls,      \* API calls
  MaxTokens,      \* bound: runs started
  MaxRestarts,    \* bound: restarts of the server
  MaxOffset       \* bound: replication offset

ASSUME JoinAssumption ==
  MaxTokens \in Nat /\ MaxRestarts \in Nat /\ MaxOffset \in Nat \ {0}

VARIABLES
  jobs,       \* joinJobs
  stored,     \* joinJobs in the configuration store
  cancels,    \* joinCancels: per job the run its function cancels, or 0
  calls,      \* per API call: where it is
  pipes,      \* per token: the goroutine of the run
  repl,       \* offset reported by the replication telemetry
  restarts

joinVars == <<jobs, stored, cancels, calls, pipes, repl, restarts>>

PhaseSet == {"SNAPSHOTTING", "CATCHING_UP", "VERIFYING"}
PendingStatus == PhaseSet \cup {"REGISTERED"}
Tokens  == 1..MaxTokens
Nothing == "none"

\* ckpt is the resumable phase of the checkpoint.  earned is a history
\* variable that travels with the record: the phases the job's own runs have
\* carried out since it was last started from the beginning.
NoJob == [status |-> Nothing, token |-> 0, ckpt |-> Nothing, target |-> 0,
          reached |-> FALSE, verified |-> Nothing, earned |-> {}]

\* next is where the goroutine goes on once its write to the store is done, stop
\* what its context was cancelled for.
\* todo is the jobs a removal of the node has still to cancel.
IdleCall == [op |-> "none", pc |-> "idle", job |-> Nothing, copy |-> Nothing, token |-> 0,
             todo |-> {}]
NoPipe   == [pc |-> "none", job |-> Nothing, phase |-> Nothing, copy |-> Nothing,
             next |-> Nothing, stop |-> "no"]

JoinInit ==
  /\ jobs = [j \in JoinJobs |-> NoJob]
  /\ stored = [j \in JoinJobs |-> NoJob]
  /\ cancels = [j \in JoinJobs |-> 0]
  /\ calls = [c \in JoinCalls |-> IdleCall]
  /\ pipes = [r \in Tokens |-> NoPipe]
  /\ repl = 1
  /\ restarts = 0

isJoinJobPendingStatus(s) == s \in PendingStatus

\* resumableJoinPhase: the checkpoint if it is resumable, or the status.
resumableJoinPhase(job) ==
  IF job.ckpt \in PhaseSet THEN job.ckpt
  ELSE IF job.status \in PhaseSet THEN job.status
  ELSE IF job.status = "REGISTERED" THEN "SNAPSHOTTING" ELSE Nothing

FreeTokens == {r \in Tokens : pipes[r] = NoPipe /\ \A c \in JoinCalls : calls[c].token # r}
NextToken  == CHOOSE r \in FreeTokens : \A q \in FreeTokens : r <= q

-----------------------------------------------------------------------------
(* API calls.  Every call runs in a goroutine of its own.                  *)

CallAt(c, label) == calls[c].pc = label
CallTo(c, label) == calls' = [calls EXCEPT ![c].pc = label]

\* updateJoinJob by a call: under the mutex; the copy that persistJoinJobs
\* takes afterwards is written in a step of its own.
UpdateByCall(c, job, label) ==
  LET j == calls[c].job IN
  /\ jobs' = [jobs EXCEPT ![j] = job]
  /\ calls' = [calls EXCEPT ![c].pc = label, ![c].copy = jobs']

\* A copy that waits to be written; the store keeps no run tokens.
sanitizeJoinJobForPersist(copy) == [j \in JoinJobs |-> [copy[j] EXCEPT !.token = 0]]

CallSave(c, from, to) ==
  /\ CallAt(c, from)
  /\ stored' = sanitizeJoinJobForPersist(calls[c].copy)
  /\ calls' = [calls EXCEPT ![c].pc = to, ![c].copy = Nothing]
  /\ UNCHANGED <<jobs, cancels, pipes, repl, restarts>>

\* ensureJoinJobForNode: a new job, unless one is pending.
Create(c) ==
  /\ CallAt(c, "idle")
  /\ \A j \in JoinJobs : ~isJoinJobPendingStatus(jobs[j].status)
  /\ \E j \in JoinJobs :
       /\ jobs[j] = NoJob
       /\ jobs' = [jobs EXCEPT ![j].status = "REGISTERED"]
       /\ calls' = [calls EXCEPT ![c] = [IdleCall EXCEPT !.op = "create", !.pc = "reset_save",
                                                         !.job = j, !.copy = jobs']]
  /\ UNCHANGED <<stored, cancels, pipes, repl, restarts>>

\* The run that cancels[j] names is told to stop, and the entry deleted.
cancelJoinJobPipeline(j, why) ==
  /\ pipes' = IF cancels[j] = 0 THEN pipes ELSE [pipes EXCEPT ![cancels[j]].stop = why]
  /\ cancels' = [cancels EXCEPT ![j] = 0]

\* Cancel and retry begin with it.
CancelOrRetry(c) ==
  /\ CallAt(c, "idle")
  /\ \E j \in JoinJobs, op \in {"cancel", "retry"} :
       /\ jobs[j] # NoJob
       /\ calls' = [calls EXCEPT ![c] = [IdleCall EXCEPT !.op = op, !.pc = op, !.job = j]]
       /\ cancelJoinJobPipeline(j, "call")
  /\ UNCHANGED <<jobs, stored, repl, restarts>>

\* Removing the node collects its jobs, and cancels their runs one by one; it
\* leaves the jobs as they are.
RemoveNode(c) ==
  /\ CallAt(c, "idle")
  /\ calls' = [calls EXCEPT ![c] = [IdleCall EXCEPT !.op = "remove", !.pc = "remove",
                                      !.todo = {j \in JoinJobs : jobs[j] # NoJob}]]
  /\ UNCHANGED <<jobs, stored, cancels, pipes, repl, restarts>>

cancelNodeJoinJobs(c) ==
  /\ CallAt(c, "remove")
  /\ \E j \in calls[c].todo :
       /\ cancelJoinJobPipeline(j, "removal")
       /\ calls' = [calls EXCEPT ![c].todo = @ \ {j}]
  /\ UNCHANGED <<jobs, stored, repl, restarts>>

NodeRemoved(c) ==
  /\ CallAt(c, "remove") /\ calls[c].todo = {}
  /\ calls' = [calls EXCEPT ![c] = [IdleCall EXCEPT !.pc = "done"]]
  /\ UNCHANGED <<jobs, stored, cancels, pipes, repl, restarts>>

handleClusterJoinJobCancel(c) ==
  /\ CallAt(c, "cancel")
  /\ UpdateByCall(c, [NoJob EXCEPT !.status = "CANCELED"], "cancel_save")
  /\ UNCHANGED <<stored, cancels, pipes, repl, restarts>>

handleClusterJoinJobRetry(c) ==
  /\ CallAt(c, "retry")
  /\ UpdateByCall(c, [NoJob EXCEPT !.status = "REGISTERED"], "reset_save")
  /\ UNCHANGED <<stored, cancels, pipes, repl, restarts>>

\* launchJoinJobPipeline: the running pipeline is cancelled, ...
LaunchCancel(c) ==
  /\ CallAt(c, "launch")
  /\ cancelJoinJobPipeline(calls[c].job, "call")
  /\ CallTo(c, "mark")
  /\ UNCHANGED <<jobs, stored, repl, restarts>>

\* ... the job gets the token and status of the new run, whatever its status
\* is by now; a run from the beginning forgets what an earlier one recorded.
Launched(job, r, phase) ==
  IF phase = "SNAPSHOTTING"
  THEN [NoJob EXCEPT !.status = phase, !.token = r, !.ckpt = phase]
  ELSE [job EXCEPT !.status = phase, !.token = r, !.ckpt = phase]

LaunchMark(c) ==
  /\ CallAt(c, "mark")
  /\ FreeTokens # {}
  /\ jobs' = [jobs EXCEPT ![calls[c].job] = Launched(@, NextToken, "SNAPSHOTTING")]
  /\ calls' = [calls EXCEPT ![c].pc = "mark_save", ![c].copy = jobs', ![c].token = NextToken]
  /\ UNCHANGED <<stored, cancels, pipes, repl, restarts>>

\* ... and setJoinJobCancel and the goroutine follow the write.
Pipe(j, phase) == [NoPipe EXCEPT !.pc = "exec", !.job = j, !.phase = phase]

LaunchGo(c) ==
  LET r == calls[c].token IN
  /\ CallAt(c, "go")
  /\ cancels' = [cancels EXCEPT ![calls[c].job] = r]
  /\ pipes' = [pipes EXCEPT ![r] = Pipe(calls[c].job, "SNAPSHOTTING")]
  /\ calls' = [calls EXCEPT ![c] = [IdleCall EXCEPT !.pc = "done"]]
  /\ UNCHANGED <<jobs, stored, repl, restarts>>

CallStep(c) ==
  \/ cancelNodeJoinJobs(c) \/ NodeRemoved(c)
  \/ handleClusterJoinJobCancel(c) \/ handleClusterJoinJobRetry(c)
  \/ LaunchCancel(c) \/ LaunchMark(c) \/ LaunchGo(c)
  \/ CallSave(c, "cancel_save", "done") \/ CallSave(c, "reset_save", "launch")
  \/ CallSave(c, "mark_save", "go")

-----------------------------------------------------------------------------
(* The pipeline of a run.                                                  *)

PipeAt(r, label) == pipes[r].pc = label
JobOf(r)     == jobs[pipes[r].job]
PipeTo(r, label) == pipes' = [pipes EXCEPT ![r].pc = label]

\* Run r still is the one the job was last started with.
OwnsJob(r) == JobOf(r).token = r
Closed(r)  == JobOf(r).status \in {"CANCELED", "FAILED"}

\* updateJoinJob by a run, then the write, then label.
UpdateByRun(r, job, label) ==
  /\ jobs' = [jobs EXCEPT ![pipes[r].job] = job]
  /\ pipes' = [pipes EXCEPT ![r].pc = "save", ![r].copy = jobs', ![r].next = label]
  /\ UNCHANGED <<stored, cancels, calls, repl, restarts>>

PipeSave(r) ==
  /\ PipeAt(r, "save")
  /\ stored' = sanitizeJoinJobForPersist(pipes[r].copy)
  /\ pipes' = [pipes EXCEPT ![r].pc = pipes[r].next, ![r].copy = Nothing, ![r].next = Nothing]
  /\ UNCHANGED <<jobs, cancels, calls, repl, restarts>>

Earn(r, job) == IF OwnsJob(r) THEN [job EXCEPT !.earned = @ \cup {pipes[r].phase}] ELSE job

\* SnapshotNode ends with recordJoinSnapshot: it does not ask for the token.
SnapshotNode(r) ==
  /\ PipeAt(r, "exec") /\ pipes[r].phase = "SNAPSHOTTING"
  /\ UpdateByRun(r, Earn(r, [JobOf(r) EXCEPT !.target = repl]), "complete")

\* CatchUpNode: markJoinCatchUpStarted, then waitForReplicationTarget, which
\* records the offset at every poll; neither asks for the token.
CatchUpStart(r) ==
  /\ PipeAt(r, "exec") /\ pipes[r].phase = "CATCHING_UP"
  /\ UpdateByRun(r, [JobOf(r) EXCEPT !.reached = FALSE], "catchup")

CatchUpNode(r) ==
  /\ PipeAt(r, "catchup")
  /\ repl >= JobOf(r).target
  /\ UpdateByRun(r, Earn(r, [JobOf(r) EXCEPT !.reached = TRUE]), "complete")

\* runJoinConsistencyCheck: the high-water mark was reached, if there is one.
runJoinConsistencyCheck(job) == job.target = 0 \/ job.reached

\* VerifyNode after a stable window; the check is repeated by executeJoinPhase.
VerifyNode(r) ==
  /\ PipeAt(r, "exec") /\ pipes[r].phase = "VERIFYING"
  /\ runJoinConsistencyCheck(JobOf(r))
  /\ UpdateByRun(r, Earn(r, [JobOf(r) EXCEPT !.verified = "VERIFIED"]), "checked")

VerifyAgain(r) ==
  /\ PipeAt(r, "checked")
  /\ PipeTo(r, IF runJoinConsistencyCheck(JobOf(r)) THEN "complete" ELSE "failed")
  /\ UNCHANGED <<jobs, stored, cancels, calls, repl, restarts>>

\* failedVerification records its verdict, also for a run that was cancelled.
VerifyFails(r) ==
  /\ PipeAt(r, "exec") /\ pipes[r].phase = "VERIFYING"
  /\ UpdateByRun(r, [JobOf(r) EXCEPT !.verified = "FAILED"], "failed")

\* A phase fails (node unknown or not standby, replication unhealthy, sync
\* transaction failed or timed out, target not reached in time) ...
PhaseFails(r) ==
  /\ \/ PipeAt(r, "exec") /\ pipes[r].phase # "VERIFYING"
     \/ PipeAt(r, "catchup")
  /\ PipeTo(r, "failed")
  /\ UNCHANGED <<jobs, stored, cancels, calls, repl, restarts>>

\* ... or returns the error of its cancelled context, which handleJoinPhaseError
\* does not record.
PhaseCanceled(r) ==
  /\ pipes[r].stop # "no"
  /\ \/ PipeAt(r, "exec") /\ pipes[r].phase # "VERIFYING"
     \/ PipeAt(r, "catchup")
  /\ PipeTo(r, "exit")
  /\ UNCHANGED <<jobs, stored, cancels, calls, repl, restarts>>

handleJoinPhaseError(r) ==
  /\ PipeAt(r, "failed")
  /\ UpdateByRun(r, IF OwnsJob(r)
                    THEN [JobOf(r) EXCEPT !.status = "FAILED", !.token = 0, !.ckpt = Nothing]
                    ELSE JobOf(r), "exit")

\* The phase is completed whoever owns the job.
completeJoinPhase_AnyRun(r) ==
  /\ PipeAt(r, "complete")
  /\ UpdateByRun(r, [JobOf(r) EXCEPT !.token = r,
                       !.ckpt = IF pipes[r].phase = "VERIFYING" THEN Nothing ELSE pipes[r].phase],
                 "completed")

\* completeJoinPhase: the checkpoint stays resumable except after the last phase.
completeJoinPhase(r) ==
  /\ PipeAt(r, "complete")
  /\ UpdateByRun(r, IF OwnsJob(r)
                    THEN [JobOf(r) EXCEPT !.ckpt = IF pipes[r].phase = "VERIFYING"
                                                   THEN Nothing ELSE pipes[r].phase]
                    ELSE JobOf(r), "completed")

\* The job is read again before the next phase is begun, or the end reached.
PhaseFollowing(phase) == IF phase = "SNAPSHOTTING" THEN "CATCHING_UP" ELSE "VERIFYING"

NextPhase(r) ==
  /\ PipeAt(r, "completed")
  /\ pipes' = [pipes EXCEPT ![r].pc = IF ~OwnsJob(r) \/ Closed(r) THEN "exit"
                                      ELSE IF pipes[r].phase = "VERIFYING" THEN "finish" ELSE "begin",
                            ![r].phase = IF @ = "VERIFYING" THEN @ ELSE PhaseFollowing(@)]
  /\ UNCHANGED <<jobs, stored, cancels, calls, repl, restarts>>

beginJoinPhase(r) ==
  /\ PipeAt(r, "begin")
  /\ UpdateByRun(r, IF OwnsJob(r) /\ ~Closed(r)
                    THEN [JobOf(r) EXCEPT !.status = pipes[r].phase, !.ckpt = pipes[r].phase]
                    ELSE JobOf(r), "begun")

Begun(r) ==
  /\ PipeAt(r, "begun")
  /\ PipeTo(r, IF OwnsJob(r) /\ ~Closed(r) THEN "exec" ELSE "exit")
  /\ UNCHANGED <<jobs, stored, cancels, calls, repl, restarts>>

\* The end of runJoinJobPipeline.
Finish(r) ==
  /\ PipeAt(r, "finish")
  /\ UpdateByRun(r, IF OwnsJob(r)
                    THEN [JobOf(r) EXCEPT !.status = "WARM_STANDBY", !.token = 0, !.ckpt = Nothing]
                    ELSE JobOf(r), "exit")

\* The deferred clearJoinJobCancel removes the job's entry, whose run it may be.
Exit(r) ==
  /\ PipeAt(r, "exit")
  /\ pipes' = [pipes EXCEPT ![r] = [NoPipe EXCEPT !.pc = "gone", !.stop = pipes[r].stop]]
  /\ cancels' = [cancels EXCEPT ![pipes[r].job] = 0]
  /\ UNCHANGED <<jobs, stored, calls, repl, restarts>>

PipeStep(r) ==
  \/ PipeSave(r) \/ SnapshotNode(r) \/ CatchUpStart(r) \/ CatchUpNode(r)
  \/ VerifyNode(r) \/ VerifyAgain(r) \/ VerifyFails(r) \/ PhaseFails(r) \/ PhaseCanceled(r)
  \/ handleJoinPhaseError(r) \/ completeJoinPhase(r) \/ NextPhase(r)
  \/ beginJoinPhase(r) \/ Begun(r) \/ Finish(r) \/ Exit(r)

-----------------------------------------------------------------------------
(* Replication and restarts.                                               *)

Replicate ==
  /\ repl < MaxOffset
  /\ repl' = repl + 1
  /\ UNCHANGED <<jobs, stored, cancels, calls, pipes, restarts>>

\* Jobs are restored and not resumed.
restoreJoinJobs_Rests(job) == Nothing

\* The phase a restored job is resumed at.
restoreJoinJobs(job) ==
  IF isJoinJobPendingStatus(job.status) THEN resumableJoinPhase(job) ELSE Nothing

\* The process dies with every goroutine; the stored jobs are restored, and
\* pending ones are resumed one after the other before the API is served.
Restart ==
  LET resumed == {j \in JoinJobs : restoreJoinJobs(stored[j]) # Nothing} IN
  /\ restarts < MaxRestarts
  /\ restarts' = restarts + 1
  /\ \E token \in [resumed -> FreeTokens] :
       /\ \A i, j \in resumed : i # j => token[i] # token[j]
       /\ jobs' = [j \in JoinJobs |-> IF j \in resumed
                     THEN Launched(stored[j], token[j], restoreJoinJobs(stored[j])) ELSE stored[j]]
       /\ pipes' = [r \in Tokens |->
            IF \E j \in resumed : token[j] = r
            THEN LET j == CHOOSE j \in resumed : token[j] = r
                 IN  Pipe(j, restoreJoinJobs(stored[j]))
            ELSE IF pipes[r] = NoPipe THEN NoPipe ELSE [NoPipe EXCEPT !.pc = "gone"]]
       /\ cancels' = [j \in JoinJobs |-> IF j \in resumed THEN token[j] ELSE 0]
  /\ stored' = sanitizeJoinJobForPersist(jobs')
  /\ calls' = [c \in JoinCalls |-> IF CallAt(c, "idle") THEN IdleCall ELSE [IdleCall EXCEPT !.pc = "done"]]
  /\ UNCHANGED repl

JoinNext ==
  \/ \E c \in JoinCalls : Create(c) \/ CancelOrRetry(c) \/ RemoveNode(c) \/ CallStep(c)
  \/ \E r \in Tokens : PipeStep(r)
  \/ Replicate \/ Restart

\* Handlers and goroutines run on and every wait of a phase has a deadline,
\* except the stable window of the verification: it is passed eventually.
JoinFairness ==
  /\ \A c \in JoinCalls : WF_joinVars(CallStep(c))
  /\ \A r \in Tokens : WF_joinVars(PipeStep(r))

JoinSpec == JoinInit /\ [][JoinNext]_joinVars

-----------------------------------------------------------------------------
(* Properties.                                                             *)

\* A node is reported WARM_STANDBY only after its job's own runs have imported
\* the snapshot, caught up and verified, in spite of runs that were cancelled
\* and still write, of writes that reach the store in another order, and of
\* restarts that resume from what the store holds.
WarmEarned ==
  \A j \in JoinJobs : jobs[j].status = "WARM_STANDBY" => jobs[j].earned = PhaseSet

\* The run of job j was stopped because its node was removed.
RunRemoved(j) == jobs[j].token \in Tokens /\ pipes[jobs[j].token].stop = "removal"

\* A job comes to an end: it does not stay pending for want of a run, whatever
\* calls cancel and restart it and whenever the server restarts.  The exception is
\* the removal of its node while its run goes on: it stops the run and leaves the
\* job as it stands (feature_routes.go:2531-2547, cluster_join_jobs.go:870-873).
JoinSettles ==
  \A j \in JoinJobs :
    isJoinJobPendingStatus(jobs[j].status)
      ~> ~isJoinJobPendingStatus(jobs[j].status) \/ RunRemoved(j)

=============================================================================
