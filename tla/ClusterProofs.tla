---------------------------- MODULE ClusterProofs ----------------------------
(***************************************************************************)
(* Proofs about the cluster's jobs: how a standby is brought in            *)
(* (ClusterJoin), the transactions that keep the partners in step (SyncTx) *)
(* and the orchestrated failover (FailoverPlan).  Each is a specification  *)
(* of its own.                                                             *)
(***************************************************************************)
EXTENDS ClusterJoin, SyncTx, FailoverPlan, WellFoundedInduction, SequenceTheorems, TLAPS

-----------------------------------------------------------------------------
(* ClusterJoin.  A record of a job, wherever it is (in memory, in the      *)
(* store, in a copy that waits to be written), has earned the phases       *)
(* before the one it would be resumed at; and the run that owns a job has  *)
(* earned for it what its place in the pipeline calls for.                 *)

\* The phases before a phase.
Before(phase) ==
  IF phase = "SNAPSHOTTING" THEN {}
  ELSE IF phase = "CATCHING_UP" THEN {"SNAPSHOTTING"} ELSE {"SNAPSHOTTING", "CATCHING_UP"}

JobRecords ==
  [status : PendingStatus \cup {Nothing, "FAILED", "CANCELED", "WARM_STANDBY"},
   token : {0} \cup Tokens, ckpt : PhaseSet \cup {Nothing}, target : Int, reached : BOOLEAN,
   verified : {Nothing, "VERIFIED", "FAILED"}, earned : SUBSET PhaseSet]

OkJobs ==
  {job \in JobRecords :
     /\ job.ckpt \in PhaseSet => Before(job.ckpt) \subseteq job.earned
     /\ job.status \in PhaseSet => Before(job.status) \subseteq job.earned
     /\ job.status = "WARM_STANDBY" => job.earned = PhaseSet}

JobTables == [JoinJobs -> OkJobs]

RunLabels == {"exec", "catchup", "complete", "checked", "failed", "completed",
              "begin", "begun", "finish", "exit"}

\* Where run r goes on, once a write under way is done.
Label(p) == IF p.pc = "save" THEN p.next ELSE p.pc

\* What the job of a run that stands at a label of a phase has earned.
DueAt(label, phase) ==
  IF label \in {"complete", "checked", "completed"} THEN Before(phase) \cup {phase}
  ELSE IF label = "finish" THEN PhaseSet
  ELSE IF label \in {"failed", "exit"} THEN {} ELSE Before(phase)

PipeRecords ==
  [pc : RunLabels \cup {"none", "save", "gone"}, job : JoinJobs \cup {Nothing},
   phase : PhaseSet \cup {Nothing}, copy : JobTables \cup {Nothing},
   next : RunLabels \cup {Nothing}, stop : {"no", "call", "removal"}]

CallRecords ==
  [op : {"none", "create", "cancel", "retry", "remove"},
   pc : {"idle", "cancel", "retry", "remove", "cancel_save", "reset_save", "launch", "mark",
         "mark_save", "go", "done"},
   job : JoinJobs \cup {Nothing}, copy : JobTables \cup {Nothing}, token : {0} \cup Tokens,
   todo : SUBSET JoinJobs]

PipeOk(r) ==
  /\ pipes[r].pc = "save" => pipes[r].copy \in JobTables /\ pipes[r].next \in RunLabels
  /\ Label(pipes[r]) \in RunLabels =>
       /\ pipes[r].job \in JoinJobs /\ pipes[r].phase \in PhaseSet
       /\ jobs[pipes[r].job].token = r =>
            DueAt(Label(pipes[r]), pipes[r].phase) \subseteq jobs[pipes[r].job].earned

CallOk(c) ==
  /\ calls[c].pc \notin {"idle", "done", "remove"} => calls[c].job \in JoinJobs
  /\ calls[c].pc \in {"cancel_save", "reset_save", "mark_save"} => calls[c].copy \in JobTables
  /\ calls[c].pc \in {"mark_save", "go"} => calls[c].token \in Tokens

JoinInv ==
  /\ jobs \in JobTables /\ stored \in JobTables
  /\ cancels \in [JoinJobs -> {0} \cup Tokens]
  /\ calls \in [JoinCalls -> CallRecords] /\ \A c \in JoinCalls : CallOk(c)
  /\ pipes \in [Tokens -> PipeRecords] /\ \A r \in Tokens : PipeOk(r)
  /\ repl \in Int

LEMMA NoJobOk == NoJob \in OkJobs /\ NoJob.earned = {} /\ NoJob.token = 0
BY DEF NoJob, OkJobs, JobRecords, PhaseSet, PendingStatus, Nothing, Before

\* Every non-empty set of natural numbers has a least one: what an argument by
\* induction needs.
LEMMA Least ==
  ASSUME NEW T \in SUBSET Nat, T # {}
  PROVE  \E m \in T : \A q \in Nat : q < m => q \notin T
<1>1. PICK m \in T : \A q \in T : ~ (<<q, m>> \in OpToRel(<, Nat))
  BY WFMin, NatLessThanWellFounded
<1>2. ASSUME NEW q \in Nat, q < m PROVE q \notin T
  <2>1. <<q, m>> \in Nat \X Nat /\ <<q, m>>[1] = q /\ <<q, m>>[2] = m
    OBVIOUS
  <2>2. <<q, m>> \in OpToRel(<, Nat)
    BY <1>2, <2>1, Zenon DEF OpToRel
  <2> QED
    BY <1>1, <2>2, Zenon
<1> QED
  BY <1>2

\* The first free token is one of the free tokens.
LEMMA FirstToken == ASSUME MaxTokens \in Nat, FreeTokens # {}
                    PROVE  NextToken \in FreeTokens
<1>1. FreeTokens \subseteq Nat
  BY DEF FreeTokens, Tokens
<1>2. PICK r \in FreeTokens : \A q \in Nat : q < r => q \notin FreeTokens
  BY <1>1, Least
<1>3. \A q \in FreeTokens : r <= q
  BY <1>1, <1>2
<1> QED
  BY <1>2, <1>3 DEF NextToken

\* A run replaces the record of its job by one that is at least as good and
\* goes on where the record has what is due there.
LEMMA RunUpdates ==
  ASSUME JoinInv, MaxTokens \in Nat, NEW r \in Tokens, NEW job \in OkJobs, NEW label \in RunLabels,
         Label(pipes[r]) \in RunLabels, UpdateByRun(r, job, label),
         JobOf(r).earned \subseteq job.earned, job.token \in {JobOf(r).token, 0},
         job.token = r => DueAt(label, pipes[r].phase) \subseteq job.earned
  PROVE  JoinInv'
<1> DEFINE j == pipes[r].job
<1>1. j \in JoinJobs /\ pipes[r].phase \in PhaseSet /\ pipes[r] \in PipeRecords
  BY DEF JoinInv, PipeOk
<1>2. jobs' = [jobs EXCEPT ![j] = job] /\ jobs' \in JobTables
  BY <1>1 DEF UpdateByRun, JoinInv, JobTables
<1>3. /\ pipes' = [pipes EXCEPT ![r].pc = "save", ![r].copy = jobs', ![r].next = label]
      /\ UNCHANGED <<stored, cancels, calls, repl, restarts>>
  BY DEF UpdateByRun
<1>4. pipes'[r] = [pipes[r] EXCEPT !.pc = "save", !.copy = jobs', !.next = label]
  BY <1>3 DEF JoinInv
<1>5. pipes'[r] \in PipeRecords /\ pipes' \in [Tokens -> PipeRecords]
  BY <1>1, <1>2, <1>3, <1>4 DEF PipeRecords, JoinInv
<1>6. PipeOk(r)'
  <2>1. Label(pipes'[r]) = label /\ pipes'[r].job = j /\ pipes'[r].phase = pipes[r].phase
    BY <1>1, <1>4 DEF Label, PipeRecords
  <2>2. jobs'[j] = job
    BY <1>1, <1>2 DEF JoinInv, JobTables
  <2> QED
    BY <1>1, <1>2, <1>4, <2>1, <2>2 DEF PipeOk, PipeRecords
<1>7. ASSUME NEW q \in Tokens, q # r PROVE PipeOk(q)'
  <2>1. pipes'[q] = pipes[q] /\ PipeOk(q)
    BY <1>3, <1>7 DEF JoinInv
  <2>2. ASSUME Label(pipes[q]) \in RunLabels, jobs'[pipes[q].job].token = q
        PROVE  DueAt(Label(pipes[q]), pipes[q].phase) \subseteq jobs'[pipes[q].job].earned
    <3>1. pipes[q].job \in JoinJobs
      BY <2>1, <2>2 DEF PipeOk
    <3>2. CASE pipes[q].job = j
      <4>1. jobs'[j] = job
        BY <1>1, <1>2 DEF JoinInv, JobTables
      <4>2. q # 0
        BY DEF Tokens
      <4>3. jobs[j].token = q
        BY <2>2, <3>2, <4>1, <4>2 DEF JobOf
      <4> QED
        BY <2>1, <2>2, <3>2, <4>1, <4>3 DEF PipeOk, JobOf
    <3>3. CASE pipes[q].job # j
      BY <1>2, <2>1, <2>2, <3>1, <3>3 DEF PipeOk, JoinInv, JobTables
    <3> QED
      BY <3>2, <3>3
  <2> QED
    BY <2>1, <2>2 DEF PipeOk
<1>8. ASSUME NEW c \in JoinCalls PROVE CallOk(c)'
  BY <1>3 DEF CallOk, JoinInv
<1> QED
  BY <1>2, <1>3, <1>5, <1>6, <1>7, <1>8 DEF JoinInv

\* A step of run r that leaves the jobs alone and goes on where no more is due.
LEMMA RunGoesOn ==
  ASSUME JoinInv, NEW r \in Tokens, Label(pipes[r]) \in RunLabels,
         NEW p \in PipeRecords, p.pc \in RunLabels, p.phase \in PhaseSet, p.job = pipes[r].job,
         pipes' = [pipes EXCEPT ![r] = p], stored' \in JobTables,
         JobOf(r).token = r => DueAt(p.pc, p.phase) \subseteq JobOf(r).earned,
         UNCHANGED <<jobs, cancels, calls, repl, restarts>>
  PROVE  JoinInv'
<1>1. pipes[r] \in PipeRecords /\ PipeOk(r)
  BY DEF JoinInv
<1>2. pipes'[r] = p /\ pipes' \in [Tokens -> PipeRecords]
  BY DEF JoinInv
<1>3. p.pc # "save" /\ Label(p) = p.pc
  BY DEF RunLabels, Label
<1>5. PipeOk(r)'
  BY <1>1, <1>2, <1>3 DEF PipeOk, JobOf
<1>6. ASSUME NEW q \in Tokens, q # r PROVE PipeOk(q)'
  <2>1. pipes'[q] = pipes[q] /\ PipeOk(q)
    BY <1>6 DEF JoinInv
  <2> QED
    BY <2>1 DEF PipeOk
<1>7. ASSUME NEW c \in JoinCalls PROVE CallOk(c)'
  BY DEF CallOk, JoinInv
<1> QED
  BY <1>2, <1>5, <1>6, <1>7 DEF JoinInv

LEMMA PersistedTables ==
  ASSUME NEW copy \in JobTables
  PROVE  sanitizeJoinJobForPersist(copy) \in JobTables
<1>1. ASSUME NEW job \in OkJobs PROVE [job EXCEPT !.token = 0] \in OkJobs
  <2>1. [job EXCEPT !.token = 0] \in JobRecords
    BY DEF OkJobs, JobRecords
  <2> QED
    BY <2>1 DEF OkJobs, JobRecords
<1> QED
  BY <1>1 DEF sanitizeJoinJobForPersist, JobTables

\* A launched run owns the job, which has earned what the phase calls for.
LEMMA LaunchedOk ==
  ASSUME NEW job \in OkJobs, NEW r \in Tokens, NEW phase \in PhaseSet, Before(phase) \subseteq job.earned
  PROVE  LET l == Launched(job, r, phase)
         IN  l \in OkJobs /\ l.token = r /\ Before(phase) \subseteq l.earned
<1> DEFINE a == [NoJob EXCEPT !.status = phase, !.token = r, !.ckpt = phase]
           b == [job EXCEPT !.status = phase, !.token = r, !.ckpt = phase]
<1>1. CASE phase = "SNAPSHOTTING"
  <2>1. a \in JobRecords /\ a.status = phase /\ a.ckpt = phase /\ a.token = r /\ a.earned = {}
    BY NoJobOk DEF OkJobs, JobRecords, PendingStatus
  <2>2. Before(phase) = {} /\ phase # "WARM_STANDBY"
    BY <1>1 DEF Before
  <2>3. a \in OkJobs
    BY <2>1, <2>2 DEF OkJobs
  <2> QED
    BY <1>1, <2>1, <2>2, <2>3 DEF Launched
<1>2. CASE phase # "SNAPSHOTTING"
  <2>1. b \in JobRecords /\ b.status = phase /\ b.ckpt = phase /\ b.token = r /\ b.earned = job.earned
    BY DEF OkJobs, JobRecords, PendingStatus
  <2>2. phase # "WARM_STANDBY"
    BY DEF PhaseSet
  <2>3. b \in OkJobs
    BY <2>1, <2>2 DEF OkJobs
  <2> QED
    BY <1>2, <2>1, <2>3 DEF Launched
<1> QED
  BY <1>1, <1>2

LEMMA RestoredOk ==
  ASSUME NEW job \in OkJobs, restoreJoinJobs(job) # Nothing
  PROVE  restoreJoinJobs(job) \in PhaseSet /\ Before(restoreJoinJobs(job)) \subseteq job.earned
<1>1. isJoinJobPendingStatus(job.status) /\ restoreJoinJobs(job) = resumableJoinPhase(job)
  BY DEF restoreJoinJobs
<1>2. "SNAPSHOTTING" \in PhaseSet /\ Before("SNAPSHOTTING") = {}
  BY DEF PhaseSet, Before
<1> QED
  BY <1>1, <1>2 DEF resumableJoinPhase, OkJobs

LEMMA StoppedRun ==
  ASSUME NEW p \in PipeRecords, NEW why \in {"call", "removal"}
  PROVE  LET m == [p EXCEPT !.stop = why]
         IN  /\ m \in PipeRecords /\ m.pc = p.pc /\ m.job = p.job /\ m.phase = p.phase
             /\ m.next = p.next /\ m.copy = p.copy
BY DEF PipeRecords

\* A run that is told to stop stands where it stood.
LEMMA StopKeeps ==
  ASSUME JoinInv, NEW q \in Tokens, NEW why \in {"call", "removal"},
         pipes' = [pipes EXCEPT ![q].stop = why], UNCHANGED jobs
  PROVE  pipes' \in [Tokens -> PipeRecords] /\ \A r \in Tokens : PipeOk(r)'
<1>1. pipes[q] \in PipeRecords /\ pipes'[q] = [pipes[q] EXCEPT !.stop = why]
  BY DEF JoinInv
<1>2. pipes'[q] \in PipeRecords
  BY <1>1, StoppedRun
<1>3. /\ pipes'[q].pc = pipes[q].pc /\ pipes'[q].job = pipes[q].job /\ pipes'[q].phase = pipes[q].phase
      /\ pipes'[q].next = pipes[q].next /\ pipes'[q].copy = pipes[q].copy
  BY <1>1, StoppedRun
<1>4. PipeOk(q)'
  BY <1>3 DEF JoinInv, PipeOk, Label
<1>5. ASSUME NEW r \in Tokens, r # q PROVE PipeOk(r)'
  BY <1>5 DEF JoinInv, PipeOk, Label
<1> QED
  BY <1>2, <1>4, <1>5 DEF JoinInv

-----------------------------------------------------------------------------
(* The steps of a run.                                                     *)

LEMMA RunRecord ==
  ASSUME NEW p \in PipeRecords, NEW label \in RunLabels, NEW phase \in PhaseSet
  PROVE  LET a == [p EXCEPT !.pc = label]
             b == [p EXCEPT !.pc = label, !.phase = phase]
             c == [p EXCEPT !.pc = label, !.copy = Nothing, !.next = Nothing]
         IN  /\ a \in PipeRecords /\ a.pc = label /\ a.job = p.job /\ a.phase = p.phase
             /\ b \in PipeRecords /\ b.pc = label /\ b.job = p.job /\ b.phase = phase
             /\ c \in PipeRecords /\ c.pc = label /\ c.job = p.job /\ c.phase = p.phase
BY DEF PipeRecords

\* PipeTo, where no more is due.
LEMMA RunTo ==
  ASSUME JoinInv, NEW r \in Tokens, Label(pipes[r]) \in RunLabels, NEW label \in RunLabels,
         PipeTo(r, label), UNCHANGED <<jobs, stored, cancels, calls, repl, restarts>>,
         DueAt(label, pipes[r].phase) \subseteq DueAt(Label(pipes[r]), pipes[r].phase)
  PROVE  JoinInv'
<1> DEFINE m == [pipes[r] EXCEPT !.pc = label]
<1>1. pipes[r] \in PipeRecords /\ PipeOk(r) /\ pipes[r].phase \in PhaseSet
  BY DEF JoinInv, PipeOk
<1>2. m \in PipeRecords /\ m.pc = label /\ m.job = pipes[r].job /\ m.phase = pipes[r].phase
  BY <1>1, RunRecord
<1>3. pipes' = [pipes EXCEPT ![r] = m]
  BY DEF PipeTo
<1>4. JobOf(r).token = r => DueAt(label, pipes[r].phase) \subseteq JobOf(r).earned
  BY <1>1 DEF PipeOk, JobOf
<1>5. stored' \in JobTables
  BY DEF JoinInv
<1> HIDE DEF m
<1> QED
  BY <1>1, <1>2, <1>3, <1>4, <1>5, RunGoesOn

\* What holds of a run that is at one of its labels.
LEMMA AtLabel ==
  ASSUME JoinInv, NEW r \in Tokens, NEW label \in RunLabels, PipeAt(r, label)
  PROVE  /\ Label(pipes[r]) = label /\ pipes[r] \in PipeRecords
         /\ pipes[r].job \in JoinJobs /\ pipes[r].phase \in PhaseSet
         /\ JobOf(r) \in OkJobs
         /\ JobOf(r).token = r => DueAt(label, pipes[r].phase) \subseteq JobOf(r).earned
<1>1. Label(pipes[r]) = label
  BY DEF PipeAt, Label, RunLabels
<1> QED
  BY <1>1 DEF JoinInv, PipeOk, JobOf, JobTables

\* The records that a run writes.
LEMMA Rewritten ==
  ASSUME NEW job \in OkJobs
  PROVE  /\ \A n \in Int, b \in BOOLEAN, v \in {"VERIFIED", "FAILED"} :
              LET a == [job EXCEPT !.target = n]
                  c == [job EXCEPT !.reached = b]
                  d == [job EXCEPT !.verified = v]
              IN  /\ a \in OkJobs /\ a.earned = job.earned /\ a.token = job.token
                  /\ c \in OkJobs /\ c.earned = job.earned /\ c.token = job.token
                  /\ d \in OkJobs /\ d.earned = job.earned /\ d.token = job.token
         /\ \A ph \in PhaseSet :
              LET e == [job EXCEPT !.earned = @ \cup {ph}]
              IN  e \in OkJobs /\ e.earned = job.earned \cup {ph} /\ e.token = job.token
         /\ LET f == [job EXCEPT !.status = "FAILED", !.token = 0, !.ckpt = Nothing]
            IN  f \in OkJobs /\ f.earned = job.earned /\ f.token = 0
         /\ job.earned = PhaseSet =>
              LET g == [job EXCEPT !.status = "WARM_STANDBY", !.token = 0, !.ckpt = Nothing]
              IN  g \in OkJobs /\ g.earned = job.earned /\ g.token = 0
         /\ \A ph \in PhaseSet : Before(ph) \subseteq job.earned =>
              LET h == [job EXCEPT !.ckpt = IF ph = "VERIFYING" THEN Nothing ELSE ph]
                  k == [job EXCEPT !.status = ph, !.ckpt = ph]
              IN  /\ h \in OkJobs /\ h.earned = job.earned /\ h.token = job.token
                  /\ k \in OkJobs /\ k.earned = job.earned /\ k.token = job.token
<1> USE DEF OkJobs, JobRecords
<1>0. /\ "WARM_STANDBY" \notin PhaseSet /\ "FAILED" \notin PhaseSet /\ Nothing \notin PhaseSet
      /\ PhaseSet \subseteq PendingStatus
  BY DEF PhaseSet, PendingStatus, Nothing
<1>1. ASSUME NEW n \in Int
      PROVE  LET a == [job EXCEPT !.target = n] IN a \in OkJobs /\ a.earned = job.earned /\ a.token = job.token
  OBVIOUS
<1>2. ASSUME NEW b \in BOOLEAN
      PROVE  LET a == [job EXCEPT !.reached = b] IN a \in OkJobs /\ a.earned = job.earned /\ a.token = job.token
  OBVIOUS
<1>3. ASSUME NEW v \in {"VERIFIED", "FAILED"}
      PROVE  LET a == [job EXCEPT !.verified = v] IN a \in OkJobs /\ a.earned = job.earned /\ a.token = job.token
  OBVIOUS
<1>4. ASSUME NEW ph \in PhaseSet
      PROVE  LET e == [job EXCEPT !.earned = @ \cup {ph}]
             IN  e \in OkJobs /\ e.earned = job.earned \cup {ph} /\ e.token = job.token
  OBVIOUS
<1>5. LET f == [job EXCEPT !.status = "FAILED", !.token = 0, !.ckpt = Nothing]
      IN  f \in OkJobs /\ f.earned = job.earned /\ f.token = 0
  BY <1>0
<1>6. ASSUME job.earned = PhaseSet
      PROVE  LET g == [job EXCEPT !.status = "WARM_STANDBY", !.token = 0, !.ckpt = Nothing]
             IN  g \in OkJobs /\ g.earned = job.earned /\ g.token = 0
  BY <1>0, <1>6
<1>7. ASSUME NEW ph \in PhaseSet, Before(ph) \subseteq job.earned
      PROVE  LET h == [job EXCEPT !.ckpt = IF ph = "VERIFYING" THEN Nothing ELSE ph]
             IN  h \in OkJobs /\ h.earned = job.earned /\ h.token = job.token
  BY <1>0, <1>7
<1>8. ASSUME NEW ph \in PhaseSet, Before(ph) \subseteq job.earned
      PROVE  LET k == [job EXCEPT !.status = ph, !.ckpt = ph]
             IN  k \in OkJobs /\ k.earned = job.earned /\ k.token = job.token
  BY <1>0, <1>8
<1> HIDE DEF OkJobs, JobRecords
<1> QED
  BY <1>1, <1>2, <1>3, <1>4, <1>5, <1>6, <1>7, <1>8

LEMMA EarnOk ==
  ASSUME NEW r \in Tokens, pipes[r].phase \in PhaseSet, NEW job \in OkJobs
  PROVE  /\ Earn(r, job) \in OkJobs /\ Earn(r, job).token = job.token
         /\ job.earned \subseteq Earn(r, job).earned
         /\ OwnsJob(r) => Earn(r, job).earned = job.earned \cup {pipes[r].phase}
<1> DEFINE e == [job EXCEPT !.earned = @ \cup {pipes[r].phase}]
<1>1. e \in OkJobs /\ e.earned = job.earned \cup {pipes[r].phase} /\ e.token = job.token
  BY Rewritten
<1>2. Earn(r, job) = IF OwnsJob(r) THEN e ELSE job
  BY DEF Earn
<1> HIDE DEF e
<1> QED
  BY <1>1, <1>2

\* A phase of run r ends: the job has earned it if it is the run's own.
LEMMA PhaseEnds ==
  ASSUME JoinInv, MaxTokens \in Nat, NEW r \in Tokens, NEW from \in {"exec", "catchup"}, PipeAt(r, from),
         NEW job \in OkJobs, job.earned = JobOf(r).earned, job.token = JobOf(r).token,
         NEW label \in {"complete", "checked"}, UpdateByRun(r, Earn(r, job), label)
  PROVE  JoinInv'
<1>1. from \in RunLabels /\ label \in RunLabels /\ from \notin {"complete", "checked", "completed", "finish", "failed", "exit"}
  BY DEF RunLabels
<1>2. /\ Label(pipes[r]) \in RunLabels /\ pipes[r].phase \in PhaseSet /\ JobOf(r) \in OkJobs
      /\ JobOf(r).token = r => Before(pipes[r].phase) \subseteq JobOf(r).earned
  BY <1>1, AtLabel DEF DueAt
<1>3. /\ Earn(r, job) \in OkJobs /\ Earn(r, job).token = JobOf(r).token
      /\ JobOf(r).earned \subseteq Earn(r, job).earned
      /\ OwnsJob(r) => Earn(r, job).earned = JobOf(r).earned \cup {pipes[r].phase}
  BY <1>2, EarnOk
<1>4. Earn(r, job).token = r => DueAt(label, pipes[r].phase) \subseteq Earn(r, job).earned
  BY <1>2, <1>3 DEF DueAt, OwnsJob
<1> HIDE DEF JoinInv
<1> QED
  BY <1>1, <1>2, <1>3, <1>4, RunUpdates

\* Run r rewrites its job as f if it owns it, and goes on.
LEMMA RunRewrites ==
  ASSUME JoinInv, MaxTokens \in Nat, NEW r \in Tokens, NEW from \in RunLabels, PipeAt(r, from),
         NEW job \in OkJobs, JobOf(r).earned \subseteq job.earned, job.token \in {JobOf(r).token, 0},
         NEW label \in RunLabels, UpdateByRun(r, job, label),
         DueAt(label, pipes[r].phase) \subseteq DueAt(from, pipes[r].phase)
  PROVE  JoinInv'
<1>1. /\ Label(pipes[r]) \in RunLabels
      /\ JobOf(r).token = r => DueAt(from, pipes[r].phase) \subseteq JobOf(r).earned
  BY AtLabel
<1>2. r # 0
  BY DEF Tokens
<1>3. job.token = r => DueAt(label, pipes[r].phase) \subseteq job.earned
  BY <1>1, <1>2
<1> QED
  BY <1>1, <1>3, RunUpdates

LEMMA RunSteps == ASSUME JoinInv, MaxTokens \in Nat, NEW r \in Tokens, PipeStep(r) PROVE JoinInv'
<1> DEFINE p == pipes[r].phase
           old == JobOf(r)
<1>0. /\ \A l \in {"exec", "catchup", "complete", "checked", "failed", "completed",
                   "begin", "begun", "finish", "exit"} : l \in RunLabels
      /\ PhaseSet = {"SNAPSHOTTING", "CATCHING_UP", "VERIFYING"}
      /\ repl \in Int
  BY DEF RunLabels, PhaseSet, JoinInv
<1>1. CASE PipeSave(r)
  <2> DEFINE k == [pipes[r] EXCEPT !.pc = pipes[r].next, !.copy = Nothing, !.next = Nothing]
  <2>1. /\ pipes[r].pc = "save" /\ stored' = sanitizeJoinJobForPersist(pipes[r].copy)
        /\ pipes' = [pipes EXCEPT ![r] = k] /\ UNCHANGED <<jobs, cancels, calls, repl, restarts>>
    BY <1>1 DEF PipeSave, PipeAt
  <2>2. /\ pipes[r].copy \in JobTables /\ pipes[r].next \in RunLabels /\ pipes[r] \in PipeRecords
        /\ Label(pipes[r]) = pipes[r].next /\ pipes[r].phase \in PhaseSet
        /\ JobOf(r).token = r => DueAt(pipes[r].next, p) \subseteq JobOf(r).earned
    BY <2>1 DEF JoinInv, PipeOk, Label, JobOf
  <2>3. k \in PipeRecords /\ k.pc = pipes[r].next /\ k.job = pipes[r].job /\ k.phase = p
    BY <2>2, RunRecord
  <2>4. stored' \in JobTables
    BY <2>1, <2>2, PersistedTables
  <2> HIDE DEF k
  <2> QED
    BY <2>1, <2>2, <2>3, <2>4, RunGoesOn
<1>2. CASE SnapshotNode(r)
  <2>1. PipeAt(r, "exec") /\ UpdateByRun(r, Earn(r, [old EXCEPT !.target = repl]), "complete")
    BY <1>2 DEF SnapshotNode
  <2>2. LET a == [old EXCEPT !.target = repl]
        IN  a \in OkJobs /\ a.earned = old.earned /\ a.token = old.token
    BY <1>0, <2>1, AtLabel, Rewritten
  <2> QED
    BY <2>1, <2>2, PhaseEnds
<1>3. CASE CatchUpStart(r)
  <2>1. PipeAt(r, "exec") /\ UpdateByRun(r, [old EXCEPT !.reached = FALSE], "catchup")
    BY <1>3 DEF CatchUpStart
  <2>2. LET a == [old EXCEPT !.reached = FALSE]
        IN  a \in OkJobs /\ a.earned = old.earned /\ a.token = old.token
    BY <1>0, <2>1, AtLabel, Rewritten
  <2>3. DueAt("catchup", p) = DueAt("exec", p)
    BY DEF DueAt
  <2> QED
    BY <1>0, <2>1, <2>2, <2>3, RunRewrites
<1>4. CASE CatchUpNode(r)
  <2>1. PipeAt(r, "catchup") /\ UpdateByRun(r, Earn(r, [old EXCEPT !.reached = TRUE]), "complete")
    BY <1>4 DEF CatchUpNode
  <2>2. LET a == [old EXCEPT !.reached = TRUE]
        IN  a \in OkJobs /\ a.earned = old.earned /\ a.token = old.token
    BY <1>0, <2>1, AtLabel, Rewritten
  <2> QED
    BY <2>1, <2>2, PhaseEnds
<1>5. CASE VerifyNode(r)
  <2>1. PipeAt(r, "exec") /\ UpdateByRun(r, Earn(r, [old EXCEPT !.verified = "VERIFIED"]), "checked")
    BY <1>5 DEF VerifyNode
  <2>2. LET a == [old EXCEPT !.verified = "VERIFIED"]
        IN  a \in OkJobs /\ a.earned = old.earned /\ a.token = old.token
    BY <1>0, <2>1, AtLabel, Rewritten
  <2> QED
    BY <2>1, <2>2, PhaseEnds
<1>6. CASE VerifyAgain(r)
  <2>1. PICK label \in {"complete", "failed"} : PipeTo(r, label)
    BY <1>6 DEF VerifyAgain
  <2>2. PipeAt(r, "checked") /\ UNCHANGED <<jobs, stored, cancels, calls, repl, restarts>>
    BY <1>6 DEF VerifyAgain
  <2>3. DueAt(label, p) \subseteq DueAt("checked", p)
    BY DEF DueAt
  <2> QED
    BY <1>0, <2>1, <2>2, <2>3, AtLabel, RunTo
<1>7. CASE VerifyFails(r)
  <2>1. PipeAt(r, "exec") /\ UpdateByRun(r, [old EXCEPT !.verified = "FAILED"], "failed")
    BY <1>7 DEF VerifyFails
  <2>2. LET a == [old EXCEPT !.verified = "FAILED"]
        IN  a \in OkJobs /\ a.earned = old.earned /\ a.token = old.token
    BY <1>0, <2>1, AtLabel, Rewritten
  <2>3. DueAt("failed", p) \subseteq DueAt("exec", p)
    BY DEF DueAt
  <2> QED
    BY <1>0, <2>1, <2>2, <2>3, RunRewrites
<1>8. CASE PhaseFails(r) \/ PhaseCanceled(r)
  <2>1. PICK from \in {"exec", "catchup"}, label \in {"failed", "exit"} : PipeAt(r, from) /\ PipeTo(r, label)
    BY <1>8 DEF PhaseFails, PhaseCanceled
  <2>2. UNCHANGED <<jobs, stored, cancels, calls, repl, restarts>>
    BY <1>8 DEF PhaseFails, PhaseCanceled
  <2>3. DueAt(label, p) \subseteq DueAt(from, p)
    BY DEF DueAt
  <2> QED
    BY <1>0, <2>1, <2>2, <2>3, AtLabel, RunTo
<1>9. CASE handleJoinPhaseError(r)
  <2> DEFINE f == [old EXCEPT !.status = "FAILED", !.token = 0, !.ckpt = Nothing]
  <2>1. PICK job \in {f, old} : PipeAt(r, "failed") /\ UpdateByRun(r, job, "exit")
    BY <1>9 DEF handleJoinPhaseError
  <2>2. old \in OkJobs /\ f \in OkJobs /\ f.earned = old.earned /\ f.token = 0
    BY <1>0, <2>1, AtLabel, Rewritten
  <2>3. DueAt("exit", p) \subseteq DueAt("failed", p)
    BY DEF DueAt
  <2> HIDE DEF f
  <2> QED
    BY <1>0, <2>1, <2>2, <2>3, RunRewrites
<1>10. CASE completeJoinPhase(r)
  <2> DEFINE h == [old EXCEPT !.ckpt = IF p = "VERIFYING" THEN Nothing ELSE p]
             job == IF OwnsJob(r) THEN h ELSE old
  <2>1. PipeAt(r, "complete") /\ UpdateByRun(r, job, "completed")
    BY <1>10 DEF completeJoinPhase
  <2>2. old \in OkJobs /\ p \in PhaseSet /\ (OwnsJob(r) => Before(p) \subseteq old.earned)
    BY <1>0, <2>1, AtLabel DEF DueAt, OwnsJob
  <2>3. OwnsJob(r) => h \in OkJobs /\ h.earned = old.earned /\ h.token = old.token
    BY <2>2, Rewritten
  <2>4. job \in OkJobs /\ job.earned = old.earned /\ job.token = old.token
    BY <2>2, <2>3
  <2>5. DueAt("completed", p) \subseteq DueAt("complete", p)
    BY DEF DueAt
  <2> HIDE DEF job
  <2> QED
    BY <1>0, <2>1, <2>4, <2>5, RunRewrites
<1>11. CASE NextPhase(r)
  <2> DEFINE label == IF ~OwnsJob(r) \/ Closed(r) THEN "exit"
                      ELSE IF p = "VERIFYING" THEN "finish" ELSE "begin"
             phase == IF p = "VERIFYING" THEN p ELSE PhaseFollowing(p)
             n == [pipes[r] EXCEPT !.pc = label, !.phase = phase]
  <2>1. /\ PipeAt(r, "completed") /\ UNCHANGED <<jobs, stored, cancels, calls, repl, restarts>>
        /\ pipes' = [pipes EXCEPT ![r].pc = label, ![r].phase = phase]
    BY <1>11 DEF NextPhase
  <2>2. pipes' = [pipes EXCEPT ![r] = n]
    BY <2>1 DEF JoinInv
  <2>3. /\ Label(pipes[r]) \in RunLabels /\ pipes[r] \in PipeRecords /\ p \in PhaseSet
        /\ old.token = r => Before(p) \cup {p} \subseteq old.earned
    BY <1>0, <2>1, AtLabel DEF DueAt
  <2>4. label \in RunLabels /\ phase \in PhaseSet
    BY <1>0 DEF PhaseFollowing
  <2>5. n \in PipeRecords /\ n.pc = label /\ n.job = pipes[r].job /\ n.phase = phase
    <3> HIDE DEF label, phase
    <3>1. pipes[r] \in PipeRecords
      BY <2>3
    <3>2. n \in PipeRecords
      BY <2>4, <3>1 DEF PipeRecords
    <3>3. n.pc = label
      BY <2>4, <3>1 DEF PipeRecords
    <3>4. n.job = pipes[r].job
      BY <2>4, <3>1 DEF PipeRecords
    <3>5. n.phase = phase
      BY <2>4, <3>1 DEF PipeRecords
    <3> QED
      BY <3>2, <3>3, <3>4, <3>5
  <2>6. old.token = r => DueAt(label, phase) \subseteq old.earned
    BY <1>0, <2>3 DEF DueAt, Before, PhaseFollowing, OwnsJob
  <2>7. stored' \in JobTables
    BY <2>1 DEF JoinInv
  <2> HIDE DEF n, label, phase
  <2> QED
    BY <2>1, <2>2, <2>3, <2>4, <2>5, <2>6, <2>7, RunGoesOn
<1>12. CASE beginJoinPhase(r)
  <2> DEFINE k == [old EXCEPT !.status = p, !.ckpt = p]
             job == IF OwnsJob(r) /\ ~Closed(r) THEN k ELSE old
  <2>1. PipeAt(r, "begin") /\ UpdateByRun(r, job, "begun")
    BY <1>12 DEF beginJoinPhase
  <2>2. old \in OkJobs /\ p \in PhaseSet /\ (OwnsJob(r) => Before(p) \subseteq old.earned)
    BY <1>0, <2>1, AtLabel DEF DueAt, OwnsJob
  <2>3. OwnsJob(r) => k \in OkJobs /\ k.earned = old.earned /\ k.token = old.token
    BY <2>2, Rewritten
  <2>4. job \in OkJobs /\ job.earned = old.earned /\ job.token = old.token
    BY <2>2, <2>3
  <2>5. DueAt("begun", p) \subseteq DueAt("begin", p)
    BY DEF DueAt
  <2> HIDE DEF job
  <2> QED
    BY <1>0, <2>1, <2>4, <2>5, RunRewrites
<1>13. CASE Begun(r)
  <2>1. PICK label \in {"exec", "exit"} : PipeTo(r, label)
    BY <1>13 DEF Begun
  <2>2. PipeAt(r, "begun") /\ UNCHANGED <<jobs, stored, cancels, calls, repl, restarts>>
    BY <1>13 DEF Begun
  <2>3. DueAt(label, p) \subseteq DueAt("begun", p)
    BY DEF DueAt
  <2> QED
    BY <1>0, <2>1, <2>2, <2>3, AtLabel, RunTo
<1>14. CASE Finish(r)
  <2> DEFINE g == [old EXCEPT !.status = "WARM_STANDBY", !.token = 0, !.ckpt = Nothing]
             job == IF OwnsJob(r) THEN g ELSE old
  <2>1. PipeAt(r, "finish") /\ UpdateByRun(r, job, "exit")
    BY <1>14 DEF Finish
  <2>2. old \in OkJobs /\ (OwnsJob(r) => PhaseSet \subseteq old.earned)
    BY <1>0, <2>1, AtLabel DEF DueAt, OwnsJob
  <2>3. old.earned \subseteq PhaseSet
    BY <2>2 DEF OkJobs, JobRecords
  <2>4. OwnsJob(r) => g \in OkJobs /\ g.earned = old.earned /\ g.token = 0
    <3>1. OwnsJob(r) => old.earned = PhaseSet
      BY <2>2, <2>3
    <3> QED
      BY <2>2, <3>1, Rewritten
  <2>5. job \in OkJobs /\ job.earned = old.earned /\ job.token \in {old.token, 0}
    BY <2>2, <2>4
  <2>6. DueAt("exit", p) \subseteq DueAt("finish", p)
    BY DEF DueAt
  <2> HIDE DEF job
  <2> QED
    BY <1>0, <2>1, <2>5, <2>6, RunRewrites
<1>15. CASE Exit(r)
  <2>1. /\ PipeAt(r, "exit") /\ pipes' = [pipes EXCEPT ![r] = [NoPipe EXCEPT !.pc = "gone", !.stop = pipes[r].stop]]
        /\ cancels' = [cancels EXCEPT ![pipes[r].job] = 0] /\ UNCHANGED <<jobs, stored, calls, repl, restarts>>
    BY <1>15 DEF Exit
  <2>0. pipes[r].stop \in {"no", "call", "removal"}
    BY DEF JoinInv, PipeRecords
  <2>2. LET g == [NoPipe EXCEPT !.pc = "gone", !.stop = pipes[r].stop]
        IN  g \in PipeRecords /\ g.pc = "gone"
    BY <2>0 DEF NoPipe, PipeRecords, Nothing
  <2>3. "gone" \notin RunLabels /\ "gone" # "save"
    BY DEF RunLabels
  <2>4. pipes' \in [Tokens -> PipeRecords] /\ PipeOk(r)'
    BY <2>1, <2>2, <2>3 DEF JoinInv, PipeOk, Label
  <2>5. ASSUME NEW q \in Tokens, q # r PROVE PipeOk(q)'
    BY <2>1, <2>5 DEF JoinInv, PipeOk
  <2>6. cancels' \in [JoinJobs -> {0} \cup Tokens]
    BY <2>1 DEF JoinInv
  <2>7. \A c \in JoinCalls : CallOk(c)'
    BY <2>1 DEF JoinInv, CallOk
  <2> QED
    BY <2>1, <2>4, <2>5, <2>6, <2>7 DEF JoinInv
<1> QED
  BY <1>1, <1>2, <1>3, <1>4, <1>5, <1>6, <1>7, <1>8, <1>9, <1>10, <1>11, <1>12, <1>13, <1>14, <1>15
  DEF PipeStep

-----------------------------------------------------------------------------
(* The steps of API calls, replication and restarts.                       *)

\* A job is started over by a call: under no token, or under a token whose run
\* does not exist yet.
LEMMA StartedOver ==
  ASSUME JoinInv, NEW j \in JoinJobs, NEW job \in OkJobs, NEW c \in JoinCalls, NEW call \in CallRecords,
         jobs' = [jobs EXCEPT ![j] = job], calls' = [calls EXCEPT ![c] = call],
         job.token \in Tokens => pipes[job.token] = NoPipe,
         UNCHANGED <<stored, cancels, pipes, repl, restarts>>, CallOk(c)'
  PROVE  JoinInv'
<1>1. jobs' \in JobTables /\ jobs'[j] = job
  BY DEF JoinInv, JobTables
<1>2. calls' \in [JoinCalls -> CallRecords]
  BY DEF JoinInv
<1>3. ASSUME NEW d \in JoinCalls, d # c PROVE CallOk(d)'
  <2>1. calls'[d] = calls[d] /\ CallOk(d)
    BY <1>3 DEF JoinInv
  <2> QED
    BY <2>1 DEF CallOk
<1>4. ASSUME NEW r \in Tokens PROVE PipeOk(r)'
  <2>1. PipeOk(r)
    BY DEF JoinInv
  <2>2. CASE job.token = r
    <3>1. Label(pipes[r]) = "none" /\ "none" \notin RunLabels /\ pipes[r].pc # "save"
      BY <2>2 DEF Label, NoPipe, RunLabels
    <3> QED
      BY <3>1 DEF PipeOk
  <2>3. CASE job.token # r
    <3>1. ASSUME Label(pipes[r]) \in RunLabels, jobs'[pipes[r].job].token = r
          PROVE  pipes[r].job \in JoinJobs /\ jobs'[pipes[r].job] = jobs[pipes[r].job]
      BY <1>1, <2>1, <2>3, <3>1 DEF PipeOk, JoinInv, JobTables
    <3> QED
      BY <2>1, <3>1 DEF PipeOk
  <2> QED
    BY <2>2, <2>3
<1> QED
  BY <1>1, <1>2, <1>3, <1>4 DEF JoinInv

\* A step of a call that leaves the jobs alone.
LEMMA CallGoesOn ==
  ASSUME JoinInv, NEW c \in JoinCalls, NEW call \in CallRecords,
         calls' = [calls EXCEPT ![c] = call], CallOk(c)', UNCHANGED <<jobs, repl, restarts>>,
         stored' \in JobTables, cancels' \in [JoinJobs -> {0} \cup Tokens],
         pipes' \in [Tokens -> PipeRecords], \A r \in Tokens : PipeOk(r)'
  PROVE  JoinInv'
<1>1. calls' \in [JoinCalls -> CallRecords]
  BY DEF JoinInv
<1>2. ASSUME NEW d \in JoinCalls, d # c PROVE CallOk(d)'
  <2>1. calls'[d] = calls[d] /\ CallOk(d)
    BY <1>2 DEF JoinInv
  <2> QED
    BY <2>1 DEF CallOk
<1> QED
  BY <1>1, <1>2 DEF JoinInv

LEMMA PipesKept ==
  ASSUME JoinInv, UNCHANGED <<jobs, pipes>>
  PROVE  pipes' \in [Tokens -> PipeRecords] /\ \A r \in Tokens : PipeOk(r)'
BY DEF JoinInv, PipeOk

\* cancelJoinJobPipeline of job j.
LEMMA PipelineCancelled ==
  ASSUME JoinInv, NEW j \in JoinJobs, NEW why \in {"call", "removal"}, UNCHANGED jobs,
         cancelJoinJobPipeline(j, why)
  PROVE  /\ cancels' \in [JoinJobs -> {0} \cup Tokens]
         /\ pipes' \in [Tokens -> PipeRecords] /\ \A r \in Tokens : PipeOk(r)'
<1>1. cancels[j] \in {0} \cup Tokens /\ cancels' \in [JoinJobs -> {0} \cup Tokens]
  BY DEF JoinInv, cancelJoinJobPipeline
<1>2. CASE cancels[j] = 0
  BY <1>1, <1>2, PipesKept DEF cancelJoinJobPipeline
<1>3. CASE cancels[j] # 0
  BY <1>1, <1>3, StopKeeps DEF cancelJoinJobPipeline
<1> QED
  BY <1>1, <1>2, <1>3

LEMMA ResetJobs ==
  \A s \in {"REGISTERED", "CANCELED"} :
    LET job == [NoJob EXCEPT !.status = s] IN job \in OkJobs /\ job.token = 0
<1> SUFFICES ASSUME NEW s \in {"REGISTERED", "CANCELED"}
             PROVE  LET job == [NoJob EXCEPT !.status = s] IN job \in OkJobs /\ job.token = 0
  OBVIOUS
<1>1. s \notin PhaseSet /\ s # "WARM_STANDBY" /\ s \in PendingStatus \cup {"CANCELED"}
  BY DEF PhaseSet, PendingStatus
<1> QED
  BY <1>1, NoJobOk DEF OkJobs, JobRecords

LEMMA CallSteps ==
  ASSUME JoinInv, MaxTokens \in Nat, NEW c \in JoinCalls, Create(c) \/ CancelOrRetry(c) \/ RemoveNode(c) \/ CallStep(c)
  PROVE  JoinInv'
<1>0. /\ calls[c] \in CallRecords /\ CallOk(c) /\ cancels \in [JoinJobs -> {0} \cup Tokens]
      /\ stored \in JobTables /\ jobs \in JobTables /\ 0 \notin Tokens
  BY DEF JoinInv, Tokens
<1>1. CASE Create(c)
  <2>1. PICK j \in JoinJobs :
          /\ jobs[j] = NoJob /\ jobs' = [jobs EXCEPT ![j].status = "REGISTERED"]
          /\ calls' = [calls EXCEPT ![c] = [IdleCall EXCEPT !.op = "create", !.pc = "reset_save",
                                                            !.job = j, !.copy = jobs']]
    BY <1>1 DEF Create
  <2> DEFINE job == [NoJob EXCEPT !.status = "REGISTERED"]
             call == [IdleCall EXCEPT !.op = "create", !.pc = "reset_save", !.job = j, !.copy = jobs']
  <2>2. job \in OkJobs /\ job.token = 0 /\ jobs' = [jobs EXCEPT ![j] = job]
    BY <2>1, ResetJobs
  <2>3. jobs' \in JobTables
    BY <1>0, <2>2 DEF JobTables
  <2>4. call \in CallRecords /\ call.pc = "reset_save" /\ call.job = j /\ call.copy = jobs'
    BY <2>3 DEF CallRecords, IdleCall
  <2>5. calls'[c] = call
    BY <2>1 DEF JoinInv
  <2>6. CallOk(c)'
    BY <2>3, <2>4, <2>5 DEF CallOk
  <2>7. UNCHANGED <<stored, cancels, pipes, repl, restarts>>
    BY <1>1 DEF Create
  <2> HIDE DEF job, call
  <2>8. calls' = [calls EXCEPT ![c] = call]
    BY <2>1 DEF call
  <2> QED
    BY <1>0, <2>2, <2>4, <2>6, <2>7, <2>8, StartedOver
<1>2. CASE CancelOrRetry(c)
  <2>1. PICK j \in JoinJobs, op \in {"cancel", "retry"} :
          /\ calls' = [calls EXCEPT ![c] = [IdleCall EXCEPT !.op = op, !.pc = op, !.job = j]]
          /\ cancelJoinJobPipeline(j, "call")
    BY <1>2 DEF CancelOrRetry
  <2> DEFINE call == [IdleCall EXCEPT !.op = op, !.pc = op, !.job = j]
  <2>2. call \in CallRecords /\ call.pc = op /\ call.job = j
    BY DEF CallRecords, IdleCall, Nothing
  <2>3. calls'[c] = call
    BY <2>1 DEF JoinInv
  <2>4. CallOk(c)'
    BY <2>2, <2>3 DEF CallOk
  <2>5. UNCHANGED <<jobs, stored, repl, restarts>>
    BY <1>2 DEF CancelOrRetry
  <2> HIDE DEF call
  <2>6. calls' = [calls EXCEPT ![c] = call]
    BY <2>1 DEF call
  <2> QED
    BY <1>0, <2>1, <2>2, <2>4, <2>5, <2>6, PipelineCancelled, CallGoesOn
<1>3. CASE handleClusterJoinJobCancel(c) \/ handleClusterJoinJobRetry(c)
  <2>1. PICK s \in {"REGISTERED", "CANCELED"}, label \in {"cancel_save", "reset_save"} :
          UpdateByCall(c, [NoJob EXCEPT !.status = s], label)
    BY <1>3 DEF handleClusterJoinJobCancel, handleClusterJoinJobRetry
  <2> DEFINE job == [NoJob EXCEPT !.status = s]
             call == [calls[c] EXCEPT !.pc = label, !.copy = jobs']
  <2>2. calls[c].job \in JoinJobs
    BY <1>0, <1>3 DEF CallOk, handleClusterJoinJobCancel, handleClusterJoinJobRetry, CallAt
  <2>3. job \in OkJobs /\ job.token = 0
    BY ResetJobs
  <2>4. jobs' = [jobs EXCEPT ![calls[c].job] = job] /\ calls' = [calls EXCEPT ![c] = call]
    BY <2>1 DEF UpdateByCall
  <2>5. jobs' \in JobTables
    BY <1>0, <2>2, <2>3, <2>4 DEF JobTables
  <2>6. call \in CallRecords /\ call.pc = label /\ call.job = calls[c].job /\ call.copy = jobs'
    BY <1>0, <2>5 DEF CallRecords
  <2>7. calls'[c] = call
    BY <2>4 DEF JoinInv
  <2>8. CallOk(c)'
    BY <2>2, <2>5, <2>6, <2>7 DEF CallOk
  <2>9. UNCHANGED <<stored, cancels, pipes, repl, restarts>>
    BY <1>3 DEF handleClusterJoinJobCancel, handleClusterJoinJobRetry
  <2> HIDE DEF job, call
  <2> QED
    BY <1>0, <2>2, <2>3, <2>4, <2>6, <2>8, <2>9, StartedOver
<1>4. CASE LaunchCancel(c)
  <2> DEFINE j == calls[c].job
             call == [calls[c] EXCEPT !.pc = "mark"]
  <2>1. /\ j \in JoinJobs
        /\ cancelJoinJobPipeline(j, "call") /\ calls' = [calls EXCEPT ![c] = call]
        /\ UNCHANGED <<jobs, stored, repl, restarts>>
    BY <1>0, <1>4 DEF LaunchCancel, CallAt, CallTo, CallOk
  <2>2. call \in CallRecords /\ call.pc = "mark" /\ call.job = j
    BY <1>0 DEF CallRecords
  <2>3. calls'[c] = call
    BY <2>1 DEF JoinInv
  <2>4. CallOk(c)'
    BY <2>1, <2>2, <2>3 DEF CallOk
  <2> HIDE DEF call
  <2> QED
    BY <1>0, <2>1, <2>2, <2>4, PipelineCancelled, CallGoesOn
<1>5. CASE LaunchMark(c)
  <2> DEFINE j == calls[c].job
             job == Launched(jobs[j], NextToken, "SNAPSHOTTING")
             call == [calls[c] EXCEPT !.pc = "mark_save", !.copy = jobs', !.token = NextToken]
  <2>1. /\ j \in JoinJobs /\ jobs' = [jobs EXCEPT ![j] = job] /\ calls' = [calls EXCEPT ![c] = call]
        /\ UNCHANGED <<stored, cancels, pipes, repl, restarts>>
    BY <1>0, <1>5 DEF LaunchMark, CallAt, CallOk
  <2>2. NextToken \in Tokens /\ pipes[NextToken] = NoPipe
    BY <1>5, FirstToken DEF LaunchMark, FreeTokens
  <2>3. job \in OkJobs /\ job.token = NextToken
    <3>1. "SNAPSHOTTING" \in PhaseSet /\ Before("SNAPSHOTTING") = {} /\ jobs[j] \in OkJobs
      BY <1>0, <2>1 DEF PhaseSet, Before, JobTables
    <3> QED
      BY <2>2, <3>1, LaunchedOk
  <2>4. jobs' \in JobTables
    BY <1>0, <2>1, <2>3 DEF JobTables
  <2>5. call \in CallRecords /\ call.pc = "mark_save" /\ call.job = j /\ call.copy = jobs' /\ call.token = NextToken
    BY <1>0, <2>2, <2>4 DEF CallRecords
  <2>6. calls'[c] = call
    BY <2>1 DEF JoinInv
  <2>7. CallOk(c)'
    BY <2>1, <2>2, <2>4, <2>5, <2>6 DEF CallOk
  <2> HIDE DEF job, call
  <2> QED
    BY <2>1, <2>2, <2>3, <2>5, <2>7, StartedOver
<1>6. CASE LaunchGo(c)
  <2>0. PICK j \in JoinJobs, r \in Tokens : j = calls[c].job /\ r = calls[c].token
    BY <1>0, <1>6 DEF LaunchGo, CallAt, CallOk
  <2> DEFINE call == [IdleCall EXCEPT !.pc = "done"]
             pipe == Pipe(j, "SNAPSHOTTING")
  <2>1. /\ j \in JoinJobs /\ r \in Tokens /\ cancels' = [cancels EXCEPT ![j] = r]
        /\ pipes' = [pipes EXCEPT ![r] = pipe] /\ calls' = [calls EXCEPT ![c] = call]
        /\ UNCHANGED <<jobs, stored, repl, restarts>>
    BY <1>0, <1>6, <2>0 DEF LaunchGo, CallAt, CallOk
  <2>2. call \in CallRecords /\ call.pc = "done"
    BY DEF CallRecords, IdleCall, Nothing
  <2>3. CallOk(c)'
    <3>1. calls'[c] = call
      BY <2>1 DEF JoinInv
    <3> QED
      BY <2>2, <3>1 DEF CallOk
  <2>4. /\ pipe \in PipeRecords /\ pipe.pc = "exec" /\ pipe.job = j /\ pipe.phase = "SNAPSHOTTING"
    BY <2>1 DEF Pipe, NoPipe, PipeRecords, RunLabels, PhaseSet, Nothing
  <2> HIDE DEF pipe, call
  <2>5. PipeOk(r)'
    <3>1. pipes'[r] = pipe
      BY <2>1 DEF JoinInv
    <3>2. Label(pipe) = "exec"
      BY <2>4 DEF Label
    <3>3. DueAt("exec", "SNAPSHOTTING") = {} /\ "SNAPSHOTTING" \in PhaseSet
      BY DEF DueAt, Before, PhaseSet
    <3> QED
      BY <2>1, <2>4, <3>1, <3>2, <3>3 DEF PipeOk
  <2>6. ASSUME NEW q \in Tokens, q # r PROVE PipeOk(q)'
    BY <2>1, <2>6 DEF JoinInv, PipeOk
  <2>7. cancels' \in [JoinJobs -> {0} \cup Tokens] /\ pipes' \in [Tokens -> PipeRecords]
    BY <2>1, <2>4 DEF JoinInv
  <2> QED
    BY <1>0, <2>1, <2>2, <2>3, <2>5, <2>6, <2>7, CallGoesOn
<1>7. ASSUME NEW from \in {"cancel_save", "reset_save", "mark_save"}, NEW to \in {"done", "launch", "go"},
             to = "go" => from = "mark_save", CallSave(c, from, to)
      PROVE  JoinInv'
  <2> DEFINE call == [calls[c] EXCEPT !.pc = to, !.copy = Nothing]
  <2>1. /\ calls[c].pc = from /\ stored' = sanitizeJoinJobForPersist(calls[c].copy)
        /\ calls' = [calls EXCEPT ![c] = call] /\ UNCHANGED <<jobs, cancels, pipes, repl, restarts>>
    BY <1>7 DEF CallSave, CallAt
  <2>2. calls[c].copy \in JobTables /\ calls[c].job \in JoinJobs /\ (to = "go" => calls[c].token \in Tokens)
    BY <1>0, <1>7, <2>1 DEF CallOk
  <2>3. call \in CallRecords /\ call.pc = to /\ call.job = calls[c].job /\ call.token = calls[c].token
    BY <1>0 DEF CallRecords
  <2>4. CallOk(c)'
    <3>1. calls'[c] = call
      BY <2>1 DEF JoinInv
    <3> QED
      BY <2>2, <2>3, <3>1 DEF CallOk
  <2>5. stored' \in JobTables
    BY <2>1, <2>2, PersistedTables
  <2> HIDE DEF call
  <2> QED
    BY <1>0, <2>1, <2>3, <2>4, <2>5, PipesKept, CallGoesOn
<1>8. CASE RemoveNode(c)
  <2> DEFINE call == [IdleCall EXCEPT !.op = "remove", !.pc = "remove",
                                      !.todo = {j \in JoinJobs : jobs[j] # NoJob}]
  <2>1. calls' = [calls EXCEPT ![c] = call] /\ UNCHANGED <<jobs, stored, cancels, pipes, repl, restarts>>
    BY <1>8 DEF RemoveNode
  <2>2. call \in CallRecords /\ call.pc = "remove"
    BY DEF CallRecords, IdleCall, Nothing
  <2>3. CallOk(c)'
    <3>1. calls'[c] = call
      BY <2>1 DEF JoinInv
    <3> QED
      BY <2>2, <3>1 DEF CallOk
  <2> HIDE DEF call
  <2> QED
    BY <1>0, <2>1, <2>2, <2>3, PipesKept, CallGoesOn
<1>9. CASE cancelNodeJoinJobs(c)
  <2>1. PICK j \in calls[c].todo :
          /\ cancelJoinJobPipeline(j, "removal") /\ calls[c].pc = "remove"
          /\ calls' = [calls EXCEPT ![c].todo = @ \ {j}]
    BY <1>9 DEF cancelNodeJoinJobs, CallAt
  <2> DEFINE call == [calls[c] EXCEPT !.todo = @ \ {j}]
  <2>2. call \in CallRecords /\ call.pc = "remove" /\ j \in JoinJobs
    BY <1>0, <2>1 DEF CallRecords
  <2>3. calls' = [calls EXCEPT ![c] = call]
    BY <2>1
  <2>4. CallOk(c)'
    <3>1. calls'[c] = call
      BY <2>3 DEF JoinInv
    <3> QED
      BY <2>2, <3>1 DEF CallOk
  <2>5. UNCHANGED <<jobs, stored, repl, restarts>>
    BY <1>9 DEF cancelNodeJoinJobs
  <2> HIDE DEF call
  <2> QED
    BY <1>0, <2>1, <2>2, <2>3, <2>4, <2>5, PipelineCancelled, CallGoesOn
<1>10. CASE NodeRemoved(c)
  <2> DEFINE call == [IdleCall EXCEPT !.pc = "done"]
  <2>1. calls' = [calls EXCEPT ![c] = call] /\ UNCHANGED <<jobs, stored, cancels, pipes, repl, restarts>>
    BY <1>10 DEF NodeRemoved
  <2>2. call \in CallRecords /\ call.pc = "done"
    BY DEF CallRecords, IdleCall, Nothing
  <2>3. CallOk(c)'
    <3>1. calls'[c] = call
      BY <2>1 DEF JoinInv
    <3> QED
      BY <2>2, <3>1 DEF CallOk
  <2> HIDE DEF call
  <2> QED
    BY <1>0, <2>1, <2>2, <2>3, PipesKept, CallGoesOn
<1> QED
  BY <1>1, <1>2, <1>3, <1>4, <1>5, <1>6, <1>7, <1>8, <1>9, <1>10 DEF CallStep

\* The stored jobs are restored; those that are resumed have earned the phases
\* before the one they are resumed at.
LEMMA RestartStep == ASSUME JoinInv, Restart PROVE JoinInv'
<1> DEFINE resumed == {j \in JoinJobs : restoreJoinJobs(stored[j]) # Nothing}
           gone == [NoPipe EXCEPT !.pc = "gone"]
<1>1. PICK token \in [resumed -> FreeTokens] :
       /\ \A i, j \in resumed : i # j => token[i] # token[j]
       /\ jobs' = [j \in JoinJobs |-> IF j \in resumed
                     THEN Launched(stored[j], token[j], restoreJoinJobs(stored[j])) ELSE stored[j]]
       /\ pipes' = [r \in Tokens |->
            IF \E j \in resumed : token[j] = r
            THEN LET j == CHOOSE j \in resumed : token[j] = r
                 IN  Pipe(j, restoreJoinJobs(stored[j]))
            ELSE IF pipes[r] = NoPipe THEN NoPipe ELSE gone]
       /\ cancels' = [j \in JoinJobs |-> IF j \in resumed THEN token[j] ELSE 0]
  BY DEF Restart
<1>2. /\ stored' = sanitizeJoinJobForPersist(jobs') /\ repl' = repl
      /\ calls' = [c \in JoinCalls |-> IF CallAt(c, "idle") THEN IdleCall ELSE [IdleCall EXCEPT !.pc = "done"]]
  BY DEF Restart
<1>3. ASSUME NEW j \in resumed
      PROVE  /\ j \in JoinJobs /\ token[j] \in Tokens /\ stored[j] \in OkJobs
             /\ restoreJoinJobs(stored[j]) \in PhaseSet
             /\ Launched(stored[j], token[j], restoreJoinJobs(stored[j])) \in OkJobs
             /\ Before(restoreJoinJobs(stored[j])) \subseteq
                  Launched(stored[j], token[j], restoreJoinJobs(stored[j])).earned
  <2>1. j \in JoinJobs /\ token[j] \in Tokens /\ stored[j] \in OkJobs
    BY DEF JoinInv, JobTables, FreeTokens
  <2>2. restoreJoinJobs(stored[j]) \in PhaseSet /\ Before(restoreJoinJobs(stored[j])) \subseteq stored[j].earned
    BY <2>1, RestoredOk
  <2> QED
    BY <2>1, <2>2, LaunchedOk
<1>4. jobs' \in JobTables
  <2>1. \A j \in JoinJobs : stored[j] \in OkJobs
    BY DEF JoinInv, JobTables
  <2> QED
    BY <1>1, <1>3, <2>1 DEF JobTables
<1>5. stored' \in JobTables /\ repl' \in Int
  BY <1>2, <1>4, PersistedTables DEF JoinInv
<1>6. cancels' \in [JoinJobs -> {0} \cup Tokens]
  BY <1>1, <1>3
<1>7. calls' \in [JoinCalls -> CallRecords] /\ \A c \in JoinCalls : CallOk(c)'
  <2>1. IdleCall \in CallRecords /\ [IdleCall EXCEPT !.pc = "done"] \in CallRecords
    BY DEF IdleCall, CallRecords, Nothing
  <2>2. IdleCall.pc = "idle" /\ [IdleCall EXCEPT !.pc = "done"].pc = "done"
    BY DEF IdleCall
  <2>3. calls' \in [JoinCalls -> CallRecords]
    BY <1>2, <2>1
  <2>4. \A c \in JoinCalls : calls'[c].pc \in {"idle", "done"}
    BY <1>2, <2>2
  <2> QED
    BY <2>3, <2>4 DEF CallOk
<1>8. ASSUME NEW r \in Tokens PROVE pipes'[r] \in PipeRecords /\ PipeOk(r)'
  <2>1. CASE \E j \in resumed : token[j] = r
    <3>1. PICK j \in resumed : token[j] = r /\ pipes'[r] = Pipe(j, restoreJoinJobs(stored[j]))
      BY <1>1, <2>1
    <3> DEFINE phase == restoreJoinJobs(stored[j])
               pipe == Pipe(j, phase)
    <3>2. /\ j \in JoinJobs /\ phase \in PhaseSet
          /\ Before(phase) \subseteq jobs'[j].earned
      BY <1>1, <1>3
    <3> HIDE DEF phase
    <3>3. pipe \in PipeRecords /\ pipe.pc = "exec" /\ pipe.job = j /\ pipe.phase = phase
      BY <3>2 DEF Pipe, NoPipe, PipeRecords, RunLabels, Nothing
    <3>4. pipes'[r] = pipe
      BY <3>1 DEF phase
    <3> HIDE DEF pipe
    <3>5. Label(pipes'[r]) = "exec" /\ DueAt("exec", phase) = Before(phase)
      BY <3>3, <3>4 DEF Label, DueAt
    <3> QED
      BY <3>2, <3>3, <3>4, <3>5 DEF PipeOk
  <2>2. CASE ~ \E j \in resumed : token[j] = r
    <3>1. pipes'[r] = NoPipe \/ pipes'[r] = gone
      BY <1>1, <2>2
    <3>2. /\ NoPipe \in PipeRecords /\ NoPipe.pc = "none" /\ gone \in PipeRecords /\ gone.pc = "gone"
          /\ "none" \notin RunLabels /\ "gone" \notin RunLabels
      BY DEF NoPipe, PipeRecords, RunLabels, Nothing
    <3> HIDE DEF gone
    <3>3. pipes'[r].pc \in {"none", "gone"} /\ pipes'[r] \in PipeRecords
      BY <3>1, <3>2
    <3> QED
      BY <3>2, <3>3 DEF PipeOk, Label
  <2> QED
    BY <2>1, <2>2
<1>9. pipes' \in [Tokens -> PipeRecords]
  BY <1>1, <1>8
<1> QED
  BY <1>4, <1>5, <1>6, <1>7, <1>8, <1>9 DEF JoinInv

LEMMA JoinInvariant == JoinSpec => []JoinInv
<1>1. ASSUME JoinInit PROVE JoinInv
  <2>1. jobs \in JobTables /\ stored \in JobTables
    BY <1>1, NoJobOk DEF JoinInit, JobTables
  <2>2. IdleCall \in CallRecords /\ IdleCall.pc = "idle"
    BY DEF IdleCall, CallRecords, Nothing
  <2>3. NoPipe \in PipeRecords /\ NoPipe.pc = "none" /\ "none" \notin RunLabels
    BY DEF NoPipe, PipeRecords, RunLabels, Nothing
  <2>4. \A c \in JoinCalls : CallOk(c)
    BY <1>1, <2>2 DEF JoinInit, CallOk
  <2>5. \A r \in Tokens : PipeOk(r)
    BY <1>1, <2>3 DEF JoinInit, PipeOk, Label
  <2> QED
    BY <1>1, <2>1, <2>2, <2>3, <2>4, <2>5 DEF JoinInit, JoinInv
<1>2. JoinInv /\ [JoinNext]_joinVars => JoinInv'
  <2> SUFFICES ASSUME JoinInv, [JoinNext]_joinVars PROVE JoinInv'
    OBVIOUS
  <2>1. MaxTokens \in Nat
    BY JoinAssumption
  <2>2. CASE Replicate
    BY <2>2 DEF Replicate, JoinInv, CallOk, PipeOk
  <2>3. CASE UNCHANGED joinVars
    BY <2>3 DEF joinVars, JoinInv, CallOk, PipeOk
  <2> QED
    BY <2>1, <2>2, <2>3, CallSteps, RunSteps, RestartStep DEF JoinNext
<1> QED
  BY <1>1, <1>2, PTL DEF JoinSpec

(* A node is reported WARM_STANDBY only after its job's own runs have      *)
(* imported the snapshot, caught up and verified, however cancelled runs,  *)
(* late writes and restarts interleave (cluster_join_jobs.go).             *)
THEOREM StandbyEarned == JoinSpec => []WarmEarned
<1>1. JoinInv => WarmEarned
  BY DEF JoinInv, JobTables, OkJobs, WarmEarned
<1> QED
  BY <1>1, JoinInvariant, PTL

-----------------------------------------------------------------------------
(* SyncTx.  The lists first: what the policy and the restoration of a list *)
(* return.                                                                 *)

Entries(list) == {list[i] : i \in DOMAIN list}

TxRecords == [id : Int, phase : {"bndupd_sent", "committed", "failed"}]
TxLists == Seq(TxRecords)

LEMMA Head0Of ==
  ASSUME NEW S, NEW list \in Seq(S), NEW n \in Nat
  PROVE  /\ Head0(list, n) \in Seq(S)
         /\ Len(Head0(list, n)) = IF Len(list) < n THEN Len(list) ELSE n
         /\ \A i \in DOMAIN Head0(list, n) : i \in DOMAIN list /\ Head0(list, n)[i] = list[i]
         /\ Entries(Head0(list, n)) \subseteq Entries(list)
<1> DEFINE m == IF Len(list) < n THEN Len(list) ELSE n
<1>1. m \in Nat /\ m <= Len(list) /\ \A i \in 1..m : list[i] \in S /\ i \in DOMAIN list
  OBVIOUS
<1>2. Head0(list, n) = SubSeq(list, 1, m)
  BY DEF Head0
<1> HIDE DEF m
<1>3. /\ Head0(list, n) \in Seq(S) /\ Len(Head0(list, n)) = m
      /\ \A i \in 1..m : Head0(list, n)[i] = list[i]
  BY <1>1, <1>2, SubSeqProperties
<1>4. DOMAIN Head0(list, n) = 1..m
  BY <1>3
<1>5. Entries(Head0(list, n)) \subseteq Entries(list)
  BY <1>1, <1>3, <1>4 DEF Entries
<1> QED
  BY <1>1, <1>3, <1>4, <1>5 DEF m

LEMMA BehindOf ==
  ASSUME NEW S, NEW list \in Seq(S), NEW n \in Nat
  PROVE  LET d == SubSeq(list, n + 1, Len(list))
         IN  /\ d \in Seq(S) /\ Len(d) = IF Len(list) > n THEN Len(list) - n ELSE 0
             /\ \A i \in DOMAIN d : n + i \in DOMAIN list /\ d[i] = list[n + i]
             /\ Entries(d) \subseteq Entries(list)
<1> DEFINE d == SubSeq(list, n + 1, Len(list))
<1>1. \A i \in (n + 1)..Len(list) : list[i] \in S
  OBVIOUS
<1>2. n + 1 \in Int /\ Len(list) \in Int
  OBVIOUS
<1>3. /\ d \in Seq(S) /\ Len(d) = IF n + 1 <= Len(list) THEN Len(list) - (n + 1) + 1 ELSE 0
      /\ \A i \in 1..(Len(list) - (n + 1) + 1) : d[i] = list[n + 1 + i - 1]
  BY <1>1, <1>2, SubSeqProperties
<1>4. Len(d) = IF Len(list) > n THEN Len(list) - n ELSE 0
  BY <1>3
<1>5. DOMAIN d = 1..Len(d)
  BY <1>3
<1>6. ASSUME NEW i \in DOMAIN d PROVE n + i \in DOMAIN list /\ d[i] = list[n + i]
  <2>1. i \in 1..(Len(list) - (n + 1) + 1) /\ n + 1 + i - 1 = n + i /\ n + i \in 1..Len(list)
    BY <1>3, <1>4, <1>5
  <2> QED
    BY <1>3, <2>1
<1> HIDE DEF d
<1>7. Entries(d) \subseteq Entries(list)
  BY <1>6 DEF Entries
<1> QED
  BY <1>3, <1>4, <1>6, <1>7 DEF d

LEMMA JoinedOf ==
  ASSUME NEW S, NEW a \in Seq(S), NEW b \in Seq(S)
  PROVE  /\ a \o b \in Seq(S) /\ Len(a \o b) = Len(a) + Len(b)
         /\ \A i \in 1..(Len(a) + Len(b)) :
              (a \o b)[i] = IF i <= Len(a) THEN a[i] ELSE b[i - Len(a)]
         /\ Entries(a \o b) \subseteq Entries(a) \cup Entries(b)
<1>1. /\ a \o b \in Seq(S) /\ Len(a \o b) = Len(a) + Len(b)
      /\ \A i \in 1..(Len(a) + Len(b)) : (a \o b)[i] = IF i <= Len(a) THEN a[i] ELSE b[i - Len(a)]
  BY ConcatProperties
<1>2. ASSUME NEW i \in DOMAIN (a \o b) PROVE (a \o b)[i] \in Entries(a) \cup Entries(b)
  <2>1. i \in 1..(Len(a) + Len(b)) /\ DOMAIN a = 1..Len(a) /\ DOMAIN b = 1..Len(b)
    BY <1>1
  <2>2. CASE i <= Len(a)
    BY <1>1, <2>1, <2>2 DEF Entries
  <2>3. CASE ~ (i <= Len(a))
    <3>1. i - Len(a) \in DOMAIN b /\ (a \o b)[i] = b[i - Len(a)]
      BY <1>1, <2>1, <2>3
    <3> QED
      BY <3>1 DEF Entries
  <2> QED
    BY <2>2, <2>3
<1> QED
  BY <1>1, <1>2 DEF Entries

LEMMA PolicyKeeps ==
  ASSUME NEW lists \in [active : TxLists, archive : TxLists], MaxEntries \in Nat, ArchiveLimit \in Nat
  PROVE  LET p == applySyncTransactionsPolicy(lists)
         IN  /\ p \in [active : TxLists, archive : TxLists]
             /\ Entries(p.active) \subseteq Entries(lists.active)
             /\ Entries(p.archive) \subseteq Entries(lists.active) \cup Entries(lists.archive)
<1> DEFINE p == applySyncTransactionsPolicy(lists)
           kept == Head0(lists.active, MaxEntries)
           dropped == SubSeq(lists.active, MaxEntries + 1, Len(lists.active))
<1>1. lists.active \in Seq(TxRecords) /\ lists.archive \in Seq(TxRecords)
  BY DEF TxLists
<1>2. kept \in Seq(TxRecords) /\ Entries(kept) \subseteq Entries(lists.active)
  BY <1>1, Head0Of
<1>3. dropped \in Seq(TxRecords) /\ Entries(dropped) \subseteq Entries(lists.active)
  BY <1>1, BehindOf
<1> HIDE DEF dropped
<1>4. /\ dropped \o lists.archive \in Seq(TxRecords)
      /\ Entries(dropped \o lists.archive) \subseteq Entries(dropped) \cup Entries(lists.archive)
  BY <1>1, <1>3, JoinedOf
<1>5. /\ Head0(dropped \o lists.archive, ArchiveLimit) \in Seq(TxRecords)
      /\ Entries(Head0(dropped \o lists.archive, ArchiveLimit)) \subseteq Entries(dropped \o lists.archive)
  BY <1>4, Head0Of
<1>6. p = [active |-> kept, archive |-> Head0(dropped \o lists.archive, ArchiveLimit)]
  BY DEF applySyncTransactionsPolicy, dropped
<1> HIDE DEF p, kept
<1> QED
  BY <1>2, <1>3, <1>4, <1>5, <1>6 DEF TxLists, p

\* The sequence sanitizeSyncTransactions builds up, as a function of how far
\* it has read.
Built(list, first, n) ==
  {f \in [0..n -> Seq(Entries(list))] :
     f = [k \in 0..n |->
            IF k = 0 THEN <<>> ELSE IF k \in first THEN Append(f[k - 1], list[k]) ELSE f[k - 1]]}

\* It exists, by induction over n: there is no first n for which it does not.
LEMMA BuiltExists ==
  ASSUME NEW S, NEW list \in Seq(S), NEW first \in SUBSET DOMAIN list, NEW n \in 0..Len(list)
  PROVE  Built(list, first, n) # {}
<1> DEFINE T == {m \in 0..Len(list) : Built(list, first, m) = {}}
<1>1. T \subseteq Nat
  OBVIOUS
<1>2. SUFFICES ASSUME T # {} PROVE FALSE
  OBVIOUS
<1>3. PICK m \in T : \A q \in Nat : q < m => q \notin T
  BY <1>1, <1>2, Least
<1>4. ASSUME NEW q \in 0..Len(list), q < m PROVE q \notin T
  BY <1>3, <1>4
<1>5. m \in 0..Len(list) /\ Built(list, first, m) = {}
  OBVIOUS
<1> HIDE DEF T
<1> DEFINE E == Entries(list)
<1>6. CASE m = 0
  <2> DEFINE f == [k \in 0..0 |-> <<>>]
  <2>1. f \in [0..0 -> Seq(E)]
    OBVIOUS
  <2>2. \A k \in 0..0 : k = 0
    OBVIOUS
  <2>3. f = [k \in 0..0 |-> IF k = 0 THEN <<>> ELSE IF k \in first THEN Append(f[k - 1], list[k]) ELSE f[k - 1]]
    BY <2>2
  <2> QED
    BY <1>5, <1>6, <2>1, <2>3 DEF Built
<1>7. CASE m > 0
  <2>1. m - 1 \in 0..Len(list) /\ m - 1 < m
    BY <1>5, <1>7
  <2>2. m - 1 \notin T
    BY <1>4, <2>1
  <2>3. PICK f \in [0..(m - 1) -> Seq(E)] :
          f = [k \in 0..(m - 1) |->
                 IF k = 0 THEN <<>> ELSE IF k \in first THEN Append(f[k - 1], list[k]) ELSE f[k - 1]]
    BY <2>1, <2>2 DEF Built, T
  <2> DEFINE g == [k \in 0..m |-> IF k < m THEN f[k]
                                  ELSE IF m \in first THEN Append(f[m - 1], list[m]) ELSE f[m - 1]]
  <2>4. f[m - 1] \in Seq(E) /\ (m \in first => list[m] \in E)
    <3>1. m - 1 \in 0..(m - 1)
      BY <1>5, <1>7
    <3>2. f[m - 1] \in Seq(E)
      BY <3>1
    <3>3. m \in first => list[m] \in E
      BY DEF Entries
    <3> QED
      BY <3>2, <3>3
  <2>5. \A k \in 0..m : g[k] \in Seq(E)
    BY <1>5, <2>4
  <2>6. g \in [0..m -> Seq(E)]
    BY <2>5
  <2>7. ASSUME NEW k \in 0..m
        PROVE  g[k] = IF k = 0 THEN <<>> ELSE IF k \in first THEN Append(g[k - 1], list[k]) ELSE g[k - 1]
    <3>1. CASE k = 0
      BY <1>5, <1>7, <2>3, <3>1
    <3>2. CASE k # 0 /\ k < m
      <4>1. k \in 0..(m - 1) /\ k - 1 \in 0..(m - 1) /\ k - 1 < m /\ k - 1 \in 0..m
        BY <1>5, <3>2
      <4>2. g[k] = f[k] /\ g[k - 1] = f[k - 1]
        BY <3>2, <4>1
      <4>3. f[k] = IF k = 0 THEN <<>> ELSE IF k \in first THEN Append(f[k - 1], list[k]) ELSE f[k - 1]
        BY <2>3, <4>1
      <4> QED
        BY <4>2, <4>3
    <3>3. CASE k = m
      <4>1. m - 1 \in 0..m /\ g[m - 1] = f[m - 1]
        BY <1>5, <1>7
      <4>2. g[m] = IF m \in first THEN Append(f[m - 1], list[m]) ELSE f[m - 1]
        BY <1>5
      <4> QED
        BY <1>5, <1>7, <3>3, <4>1, <4>2
    <3> QED
      BY <1>5, <3>1, <3>2, <3>3
  <2>8. g = [k \in 0..m |-> IF k = 0 THEN <<>> ELSE IF k \in first THEN Append(g[k - 1], list[k]) ELSE g[k - 1]]
    <3> HIDE DEF g
    <3> QED
      BY <2>6, <2>7
  <2> HIDE DEF g
  <2> QED
    BY <1>5, <2>6, <2>8 DEF Built
<1> QED
  BY <1>5, <1>6, <1>7

\* What is kept of a list are entries of the list.
LEMMA SanitizedKeeps ==
  ASSUME NEW list \in TxLists
  PROVE  sanitizeSyncTransactions(list) \in TxLists /\ Entries(sanitizeSyncTransactions(list)) \subseteq Entries(list)
<1> DEFINE first == {i \in DOMAIN list : \A j \in 1..(i - 1) : list[j].id # list[i].id}
           N == Len(list)
           P(f) == f = [k \in 0..N |->
                          IF k = 0 THEN <<>> ELSE IF k \in first THEN Append(f[k - 1], list[k]) ELSE f[k - 1]]
           pos == CHOOSE f : P(f)
<1>1. list \in Seq(TxRecords) /\ N \in 0..N /\ N \in Nat
  BY DEF TxLists
<1>2. PICK f \in [0..N -> Seq(Entries(list))] : P(f)
  <2>1. Built(list, first, N) # {}
    BY <1>1, BuiltExists
  <2> QED
    BY <2>1 DEF Built
<1>3. P(pos)
  BY <1>2
<1>4. sanitizeSyncTransactions(list) = pos[N]
  BY DEF sanitizeSyncTransactions
<1> HIDE DEF pos, first
<1>5. ASSUME NEW k \in 0..N
      PROVE  pos[k] = IF k = 0 THEN <<>> ELSE IF k \in first THEN Append(pos[k - 1], list[k]) ELSE pos[k - 1]
  BY <1>3
<1> DEFINE T == {k \in 0..N : pos[k] \notin Seq(Entries(list))}
<1>6. T = {}
  <2>1. SUFFICES ASSUME T # {} PROVE FALSE
    OBVIOUS
  <2>2. T \in SUBSET Nat
    BY <1>1
  <2>3. PICK m \in T : \A q \in Nat : q < m => q \notin T
    BY <2>1, <2>2, Least
  <2>4. CASE m = 0
    <3>1. 0 \in 0..N
      BY <1>1
    <3>2. pos[0] = <<>>
      BY <1>5, <3>1
    <3>3. <<>> \in Seq(Entries(list))
      OBVIOUS
    <3> QED
      BY <2>4, <3>2, <3>3
  <2>5. CASE m > 0
    <3>1. m \in 0..N /\ m - 1 \in Nat /\ m - 1 \in 0..N /\ m - 1 < m /\ m # 0
      BY <1>1, <2>5
    <3>2. pos[m - 1] \in Seq(Entries(list))
      BY <2>3, <3>1
    <3>3. m \in first => list[m] \in Entries(list)
      BY DEF first, Entries
    <3>4. pos[m] = IF m \in first THEN Append(pos[m - 1], list[m]) ELSE pos[m - 1]
      BY <1>5, <3>1, Zenon
    <3>5. pos[m] \in Seq(Entries(list))
      <4> DEFINE E == Entries(list)
                 q == pos[m - 1]
                 e == list[m]
      <4>1. q \in Seq(E) /\ (m \in first => e \in E)
        BY <3>2, <3>3
      <4>2. pos[m] = IF m \in first THEN Append(q, e) ELSE q
        BY <3>4
      <4> HIDE DEF E, q, e
      <4>3. pos[m] \in Seq(E)
        BY <4>1, <4>2
      <4> QED
        BY <4>3 DEF E
    <3> QED
      BY <3>5
  <2> QED
    BY <1>1, <2>4, <2>5
<1>7. pos[N] \in Seq(Entries(list))
  BY <1>1, <1>6
<1>8. Entries(list) \subseteq TxRecords
  BY <1>1 DEF Entries
<1>9. pos[N] \in Seq(TxRecords)
  BY <1>7, <1>8, SeqMonotonic
<1>10. Entries(pos[N]) \subseteq Entries(list)
  <2> DEFINE E == Entries(list)
             q == pos[N]
  <2>1. q \in Seq(E)
    BY <1>7
  <2> HIDE DEF E, q
  <2>2. Entries(q) \subseteq E
    BY <2>1 DEF Entries
  <2> QED
    BY <2>2 DEF E, q
<1> QED
  BY <1>4, <1>9, <1>10 DEF TxLists

TwoLists == [active : TxLists, archive : TxLists]

LEMMA PhaseSetKeeps ==
  ASSUME txs \in TwoLists, MaxEntries \in Nat, ArchiveLimit \in Nat,
         NEW n \in Int, NEW phase \in {"bndupd_sent", "committed", "failed"}
  PROVE  /\ SetPhase(n, phase) \in TwoLists
         /\ \A e \in Entries(SetPhase(n, phase).active) \cup Entries(SetPhase(n, phase).archive) :
              e \in Entries(txs.active) \cup Entries(txs.archive) \/ e = Tx(n, phase)
<1> DEFINE a == txs.active
           new == [i \in DOMAIN a |-> IF a[i].id = n THEN Tx(n, phase) ELSE a[i]]
           lists == [txs EXCEPT !.active = new]
<1>1. a \in Seq(TxRecords) /\ txs.archive \in Seq(TxRecords)
  BY DEF TwoLists, TxLists
<1>2. Tx(n, phase) \in TxRecords
  BY DEF Tx, TxRecords
<1>3. new \in Seq(TxRecords)
  <2>1. DOMAIN a = 1..Len(a) /\ Len(a) \in Nat /\ \A i \in 1..Len(a) : a[i] \in TxRecords
    BY <1>1
  <2>2. \A i \in 1..Len(a) : (IF a[i].id = n THEN Tx(n, phase) ELSE a[i]) \in TxRecords
    BY <1>2, <2>1
  <2>3. new \in [1..Len(a) -> TxRecords]
    BY <2>1, <2>2
  <2> QED
    BY <2>1, <2>3, IsASeq
<1>4. \A e \in Entries(new) : e \in Entries(a) \/ e = Tx(n, phase)
  BY DEF Entries
<1>5. SetPhase(n, phase) = applySyncTransactionsPolicy(lists)
  BY DEF SetPhase
<1> HIDE DEF new
<1>6. lists \in TwoLists /\ lists.active = new /\ lists.archive = txs.archive
  BY <1>1, <1>3 DEF TwoLists, TxLists
<1> HIDE DEF lists
<1>7. /\ SetPhase(n, phase) \in TwoLists
      /\ Entries(SetPhase(n, phase).active) \subseteq Entries(new)
      /\ Entries(SetPhase(n, phase).archive) \subseteq Entries(new) \cup Entries(txs.archive)
  BY <1>5, <1>6, PolicyKeeps DEF TwoLists
<1> QED
  BY <1>4, <1>7

LEMMA AppendKeeps ==
  ASSUME txs \in TwoLists, MaxEntries \in Nat, ArchiveLimit \in Nat, NEW e \in TxRecords
  PROVE  LET p == applySyncTransactionsPolicy([txs EXCEPT !.active = <<e>> \o @])
         IN  /\ p \in TwoLists
             /\ Entries(p.active) \cup Entries(p.archive) \subseteq
                  Entries(txs.active) \cup Entries(txs.archive) \cup {e}
<1> DEFINE new == <<e>> \o txs.active
           lists == [txs EXCEPT !.active = new]
<1>1. txs.active \in Seq(TxRecords) /\ txs.archive \in Seq(TxRecords) /\ <<e>> \in Seq(TxRecords)
  BY DEF TwoLists, TxLists
<1>2. new \in Seq(TxRecords) /\ Entries(new) \subseteq Entries(<<e>>) \cup Entries(txs.active)
  BY <1>1, JoinedOf
<1>3. Entries(<<e>>) = {e}
  BY DEF Entries
<1> HIDE DEF new
<1>4. lists \in TwoLists /\ lists.active = new /\ lists.archive = txs.archive
  BY <1>1, <1>2 DEF TwoLists, TxLists
<1>5. lists = [txs EXCEPT !.active = <<e>> \o @]
  BY DEF new
<1> HIDE DEF lists
<1>6. LET p == applySyncTransactionsPolicy(lists)
      IN  /\ p \in TwoLists /\ Entries(p.active) \subseteq Entries(new)
          /\ Entries(p.archive) \subseteq Entries(new) \cup Entries(txs.archive)
  BY <1>4, PolicyKeeps DEF TwoLists
<1> QED
  BY <1>2, <1>3, <1>5, <1>6

LEMMA RestoredLists ==
  ASSUME NEW lists \in TwoLists, MaxEntries \in Nat, ArchiveLimit \in Nat
  PROVE  LET p == restoreSyncTransactions(lists.active)
             r == restoreSyncTransactionsArchive(lists.archive, p.archive)
         IN  /\ p \in TwoLists /\ r \in TxLists
             /\ Entries(p.active) \cup Entries(r) \subseteq Entries(lists.active) \cup Entries(lists.archive)
<1> DEFINE p == restoreSyncTransactions(lists.active)
           s == sanitizeSyncTransactions(lists.active)
           l == [Lists EXCEPT !.active = s]
           t == sanitizeSyncTransactions(lists.archive)
           u == sanitizeSyncTransactions(t \o p.archive)
           r == restoreSyncTransactionsArchive(lists.archive, p.archive)
<1>1. s \in TxLists /\ Entries(s) \subseteq Entries(lists.active)
  BY SanitizedKeeps DEF TwoLists
<1>2. t \in TxLists /\ Entries(t) \subseteq Entries(lists.archive)
  BY SanitizedKeeps DEF TwoLists
<1> HIDE DEF s, t
<1>3. l \in TwoLists /\ l.active = s /\ l.archive = <<>>
  <2>1. l = [active |-> s, archive |-> <<>>]
    BY DEF Lists
  <2>2. <<>> \in TxLists
    BY DEF TxLists
  <2> HIDE DEF l
  <2> QED
    BY <1>1, <2>1, <2>2 DEF TwoLists
<1>4. Entries(<<>>) = {}
  BY DEF Entries
<1>5. p = applySyncTransactionsPolicy(l)
  BY DEF restoreSyncTransactions, s
<1>6. p \in TwoLists /\ Entries(p.active) \subseteq Entries(s) /\ Entries(p.archive) \subseteq Entries(s)
  <2> HIDE DEF l, p
  <2> QED
    BY <1>3, <1>4, <1>5, PolicyKeeps DEF TwoLists
<1> HIDE DEF p
<1>7. t \o p.archive \in TxLists /\ Entries(t \o p.archive) \subseteq Entries(t) \cup Entries(p.archive)
  BY <1>2, <1>6, JoinedOf DEF TwoLists, TxLists
<1>8. u \in TxLists /\ Entries(u) \subseteq Entries(t \o p.archive)
  BY <1>7, SanitizedKeeps
<1>9. r = Head0(u, ArchiveLimit)
  BY DEF restoreSyncTransactionsArchive, t
<1> HIDE DEF u
<1>10. r \in TxLists /\ Entries(r) \subseteq Entries(u)
  BY <1>8, <1>9, Head0Of DEF TxLists
<1> HIDE DEF r
<1> QED
  BY <1>1, <1>2, <1>6, <1>7, <1>8, <1>10 DEF p, r

\* Entries that are shown as committed are at the partner.
Certified(E) == \A e \in E : e.phase = "committed" => e.id \in partner

SyncRecords ==
  [pc : {"idle", "off", "none", "done", "save", "save_archive", "restart", "send",
         "prepare_ack", "commit_ack", "complete", "fail"},
   tx : Int, copy : TxLists, then : {"none", "send", "done", "idle"}]

ConnStates == {"none", "prepare", "prepared", "commit", "committed", "closed"}

\* What the connection of a call says of its transaction.
ConnOk(w) ==
  /\ conns[w] \in {"prepare", "prepared"} => syncs[w].pc = "prepare_ack"
  /\ conns[w] = "commit" => syncs[w].pc = "commit_ack"
  /\ conns[w] = "committed" => syncs[w].pc = "commit_ack" /\ syncs[w].tx \in partner
  /\ syncs[w].pc = "complete" => syncs[w].tx \in partner

ListsOk ==
  /\ txs \in TwoLists /\ Certified(Entries(txs.active)) /\ Certified(Entries(txs.archive))
  /\ txStored \in TwoLists /\ Certified(Entries(txStored.active)) /\ Certified(Entries(txStored.archive))
  /\ txLog \in Int

SyncInv ==
  /\ ListsOk
  /\ syncs \in [Writers -> SyncRecords] /\ \A w \in Writers : Certified(Entries(syncs[w].copy))
  /\ conns \in [Syncs -> ConnStates] /\ \A w \in Syncs : ConnOk(w)

\* A step of one writer.
LEMMA WriterStep ==
  ASSUME SyncInv, NEW w \in Writers, NEW s \in SyncRecords, syncs' = [syncs EXCEPT ![w] = s],
         ListsOk', Certified(Entries(s.copy))', partner \subseteq partner',
         conns' \in [Syncs -> ConnStates], \A v \in Syncs : v # w => conns'[v] = conns[v],
         w \in Syncs => ConnOk(w)'
  PROVE  SyncInv'
<1>1. syncs' \in [Writers -> SyncRecords] /\ syncs'[w] = s /\ Syncs \subseteq Writers
  BY DEF SyncInv, Writers
<1>2. ASSUME NEW v \in Writers PROVE Certified(Entries(syncs[v].copy))'
  BY <1>1 DEF SyncInv, Certified
<1>3. ASSUME NEW v \in Syncs, v # w PROVE ConnOk(v)'
  <2>1. syncs'[v] = syncs[v] /\ conns'[v] = conns[v] /\ ConnOk(v)
    BY <1>1, <1>3 DEF SyncInv
  <2> QED
    BY <2>1 DEF ConnOk
<1> QED
  BY <1>1, <1>2, <1>3 DEF SyncInv

LEMMA ListsKept ==
  ASSUME SyncInv, UNCHANGED <<txs, txStored, txLog>>, partner \subseteq partner'
  PROVE  ListsOk'
BY DEF SyncInv, ListsOk, Certified

\* A writer that leaves the lists and the connections alone.
LEMMA WriterGoesOn ==
  ASSUME SyncInv, NEW w \in Writers, NEW s \in SyncRecords, syncs' = [syncs EXCEPT ![w] = s],
         UNCHANGED <<conns, partner>>, ListsOk', Certified(Entries(s.copy)),
         s.pc # "complete",
         w \in Syncs => conns[w] \in {"none", "closed"}
  PROVE  SyncInv'
<1>1. syncs'[w] = s /\ Certified(Entries(s.copy))'
  BY DEF SyncInv, Certified
<1>2. w \in Syncs => ConnOk(w)'
  BY <1>1 DEF ConnOk
<1>3. conns' \in [Syncs -> ConnStates] /\ \A v \in Syncs : v # w => conns'[v] = conns[v]
  BY DEF SyncInv
<1> QED
  BY <1>1, <1>2, <1>3, WriterStep

\* The connection of a writer that neither waits for an answer.
LEMMA ConnClosed ==
  ASSUME SyncInv, NEW w \in Syncs, syncs[w].pc \notin {"prepare_ack", "commit_ack"}
  PROVE  conns[w] \in {"none", "closed"}
BY DEF SyncInv, ConnOk, ConnStates

LEMMA WritersState ==
  ASSUME SyncInv, NEW w \in Writers
  PROVE  /\ syncs[w] \in SyncRecords /\ Certified(Entries(syncs[w].copy))
         /\ txs.active \in TxLists /\ txs.archive \in TxLists /\ txs \in TwoLists
         /\ Certified(Entries(txs.active)) /\ Certified(Entries(txs.archive))
BY DEF SyncInv, ListsOk, TwoLists

LEMMA EmptyCopy == <<>> \in TxLists /\ Certified(Entries(<<>>))
BY DEF TxLists, Entries, Certified

LEMMA IdleRecord ==
  ASSUME NEW pc \in {"idle", "off", "none", "done", "send", "fail"}, NEW n \in Int
  PROVE  LET a == [Idle(pc) EXCEPT !.tx = n]
         IN  a \in SyncRecords /\ a.pc = pc /\ a.copy = <<>>
BY EmptyCopy DEF Idle, SyncRecords

LEMMA IdleOk ==
  ASSUME NEW pc \in {"idle", "off", "none", "done", "send", "fail"}
  PROVE  Idle(pc) \in SyncRecords /\ Idle(pc).pc = pc /\ Idle(pc).copy = <<>>
BY EmptyCopy DEF Idle, SyncRecords

LEMMA PersistSteps ==
  ASSUME SyncInv, NEW w \in Writers, persistSyncTransactions(w)
  PROVE  SyncInv'
<1>1. /\ syncs[w] \in SyncRecords /\ Certified(Entries(syncs[w].copy)) /\ txs \in TwoLists
      /\ txs.archive \in TxLists /\ Certified(Entries(txs.archive)) /\ txStored \in TwoLists
  BY WritersState DEF SyncInv, ListsOk
<1>2. syncs[w].pc \in {"save", "save_archive"}
  BY DEF persistSyncTransactions, PersistActive, PersistArchive, PersistFails, At
<1>3. w \in Syncs => conns[w] \in {"none", "closed"}
  BY <1>2, ConnClosed
<1>4. ASSUME Persisted(w), ListsOk', UNCHANGED <<conns, partner>> PROVE SyncInv'
  <2> DEFINE s == IF syncs[w].then = "send" THEN [Idle("send") EXCEPT !.tx = syncs[w].tx]
                                            ELSE Idle(syncs[w].then)
  <2>1. syncs[w].then \in {"none", "send", "done", "idle"} /\ syncs[w].tx \in Int
    BY <1>1 DEF SyncRecords
  <2>2. s \in SyncRecords /\ s.copy = <<>> /\ s.pc # "complete"
    BY <2>1, IdleRecord, IdleOk
  <2>3. syncs' = [syncs EXCEPT ![w] = s]
    BY <1>4 DEF Persisted
  <2> HIDE DEF s
  <2> QED
    BY <1>3, <1>4, <2>2, <2>3, EmptyCopy, WriterGoesOn
<1>5. CASE PersistActive(w)
  <2> DEFINE s == [syncs[w] EXCEPT !.pc = "save_archive", !.copy = txs.archive]
  <2>1. s \in SyncRecords /\ s.copy = txs.archive /\ s.pc = "save_archive"
    BY <1>1 DEF SyncRecords
  <2>2. /\ syncs' = [syncs EXCEPT ![w] = s] /\ txStored' = [txStored EXCEPT !.active = syncs[w].copy]
        /\ UNCHANGED <<txs, txLog, conns, partner>>
    BY <1>5 DEF PersistActive
  <2>3. ListsOk'
    <3>1. syncs[w].copy \in TxLists
      BY <1>1 DEF SyncRecords
    <3>2. txStored' \in TwoLists /\ txStored'.active = syncs[w].copy /\ txStored'.archive = txStored.archive
      BY <1>1, <2>2, <3>1 DEF TwoLists
    <3> QED
      BY <1>1, <2>2, <3>2 DEF SyncInv, ListsOk, Certified
  <2> HIDE DEF s
  <2> QED
    BY <1>1, <1>3, <2>1, <2>2, <2>3, WriterGoesOn
<1>6. CASE PersistArchive(w)
  <2>1. /\ Persisted(w) /\ txStored' = [txStored EXCEPT !.archive = syncs[w].copy]
        /\ UNCHANGED <<txs, txLog, conns, partner>>
    BY <1>6 DEF PersistArchive
  <2>2. ListsOk'
    <3>1. syncs[w].copy \in TxLists
      BY <1>1 DEF SyncRecords
    <3>2. txStored' \in TwoLists /\ txStored'.archive = syncs[w].copy /\ txStored'.active = txStored.active
      BY <1>1, <2>1, <3>1 DEF TwoLists
    <3> QED
      BY <1>1, <2>1, <3>2 DEF SyncInv, ListsOk, Certified
  <2> QED
    BY <1>4, <2>1, <2>2
<1>7. CASE PersistFails(w)
  <2>1. Persisted(w) /\ UNCHANGED <<txs, txStored, txLog, conns, partner>>
    BY <1>7 DEF PersistFails
  <2> QED
    BY <1>4, <2>1, ListsKept
<1> QED
  BY <1>5, <1>6, <1>7 DEF persistSyncTransactions

\* A writer changes the lists in memory and is about to write them.
LEMMA WriterChanges ==
  ASSUME SyncInv, NEW w \in Writers, NEW n \in Int, NEW label \in {"send", "done", "idle"},
         PersistThen(w, n, label) \/ syncs' = [syncs EXCEPT ![w] = Idle("done")],
         txs' \in TwoLists, Certified(Entries(txs'.active)), Certified(Entries(txs'.archive)),
         txLog' \in Int, UNCHANGED <<txStored, conns, partner>>,
         w \in Syncs => conns[w] \in {"none", "closed"}
  PROVE  SyncInv'
<1>1. ListsOk'
  BY DEF SyncInv, ListsOk, Certified
<1>2. CASE PersistThen(w, n, label)
  <2> DEFINE s == [pc |-> "save", tx |-> n, copy |-> txs'.active, then |-> label]
  <2>1. s \in SyncRecords /\ s.copy = txs'.active /\ s.pc = "save"
    BY DEF SyncRecords, TwoLists
  <2>2. syncs' = [syncs EXCEPT ![w] = s]
    BY <1>2 DEF PersistThen
  <2> HIDE DEF s
  <2> QED
    BY <1>1, <2>1, <2>2, WriterGoesOn
<1>3. CASE syncs' = [syncs EXCEPT ![w] = Idle("done")]
  BY <1>1, <1>3, IdleOk, EmptyCopy, WriterGoesOn
<1> QED
  BY <1>2, <1>3

LEMMA RecordGoesOn ==
  ASSUME NEW s \in SyncRecords, NEW pc \in {"restart", "prepare_ack", "commit_ack", "complete", "fail"}
  PROVE  LET a == [s EXCEPT !.pc = pc]
         IN  a \in SyncRecords /\ a.pc = pc /\ a.tx = s.tx /\ a.copy = s.copy
BY DEF SyncRecords

LEMMA RecordRestarts ==
  ASSUME NEW s \in SyncRecords, NEW n \in Int
  PROVE  LET a == [s EXCEPT !.pc = "restart", !.tx = n]
         IN  a \in SyncRecords /\ a.pc = "restart" /\ a.tx = n /\ a.copy = s.copy
BY DEF SyncRecords

LEMMA ExchangeSteps ==
  ASSUME SyncInv, NEW w \in Syncs, SendPrepare(w) \/ SendCommit(w) \/ CommitAcked(w) \/ SyncError(w)
  PROVE  SyncInv'
<1>1. /\ w \in Writers /\ syncs[w] \in SyncRecords /\ Certified(Entries(syncs[w].copy)) /\ ConnOk(w)
      /\ conns \in [Syncs -> ConnStates]
  BY WritersState DEF SyncInv, Writers
<1>2. PICK pc \in {"prepare_ack", "commit_ack", "complete", "fail"}, c \in {"prepare", "commit", "closed"} :
        /\ To(w, pc) /\ Conn(w, c)
        /\ \/ pc = "prepare_ack" /\ c = "prepare"
           \/ pc = "commit_ack" /\ c = "commit"
           \/ pc = "complete" /\ c = "closed" /\ conns[w] = "committed"
           \/ pc = "fail" /\ c = "closed"
  BY DEF SendPrepare, SendCommit, CommitAcked, SyncError
<1>3. UNCHANGED <<txs, txStored, txLog>> /\ partner \subseteq partner'
  BY DEF SendPrepare, SendCommit, CommitAcked, SyncError
<1>4. PICK s \in SyncRecords :
        s = [syncs[w] EXCEPT !.pc = pc] /\ s.pc = pc /\ s.tx = syncs[w].tx /\ s.copy = syncs[w].copy
  <2> DEFINE d == [syncs[w] EXCEPT !.pc = pc]
  <2>0. pc \in {"restart", "prepare_ack", "commit_ack", "complete", "fail"}
    OBVIOUS
  <2>1. d \in SyncRecords /\ d.pc = pc /\ d.tx = syncs[w].tx /\ d.copy = syncs[w].copy
    BY <1>1, <2>0, RecordGoesOn
  <2> HIDE DEF d
  <2>2. \E s \in SyncRecords : s = d /\ s.pc = pc /\ s.tx = syncs[w].tx /\ s.copy = syncs[w].copy
    BY <2>1
  <2> QED
    BY <2>2 DEF d
<1>5. syncs' = [syncs EXCEPT ![w] = s]
  BY <1>2, <1>4 DEF To
<1>6. syncs'[w] = s
  BY <1>1, <1>5 DEF SyncInv
<1>7. conns' = [conns EXCEPT ![w] = c] /\ conns'[w] = c
  BY <1>1, <1>2 DEF Conn
<1>8. conns' \in [Syncs -> ConnStates] /\ \A v \in Syncs : v # w => conns'[v] = conns[v]
  BY <1>1, <1>7 DEF ConnStates
<1>9. ConnOk(w)'
  BY <1>1, <1>2, <1>3, <1>4, <1>6, <1>7 DEF ConnOk
<1>10. ListsOk' /\ Certified(Entries(s.copy))'
  <2>1. ListsOk'
    BY <1>3, ListsKept
  <2> QED
    BY <1>1, <1>3, <1>4, <2>1 DEF Certified
<1> QED
  BY <1>1, <1>3, <1>4, <1>5, <1>8, <1>9, <1>10, WriterStep

LEMMA PartnerSteps ==
  ASSUME SyncInv, NEW w \in Syncs, handlePrepare(w) \/ handleCommit(w)
  PROVE  SyncInv'
<1>1. ConnOk(w) /\ conns \in [Syncs -> ConnStates]
  BY DEF SyncInv
<1>2. UNCHANGED <<txs, txStored, txLog, syncs>> /\ partner \subseteq partner'
  BY DEF handlePrepare, handleCommit
<1>3. PICK c \in {"prepared", "committed"} :
        /\ conns' = [conns EXCEPT ![w] = c]
        /\ \/ c = "prepared" /\ conns[w] = "prepare"
           \/ c = "committed" /\ conns[w] = "commit" /\ syncs[w].tx \in partner'
  BY DEF handlePrepare, handleCommit, Conn
<1>4. conns' \in [Syncs -> ConnStates] /\ conns'[w] = c /\ \A v \in Syncs : v # w => conns'[v] = conns[v]
  BY <1>1, <1>3 DEF ConnStates
<1>5. ConnOk(w)'
  BY <1>1, <1>2, <1>3, <1>4 DEF ConnOk
<1>6. ASSUME NEW v \in Syncs, v # w PROVE ConnOk(v)'
  BY <1>2, <1>4, <1>6 DEF SyncInv, ConnOk
<1>7. ListsOk' /\ \A v \in Writers : Certified(Entries(syncs[v].copy))'
  BY <1>2, ListsKept DEF SyncInv, Certified
<1> QED
  BY <1>2, <1>4, <1>5, <1>6, <1>7 DEF SyncInv

LEMMA ListSteps ==
  ASSUME SyncInv, MaxEntries \in Nat, ArchiveLimit \in Nat,
         \/ runSyncTransactionsReconciler
         \/ \E w \in Syncs : \/ handleClusterSyncTrigger(w) \/ handleClusterSyncTransactionRetry(w)
                             \/ restartSyncTransaction(w) \/ completeSyncTransaction(w) \/ failSyncTransaction(w)
  PROVE  SyncInv'
<1>1. /\ txs \in TwoLists /\ Certified(Entries(txs.active)) /\ Certified(Entries(txs.archive)) /\ txLog \in Int
  BY DEF SyncInv, ListsOk
<1>2. CASE runSyncTransactionsReconciler
  <2>1. /\ PersistThen(Reconciler, 0, "idle") /\ UNCHANGED <<txs, txStored, txLog, conns, partner>>
        /\ Reconciler \in Writers /\ syncs[Reconciler].pc = "idle"
    BY <1>2 DEF runSyncTransactionsReconciler, Writers, At
  <2>2. Reconciler \in Syncs => conns[Reconciler] \in {"none", "closed"}
    BY <2>1, ConnClosed
  <2> QED
    BY <1>1, <2>1, <2>2, WriterChanges
<1>3. ASSUME NEW w \in Syncs, handleClusterSyncTrigger(w) PROVE SyncInv'
  <2>1. /\ txLog' = txLog + 1 /\ PersistThen(w, txLog', "send") /\ UNCHANGED <<txStored, conns, partner>>
        /\ txs' = applySyncTransactionsPolicy([txs EXCEPT !.active = <<Tx(txLog', "bndupd_sent")>> \o @])
        /\ w \in Writers /\ syncs[w].pc = "idle"
    BY <1>3 DEF handleClusterSyncTrigger, startSyncTransaction, Writers, At
  <2>2. PICK n \in Int : n = txLog' /\ n = txLog + 1
    BY <1>1, <2>1
  <2>3. Tx(n, "bndupd_sent") \in TxRecords /\ Tx(n, "bndupd_sent").phase # "committed"
    BY DEF Tx, TxRecords
  <2>4. /\ txs' \in TwoLists
        /\ Entries(txs'.active) \cup Entries(txs'.archive) \subseteq
             Entries(txs.active) \cup Entries(txs.archive) \cup {Tx(n, "bndupd_sent")}
    BY <1>1, <2>1, <2>2, <2>3, AppendKeeps
  <2>5. Certified(Entries(txs'.active)) /\ Certified(Entries(txs'.archive))
    BY <1>1, <2>3, <2>4 DEF Certified
  <2>6. conns[w] \in {"none", "closed"}
    BY <2>1, ConnClosed
  <2> QED
    BY <1>1, <2>1, <2>2, <2>4, <2>5, <2>6, WriterChanges
<1>4. ASSUME NEW w \in Syncs, handleClusterSyncTransactionRetry(w) PROVE SyncInv'
  <2>1. PICK n \in 1..txLog : syncs' = [syncs EXCEPT ![w].pc = "restart", ![w].tx = n]
    BY <1>4 DEF handleClusterSyncTransactionRetry
  <2>2. /\ UNCHANGED <<txs, txStored, txLog, conns, partner>> /\ w \in Writers /\ syncs[w].pc = "idle"
    BY <1>4 DEF handleClusterSyncTransactionRetry, Writers, At
  <2>3. syncs[w] \in SyncRecords /\ Certified(Entries(syncs[w].copy)) /\ n \in Int
    BY <1>1, <2>2, WritersState
  <2> DEFINE s == [syncs[w] EXCEPT !.pc = "restart", !.tx = n]
  <2>4. s \in SyncRecords /\ s.pc = "restart" /\ s.copy = syncs[w].copy
    BY <2>3, RecordRestarts
  <2>5. syncs' = [syncs EXCEPT ![w] = s]
    BY <2>1, <2>2 DEF SyncInv
  <2> HIDE DEF s
  <2>6. conns[w] \in {"none", "closed"}
    BY <2>2, ConnClosed
  <2>7. ListsOk'
    BY <2>2, ListsKept
  <2> QED
    BY <2>2, <2>3, <2>4, <2>5, <2>6, <2>7, WriterGoesOn
<1>5. ASSUME NEW w \in Syncs,
             restartSyncTransaction(w) \/ completeSyncTransaction(w) \/ failSyncTransaction(w)
      PROVE  SyncInv'
  <2>1. PICK n \in Int, phase \in {"bndupd_sent", "committed", "failed"}, label \in {"send", "done"} :
          /\ n = syncs[w].tx /\ txs' = SetPhase(n, phase)
          /\ PersistThen(w, n, label) \/ syncs' = [syncs EXCEPT ![w] = Idle("done")]
          /\ phase = "committed" => n \in partner
    <3>1. w \in Writers /\ syncs[w].tx \in Int /\ ConnOk(w)
      BY WritersState DEF SyncInv, SyncRecords, Writers
    <3> QED
      BY <1>5, <3>1
      DEF restartSyncTransaction, completeSyncTransaction, failSyncTransaction, Outcome, At, ConnOk
  <2>2. /\ UNCHANGED <<txStored, txLog, conns, partner>> /\ w \in Writers
        /\ syncs[w].pc \notin {"prepare_ack", "commit_ack"}
    BY <1>5
    DEF restartSyncTransaction, completeSyncTransaction, failSyncTransaction, Outcome, At, Writers
  <2>3. Tx(n, phase).phase = "committed" => Tx(n, phase).id \in partner
    BY <2>1 DEF Tx
  <2>4. /\ txs' \in TwoLists
        /\ \A e \in Entries(txs'.active) \cup Entries(txs'.archive) :
             e \in Entries(txs.active) \cup Entries(txs.archive) \/ e = Tx(n, phase)
    BY <1>1, <2>1, PhaseSetKeeps
  <2>5. Certified(Entries(txs'.active)) /\ Certified(Entries(txs'.archive))
    BY <1>1, <2>3, <2>4 DEF Certified
  <2>6. conns[w] \in {"none", "closed"}
    BY <2>2, ConnClosed
  <2> QED
    BY <1>1, <2>1, <2>2, <2>4, <2>5, <2>6, WriterChanges
<1> QED
  BY <1>2, <1>3, <1>4, <1>5

LEMMA TxRestartStep ==
  ASSUME SyncInv, MaxEntries \in Nat, ArchiveLimit \in Nat, TxRestart
  PROVE  SyncInv'
<1> DEFINE p == restoreSyncTransactions(txStored.active)
           r == restoreSyncTransactionsArchive(txStored.archive, p.archive)
<1>1. /\ txs' = [p EXCEPT !.archive = r] /\ UNCHANGED <<txStored, txLog, partner>>
      /\ syncs' = [w \in Writers |-> Idle(IF w = Reconciler \/ At(w, "idle") THEN "idle" ELSE "done")]
      /\ conns' = [w \in Syncs |-> IF At(w, "idle") THEN "none" ELSE "closed"]
  BY DEF TxRestart
<1>2. txStored \in TwoLists /\ Certified(Entries(txStored.active)) /\ Certified(Entries(txStored.archive))
  BY DEF SyncInv, ListsOk
<1>3. /\ p \in TwoLists /\ r \in TxLists
      /\ Entries(p.active) \cup Entries(r) \subseteq Entries(txStored.active) \cup Entries(txStored.archive)
  BY <1>2, RestoredLists
<1> HIDE DEF p, r
<1>4. txs' \in TwoLists /\ txs'.active = p.active /\ txs'.archive = r
  BY <1>1, <1>3 DEF TwoLists
<1>5. ListsOk'
  BY <1>1, <1>2, <1>3, <1>4 DEF ListsOk, SyncInv, Certified
<1>6. ASSUME NEW w \in Writers
      PROVE  /\ syncs'[w] \in SyncRecords /\ syncs'[w].copy = <<>> /\ syncs'[w].pc \in {"idle", "done"}
  BY <1>1, IdleOk
<1>7. syncs' \in [Writers -> SyncRecords] /\ \A w \in Writers : Certified(Entries(syncs[w].copy))'
  <2>1. syncs' \in [Writers -> SyncRecords]
    BY <1>1, <1>6
  <2>2. Certified(Entries(<<>>))'
    BY DEF Certified, Entries
  <2> QED
    BY <1>6, <2>1, <2>2
<1>8. conns' \in [Syncs -> ConnStates] /\ \A w \in Syncs : conns'[w] \in {"none", "closed"}
  BY <1>1 DEF ConnStates
<1>9. ASSUME NEW w \in Syncs PROVE ConnOk(w)'
  BY <1>6, <1>8 DEF ConnOk, Writers
<1> QED
  BY <1>5, <1>7, <1>8, <1>9 DEF SyncInv

LEMMA SyncInvariant == SyncSpec => []SyncInv
<1>0. MaxEntries \in Nat /\ ArchiveLimit \in Nat
  BY SyncAssumption
<1>1. ASSUME SyncInit PROVE SyncInv
  <2>1. /\ txs = [active |-> <<>>, archive |-> <<Tx(1, "committed")>>] /\ txStored = txs
        /\ txLog = 1 /\ syncs = [w \in Writers |-> Idle("idle")] /\ conns = [w \in Syncs |-> "none"] /\ partner = {1}
    BY <1>1 DEF SyncInit, SyncInitWith, SyncOff
  <2>2. Tx(1, "committed") \in TxRecords /\ Tx(1, "committed").id = 1
    BY DEF Tx, TxRecords
  <2>3. <<Tx(1, "committed")>> \in TxLists /\ Entries(<<Tx(1, "committed")>>) = {Tx(1, "committed")}
    BY <2>2 DEF TxLists, Entries
  <2>4. txs \in TwoLists /\ Certified(Entries(txs.active)) /\ Certified(Entries(txs.archive))
    BY <2>1, <2>2, <2>3, EmptyCopy DEF TwoLists, Certified
  <2>5. ListsOk
    BY <2>1, <2>4 DEF ListsOk
  <2>6. Idle("idle") \in SyncRecords /\ Idle("idle").copy = <<>> /\ Idle("idle").pc = "idle"
    BY IdleOk
  <2>7. syncs \in [Writers -> SyncRecords] /\ \A w \in Writers : Certified(Entries(syncs[w].copy))
    BY <2>1, <2>6, EmptyCopy
  <2>8. conns \in [Syncs -> ConnStates] /\ \A w \in Syncs : ConnOk(w)
    BY <2>1, <2>6 DEF ConnStates, ConnOk, Writers
  <2> QED
    BY <2>5, <2>7, <2>8 DEF SyncInv
<1>2. SyncInv /\ [SyncNext]_syncVars => SyncInv'
  <2> SUFFICES ASSUME SyncInv, [SyncNext]_syncVars PROVE SyncInv'
    OBVIOUS
  <2>1. CASE UNCHANGED syncVars
    BY <2>1 DEF syncVars, SyncInv, ListsOk, Certified, ConnOk
  <2> QED
    BY <1>0, <2>1, PersistSteps, ExchangeSteps, PartnerSteps, ListSteps, TxRestartStep DEF SyncNext, SyncStep
<1> QED
  BY <1>1, <1>2, PTL DEF SyncSpec

LEMMA SyncCommitted == SyncInv => CommittedAtPartner
<1> SUFFICES ASSUME SyncInv, NEW list \in {txs.active, txs.archive, txStored.active, txStored.archive},
                    NEW i \in DOMAIN list, list[i].phase = "committed"
             PROVE  list[i].id \in partner
  BY DEF CommittedAtPartner
<1>1. Certified(Entries(list))
  BY DEF SyncInv, ListsOk
<1> QED
  BY <1>1 DEF Certified, Entries

-----------------------------------------------------------------------------
(* Until a restart the two lists are the newest transactions, in order.    *)

\* The entries of a list are consecutive transactions, from the newest down.
Newest(list, n) == \A i \in DOMAIN list : list[i].id = n + 1 - i

\* Both lists, as far as the limit of the archive lets them go on.
Full(active, archive, n) ==
  /\ Len(active) <= n /\ Newest(active, n) /\ Newest(archive, n - Len(active))
  /\ Len(archive) = IF n - Len(active) < ArchiveLimit THEN n - Len(active) ELSE ArchiveLimit

NewestInv ==
  /\ txs \in TwoLists /\ txLog \in Nat \ {0} /\ txRestarts \in Nat
  /\ txRestarts = 0 =>
       /\ Len(txs.active) = IF txLog - 1 < MaxEntries THEN txLog - 1 ELSE MaxEntries
       /\ Full(txs.active, txs.archive, txLog)

\* The policy moves the entries that are too many, and forgets the oldest.
LEMMA PolicyNewest ==
  ASSUME NEW lists \in TwoLists, NEW n \in Nat, MaxEntries \in Nat, ArchiveLimit \in Nat,
         Full(lists.active, lists.archive, n)
  PROVE  LET p == applySyncTransactionsPolicy(lists)
         IN  /\ p \in TwoLists /\ Full(p.active, p.archive, n)
             /\ Len(p.active) = IF Len(lists.active) < MaxEntries THEN Len(lists.active) ELSE MaxEntries
<1>1. PICK a \in Seq(TxRecords), r \in Seq(TxRecords) : a = lists.active /\ r = lists.archive
  BY DEF TwoLists, TxLists
<1>2. PICK la \in Nat, lr \in Nat : la = Len(a) /\ lr = Len(r) /\ DOMAIN a = 1..la /\ DOMAIN r = 1..lr
  OBVIOUS
<1>3. /\ la <= n /\ \A i \in 1..la : a[i].id = n + 1 - i
      /\ \A i \in 1..lr : r[i].id = n - la + 1 - i
      /\ lr = IF n - la < ArchiveLimit THEN n - la ELSE ArchiveLimit
  BY <1>1, <1>2 DEF Full, Newest
<1>4. PICK k \in Seq(TxRecords), lk \in Nat :
        /\ k = Head0(a, MaxEntries) /\ lk = Len(k) /\ DOMAIN k = 1..lk
        /\ lk = IF la < MaxEntries THEN la ELSE MaxEntries
        /\ \A i \in 1..lk : k[i] = a[i]
  <2> DEFINE k == Head0(a, MaxEntries)
  <2>1. /\ k \in Seq(TxRecords) /\ Len(k) = IF la < MaxEntries THEN la ELSE MaxEntries
        /\ \A i \in DOMAIN k : k[i] = a[i]
    BY <1>2, Head0Of
  <2> HIDE DEF k
  <2>2. Len(k) \in Nat /\ DOMAIN k = 1..Len(k)
    BY <2>1
  <2>3. \E l \in Nat : /\ l = Len(k) /\ DOMAIN k = 1..l /\ l = IF la < MaxEntries THEN la ELSE MaxEntries
                       /\ \A i \in 1..l : k[i] = a[i]
    <3> WITNESS Len(k) \in Nat
    <3> QED
      BY <2>1, <2>2
  <2> QED
    BY <2>1, <2>3 DEF k
<1>5. PICK d \in Seq(TxRecords), ld \in Nat :
        /\ d = SubSeq(a, MaxEntries + 1, Len(a)) /\ ld = Len(d) /\ DOMAIN d = 1..ld
        /\ ld = IF la > MaxEntries THEN la - MaxEntries ELSE 0
        /\ \A i \in 1..ld : d[i] = a[MaxEntries + i]
  <2> DEFINE d == SubSeq(a, MaxEntries + 1, Len(a))
  <2>1. /\ d \in Seq(TxRecords) /\ Len(d) = IF la > MaxEntries THEN la - MaxEntries ELSE 0
        /\ \A i \in DOMAIN d : d[i] = a[MaxEntries + i]
    BY <1>2, BehindOf
  <2> HIDE DEF d
  <2>2. Len(d) \in Nat /\ DOMAIN d = 1..Len(d)
    BY <2>1
  <2>3. \E l \in Nat : /\ l = Len(d) /\ DOMAIN d = 1..l /\ l = IF la > MaxEntries THEN la - MaxEntries ELSE 0
                       /\ \A i \in 1..l : d[i] = a[MaxEntries + i]
    <3> WITNESS Len(d) \in Nat
    <3> QED
      BY <2>1, <2>2
  <2> QED
    BY <2>1, <2>3 DEF d
<1>6. PICK b \in Seq(TxRecords), lb \in Nat :
        /\ b = d \o r /\ lb = Len(b) /\ DOMAIN b = 1..lb /\ lb = ld + lr
        /\ \A i \in 1..lb : b[i] = IF i <= ld THEN d[i] ELSE r[i - ld]
  <2> DEFINE b == d \o r
  <2>0. d \in Seq(TxRecords) /\ r \in Seq(TxRecords) /\ Len(d) = ld /\ Len(r) = lr
    BY <1>1, <1>2, <1>5
  <2>a. /\ b \in Seq(TxRecords) /\ Len(b) = Len(d) + Len(r)
        /\ \A i \in 1..(Len(d) + Len(r)) : b[i] = IF i <= Len(d) THEN d[i] ELSE r[i - Len(d)]
    BY <2>0, JoinedOf
  <2>1. /\ b \in Seq(TxRecords) /\ Len(b) = ld + lr
        /\ \A i \in 1..(ld + lr) : b[i] = IF i <= ld THEN d[i] ELSE r[i - ld]
    BY <2>0, <2>a
  <2> HIDE DEF b
  <2>2. ld + lr \in Nat /\ DOMAIN b = 1..(ld + lr)
    BY <2>1
  <2>3. \E l \in Nat : /\ l = Len(b) /\ DOMAIN b = 1..l /\ l = ld + lr
                       /\ \A i \in 1..l : b[i] = IF i <= ld THEN d[i] ELSE r[i - ld]
    <3> WITNESS Len(b) \in Nat
    <3> QED
      BY <2>1, <2>2
  <2> QED
    BY <2>1, <2>3 DEF b
<1>7. PICK t \in Seq(TxRecords), lt \in Nat :
        /\ t = Head0(b, ArchiveLimit) /\ lt = Len(t) /\ DOMAIN t = 1..lt
        /\ lt = IF lb < ArchiveLimit THEN lb ELSE ArchiveLimit
        /\ \A i \in 1..lt : t[i] = b[i]
  <2> DEFINE t == Head0(b, ArchiveLimit)
  <2>0. b \in Seq(TxRecords) /\ Len(b) = lb
    BY <1>6
  <2>a. /\ t \in Seq(TxRecords) /\ Len(t) = IF Len(b) < ArchiveLimit THEN Len(b) ELSE ArchiveLimit
        /\ \A i \in DOMAIN t : t[i] = b[i]
    BY <2>0, Head0Of
  <2>1. /\ t \in Seq(TxRecords) /\ Len(t) = IF lb < ArchiveLimit THEN lb ELSE ArchiveLimit
        /\ \A i \in DOMAIN t : t[i] = b[i]
    BY <2>0, <2>a
  <2> HIDE DEF t
  <2>2. Len(t) \in Nat /\ DOMAIN t = 1..Len(t)
    BY <2>1
  <2>3. \E l \in Nat : /\ l = Len(t) /\ DOMAIN t = 1..l /\ l = IF lb < ArchiveLimit THEN lb ELSE ArchiveLimit
                       /\ \A i \in 1..l : t[i] = b[i]
    <3> WITNESS Len(t) \in Nat
    <3> QED
      BY <2>1, <2>2
  <2> QED
    BY <2>1, <2>3 DEF t
<1>8. \A i \in 1..lk : k[i].id = n + 1 - i
  <2>1. \A i \in 1..lk : i \in 1..la
    BY <1>4
  <2> QED
    BY <1>3, <1>4, <2>1
<1>a. /\ la \in Nat /\ lr \in Nat /\ la <= n /\ lr = IF n - la < ArchiveLimit THEN n - la ELSE ArchiveLimit
  BY <1>2, <1>3
<1>b. lk \in Nat /\ lk = IF la < MaxEntries THEN la ELSE MaxEntries
  BY <1>4
<1>c. ld \in Nat /\ ld = IF la > MaxEntries THEN la - MaxEntries ELSE 0
  BY <1>5
<1>d. lb \in Nat /\ lt \in Nat /\ lb = ld + lr /\ lt = IF lb < ArchiveLimit THEN lb ELSE ArchiveLimit
  BY <1>6, <1>7
<1>9. lk + ld = la
  BY <1>a, <1>b, <1>c
<1>10. ASSUME NEW i \in 1..lb PROVE b[i].id = n - lk + 1 - i
  <2>1. CASE i <= ld
    <3>1. i \in 1..ld /\ MaxEntries + i \in 1..la /\ lk = MaxEntries
      BY <1>2, <1>4, <1>5, <2>1
    <3>2. b[i] = a[MaxEntries + i]
      BY <1>5, <1>6, <2>1, <3>1
    <3>3. a[MaxEntries + i].id = n + 1 - (MaxEntries + i)
      BY <1>3, <3>1
    <3> QED
      BY <3>1, <3>2, <3>3
  <2>2. CASE ~ (i <= ld)
    <3>1. i - ld \in 1..lr
      BY <1>6, <2>2
    <3>2. b[i] = r[i - ld]
      BY <1>6, <2>2
    <3>3. r[i - ld].id = n - la + 1 - (i - ld)
      BY <1>3, <3>1
    <3> QED
      BY <1>a, <1>b, <1>c, <1>9, <3>2, <3>3
  <2> QED
    BY <2>1, <2>2
<1>11. \A i \in 1..lt : t[i].id = n - lk + 1 - i
  <2>1. \A i \in 1..lt : i \in 1..lb
    BY <1>7
  <2> QED
    BY <1>7, <1>10, <2>1
<1>12. lk <= n /\ lt = IF n - lk < ArchiveLimit THEN n - lk ELSE ArchiveLimit
  <2>1. CASE la < MaxEntries
    <3>1. lk = la /\ ld = 0 /\ lb = lr
      BY <1>a, <1>b, <1>c, <1>d, <2>1
    <3> QED
      BY <1>a, <1>d, <3>1
  <2>2. CASE la >= MaxEntries
    <3>1. lk = MaxEntries /\ ld = la - MaxEntries
      BY <1>a, <1>b, <1>c, <2>2
    <3>2. CASE n - la < ArchiveLimit
      <4>1. lb = n - lk
        BY <1>a, <1>d, <3>1, <3>2
      <4> QED
        BY <1>a, <1>b, <1>d, <2>2, <3>1, <4>1
    <3>3. CASE n - la >= ArchiveLimit
      <4>1. lb >= ArchiveLimit /\ n - lk >= ArchiveLimit
        BY <1>a, <1>c, <1>d, <2>2, <3>1, <3>3
      <4> QED
        BY <1>a, <1>b, <1>d, <2>2, <3>1, <4>1
    <3> QED
      BY <1>a, <3>2, <3>3
  <2> QED
    BY <1>a, <2>1, <2>2
<1>13. applySyncTransactionsPolicy(lists) = [active |-> k, archive |-> t]
  BY <1>1, <1>4, <1>5, <1>6, <1>7 DEF applySyncTransactionsPolicy
<1>14. Full(k, t, n)
  BY <1>4, <1>7, <1>8, <1>11, <1>12 DEF Full, Newest
<1>15. [active |-> k, archive |-> t] \in TwoLists
  BY DEF TwoLists, TxLists
<1> QED
  BY <1>1, <1>2, <1>4, <1>13, <1>14, <1>15

LEMMA NewestAppend ==
  ASSUME NewestInv, txRestarts = 0, MaxEntries \in Nat \ {0}, ArchiveLimit \in Nat \ {0},
         NEW e \in TxRecords, e.id = txLog + 1, txLog' = txLog + 1, UNCHANGED txRestarts,
         txs' = applySyncTransactionsPolicy([txs EXCEPT !.active = <<e>> \o @])
  PROVE  NewestInv'
<1>1. PICK a \in Seq(TxRecords), r \in Seq(TxRecords), n \in Nat, la \in Nat :
        /\ txs.active = a /\ txs.archive = r /\ n = txLog /\ la = Len(a) /\ DOMAIN a = 1..la
        /\ txs = [active |-> a, archive |-> r]
  <2>1. /\ txs.active \in Seq(TxRecords) /\ txs.archive \in Seq(TxRecords) /\ txLog \in Nat
        /\ txs = [active |-> txs.active, archive |-> txs.archive]
    BY DEF NewestInv, TwoLists, TxLists
  <2>2. Len(txs.active) \in Nat /\ DOMAIN txs.active = 1..Len(txs.active)
    BY <2>1
  <2> USE <2>1, <2>2
  <2> WITNESS txs.active \in Seq(TxRecords), txs.archive \in Seq(TxRecords), txLog \in Nat, Len(txs.active) \in Nat
  <2> QED
    OBVIOUS
<1>2. /\ Newest(a, n) /\ Newest(r, n - la) /\ la <= n
      /\ Len(r) = IF n - la < ArchiveLimit THEN n - la ELSE ArchiveLimit
      /\ la = IF n - 1 < MaxEntries THEN n - 1 ELSE MaxEntries
  BY <1>1 DEF NewestInv, Full
<1>3. PICK b \in Seq(TxRecords), lb \in Nat :
        /\ b = <<e>> \o a /\ lb = Len(b) /\ DOMAIN b = 1..lb /\ lb = 1 + la
        /\ b[1] = e /\ \A i \in 2..lb : b[i] = a[i - 1]
  <2> DEFINE b == <<e>> \o a
  <2>1. <<e>> \in Seq(TxRecords) /\ Len(<<e>>) = 1 /\ <<e>>[1] = e
    OBVIOUS
  <2>2. /\ b \in Seq(TxRecords) /\ Len(b) = 1 + la
        /\ \A i \in 1..(1 + la) : b[i] = IF i <= 1 THEN <<e>>[i] ELSE a[i - 1]
    <3>1. a \in Seq(TxRecords) /\ la = Len(a)
      BY <1>1
    <3>2. /\ b \in Seq(TxRecords) /\ Len(b) = Len(<<e>>) + Len(a)
          /\ \A i \in 1..(Len(<<e>>) + Len(a)) : b[i] = IF i <= Len(<<e>>) THEN <<e>>[i] ELSE a[i - Len(<<e>>)]
      BY <2>1, <3>1, JoinedOf
    <3> QED
      BY <2>1, <3>1, <3>2
  <2> HIDE DEF b
  <2>3. 1 + la \in Nat /\ DOMAIN b = 1..(1 + la) /\ b[1] = e /\ \A i \in 2..(1 + la) : b[i] = a[i - 1]
    <3>1. 1 + la \in Nat /\ 1 \in 1..(1 + la) /\ 1 <= 1
      BY <1>1
    <3>2. DOMAIN b = 1..(1 + la)
      BY <2>2
    <3>3. b[1] = e
      BY <2>1, <2>2, <3>1
    <3>4. ASSUME NEW i \in 2..(1 + la) PROVE b[i] = a[i - 1]
      <4>1. i \in 1..(1 + la) /\ ~ (i <= 1)
        BY <3>1
      <4> QED
        BY <2>2, <4>1
    <3> QED
      BY <3>1, <3>2, <3>3, <3>4
  <2>4. \E l \in Nat : l = Len(b) /\ DOMAIN b = 1..l /\ l = 1 + la /\ b[1] = e /\ \A i \in 2..l : b[i] = a[i - 1]
    <3> WITNESS Len(b) \in Nat
    <3> QED
      BY <2>2, <2>3
  <2> QED
    BY <2>2, <2>4 DEF b
<1>4. Newest(b, n + 1)
  <2>1. ASSUME NEW i \in 1..lb PROVE b[i].id = (n + 1) + 1 - i
    <3>1. CASE i = 1
      BY <1>1, <1>3, <3>1
    <3>2. CASE i # 1
      <4>1. i \in 2..lb /\ i - 1 \in 1..la
        BY <1>3, <3>2
      <4>2. a[i - 1].id = n + 1 - (i - 1)
        BY <1>1, <1>2, <4>1 DEF Newest
      <4> QED
        BY <1>1, <1>3, <4>1, <4>2
    <3> QED
      BY <3>1, <3>2
  <2> QED
    BY <1>3, <2>1 DEF Newest
<1>5. n - la = (n + 1) - lb /\ lb <= n + 1 /\ lb = 1 + la /\ lb = Len(b)
  <2>1. n \in Nat /\ la \in Nat /\ la <= n
    BY <1>1, <1>2
  <2>2. lb = 1 + la /\ lb = Len(b)
    BY <1>3
  <2> QED
    BY <2>1, <2>2
<1>6. Full(b, r, n + 1)
  BY <1>2, <1>4, <1>5 DEF Full
<1> DEFINE l == [active |-> b, archive |-> r]
<1>7. l \in TwoLists /\ l.active = b /\ l.archive = r
  BY DEF TwoLists, TxLists
<1>8. l = [txs EXCEPT !.active = <<e>> \o @]
  <2>1. txs.active = a /\ b = <<e>> \o a /\ txs = [active |-> a, archive |-> r]
    BY <1>1, <1>3
  <2>2. \A x : [[active |-> a, archive |-> r] EXCEPT !.active = x] = [active |-> x, archive |-> r]
    OBVIOUS
  <2>3. [txs EXCEPT !.active = <<e>> \o @] = [[active |-> a, archive |-> r] EXCEPT !.active = b]
    BY <2>1
  <2> QED
    BY <2>2, <2>3
<1> HIDE DEF l
<1>9. /\ txs' \in TwoLists /\ Full(txs'.active, txs'.archive, n + 1)
      /\ Len(txs'.active) = IF lb < MaxEntries THEN lb ELSE MaxEntries
  <2>1. txs' = applySyncTransactionsPolicy(l) /\ n + 1 \in Nat
    BY <1>1, <1>8
  <2>2. Full(l.active, l.archive, n + 1)
    BY <1>6, <1>7
  <2>3. LET p == applySyncTransactionsPolicy(l)
        IN  /\ p \in TwoLists /\ Full(p.active, p.archive, n + 1)
            /\ Len(p.active) = IF Len(l.active) < MaxEntries THEN Len(l.active) ELSE MaxEntries
    BY <1>7, <2>1, <2>2, PolicyNewest
  <2> QED
    BY <1>5, <1>7, <2>1, <2>3
<1>10. txLog' = n + 1 /\ n + 1 \in Nat \ {0} /\ txRestarts' \in Nat
  BY <1>1 DEF NewestInv
<1>11. Len(txs'.active) = IF (n + 1) - 1 < MaxEntries THEN (n + 1) - 1 ELSE MaxEntries
  <2>1. n \in Nat /\ la \in Nat /\ lb = 1 + la /\ la = IF n - 1 < MaxEntries THEN n - 1 ELSE MaxEntries
    BY <1>1, <1>2, <1>5
  <2>2. n >= 1
    BY <1>1 DEF NewestInv
  <2>3. (IF lb < MaxEntries THEN lb ELSE MaxEntries) = IF n < MaxEntries THEN n ELSE MaxEntries
    BY <2>1, <2>2
  <2>4. (n + 1) - 1 = n
    BY <2>1
  <2> QED
    BY <1>9, <2>3, <2>4
<1>12. Full(txs.active, txs.archive, txLog)'
  BY <1>9, <1>10 DEF Full, Newest
<1> QED
  BY <1>9, <1>10, <1>11, <1>12 DEF NewestInv

LEMMA NewestPhase ==
  ASSUME NewestInv, txRestarts = 0, MaxEntries \in Nat \ {0}, ArchiveLimit \in Nat \ {0},
         NEW m \in Int, NEW phase \in {"bndupd_sent", "committed", "failed"},
         txs' = SetPhase(m, phase), UNCHANGED <<txLog, txRestarts>>
  PROVE  NewestInv'
<1>1. PICK a \in Seq(TxRecords), r \in Seq(TxRecords), n \in Nat, la \in Nat :
        /\ txs.active = a /\ txs.archive = r /\ n = txLog /\ la = Len(a) /\ DOMAIN a = 1..la
        /\ txs = [active |-> a, archive |-> r]
  <2>1. /\ txs.active \in Seq(TxRecords) /\ txs.archive \in Seq(TxRecords) /\ txLog \in Nat
        /\ txs = [active |-> txs.active, archive |-> txs.archive]
    BY DEF NewestInv, TwoLists, TxLists
  <2>2. Len(txs.active) \in Nat /\ DOMAIN txs.active = 1..Len(txs.active)
    BY <2>1
  <2> USE <2>1, <2>2
  <2> WITNESS txs.active \in Seq(TxRecords), txs.archive \in Seq(TxRecords), txLog \in Nat, Len(txs.active) \in Nat
  <2> QED
    OBVIOUS
<1>2. /\ Newest(a, n) /\ Newest(r, n - la) /\ la <= n
      /\ Len(r) = IF n - la < ArchiveLimit THEN n - la ELSE ArchiveLimit
      /\ la = IF n - 1 < MaxEntries THEN n - 1 ELSE MaxEntries
  BY <1>1 DEF NewestInv, Full
<1> DEFINE new == [i \in DOMAIN a |-> IF a[i].id = m THEN Tx(m, phase) ELSE a[i]]
<1>3. Tx(m, phase) \in TxRecords /\ Tx(m, phase).id = m
  BY DEF Tx, TxRecords
<1>4. new \in Seq(TxRecords) /\ Len(new) = la /\ DOMAIN new = 1..la
  <2>1. \A i \in 1..la : (IF a[i].id = m THEN Tx(m, phase) ELSE a[i]) \in TxRecords
    BY <1>1, <1>3
  <2>2. new \in [1..la -> TxRecords]
    BY <1>1, <2>1
  <2> HIDE DEF new
  <2>3. new \in Seq(TxRecords)
    BY <2>2, IsASeq
  <2> QED
    BY <2>2, <2>3
<1>5. \A i \in 1..la : new[i].id = a[i].id
  BY <1>1, <1>3
<1> DEFINE l == [active |-> new, archive |-> r]
<1>6. l = [txs EXCEPT !.active = [i \in DOMAIN @ |-> IF @[i].id = m THEN Tx(m, phase) ELSE @[i]]]
  <2>1. txs.active = a /\ txs = [active |-> a, archive |-> r]
    BY <1>1
  <2>2. [i \in DOMAIN txs.active |-> IF txs.active[i].id = m THEN Tx(m, phase) ELSE txs.active[i]] = new
    BY <2>1
  <2> HIDE DEF new
  <2>3. [txs EXCEPT !.active = new] = l
    BY <2>1
  <2> QED
    BY <2>2, <2>3
<1> HIDE DEF new
<1>7. Full(new, r, n)
  BY <1>1, <1>2, <1>4, <1>5 DEF Full, Newest
<1>8. l \in TwoLists /\ l.active = new /\ l.archive = r
  BY <1>4 DEF TwoLists, TxLists
<1>9. txs' = applySyncTransactionsPolicy(l)
  BY <1>6 DEF SetPhase
<1> HIDE DEF l
<1>10. /\ txs' \in TwoLists /\ Full(txs'.active, txs'.archive, n)
       /\ Len(txs'.active) = IF la < MaxEntries THEN la ELSE MaxEntries
  BY <1>4, <1>7, <1>8, <1>9, PolicyNewest
<1>11. txLog' = n /\ n \in Nat \ {0} /\ txRestarts' \in Nat
  BY <1>1 DEF NewestInv
<1>12. Len(txs'.active) = IF n - 1 < MaxEntries THEN n - 1 ELSE MaxEntries
  BY <1>2, <1>10
<1>13. Full(txs.active, txs.archive, txLog)'
  BY <1>10, <1>11 DEF Full, Newest
<1> QED
  BY <1>10, <1>11, <1>12, <1>13 DEF NewestInv

\* A step that leaves the lists alone, or comes after a restart.
LEMMA NewestStays ==
  ASSUME NewestInv, SyncInv', txLog' \in Nat \ {0}, txRestarts' \in Nat,
         txRestarts' # 0 \/ UNCHANGED <<txs, txLog, txRestarts>>
  PROVE  NewestInv'
<1>1. txs' \in TwoLists
  BY DEF SyncInv, ListsOk
<1>2. CASE txRestarts' # 0
  BY <1>1, <1>2 DEF NewestInv
<1>3. CASE UNCHANGED <<txs, txLog, txRestarts>>
  BY <1>3 DEF NewestInv, Full, Newest
<1> QED
  BY <1>2, <1>3

LEMMA NewestSteps ==
  ASSUME SyncInv, SyncInv', NewestInv, MaxEntries \in Nat \ {0}, ArchiveLimit \in Nat \ {0},
         [SyncNext]_syncVars
  PROVE  NewestInv'
<1>1. txLog \in Nat \ {0} /\ txRestarts \in Nat
  BY DEF NewestInv
<1>2. ASSUME NEW w \in Syncs, handleClusterSyncTrigger(w) PROVE NewestInv'
  <2>1. /\ txLog' = txLog + 1 /\ UNCHANGED txRestarts
        /\ txs' = applySyncTransactionsPolicy([txs EXCEPT !.active = <<Tx(txLog', "bndupd_sent")>> \o @])
    BY <1>2 DEF handleClusterSyncTrigger, startSyncTransaction
  <2>2. txLog' \in Nat \ {0} /\ txRestarts' \in Nat
    BY <1>1, <2>1
  <2>3. CASE txRestarts # 0
    BY <2>1, <2>2, <2>3, NewestStays
  <2>4. CASE txRestarts = 0
    <3>1. PICK e \in TxRecords : e = Tx(txLog', "bndupd_sent") /\ e.id = txLog + 1
      BY <1>1, <2>1 DEF Tx, TxRecords
    <3>2. txs' = applySyncTransactionsPolicy([txs EXCEPT !.active = <<e>> \o @])
      BY <2>1, <3>1
    <3> QED
      BY <2>1, <2>4, <3>1, <3>2, NewestAppend
  <2> QED
    BY <2>3, <2>4
<1>3. ASSUME NEW w \in Syncs,
             restartSyncTransaction(w) \/ completeSyncTransaction(w) \/ failSyncTransaction(w)
      PROVE  NewestInv'
  <2>1. PICK m \in Int, phase \in {"bndupd_sent", "committed", "failed"} : txs' = SetPhase(m, phase)
    <3>1. syncs[w].tx \in Int
      BY WritersState DEF SyncInv, SyncRecords, Writers
    <3> QED
      BY <1>3, <3>1 DEF restartSyncTransaction, completeSyncTransaction, failSyncTransaction, Outcome
  <2>2. UNCHANGED <<txLog, txRestarts>>
    BY <1>3 DEF restartSyncTransaction, completeSyncTransaction, failSyncTransaction, Outcome
  <2>3. CASE txRestarts # 0
    BY <1>1, <2>2, <2>3, NewestStays
  <2>4. CASE txRestarts = 0
    BY <2>1, <2>2, <2>4, NewestPhase
  <2> QED
    BY <2>3, <2>4
<1>4. CASE UNCHANGED <<txs, txLog, txRestarts>>
  BY <1>1, <1>4, NewestStays
<1>5. CASE TxRestart
  <2>1. txLog' = txLog /\ txRestarts' = txRestarts + 1
    BY <1>5 DEF TxRestart
  <2> QED
    BY <1>1, <2>1, NewestStays
<1>6. ASSUME NEW w \in Syncs,
             \/ handleClusterSyncTransactionRetry(w) \/ SendPrepare(w) \/ SendCommit(w) \/ CommitAcked(w)
             \/ SyncError(w) \/ handlePrepare(w) \/ handleCommit(w)
      PROVE  NewestInv'
  BY <1>4, <1>6 DEF handleClusterSyncTransactionRetry, SendPrepare, SendCommit, CommitAcked, SyncError,
                    handlePrepare, handleCommit
<1>7. ASSUME NEW w \in Writers, persistSyncTransactions(w) PROVE NewestInv'
  BY <1>4, <1>7 DEF persistSyncTransactions, PersistActive, PersistArchive, PersistFails
<1>8. CASE runSyncTransactionsReconciler
  BY <1>4, <1>8 DEF runSyncTransactionsReconciler
<1>9. CASE UNCHANGED syncVars
  BY <1>4, <1>9 DEF syncVars
<1> QED
  BY <1>2, <1>3, <1>5, <1>6, <1>7, <1>8, <1>9 DEF SyncNext, SyncStep

LEMMA NewestInvariant == SyncSpec => [](SyncInv /\ NewestInv)
<1>1. MaxEntries \in Nat \ {0} /\ ArchiveLimit \in Nat \ {0}
  BY SyncAssumption
<1>2. SyncInit /\ SyncInv => NewestInv
  <2> SUFFICES ASSUME SyncInit, SyncInv PROVE NewestInv
    OBVIOUS
  <2>1. /\ txs = [active |-> <<>>, archive |-> <<Tx(1, "committed")>>]
        /\ txLog = 1 /\ txRestarts = 0 /\ txs \in TwoLists
    BY DEF SyncInit, SyncInitWith, SyncInv, ListsOk
  <2>2. /\ Len(<<>>) = 0 /\ DOMAIN <<>> = {} /\ DOMAIN <<Tx(1, "committed")>> = {1}
        /\ <<Tx(1, "committed")>>[1].id = 1 /\ Len(<<Tx(1, "committed")>>) = 1
    BY DEF Tx
  <2>3. Full(txs.active, txs.archive, txLog)
    BY <1>1, <2>1, <2>2 DEF Full, Newest
  <2> QED
    BY <1>1, <2>1, <2>2, <2>3 DEF NewestInv
<1>3. SyncInv /\ SyncInv' /\ NewestInv /\ [SyncNext]_syncVars => NewestInv'
  BY <1>1, NewestSteps
<1> QED
  BY <1>2, <1>3, SyncInvariant, PTL DEF SyncSpec

LEMMA NewestHeld == ASSUME NewestInv, MaxEntries \in Nat \ {0}, ArchiveLimit \in Nat \ {0} PROVE NewestKept
<1> SUFFICES ASSUME txRestarts = 0 PROVE NewestKept
  BY DEF NewestKept
<1>1. PICK a \in Seq(TxRecords), r \in Seq(TxRecords), n \in Nat, la \in Nat :
        /\ txs.active = a /\ txs.archive = r /\ n = txLog /\ la = Len(a) /\ DOMAIN a = 1..la
        /\ txs = [active |-> a, archive |-> r]
  <2>1. /\ txs.active \in Seq(TxRecords) /\ txs.archive \in Seq(TxRecords) /\ txLog \in Nat
        /\ txs = [active |-> txs.active, archive |-> txs.archive]
    BY DEF NewestInv, TwoLists, TxLists
  <2>2. Len(txs.active) \in Nat /\ DOMAIN txs.active = 1..Len(txs.active)
    BY <2>1
  <2> USE <2>1, <2>2
  <2> WITNESS txs.active \in Seq(TxRecords), txs.archive \in Seq(TxRecords), txLog \in Nat, Len(txs.active) \in Nat
  <2> QED
    OBVIOUS
<1>2. /\ Newest(a, n) /\ Newest(r, n - la) /\ la <= n /\ n >= 1
      /\ Len(r) = IF n - la < ArchiveLimit THEN n - la ELSE ArchiveLimit
      /\ la = IF n - 1 < MaxEntries THEN n - 1 ELSE MaxEntries
  BY <1>1 DEF NewestInv, Full
<1>3. PICK lr \in Nat : lr = Len(r) /\ DOMAIN r = 1..lr
  BY <1>1
<1>4. /\ a \o r \in Seq(TxRecords) /\ Len(a \o r) = la + lr
      /\ \A i \in 1..(la + lr) : (a \o r)[i] = IF i <= la THEN a[i] ELSE r[i - la]
  <2>1. a \in Seq(TxRecords) /\ r \in Seq(TxRecords) /\ Len(a) = la /\ Len(r) = lr
    BY <1>1, <1>3
  <2>2. /\ a \o r \in Seq(TxRecords) /\ Len(a \o r) = Len(a) + Len(r)
        /\ \A i \in 1..(Len(a) + Len(r)) : (a \o r)[i] = IF i <= Len(a) THEN a[i] ELSE r[i - Len(a)]
    BY <2>1, JoinedOf
  <2> QED
    BY <2>1, <2>2
<1>5. PICK b \in Seq(TxRecords) :
        /\ b = a \o r /\ Len(b) = la + lr /\ \A i \in 1..(la + lr) : b[i] = IF i <= la THEN a[i] ELSE r[i - la]
  BY <1>4
<1>6. /\ la \in Nat /\ lr \in Nat /\ n \in Nat /\ la <= n /\ n >= 1
      /\ lr = IF n - la < ArchiveLimit THEN n - la ELSE ArchiveLimit
      /\ la = IF n - 1 < MaxEntries THEN n - 1 ELSE MaxEntries
  BY <1>1, <1>2, <1>3
<1>7. ASSUME NEW i \in 1..(la + lr) PROVE b[i].id = n + 1 - i
  <2>1. CASE i <= la
    <3>1. b[i] = a[i] /\ i \in DOMAIN a
      BY <1>1, <1>5, <1>6, <2>1
    <3> QED
      BY <1>2, <3>1 DEF Newest
  <2>2. CASE ~ (i <= la)
    <3>1. b[i] = r[i - la] /\ i - la \in 1..lr
      BY <1>5, <1>6, <2>2
    <3>2. r[i - la].id = n - la + 1 - (i - la)
      BY <1>2, <1>3, <3>1 DEF Newest
    <3> QED
      BY <1>6, <3>1, <3>2
  <2> QED
    BY <2>1, <2>2
<1>8. DOMAIN b = 1..(la + lr)
  BY <1>5
<1>9. la <= MaxEntries /\ lr <= ArchiveLimit
  BY <1>6
<1>10. la + lr = IF n < MaxEntries THEN n ELSE IF n - la < ArchiveLimit THEN n ELSE la + ArchiveLimit
  <2>1. CASE n < MaxEntries
    <3>1. la = n - 1
      BY <1>6, <2>1
    <3> QED
      BY <1>6, <2>1, <3>1
  <2>2. CASE ~ (n < MaxEntries)
    BY <1>6, <2>2
  <2> QED
    BY <2>1, <2>2
<1> QED
  BY <1>1, <1>3, <1>5, <1>7, <1>8, <1>9, <1>10 DEF NewestKept

-----------------------------------------------------------------------------
(* The reconciler's timer.                                                 *)

LEMMA PowersOfTwo == ASSUME NEW n \in 0..30 PROVE 2^n \in Nat \ {0}
<1>1. /\ 2^0 \in Nat \ {0} /\ 2^1 \in Nat \ {0} /\ 2^2 \in Nat \ {0} /\ 2^3 \in Nat \ {0}
      /\ 2^4 \in Nat \ {0} /\ 2^5 \in Nat \ {0} /\ 2^6 \in Nat \ {0} /\ 2^7 \in Nat \ {0}
      /\ 2^8 \in Nat \ {0} /\ 2^9 \in Nat \ {0} /\ 2^10 \in Nat \ {0} /\ 2^11 \in Nat \ {0}
      /\ 2^12 \in Nat \ {0} /\ 2^13 \in Nat \ {0} /\ 2^14 \in Nat \ {0} /\ 2^15 \in Nat \ {0}
      /\ 2^16 \in Nat \ {0} /\ 2^17 \in Nat \ {0} /\ 2^18 \in Nat \ {0} /\ 2^19 \in Nat \ {0}
      /\ 2^20 \in Nat \ {0} /\ 2^21 \in Nat \ {0} /\ 2^22 \in Nat \ {0} /\ 2^23 \in Nat \ {0}
      /\ 2^24 \in Nat \ {0} /\ 2^25 \in Nat \ {0} /\ 2^26 \in Nat \ {0} /\ 2^27 \in Nat \ {0}
      /\ 2^28 \in Nat \ {0} /\ 2^29 \in Nat \ {0} /\ 2^30 \in Nat \ {0}
  OBVIOUS
<1>2. \/ n = 0 \/ n = 1 \/ n = 2 \/ n = 3 \/ n = 4 \/ n = 5 \/ n = 6 \/ n = 7 \/ n = 8 \/ n = 9
      \/ n = 10 \/ n = 11 \/ n = 12 \/ n = 13 \/ n = 14 \/ n = 15 \/ n = 16 \/ n = 17 \/ n = 18
      \/ n = 19 \/ n = 20 \/ n = 21 \/ n = 22 \/ n = 23 \/ n = 24 \/ n = 25 \/ n = 26 \/ n = 27
      \/ n = 28 \/ n = 29 \/ n = 30
  OBVIOUS
<1> QED
  BY <1>1, <1>2, Zenon

LEMMA JitterBounds ==
  ASSUME NEW d \in Nat \ {0}, BackoffMax \in Nat, d <= BackoffMax, NEW v \in WithJitter(d)
  PROVE  v \in 1..(BackoffMax + BackoffMax \div 5)
<1>1. d \div 5 \in Nat /\ BackoffMax \div 5 \in Nat /\ d \div 5 <= BackoffMax \div 5
  OBVIOUS
<1>2. v \in Int /\ d <= v /\ v <= d + d \div 5
  BY <1>1 DEF WithJitter
<1> QED
  BY <1>1, <1>2

BackoffInv == streak \in 0..MaxStreak /\ alerted \in BOOLEAN /\ BackoffSound

LEMMA BackoffInvariant == BackoffSpec => []BackoffInv
<1>1. BackoffMax \in Nat \ {0} /\ AlertThreshold \in Nat \ {0} /\ MaxStreak \in 1..30
  BY BackoffAssumption
<1>2. 1 \in 1..(BackoffMax + BackoffMax \div 5)
  BY <1>1
<1>3. BackoffInit => BackoffInv
  <2> SUFFICES ASSUME BackoffInit PROVE BackoffInv
    OBVIOUS
  <2>1. streak \in 0..MaxStreak /\ delay \in 1..(BackoffMax + BackoffMax \div 5)
    BY <1>1, <1>2 DEF BackoffInit
  <2>2. alerted = FALSE
    BY DEF BackoffInit
  <2> QED
    BY <2>1, <2>2, Zenon DEF BackoffInv, BackoffSound
<1>4. BackoffInv /\ [ReconcileOnce]_backoffVars => BackoffInv'
  <2> SUFFICES ASSUME BackoffInv, [ReconcileOnce]_backoffVars PROVE BackoffInv'
    OBVIOUS
  <2>1. CASE UNCHANGED backoffVars
    BY <2>1 DEF BackoffInv, BackoffSound, backoffVars
  <2>2. CASE ReconcileOnce
    <3>1. PICK failed \in BOOLEAN :
            /\ streak' = IF failed THEN streak + 1 ELSE 0
            /\ streak' <= MaxStreak
            /\ recordSyncTransactionsReconcileResult(failed)
            /\ delay' \in nextSyncTransactionsReconcileDelay(streak')
      BY <2>2 DEF ReconcileOnce
    <3>2. streak' \in 0..MaxStreak /\ streak \in Nat
      BY <1>1, <3>1 DEF BackoffInv
    <3>3. alerted' \in BOOLEAN /\ (alerted' => streak' >= AlertThreshold)
      <4>1. CASE ~ failed
        BY <3>1, <4>1, Zenon DEF recordSyncTransactionsReconcileResult
      <4>2. CASE failed /\ streak' = AlertThreshold
        <5>1. streak' >= AlertThreshold
          BY <1>1, <4>2
        <5> QED
          BY <3>1, <4>2, <5>1, Zenon DEF recordSyncTransactionsReconcileResult
      <4>3. CASE failed /\ streak' # AlertThreshold
        <5>1. alerted' = alerted /\ alerted \in BOOLEAN /\ (alerted => streak >= AlertThreshold)
          BY <3>1, <4>3, Zenon DEF recordSyncTransactionsReconcileResult, BackoffInv, BackoffSound
        <5>2. streak >= AlertThreshold => streak' >= AlertThreshold
          BY <1>1, <3>1, <3>2, <4>3
        <5> QED
          BY <5>1, <5>2, Zenon
      <4> QED
        BY <4>1, <4>2, <4>3, Zenon
    <3>4. PICK n \in 0..30, p \in Nat \ {0} : n = streak' /\ p = 2^n
      BY <1>1, <3>2, PowersOfTwo
    <3>b. p \in Nat \ {0}
      BY <3>4, Zenon
    <3>a. MaxDuration \in Nat
      BY SMT DEF MaxDuration
    <3>5. delay' \in 1..(BackoffMax + BackoffMax \div 5) \/ 2^streak' > MaxDuration
      <4>1. CASE n = 0
        BY <1>2, <3>1, <3>4, <4>1 DEF nextSyncTransactionsReconcileDelay
      <4>2. CASE n # 0 /\ p > MaxDuration
        BY <3>4, <4>2
      <4>3. CASE n # 0 /\ ~ (p > MaxDuration)
        <5>1. p <= MaxDuration
          BY <3>a, <3>b, <4>3
        <5>2. PICK d \in Nat \ {0} : d = (IF p > BackoffMax THEN BackoffMax ELSE p) /\ d <= BackoffMax
          BY <1>1, <3>b
        <5>3. delay' \in WithJitter(d)
          BY <3>1, <3>4, <4>3, <5>1, <5>2 DEF nextSyncTransactionsReconcileDelay
        <5> QED
          BY <1>1, <5>2, <5>3, JitterBounds
      <4> QED
        BY <4>1, <4>2, <4>3
    <3> QED
      BY <3>2, <3>3, <3>5 DEF BackoffInv, BackoffSound
  <2> QED
    BY <2>1, <2>2
<1> QED
  BY <1>3, <1>4, PTL DEF BackoffSpec

\* What the lists of sync transactions say is true, for any number of calls,
\* restarts and failed writes and any limits of the lists: an entry shown or
\* stored as committed was committed by the partner, until a restart the
\* lists are the newest transactions in order (sync_transactions_store.go,
\* cluster_sync_transport.go), and the reconciler's delay stays within its
\* maximum and jitter as long as it does not overflow.
THEOREM TransactionsTrusted == SyncSpec /\ BackoffSpec => []StoreSound
<1>1. MaxEntries \in Nat \ {0} /\ ArchiveLimit \in Nat \ {0}
  BY SyncAssumption
<1>2. SyncInv /\ NewestInv /\ BackoffInv => StoreSound
  BY <1>1, SyncCommitted, NewestHeld DEF BackoffInv, StoreSound, SyncSound
<1> QED
  BY <1>2, NewestInvariant, BackoffInvariant, PTL

-----------------------------------------------------------------------------
(* FailoverPlan.  The steps a plan has executed are the first k of the     *)
(* order; k goes up with every success and down with every rollback.       *)

Fwd(i) == StepOrder[i]
Rev(i) == RollbackOf[StepOrder[i]]
Undoable == 2..5

StepStates == {"absent", "PENDING", "RUNNING", "SUCCESS", "FAILED"}
PlanStates == {"absent", "PENDING", "RUNNING", "SUCCESS", "FAILED", "ROLLED_BACK"}

PlanOk(f, r) ==
  LET k == Len(r.executed) IN
  /\ k \in 0..6 /\ \A i \in 1..k : r.executed[i] = Fwd(i)
  /\ r.at \in {"idle", "run"} => k = 0
  /\ r.at \in {"start", "execute"} => k <= 5 /\ r.step = Fwd(k + 1)
  /\ r.at \in {"undo", "undoing"} => k \in Undoable /\ r.step = Rev(k)
  /\ r.at # "done" => f.status # "ROLLED_BACK"
  /\ f.status = "absent" => r.at = "idle"
  \* No step is undone before the plan fails, and none before a later one.
  /\ r.at \in {"idle", "run", "start", "execute", "finish"} => \A i \in Undoable : f.steps[Rev(i)] = "absent"
  /\ r.at \in {"rollback", "undo", "undoing"} =>
       \A i \in Undoable : i < k \/ (i = k /\ r.at = "rollback") => f.steps[Rev(i)] = "absent"
  \* What counts as executed covers all that stands.
  /\ r.at # "done" => \A i \in Undoable : i > k => f.steps[Fwd(i)] # "SUCCESS" \/ f.steps[Rev(i)] = "SUCCESS"
  /\ r.at = "done" =>
       \/ f.status # "ROLLED_BACK" /\ \A i \in Undoable : f.steps[Rev(i)] = "absent"
       \/ \A i \in Undoable : f.steps[Fwd(i)] # "SUCCESS" \/ f.steps[Rev(i)] = "SUCCESS"

PlanRecords == [status : PlanStates, steps : [PlanSteps -> StepStates]]

RunRecords ==
  [at : {"idle", "run", "start", "execute", "finish", "rollback", "undo", "undoing", "done"},
   fails : Forward \cup {NoFailure}, step : PlanSteps \cup {"none"}, executed : Seq(Forward)]

PlanInv ==
  /\ fplans \in [Plans -> PlanRecords] /\ planRun \in [Plans -> RunRecords]
  /\ \A p \in Plans : PlanOk(fplans[p], planRun[p])

LEMMA OrderOfSteps ==
  /\ \A i \in 1..6 : Fwd(i) \in Forward /\ Fwd(i) \in PlanSteps
  /\ \A i \in 1..6, j \in 1..6 : Fwd(i) = Fwd(j) => i = j
  /\ DOMAIN RollbackOf = {Fwd(i) : i \in Undoable}
  /\ \A i \in Undoable : Rev(i) \in PlanSteps
  /\ \A i \in Undoable, j \in Undoable : Rev(i) = Rev(j) => i = j
  /\ \A i \in Undoable, j \in 1..6 : Rev(i) # Fwd(j)
<1>1. /\ Fwd(1) = "precheck" /\ Fwd(2) = "freeze_old_primary" /\ Fwd(3) = "promote_storage"
      /\ Fwd(4) = "promote_dhcp" /\ Fwd(5) = "switch_traffic" /\ Fwd(6) = "verify"
      /\ DOMAIN StepOrder = 1..6
  BY DEF Fwd, StepOrder
<1>2. /\ Rev(2) = "rollback_unfreeze_old_primary" /\ Rev(3) = "rollback_promote_storage"
      /\ Rev(4) = "rollback_promote_dhcp" /\ Rev(5) = "rollback_switch_traffic"
  BY <1>1 DEF Fwd, Rev, RollbackOf
<1>3. DOMAIN RollbackOf = {"freeze_old_primary", "promote_storage", "promote_dhcp", "switch_traffic"}
  BY DEF RollbackOf
<1>4. \A i \in 1..6 : i = 1 \/ i = 2 \/ i = 3 \/ i = 4 \/ i = 5 \/ i = 6
  OBVIOUS
<1>5. \A i \in Undoable : i = 2 \/ i = 3 \/ i = 4 \/ i = 5
  BY DEF Undoable
<1>6. \A i \in 1..6 : Fwd(i) \in Forward /\ Fwd(i) \in PlanSteps
  BY <1>1 DEF Fwd, Forward, ToSet, PlanSteps
<1>7. \A i \in 1..6, j \in 1..6 : Fwd(i) = Fwd(j) => i = j
  BY <1>1, <1>4
<1>8. DOMAIN RollbackOf = {Fwd(i) : i \in Undoable}
  <2>1. \A i \in Undoable : Fwd(i) \in DOMAIN RollbackOf
    BY <1>1, <1>3, <1>5
  <2>2. 2 \in Undoable /\ 3 \in Undoable /\ 4 \in Undoable /\ 5 \in Undoable
    BY DEF Undoable
  <2>3. \A f \in DOMAIN RollbackOf : \E i \in Undoable : f = Fwd(i)
    BY <1>1, <1>3, <2>2
  <2> QED
    BY <2>1, <2>3
<1>9. \A i \in Undoable : Rev(i) \in PlanSteps
  BY <1>8 DEF Rev, Fwd, PlanSteps, Undone
<1>10. \A i \in Undoable, j \in Undoable : Rev(i) = Rev(j) => i = j
  BY <1>2, <1>5
<1>11. \A i \in Undoable, j \in 1..6 : Rev(i) # Fwd(j)
  BY <1>1, <1>2, <1>4, <1>5
<1> QED
  BY <1>6, <1>7, <1>8, <1>9, <1>10, <1>11

LEMMA PositionOf == \A i \in 1..6 : Position(Fwd(i)) = i
<1> SUFFICES ASSUME NEW i \in 1..6 PROVE Position(Fwd(i)) = i
  OBVIOUS
<1>1. {j \in 1..Len(StepOrder) : StepOrder[j] = Fwd(i)} = {i}
  <2>1. Len(StepOrder) = 6
    BY DEF StepOrder
  <2> QED
    BY <2>1, OrderOfSteps DEF Fwd
<1>2. (CHOOSE x \in {i} : \A y \in {i} : x =< y) = i
  OBVIOUS
<1> QED
  BY <1>1, <1>2 DEF Position, SelectInSeq, Min

LEMMA PlanChanges ==
  ASSUME PlanInv, NEW p \in Plans, NEW f \in PlanRecords, NEW r \in RunRecords,
         fplans' = [fplans EXCEPT ![p] = f], planRun' = [planRun EXCEPT ![p] = r], PlanOk(f, r)
  PROVE  PlanInv'
<1>1. fplans' \in [Plans -> PlanRecords] /\ planRun' \in [Plans -> RunRecords]
  BY DEF PlanInv
<1>2. ASSUME NEW q \in Plans PROVE PlanOk(fplans'[q], planRun'[q])
  <2>1. CASE q = p
    <3>1. fplans'[q] = f /\ planRun'[q] = r
      BY <2>1 DEF PlanInv
    <3> QED
      BY <3>1
  <2>2. CASE q # p
    <3>1. fplans'[q] = fplans[q] /\ planRun'[q] = planRun[q]
      BY <2>2 DEF PlanInv
    <3> QED
      BY <3>1 DEF PlanInv
  <2> QED
    BY <2>1, <2>2
<1>3. \A q \in Plans : PlanOk(fplans[q], planRun[q])'
  BY <1>2 DEF PlanOk
<1> QED
  BY <1>1, <1>3 DEF PlanInv

\* What the update of one step leaves.
LEMMA StepIsSet ==
  ASSUME PlanInv, NEW p \in Plans, NEW i \in PlanSteps, NEW st \in StepStates, SetStep(p, i, st)
  PROVE  \E f \in PlanRecords :
           /\ fplans' = [fplans EXCEPT ![p] = f] /\ f.status = fplans[p].status
           /\ f.steps[i] = st /\ \A j \in PlanSteps : j # i => f.steps[j] = fplans[p].steps[j]
<1> DEFINE f == [fplans[p] EXCEPT !.steps = [fplans[p].steps EXCEPT ![i] = st]]
<1>1. fplans[p] \in PlanRecords
  BY DEF PlanInv
<1>2. /\ f \in PlanRecords /\ f.status = fplans[p].status /\ f.steps = [fplans[p].steps EXCEPT ![i] = st]
  BY <1>1 DEF PlanRecords
<1>3. fplans' = [fplans EXCEPT ![p] = f]
  BY DEF SetStep
<1> HIDE DEF f
<1>4. f.steps[i] = st /\ \A j \in PlanSteps : j # i => f.steps[j] = fplans[p].steps[j]
  BY <1>1, <1>2 DEF PlanRecords
<1> QED
  BY <1>2, <1>3, <1>4

\* The goroutine goes to another place.
LEMMA RunIsAt ==
  ASSUME PlanInv, NEW p \in Plans,
         NEW l \in {"execute", "rollback", "done", "undoing"}, PlanGoto(p, l)
  PROVE  \E r \in RunRecords :
           /\ planRun' = [planRun EXCEPT ![p] = r] /\ r.at = l
           /\ r.step = planRun[p].step /\ r.executed = planRun[p].executed
<1> DEFINE r == [planRun[p] EXCEPT !.at = l]
<1>1. planRun[p] \in RunRecords
  BY DEF PlanInv
<1>2. r \in RunRecords /\ r.at = l /\ r.step = planRun[p].step /\ r.executed = planRun[p].executed
  BY <1>1 DEF RunRecords
<1>3. planRun' = [planRun EXCEPT ![p] = r]
  BY DEF PlanGoto
<1> HIDE DEF r
<1> QED
  BY <1>2, <1>3

\* ... and has one step less, or one more, on its list.
LEMMA OneLess ==
  ASSUME NEW S, NEW e \in Seq(S), e # << >>
  PROVE  /\ Front(e) \in Seq(S) /\ Len(Front(e)) = Len(e) - 1 /\ Len(e) \in Nat \ {0}
         /\ \A i \in 1..Len(Front(e)) : Front(e)[i] = e[i]
<1>1. Len(e) \in Nat \ {0} /\ \A i \in 1..(Len(e) - 1) : e[i] \in S
  BY EmptySeq
<1>2. PICK m \in Nat : m = Len(e) - 1
  <2>1. Len(e) - 1 \in Nat
    BY <1>1
  <2> QED
    BY <2>1
<1>3. \A i \in 1..m : e[i] \in S
  BY <1>1, <1>2
<1>4. Front(e) \in Seq(S) /\ Len(Front(e)) = m /\ \A i \in 1..m : Front(e)[i] = e[i]
  BY <1>2, <1>3, SubSeqProperties DEF Front
<1> QED
  BY <1>1, <1>2, <1>4

LEMMA OneMore ==
  ASSUME NEW S, NEW e \in Seq(S), NEW x \in S
  PROVE  /\ Append(e, x) \in Seq(S) /\ Len(Append(e, x)) = Len(e) + 1
         /\ \A i \in 1..Len(e) : Append(e, x)[i] = e[i] /\ Append(e, x)[Len(e) + 1] = x
OBVIOUS


LEMMA PlanCreated == ASSUME PlanInv, NEW p \in Plans, handleClusterFailoverPlanCreate(p) PROVE PlanInv'
<1>1. fplans[p] \in PlanRecords /\ planRun[p] \in RunRecords /\ PlanOk(fplans[p], planRun[p])
  BY DEF PlanInv
<1> DEFINE new == [i \in PlanSteps |-> IF i \in Forward THEN "PENDING" ELSE "absent"]
           f == [[fplans[p] EXCEPT !.status = "PENDING"] EXCEPT !.steps = new]
<1>2. new \in [PlanSteps -> StepStates] /\ \A i \in Undoable : new[Rev(i)] = "absent" /\ new[Fwd(i)] # "SUCCESS"
  <2>1. \A i \in Undoable : Rev(i) \notin Forward
    <3>1. Forward = {Fwd(j) : j \in 1..6}
      BY DEF Forward, ToSet, Fwd, StepOrder
    <3> QED
      BY <3>1, OrderOfSteps
  <2>2. \A i \in Undoable : i \in 1..6
    BY DEF Undoable
  <2> QED
    BY <2>1, <2>2, OrderOfSteps DEF StepStates
<1> HIDE DEF new
<1>3. f \in PlanRecords /\ f.status = "PENDING" /\ f.steps = new
  BY <1>1, <1>2 DEF PlanRecords, PlanStates
<1>4. fplans' = [fplans EXCEPT ![p] = f]
  <2>1. fplans' = [fplans EXCEPT ![p].status = "PENDING", ![p].steps = new]
    BY DEF handleClusterFailoverPlanCreate, new
  <2> QED
    BY <2>1 DEF PlanInv
<1> HIDE DEF f
<1>5. PICK r \in RunRecords :
        planRun' = [planRun EXCEPT ![p] = r] /\ r.at = "run" /\ r.executed = planRun[p].executed
  <2>1. PICK g \in Forward \cup {NoFailure} :
          planRun' = [planRun EXCEPT ![p] = [planRun[p] EXCEPT !.at = "run", !.fails = g]]
    BY DEF handleClusterFailoverPlanCreate
  <2> DEFINE r == [planRun[p] EXCEPT !.at = "run", !.fails = g]
  <2>2. r \in RunRecords /\ r.at = "run" /\ r.executed = planRun[p].executed
    BY <1>1, <2>1 DEF RunRecords
  <2> HIDE DEF r
  <2>3. planRun' = [planRun EXCEPT ![p] = r]
    BY <2>1 DEF r
  <2> QED
    BY <2>2, <2>3
<1>6. planRun[p].at = "idle"
  BY <1>1 DEF PlanOk, handleClusterFailoverPlanCreate
<1>7. PlanOk(f, r)
  BY <1>1, <1>2, <1>3, <1>5, <1>6 DEF PlanOk
<1> QED
  BY <1>3, <1>4, <1>5, <1>7, PlanChanges

LEMMA PlanStarts == ASSUME PlanInv, NEW p \in Plans, runFailoverPlan(p) PROVE PlanInv'
<1>1. fplans[p] \in PlanRecords /\ planRun[p] \in RunRecords /\ PlanOk(fplans[p], planRun[p])
  BY DEF PlanInv
<1> DEFINE f == [fplans[p] EXCEPT !.status = "RUNNING"]
           r == [planRun[p] EXCEPT !.at = "start", !.step = Fwd(1)]
<1>2. f \in PlanRecords /\ f.status = "RUNNING" /\ f.steps = fplans[p].steps
  BY <1>1 DEF PlanRecords, PlanStates
<1>3. r \in RunRecords /\ r.at = "start" /\ r.step = Fwd(1) /\ r.executed = planRun[p].executed
  <2>1. Fwd(1) \in PlanSteps
    BY OrderOfSteps
  <2> QED
    BY <1>1, <2>1 DEF RunRecords
<1>4. fplans' = [fplans EXCEPT ![p] = f] /\ planRun' = [planRun EXCEPT ![p] = r]
  BY DEF runFailoverPlan, PlanInv, Fwd
<1> HIDE DEF f, r
<1>5. planRun[p].at = "run"
  BY DEF runFailoverPlan, PlanAt
<1>6. PlanOk(f, r)
  BY <1>1, <1>2, <1>3, <1>5 DEF PlanOk
<1> QED
  BY <1>2, <1>3, <1>4, <1>6, PlanChanges

LEMMA StepStarts == ASSUME PlanInv, NEW p \in Plans, startFailoverPlanStep(p) PROVE PlanInv'
<1>1. fplans[p] \in PlanRecords /\ planRun[p] \in RunRecords /\ PlanOk(fplans[p], planRun[p])
  BY DEF PlanInv
<1>2. PICK k \in 0..5 :
        k = Len(planRun[p].executed) /\ planRun[p].at = "start" /\ planRun[p].step = Fwd(k + 1) /\ k + 1 \in 1..6
  <2>1. planRun[p].at = "start"
    BY DEF startFailoverPlanStep, PlanAt
  <2>2. Len(planRun[p].executed) \in 0..6 /\ Len(planRun[p].executed) <= 5
    BY <1>1, <2>1 DEF PlanOk
  <2>3. \A x \in 0..6 : x <= 5 => x \in 0..5 /\ x + 1 \in 1..6
    OBVIOUS
  <2> QED
    BY <1>1, <2>1, <2>2, <2>3 DEF PlanOk
<1>3. PICK f \in PlanRecords :
        /\ fplans' = [fplans EXCEPT ![p] = f] /\ f.status = fplans[p].status
        /\ f.steps[Fwd(k + 1)] = "RUNNING" /\ \A j \in PlanSteps : j # Fwd(k + 1) => f.steps[j] = fplans[p].steps[j]
  BY <1>2, StepIsSet, OrderOfSteps DEF startFailoverPlanStep, StepStates
<1>4. PICK r \in RunRecords :
        /\ planRun' = [planRun EXCEPT ![p] = r] /\ r.at = "execute"
        /\ r.step = planRun[p].step /\ r.executed = planRun[p].executed
  BY RunIsAt DEF startFailoverPlanStep
<1>5. \A i \in Undoable : i \in 1..6 /\ Fwd(i) \in PlanSteps /\ Rev(i) \in PlanSteps /\ Rev(i) # Fwd(k + 1)
  BY <1>2, OrderOfSteps DEF Undoable
<1>6. /\ \A i \in Undoable : f.steps[Rev(i)] = fplans[p].steps[Rev(i)]
      /\ \A i \in Undoable : f.steps[Fwd(i)] = fplans[p].steps[Fwd(i)] \/ f.steps[Fwd(i)] = "RUNNING"
  BY <1>3, <1>5
<1>7. PlanOk(f, r)
  BY <1>1, <1>2, <1>3, <1>4, <1>6 DEF PlanOk
<1> QED
  BY <1>3, <1>4, <1>7, PlanChanges

\* The list of executed steps, and its last one.
LEMMA LastOf ==
  ASSUME PlanInv, NEW p \in Plans, planRun[p].executed # << >>
  PROVE  \E k \in 1..6 : k = Len(planRun[p].executed) /\ Last(planRun[p].executed) = Fwd(k)
<1>1. planRun[p] \in RunRecords /\ PlanOk(fplans[p], planRun[p])
  BY DEF PlanInv
<1>2. /\ planRun[p].executed \in Seq(Forward) /\ Len(planRun[p].executed) \in 0..6
      /\ \A i \in 1..Len(planRun[p].executed) : planRun[p].executed[i] = Fwd(i)
  BY <1>1 DEF PlanOk, RunRecords
<1>3. Len(planRun[p].executed) # 0
  BY <1>2, EmptySeq
<1>4. \A x \in 0..6 : x # 0 => x \in 1..6 /\ x \in 1..x
  OBVIOUS
<1> QED
  BY <1>2, <1>3, <1>4 DEF Last

\* The last executed step is taken off the list, where nothing of it stands.
LEMMA OneUndone ==
  ASSUME PlanInv, NEW p \in Plans, planRun[p].executed # << >>, NEW f \in PlanRecords,
         fplans' = [fplans EXCEPT ![p] = f], f.status = fplans[p].status,
         planRun[p].at \in {"rollback", "undoing"},
         planRun' = [planRun EXCEPT ![p].at = "rollback", ![p].executed = Front(@)],
         NEW k \in 1..6, k = Len(planRun[p].executed),
         k \in Undoable => f.steps[Rev(k)] = "SUCCESS",
         \A j \in PlanSteps : (k \in Undoable => j # Rev(k)) => f.steps[j] = fplans[p].steps[j]
  PROVE  PlanInv'
<1>1. planRun[p] \in RunRecords /\ PlanOk(fplans[p], planRun[p])
  BY DEF PlanInv
<1> DEFINE r == [planRun[p] EXCEPT !.at = "rollback", !.executed = Front(planRun[p].executed)]
<1>2. /\ planRun[p].executed \in Seq(Forward)
      /\ \A i \in 1..Len(planRun[p].executed) : planRun[p].executed[i] = Fwd(i)
  BY <1>1 DEF PlanOk, RunRecords
<1>3. PICK e \in Seq(Forward), m \in 0..5 :
        /\ e = Front(planRun[p].executed) /\ m = Len(e) /\ m = k - 1 /\ \A i \in 1..m : e[i] = Fwd(i)
  <2>1. /\ Front(planRun[p].executed) \in Seq(Forward) /\ Len(Front(planRun[p].executed)) = k - 1
        /\ \A i \in 1..(k - 1) : Front(planRun[p].executed)[i] = planRun[p].executed[i]
    BY <1>2, OneLess
  <2>2. k - 1 \in 0..5 /\ \A i \in 1..(k - 1) : i \in 1..k
    OBVIOUS
  <2>3. \A i \in 1..(k - 1) : Front(planRun[p].executed)[i] = Fwd(i)
    BY <1>2, <2>1, <2>2
  <2> QED
    BY <2>1, <2>2, <2>3
<1>4. r \in RunRecords /\ r.at = "rollback" /\ r.executed = e
  BY <1>1, <1>3 DEF RunRecords
<1>5. planRun' = [planRun EXCEPT ![p] = r]
  BY DEF PlanInv
<1> HIDE DEF r
<1>6. \A i \in Undoable : i \in 1..6 /\ Fwd(i) \in PlanSteps /\ Rev(i) \in PlanSteps
  BY OrderOfSteps DEF Undoable
<1>7. \A i \in Undoable : i < k => f.steps[Rev(i)] = "absent"
  <2> SUFFICES ASSUME NEW i \in Undoable, i < k PROVE f.steps[Rev(i)] = "absent"
    OBVIOUS
  <2>1. fplans[p].steps[Rev(i)] = "absent"
    BY <1>1 DEF PlanOk
  <2>2. k \in Undoable => Rev(i) # Rev(k)
    <3>1. i # k
      BY DEF Undoable
    <3> QED
      BY <3>1, OrderOfSteps
  <2> QED
    BY <1>6, <2>1, <2>2
<1>8. \A i \in Undoable : i > m => f.steps[Fwd(i)] # "SUCCESS" \/ f.steps[Rev(i)] = "SUCCESS"
  <2> SUFFICES ASSUME NEW i \in Undoable, i > m PROVE f.steps[Fwd(i)] # "SUCCESS" \/ f.steps[Rev(i)] = "SUCCESS"
    OBVIOUS
  <2>1. CASE i = k
    BY <2>1
  <2>2. CASE i # k
    <3>1. i > k
      BY <1>3, <2>2 DEF Undoable
    <3>2. fplans[p].steps[Fwd(i)] # "SUCCESS" \/ fplans[p].steps[Rev(i)] = "SUCCESS"
      BY <1>1, <3>1 DEF PlanOk
    <3>3. k \in Undoable => Rev(i) # Rev(k) /\ Fwd(i) # Rev(k)
      BY <1>6, <2>2, OrderOfSteps
    <3> QED
      BY <1>6, <3>2, <3>3
  <2> QED
    BY <2>1, <2>2
<1>9. \A i \in Undoable : i < m \/ i = m => i < k
  BY <1>3 DEF Undoable
<1>10. m \in 0..6
  BY <1>3
<1>11. PlanOk(f, r)
  BY <1>1, <1>3, <1>4, <1>7, <1>8, <1>9, <1>10 DEF PlanOk
<1> QED
  BY <1>4, <1>5, <1>11, PlanChanges

LEMMA RollbackSkips == ASSUME PlanInv, NEW p \in Plans, SkipRollback(p) PROVE PlanInv'
<1>1. planRun[p].at = "rollback" /\ planRun[p].executed # << >> /\ UNCHANGED fplans
  BY DEF SkipRollback, PlanAt
<1>2. PICK k \in 1..6 : k = Len(planRun[p].executed) /\ Last(planRun[p].executed) = Fwd(k)
  BY <1>1, LastOf
<1>3. k \notin Undoable
  BY <1>2, OrderOfSteps DEF SkipRollback, LastExecuted
<1>4. planRun' = [planRun EXCEPT ![p].at = "rollback", ![p].executed = Front(@)]
  <2>1. planRun' = [planRun EXCEPT ![p].executed = Front(@)]
    BY DEF SkipRollback
  <2>2. planRun[p] = [planRun[p] EXCEPT !.at = "rollback"]
    BY <1>1 DEF PlanInv, RunRecords
  <2> QED
    BY <1>1, <2>1, <2>2 DEF PlanInv
<1>5. PICK f \in PlanRecords : f = fplans[p] /\ fplans' = [fplans EXCEPT ![p] = f]
  BY <1>1 DEF PlanInv
<1> QED
  BY <1>1, <1>2, <1>3, <1>4, <1>5, OneUndone

LEMMA RollbackCompletes == ASSUME PlanInv, NEW p \in Plans, CompleteRollback(p) PROVE PlanInv'
<1>1. /\ planRun[p].at = "undoing" /\ PlanOk(fplans[p], planRun[p]) /\ planRun[p] \in RunRecords
      /\ planRun' = [planRun EXCEPT ![p].at = "rollback", ![p].executed = Front(@)]
  BY DEF CompleteRollback, PlanAt, PlanInv
<1>2. Len(planRun[p].executed) \in Undoable /\ planRun[p].step = Rev(Len(planRun[p].executed))
  BY <1>1 DEF PlanOk
<1>3. planRun[p].executed # << >>
  <2>1. Len(<< >>) = 0 /\ 0 \notin Undoable
    BY DEF Undoable
  <2> QED
    BY <1>2, <2>1
<1>4. PICK k \in 1..6 : k = Len(planRun[p].executed)
  BY <1>3, LastOf
<1>5. k \in Undoable /\ planRun[p].step = Rev(k) /\ Rev(k) \in PlanSteps
  BY <1>2, <1>4, OrderOfSteps
<1>6. PICK f \in PlanRecords :
        /\ fplans' = [fplans EXCEPT ![p] = f] /\ f.status = fplans[p].status
        /\ f.steps[Rev(k)] = "SUCCESS" /\ \A j \in PlanSteps : j # Rev(k) => f.steps[j] = fplans[p].steps[j]
  BY <1>5, StepIsSet DEF CompleteRollback, StepStates
<1> QED
  BY <1>1, <1>3, <1>4, <1>5, <1>6, OneUndone

\* A rollback step that is added, or starts.
LEMMA RevIsSet ==
  ASSUME PlanInv, NEW p \in Plans, NEW k \in Undoable, k = Len(planRun[p].executed),
         NEW st \in {"PENDING", "RUNNING"}, SetStep(p, Rev(k), st), planRun[p].at \in {"rollback", "undo"},
         NEW r \in RunRecords, planRun' = [planRun EXCEPT ![p] = r], r.at \in {"undo", "undoing"},
         r.step = Rev(k), r.executed = planRun[p].executed
  PROVE  PlanInv'
<1>1. PlanOk(fplans[p], planRun[p])
  BY DEF PlanInv
<1>2. \A i \in Undoable : i \in 1..6 /\ Fwd(i) \in PlanSteps /\ Rev(i) \in PlanSteps
  BY OrderOfSteps DEF Undoable
<1>3. PICK f \in PlanRecords :
        /\ fplans' = [fplans EXCEPT ![p] = f] /\ f.status = fplans[p].status
        /\ \A j \in PlanSteps : j # Rev(k) => f.steps[j] = fplans[p].steps[j]
  BY <1>2, StepIsSet DEF StepStates
<1>4. \A i \in Undoable : i # k => f.steps[Rev(i)] = fplans[p].steps[Rev(i)] /\ f.steps[Fwd(i)] = fplans[p].steps[Fwd(i)]
  BY <1>2, <1>3, OrderOfSteps
<1>5. \A i \in Undoable : i < k \/ i > k => i # k
  BY DEF Undoable
<1>6. PlanOk(f, r)
  BY <1>1, <1>3, <1>4, <1>5 DEF PlanOk
<1> QED
  BY <1>3, <1>6, PlanChanges

LEMMA RollbackStarts ==
  ASSUME PlanInv, NEW p \in Plans, ensureFailoverRollbackStep(p) \/ StartRollback(p) PROVE PlanInv'
<1>1. planRun[p] \in RunRecords /\ PlanOk(fplans[p], planRun[p])
  BY DEF PlanInv
<1>2. CASE ensureFailoverRollbackStep(p)
  <2>1. planRun[p].at = "rollback" /\ planRun[p].executed # << >> /\ LastExecuted(p) \in DOMAIN RollbackOf
    BY <1>2 DEF ensureFailoverRollbackStep, PlanAt
  <2>2. PICK k \in 1..6 : k = Len(planRun[p].executed) /\ Last(planRun[p].executed) = Fwd(k)
    BY <2>1, LastOf
  <2>3. k \in Undoable /\ RollbackOf[LastExecuted(p)] = Rev(k)
    <3>1. PICK j \in Undoable : Fwd(k) = Fwd(j)
      BY <2>1, <2>2, OrderOfSteps DEF LastExecuted
    <3>2. k = j
      BY <3>1, OrderOfSteps DEF Undoable
    <3> QED
      BY <2>2, <3>1, <3>2 DEF LastExecuted, Rev, Fwd
  <2> DEFINE r == [planRun[p] EXCEPT !.at = "undo", !.step = Rev(k)]
  <2>4. r \in RunRecords /\ r.at = "undo" /\ r.step = Rev(k) /\ r.executed = planRun[p].executed
    BY <1>1, <2>3, OrderOfSteps DEF RunRecords
  <2>5. planRun' = [planRun EXCEPT ![p] = r]
    BY <1>2, <2>3 DEF ensureFailoverRollbackStep, PlanInv
  <2>6. SetStep(p, Rev(k), "PENDING")
    BY <1>2, <2>3 DEF ensureFailoverRollbackStep
  <2> HIDE DEF r
  <2> QED
    BY <2>1, <2>2, <2>3, <2>4, <2>5, <2>6, RevIsSet
<1>3. CASE StartRollback(p)
  <2>1. planRun[p].at = "undo" /\ PlanGoto(p, "undoing") /\ SetStep(p, planRun[p].step, "RUNNING")
    BY <1>3 DEF StartRollback, PlanAt
  <2>2. PICK k \in Undoable : k = Len(planRun[p].executed) /\ planRun[p].step = Rev(k)
    BY <1>1, <2>1 DEF PlanOk
  <2>3. PICK r \in RunRecords :
          /\ planRun' = [planRun EXCEPT ![p] = r] /\ r.at = "undoing"
          /\ r.step = planRun[p].step /\ r.executed = planRun[p].executed
    BY <2>1, RunIsAt
  <2> QED
    BY <2>1, <2>2, <2>3, RevIsSet
<1> QED
  BY <1>2, <1>3

\* A plan ends, well or rolled back.
LEMMA PlanEnds ==
  ASSUME PlanInv, NEW p \in Plans, FinishPlan(p) \/ rollbackFailoverPlan(p) PROVE PlanInv'
<1>1. fplans[p] \in PlanRecords /\ planRun[p] \in RunRecords /\ PlanOk(fplans[p], planRun[p])
  BY DEF PlanInv
<1>2. PICK st \in {"SUCCESS", "ROLLED_BACK"} :
        /\ fplans' = [fplans EXCEPT ![p].status = st] /\ PlanGoto(p, "done")
        /\ \/ st = "SUCCESS" /\ planRun[p].at = "finish"
           \/ st = "ROLLED_BACK" /\ planRun[p].at = "rollback" /\ planRun[p].executed = << >>
  BY DEF FinishPlan, rollbackFailoverPlan, PlanAt
<1> DEFINE f == [fplans[p] EXCEPT !.status = st]
<1>3. f \in PlanRecords /\ f.status = st /\ f.steps = fplans[p].steps
  BY <1>1, <1>2 DEF PlanRecords, PlanStates
<1>4. fplans' = [fplans EXCEPT ![p] = f]
  BY <1>2 DEF PlanInv
<1> HIDE DEF f
<1>5. PICK r \in RunRecords :
        planRun' = [planRun EXCEPT ![p] = r] /\ r.at = "done" /\ r.executed = planRun[p].executed
  BY <1>2, RunIsAt
<1>6. Len(<< >>) = 0 /\ \A i \in Undoable : i > 0
  BY DEF Undoable
<1>7. PlanOk(f, r)
  <2>1. CASE st = "SUCCESS"
    BY <1>1, <1>2, <1>3, <1>5, <2>1 DEF PlanOk
  <2>2. CASE st = "ROLLED_BACK"
    BY <1>1, <1>2, <1>3, <1>5, <1>6, <2>2 DEF PlanOk
  <2> QED
    BY <1>2, <2>1, <2>2
<1> QED
  BY <1>3, <1>4, <1>5, <1>7, PlanChanges

\* A forward step ends: it is executed, or the plan fails.
LEMMA StepEnds ==
  ASSUME PlanInv, NEW p \in Plans, completeFailoverPlanStep(p) \/ failFailoverPlanStep(p) PROVE PlanInv'
<1>1. fplans[p] \in PlanRecords /\ planRun[p] \in RunRecords /\ PlanOk(fplans[p], planRun[p])
  BY DEF PlanInv
<1>2. PICK k \in 0..5 :
        k = Len(planRun[p].executed) /\ planRun[p].at = "execute" /\ planRun[p].step = Fwd(k + 1) /\ k + 1 \in 1..6
  <2>1. planRun[p].at = "execute"
    BY DEF completeFailoverPlanStep, failFailoverPlanStep, PlanAt
  <2>2. Len(planRun[p].executed) \in 0..6 /\ Len(planRun[p].executed) <= 5
    BY <1>1, <2>1 DEF PlanOk
  <2>3. \A x \in 0..6 : x <= 5 => x \in 0..5 /\ x + 1 \in 1..6
    OBVIOUS
  <2> QED
    BY <1>1, <2>1, <2>2, <2>3 DEF PlanOk
<1>3. Fwd(k + 1) \in Forward /\ Fwd(k + 1) \in PlanSteps
  BY <1>2, OrderOfSteps
<1>4. \A i \in Undoable : i \in 1..6 /\ Fwd(i) \in PlanSteps /\ Rev(i) \in PlanSteps /\ Rev(i) # Fwd(k + 1)
  BY <1>2, OrderOfSteps DEF Undoable
<1>5. CASE completeFailoverPlanStep(p)
  <2>1. PICK f \in PlanRecords :
          /\ fplans' = [fplans EXCEPT ![p] = f] /\ f.status = fplans[p].status
          /\ \A j \in PlanSteps : j # Fwd(k + 1) => f.steps[j] = fplans[p].steps[j]
    BY <1>2, <1>3, <1>5, StepIsSet DEF completeFailoverPlanStep, StepStates
  <2>2. PICK e \in Seq(Forward) :
          e = Append(planRun[p].executed, Fwd(k + 1)) /\ Len(e) = k + 1 /\ \A i \in 1..(k + 1) : e[i] = Fwd(i)
    <3>1. planRun[p].executed \in Seq(Forward) /\ \A i \in 1..k : planRun[p].executed[i] = Fwd(i)
      BY <1>1, <1>2 DEF PlanOk, RunRecords
    <3>2. /\ Append(planRun[p].executed, Fwd(k + 1)) \in Seq(Forward)
          /\ Len(Append(planRun[p].executed, Fwd(k + 1))) = k + 1
          /\ \A i \in 1..k : Append(planRun[p].executed, Fwd(k + 1))[i] = planRun[p].executed[i]
          /\ Append(planRun[p].executed, Fwd(k + 1))[k + 1] = Fwd(k + 1)
      BY <1>2, <1>3, <3>1
    <3>3. \A i \in 1..(k + 1) : i \in 1..k \/ i = k + 1
      OBVIOUS
    <3>4. \A i \in 1..(k + 1) : Append(planRun[p].executed, Fwd(k + 1))[i] = Fwd(i)
      BY <3>1, <3>2, <3>3
    <3> QED
      BY <3>2, <3>4
  <2>3. Fwd(6) = "verify"
    BY DEF Fwd, StepOrder
  <2>4. CASE k = 5
    <3> DEFINE r == [planRun[p] EXCEPT !.executed = e, !.at = "finish"]
    <3>1. r \in RunRecords /\ r.at = "finish" /\ r.executed = e
      BY <1>1, <2>2 DEF RunRecords
    <3>2. planRun[p].step = "verify"
      BY <1>2, <2>3, <2>4
    <3>3. planRun' = [planRun EXCEPT ![p] = [planRun[p] EXCEPT !.executed = e, !.at = "finish", !.step = planRun[p].step]]
      <4>1. planRun' = [planRun EXCEPT ![p].executed = Append(planRun[p].executed, planRun[p].step),
                                       ![p].at = IF planRun[p].step = "verify" THEN "finish" ELSE "start",
                                       ![p].step = IF planRun[p].step = "verify" THEN planRun[p].step
                                                   ELSE NextStep(planRun[p].step)]
        BY <1>5 DEF completeFailoverPlanStep
      <4>2. /\ Append(planRun[p].executed, planRun[p].step) = e
            /\ (IF planRun[p].step = "verify" THEN "finish" ELSE "start") = "finish"
            /\ (IF planRun[p].step = "verify" THEN planRun[p].step ELSE NextStep(planRun[p].step)) = planRun[p].step
        BY <1>2, <2>2, <3>2
      <4>3. planRun' = [planRun EXCEPT ![p].executed = e, ![p].at = "finish", ![p].step = planRun[p].step]
        BY <4>1, <4>2, Zenon
      <4> QED
        BY <4>3 DEF PlanInv
    <3>4. [planRun[p] EXCEPT !.executed = e, !.at = "finish", !.step = planRun[p].step] = r
      BY <1>1 DEF RunRecords
    <3>5. planRun' = [planRun EXCEPT ![p] = r]
      BY <3>3, <3>4
    <3> HIDE DEF r
    <3>6. \A i \in Undoable : ~ (i > 6)
      BY DEF Undoable
    <3>7. PlanOk(f, r)
      <4>1. Len(r.executed) = 6 /\ 6 \in 0..6 /\ \A i \in 1..6 : r.executed[i] = Fwd(i)
        BY <2>2, <2>4, <3>1
      <4>2. \A i \in Undoable : f.steps[Rev(i)] = "absent"
        BY <1>1, <1>2, <1>4, <2>1 DEF PlanOk
      <4> QED
        BY <1>1, <1>2, <2>1, <3>1, <3>6, <4>1, <4>2 DEF PlanOk
    <3> QED
      BY <2>1, <3>1, <3>5, <3>7, PlanChanges
  <2>5. CASE k # 5
    <3>1. k + 1 \in 1..5 /\ k + 2 \in 1..6 /\ (k + 1) + 1 = k + 2
      BY <2>5
    <3>2. Fwd(k + 1) # "verify"
      <4>1. Fwd(k + 1) = Fwd(6) => k + 1 = 6
        BY <1>2, OrderOfSteps
      <4> QED
        BY <2>3, <3>1, <4>1
    <3>3. NextStep(Fwd(k + 1)) = Fwd(k + 2)
      BY <1>2, <3>1, PositionOf DEF NextStep, Position, Fwd
    <3> DEFINE r == [planRun[p] EXCEPT !.executed = e, !.at = "start", !.step = Fwd(k + 2)]
    <3>4. Fwd(k + 2) \in PlanSteps
      BY <3>1, OrderOfSteps
    <3>5. r \in RunRecords /\ r.at = "start" /\ r.executed = e /\ r.step = Fwd(k + 2)
      BY <1>1, <2>2, <3>4 DEF RunRecords
    <3>6. planRun' = [planRun EXCEPT ![p] = r]
      <4>1. planRun' = [planRun EXCEPT ![p].executed = Append(planRun[p].executed, planRun[p].step),
                                       ![p].at = IF planRun[p].step = "verify" THEN "finish" ELSE "start",
                                       ![p].step = IF planRun[p].step = "verify" THEN planRun[p].step
                                                   ELSE NextStep(planRun[p].step)]
        BY <1>5 DEF completeFailoverPlanStep
      <4>2. /\ Append(planRun[p].executed, planRun[p].step) = e
            /\ (IF planRun[p].step = "verify" THEN "finish" ELSE "start") = "start"
            /\ (IF planRun[p].step = "verify" THEN planRun[p].step ELSE NextStep(planRun[p].step)) = Fwd(k + 2)
        BY <1>2, <2>2, <3>2, <3>3
      <4>3. planRun' = [planRun EXCEPT ![p].executed = e, ![p].at = "start", ![p].step = Fwd(k + 2)]
        BY <4>1, <4>2, Zenon
      <4> QED
        BY <4>3 DEF PlanInv
    <3> HIDE DEF r
    <3>7. \A i \in Undoable : i > k + 1 => i > k /\ i # k + 1
      BY DEF Undoable
    <3>8. \A i \in Undoable : i > k + 1 =>
            f.steps[Fwd(i)] = fplans[p].steps[Fwd(i)] /\ f.steps[Rev(i)] = fplans[p].steps[Rev(i)]
      BY <1>2, <1>4, <2>1, <3>7, OrderOfSteps
    <3>9. \A i \in Undoable : i > k + 1 => f.steps[Fwd(i)] # "SUCCESS" \/ f.steps[Rev(i)] = "SUCCESS"
      BY <1>1, <1>2, <3>7, <3>8 DEF PlanOk
    <3>10. \A i \in Undoable : f.steps[Rev(i)] = "absent"
      BY <1>1, <1>2, <1>4, <2>1 DEF PlanOk
    <3>11. k + 1 \in 0..6 /\ k + 1 <= 5
      BY <3>1
    <3>12. PlanOk(f, r)
      BY <1>1, <1>2, <2>1, <2>2, <3>1, <3>5, <3>9, <3>10, <3>11 DEF PlanOk
    <3> QED
      BY <2>1, <3>5, <3>6, <3>12, PlanChanges
  <2> QED
    BY <2>4, <2>5
<1>6. CASE failFailoverPlanStep(p)
  <2>1. PlanGoto(p, "rollback") /\ fplans' = [fplans EXCEPT ![p].steps[planRun[p].step] = "FAILED", ![p].status = "FAILED"]
    BY <1>6 DEF failFailoverPlanStep
  <2>2. PICK r \in RunRecords :
          /\ planRun' = [planRun EXCEPT ![p] = r] /\ r.at = "rollback" /\ r.executed = planRun[p].executed
    BY <2>1, RunIsAt
  <2> DEFINE new == [fplans[p].steps EXCEPT ![Fwd(k + 1)] = "FAILED"]
             f == [[fplans[p] EXCEPT !.steps = new] EXCEPT !.status = "FAILED"]
  <2>3. fplans[p].steps \in [PlanSteps -> StepStates]
    BY <1>1 DEF PlanRecords
  <2>4. /\ new \in [PlanSteps -> StepStates] /\ new[Fwd(k + 1)] = "FAILED"
        /\ \A j \in PlanSteps : j # Fwd(k + 1) => new[j] = fplans[p].steps[j]
    BY <1>3, <2>3 DEF StepStates
  <2>5. fplans' = [fplans EXCEPT ![p] = f]
    BY <1>2, <2>1 DEF PlanInv
  <2> HIDE DEF new
  <2>6. f \in PlanRecords /\ f.status = "FAILED" /\ f.steps = new
    BY <1>1, <2>4 DEF PlanRecords, PlanStates
  <2> HIDE DEF f
  <2>7. \A i \in Undoable : new[Rev(i)] = fplans[p].steps[Rev(i)]
    BY <1>4, <2>4
  <2>8. \A i \in Undoable : new[Fwd(i)] = fplans[p].steps[Fwd(i)] \/ new[Fwd(i)] = "FAILED"
    BY <1>4, <2>4
  <2>9. PlanOk(f, r)
    BY <1>1, <1>2, <2>2, <2>6, <2>7, <2>8 DEF PlanOk
  <2> QED
    BY <2>2, <2>5, <2>6, <2>9, PlanChanges
<1> QED
  BY <1>5, <1>6

LEMMA PlanInvariant == FPlanSpec => []PlanInv
<1>1. FPlanInit => PlanInv
  <2> SUFFICES ASSUME FPlanInit PROVE PlanInv
    OBVIOUS
  <2>1. fplans \in [Plans -> PlanRecords]
    BY DEF FPlanInit, PlanRecords, PlanStates, StepStates
  <2>2. planRun \in [Plans -> RunRecords]
    BY DEF FPlanInit, RunRecords
  <2>3. Len(<< >>) = 0
    OBVIOUS
  <2>4. ASSUME NEW p \in Plans PROVE PlanOk(fplans[p], planRun[p])
    <3>1. /\ fplans[p].status = "absent" /\ \A i \in PlanSteps : fplans[p].steps[i] = "absent"
          /\ planRun[p].at = "idle" /\ planRun[p].executed = << >>
      BY DEF FPlanInit
    <3>2. \A i \in Undoable : i \in 1..6 /\ Rev(i) \in PlanSteps /\ Fwd(i) \in PlanSteps
      BY OrderOfSteps DEF Undoable
    <3> QED
      BY <2>3, <3>1, <3>2 DEF PlanOk
  <2> QED
    BY <2>1, <2>2, <2>4 DEF PlanInv
<1>2. PlanInv /\ [FPlanNext]_planVars => PlanInv'
  <2> SUFFICES ASSUME PlanInv, [FPlanNext]_planVars PROVE PlanInv'
    OBVIOUS
  <2>1. CASE UNCHANGED planVars
    BY <2>1 DEF planVars, PlanInv, PlanOk
  <2>2. ASSUME NEW p \in Plans, handleClusterFailoverPlanCreate(p) \/ PlanStep(p) PROVE PlanInv'
    BY <2>2, PlanCreated, PlanStarts, StepStarts, StepEnds, PlanEnds, RollbackSkips, RollbackStarts,
       RollbackCompletes DEF PlanStep
  <2> QED
    BY <2>1, <2>2 DEF FPlanNext
<1> QED
  BY <1>1, <1>2, PTL DEF FPlanSpec

\* Whatever the number of plans and wherever they fail, a plan that is rolled
\* back undoes its steps in the reverse order, and when it is rolled back none
\* that can be undone is left (rollbackFailoverPlan, feature_routes.go).
THEOREM StepsUndone == FPlanSpec => []UndoneInReverse
<1>1. PlanInv => UndoneInReverse
  <2> SUFFICES ASSUME PlanInv, NEW p \in Plans
               PROVE  /\ \A f \in DOMAIN RollbackOf : fplans[p].steps[RollbackOf[f]] \in {"RUNNING", "SUCCESS"} =>
                           \A g \in Standing(p) : Position(g) <= Position(f)
                      /\ fplans[p].status = "ROLLED_BACK" => Standing(p) = {}
    BY DEF UndoneInReverse
  <2>1. PlanOk(fplans[p], planRun[p]) /\ planRun[p] \in RunRecords
    BY DEF PlanInv
  <2>2. \A i \in Undoable : i \in 1..6 /\ Position(Fwd(i)) = i /\ RollbackOf[Fwd(i)] = Rev(i)
    BY PositionOf DEF Undoable, Rev, Fwd
  <2>3. ASSUME NEW f \in DOMAIN RollbackOf, fplans[p].steps[RollbackOf[f]] \in {"RUNNING", "SUCCESS"},
               NEW g \in Standing(p)
        PROVE  Position(g) <= Position(f)
    <3>1. PICK i \in Undoable, j \in Undoable : f = Fwd(i) /\ g = Fwd(j)
      BY OrderOfSteps DEF Standing
    <3>2. /\ fplans[p].steps[Rev(i)] \in {"RUNNING", "SUCCESS"}
          /\ fplans[p].steps[Fwd(j)] = "SUCCESS" /\ fplans[p].steps[Rev(j)] # "SUCCESS"
      BY <2>2, <2>3, <3>1 DEF Standing
    <3>3. fplans[p].steps[Rev(i)] # "absent"
      BY <3>2
    <3>4. planRun[p].at \in {"rollback", "undo", "undoing"}
      BY <2>1, <3>2, <3>3 DEF PlanOk, RunRecords
    <3>5. PICK k \in 0..6 : k = Len(planRun[p].executed)
      BY <2>1 DEF PlanOk
    <3>6. ~ (i < k)
      BY <2>1, <3>3, <3>4, <3>5 DEF PlanOk
    <3>7. ~ (j > k)
      BY <2>1, <3>2, <3>4, <3>5 DEF PlanOk
    <3>8. j <= i
      BY <3>1, <3>6, <3>7 DEF Undoable
    <3> QED
      BY <2>2, <3>1, <3>8
  <2>4. ASSUME fplans[p].status = "ROLLED_BACK" PROVE Standing(p) = {}
    <3>1. \A i \in Undoable : fplans[p].steps[Fwd(i)] # "SUCCESS" \/ fplans[p].steps[Rev(i)] = "SUCCESS"
      BY <2>1, <2>4 DEF PlanOk
    <3> QED
      BY <2>2, <3>1, OrderOfSteps DEF Standing
  <2> QED
    BY <2>3, <2>4
<1> QED
  BY <1>1, PlanInvariant, PTL

==============================================================================
