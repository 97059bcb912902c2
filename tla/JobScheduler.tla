---------------------------- MODULE JobScheduler ----------------------------
(***************************************************************************)
(* The job scheduler (internal/automation/scheduler.go) and the job table  *)
(* it keeps (job_store.go).  A job travels by value: the caller of Enqueue *)
(* pushes it, a worker takes it from the queue, and a failed attempt hands *)
(* it to a goroutine that waits for the backoff and pushes it again.  The  *)
(* pair <<j, a>> is job j after a attempts; the sender of <<j, a>> is the  *)
(* caller (a = 0) or the goroutine of enqueueAfter (a > 0).                *)
(***************************************************************************)
EXTENDS Integers, Sequences, FiniteSets

CONSTANTS
  Jobs,          \* job ids
  Workers,       \* worker goroutines
  Handled,       \* the jobs whose type has a registered handler
  Delayed,       \* the jobs submitted with a NotBefore in the future
  QueueSize,     \* capacity of the channel
  MaxAttempts,   \* Options.MaxAttempts
  StoreMayFail   \* a statement on automation_jobs may fail

ASSUME SchedulerAssumption ==
  /\ Handled \subseteq Jobs /\ Delayed \subseteq Jobs
  /\ QueueSize \in Nat \ {0} /\ MaxAttempts \in Nat \ {0}
  /\ StoreMayFail \in BOOLEAN

VARIABLES
  queue,     \* the channel
  send,      \* per job and attempt: where its sender is
  worker,    \* per worker: what it does, and with which job
  record,    \* automation_jobs.status per job, "none" without a row
  life,      \* "up", "stopping" (context cancelled), "stopped"
  runs,      \* history: calls of the handler per job
  outcome    \* history: how the last attempt ended

schedVars == <<queue, send, worker, record, life, runs, outcome>>

Attempts  == 0..(MaxAttempts - 1)
Tickets   == Jobs \X Attempts
Sending   == {"none", "timer", "push", "record", "sent", "refused"}
Statuses  == {"none", "pending", "running", "failed", "succeeded"}
NoTicket  == <<>>
Cancelled == life # "up"

SchedInit ==
  /\ queue = <<>>
  /\ send = [t \in Tickets |-> "none"]
  /\ worker = [w \in Workers |-> [pc |-> "idle", job |-> NoTicket]]
  /\ record = [j \in Jobs |-> "none"]
  /\ life = "up"
  /\ runs = [j \in Jobs |-> 0]
  /\ outcome = [j \in Jobs |-> "none"]

-----------------------------------------------------------------------------
(* The job table.                                                          *)

\* RecordPending inserts the row or resets the one that is there.
RecordPending(j) == record' = [record EXCEPT ![j] = "pending"]

\* MarkRunning, MarkSucceeded and MarkFailed are UPDATEs: no row, no effect.
Mark(j, status) ==
  record' = IF record[j] = "none" THEN record ELSE [record EXCEPT ![j] = status]

\* A statement fails with the store, and always once its context is cancelled.
MarkOrFail(j, status) ==
  \/ ~Cancelled /\ Mark(j, status)
  \/ (Cancelled \/ StoreMayFail) /\ UNCHANGED record

-----------------------------------------------------------------------------
(* Senders: Enqueue, enqueueInternal and enqueueAfter.                     *)

Sender(t, from, to) == send[t] = from /\ send' = [send EXCEPT ![t] = to]

Enqueue(j) ==
  /\ Sender(<<j, 0>>, "none", "push")
  /\ UNCHANGED <<queue, worker, record, life, runs, outcome>>

\* The job is put into the queue before it is recorded.
Push(t) ==
  /\ Sender(t, "push", "record")
  /\ Len(queue) < QueueSize
  /\ queue' = Append(queue, t)
  /\ UNCHANGED <<worker, record, life, runs, outcome>>

\* The scheduler has stopped, or the caller has gone away.
PushRefused(t) ==
  /\ Sender(t, "push", "refused")
  /\ Cancelled \/ t[2] = 0
  /\ UNCHANGED <<queue, worker, record, life, runs, outcome>>

RecordSent(t) ==
  /\ Sender(t, "record", "sent")
  /\ RecordPending(t[1]) \/ (StoreMayFail /\ UNCHANGED record)
  /\ UNCHANGED <<queue, worker, life, runs, outcome>>

BackoffOver(t) ==
  /\ Sender(t, "timer", "push")
  /\ UNCHANGED <<queue, worker, record, life, runs, outcome>>

BackoffStopped(t) ==
  /\ Sender(t, "timer", "refused")
  /\ Cancelled
  /\ UNCHANGED <<queue, worker, record, life, runs, outcome>>

-----------------------------------------------------------------------------
(* Workers: worker and processJob.                                         *)

At(w, label)   == worker[w].pc = label
Job(w)         == worker[w].job[1]
Attempt(w)     == worker[w].job[2]
WorkerTo(w, label) == worker' = [worker EXCEPT ![w].pc = label]
WorkerIdle(w)  == worker' = [worker EXCEPT ![w] = [pc |-> "idle", job |-> NoTicket]]

\* A worker takes a copy and leaves the job in the queue.
Take_Peek(w) ==
  /\ At(w, "idle")
  /\ queue # <<>>
  /\ worker' = [worker EXCEPT ![w] = [pc |-> "wait", job |-> Head(queue)]]
  /\ UNCHANGED <<queue, send, record, life, runs, outcome>>

\* With the context cancelled, select still may choose the queue.
Take(w) ==
  /\ At(w, "idle")
  /\ queue # <<>>
  /\ queue' = Tail(queue)
  /\ worker' = [worker EXCEPT ![w] = [pc |-> "wait", job |-> Head(queue)]]
  /\ UNCHANGED <<send, record, life, runs, outcome>>

WorkerExit(w) ==
  /\ At(w, "idle")
  /\ Cancelled
  /\ WorkerTo(w, "gone")
  /\ UNCHANGED <<queue, send, record, life, runs, outcome>>

\* The context ends while the worker waits for NotBefore: the job is gone.
WaitStopped(w) ==
  /\ At(w, "wait")
  /\ Cancelled
  /\ Job(w) \in Delayed /\ Attempt(w) = 0
  /\ WorkerIdle(w)
  /\ UNCHANGED <<queue, send, record, life, runs, outcome>>

NoHandler(w) ==
  /\ At(w, "wait")
  /\ Job(w) \notin Handled
  /\ WorkerIdle(w)
  /\ UNCHANGED <<queue, send, record, life, runs, outcome>>

RecordRunning(w) ==
  /\ At(w, "wait")
  /\ Job(w) \in Handled
  /\ MarkOrFail(Job(w), "running")
  /\ WorkerTo(w, "run")
  /\ UNCHANGED <<queue, send, life, runs, outcome>>

\* The handler returns, with an error or without.
Handle(w) ==
  /\ At(w, "run")
  /\ runs' = [runs EXCEPT ![Job(w)] = @ + 1]
  /\ \E verdict \in {"succeeded", "failed"} :
       /\ WorkerTo(w, verdict)
       /\ outcome' = [outcome EXCEPT ![Job(w)] = verdict]
  /\ UNCHANGED <<queue, send, record, life>>

RecordSucceeded(w) ==
  /\ At(w, "succeeded")
  /\ MarkOrFail(Job(w), "succeeded")
  /\ WorkerIdle(w)
  /\ UNCHANGED <<queue, send, life, runs, outcome>>

\* The bound on attempts is off by one: the job that has used up its attempts
\* starts over.
Retry_Restarts(t) ==
  send' = [send EXCEPT ![<<t[1], (t[2] + 1) % MaxAttempts>>] = "timer"]

\* A failed attempt is not tried again.
Retry_Dropped(t) == UNCHANGED send

\* A failed attempt is tried again after a backoff until the attempts are used up.
Retry(t) ==
  send' = IF t[2] + 1 < MaxAttempts
          THEN [send EXCEPT ![<<t[1], t[2] + 1>>] = "timer"] ELSE send

RecordFailed(w) ==
  /\ At(w, "failed")
  /\ MarkOrFail(Job(w), "failed")
  /\ Retry(worker[w].job)
  /\ WorkerIdle(w)
  /\ UNCHANGED <<queue, life, runs, outcome>>

-----------------------------------------------------------------------------
(* Stop cancels the context and waits for the workers, or for its caller.  *)

Stop ==
  /\ life = "up"
  /\ life' = "stopping"
  /\ UNCHANGED <<queue, send, worker, record, runs, outcome>>

StopReturns ==
  /\ life = "stopping"
  /\ \A w \in Workers : At(w, "gone")
  /\ life' = "stopped"
  /\ UNCHANGED <<queue, send, worker, record, runs, outcome>>

SenderStep(t) ==
  Push(t) \/ PushRefused(t) \/ RecordSent(t) \/ BackoffOver(t) \/ BackoffStopped(t)

WorkerStep(w) ==
  \/ Take(w) \/ WorkerExit(w) \/ WaitStopped(w) \/ NoHandler(w)
  \/ RecordRunning(w) \/ Handle(w) \/ RecordSucceeded(w) \/ RecordFailed(w)

SchedNext ==
  \/ \E j \in Jobs : Enqueue(j)
  \/ \E t \in Tickets : SenderStep(t)
  \/ \E w \in Workers : WorkerStep(w)
  \/ Stop \/ StopReturns

\* Goroutines run, handlers return within their timeout, timers fire; that an
\* operator submits a job or stops the scheduler is not promised.
SchedFairness ==
  /\ \A t \in Tickets : WF_schedVars(SenderStep(t))
  /\ \A w \in Workers : WF_schedVars(WorkerStep(w))
  /\ WF_schedVars(StopReturns)

-----------------------------------------------------------------------------
(* Properties.                                                             *)

SchedTypeOK ==
  /\ queue \in Seq(Tickets) /\ Len(queue) <= QueueSize
  /\ send \in [Tickets -> Sending]
  /\ worker \in [Workers ->
       [pc : {"idle", "wait", "run", "succeeded", "failed", "gone"},
        job : Tickets \cup {NoTicket}]]
  /\ record \in [Jobs -> Statuses]
  /\ life \in {"up", "stopping", "stopped"}
  /\ runs \in [Jobs -> 0..MaxAttempts]
  /\ outcome \in [Jobs -> {"none", "succeeded", "failed"}]

\* Where job j is: with a sender that has not pushed it, in the queue, with a
\* worker.
Places(j) ==
  {<<"sender", a>> : a \in {a \in Attempts : send[<<j, a>>] \in {"timer", "push"}}}
  \cup {<<"queue", i>> : i \in {i \in DOMAIN queue : queue[i][1] = j}}
  \cup {<<"worker", w>> : w \in {w \in Workers : worker[w].job # NoTicket /\ Job(w) = j}}

\* A job is never in two places: no attempt of it is made while another is
\* queued, backing off or running, whatever senders and workers interleave.
OneCopy == \A j \in Jobs : Cardinality(Places(j)) <= 1

\* The handler of a job runs at most MaxAttempts times, and never again once
\* it has succeeded.
RunsBounded ==
  \A j \in Jobs : /\ runs[j] <= MaxAttempts
                  /\ outcome[j] = "succeeded" => Places(j) \subseteq {<<"worker", w>> : w \in Workers}

\* An accepted job whose type has a handler is brought to an end (success, or
\* the last failure) unless the scheduler is stopped.
Finished(j) == outcome[j] = "succeeded" \/ runs[j] = MaxAttempts
JobsFinish ==
  \A j \in Handled : send[<<j, 0>>] = "record" ~> (Finished(j) \/ Cancelled)

\* What holds of the queue at any moment: a job is in one place at a time and is
\* run no more often than its attempts allow (automation/scheduler.go).
JobsSound == OneCopy /\ RunsBounded

=============================================================================
