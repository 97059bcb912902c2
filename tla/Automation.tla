----------------------------- MODULE Automation -----------------------------
(***************************************************************************)
(* The automation service around the scheduler: recurring schedules        *)
(* (internal/automation/service.go), change requests that need an approval *)
(* (approvals/service.go, approvals/repository.go), the HTTP handlers that *)
(* submit, decide and apply them, and the applier (cmd/dhcpd/automation.go)*)
(* that turns an approved request into a job or a schedule.                *)
(*                                                                         *)
(* One job type has a schedule.  Every start of its loop is a number in    *)
(* Loops; a loop submits one job (bound).  An application of request r by  *)
(* the call c mints job <<r, c>>.                                          *)
(***************************************************************************)
EXTENDS JobScheduler

CONSTANTS
  Requests,       \* change requests
  Schedule,       \* those that change the schedule; the others run a job
  Callers,        \* API calls that decide or apply a request
  MaxLoops,       \* bound: starts of the schedule's loop
  Policies,       \* the approval policies considered: sets of request types
  AutoApply       \* AutoApplyOnApprove

Loops     == 1..MaxLoops
TickJob(k) == <<"tick", k>>
RunJob(r, c) == <<r, c>>
RequestType(r) == IF r \in Schedule THEN "schedule" ELSE "job_run"

ASSUME AutomationAssumption ==
  /\ Schedule \subseteq Requests
  /\ MaxLoops \in Nat
  /\ AutoApply \in BOOLEAN
  /\ \A r \in Requests \ Schedule, c \in Callers : RunJob(r, c) \in Jobs
  /\ \A k \in Loops : TickJob(k) \in Jobs

VARIABLES
  request,   \* automation_change_requests.status, "none" without a row
  call,      \* per caller: where its call is, and for which request
  loop,      \* per start: where the goroutine of runSchedule is
  live,      \* scheduleCancels: the loop whose cancel function is kept, or 0
  active,    \* Service.started
  policy,    \* automationApprovalPolicy, read from the configuration
  effects    \* history: the calls that put a request into effect

approvalVars == <<request, call, policy, effects>>
loopVars     == <<loop, live, active>>
autoVars     == <<schedVars, approvalVars, loopVars>>

NoCall == [pc |-> "idle", on |-> "none"]

AutoInit ==
  /\ SchedInit
  /\ request = [r \in Requests |-> "none"]
  /\ call = [c \in Callers |-> NoCall]
  /\ loop = [k \in Loops |-> "none"]
  /\ live = 0
  /\ active = TRUE
  /\ policy \in Policies
  /\ effects = [r \in Requests |-> {}]

-----------------------------------------------------------------------------
\* The policy of the configuration names the request types to be approved.
NeedsApproval(type) == type \in policy

(* Schedules.                                                              *)

Started  == {k \in Loops : loop[k] # "none"}
Replaced(k) == live # k

\* UpdateSchedule: the running loop is cancelled; an enabled schedule of a
\* running service gets a new one.  One critical section.
UpdateSchedule(enabled) ==
  IF enabled /\ active
  THEN \E k \in Loops \ Started : /\ \A m \in Loops \ Started : k <= m
                                  /\ loop' = [loop EXCEPT ![k] = "tick"]
                                  /\ live' = k
  ELSE live' = 0 /\ UNCHANGED loop

\* The handler PUT /automation/schedules when no approval is needed.
ScheduleCall ==
  /\ ~NeedsApproval("schedule")
  /\ \E enabled \in BOOLEAN : UpdateSchedule(enabled)
  /\ UNCHANGED <<schedVars, approvalVars, active>>

\* The ticker fires, also when the context is cancelled at the same time.
LoopTick(k) ==
  /\ loop[k] = "tick"
  /\ send[<<TickJob(k), 0>>] = "none"
  /\ Enqueue(TickJob(k))
  /\ loop' = [loop EXCEPT ![k] = "enqueue"]
  /\ UNCHANGED <<approvalVars, live, active>>

\* The loop waits until its job is accepted.
LoopEnqueued_Insists(k) ==
  /\ loop[k] = "enqueue"
  /\ send[<<TickJob(k), 0>>] = "sent"
  /\ loop' = [loop EXCEPT ![k] = "tick"]
  /\ UNCHANGED <<schedVars, approvalVars, live, active>>

LoopEnqueued(k) ==
  /\ loop[k] = "enqueue"
  /\ send[<<TickJob(k), 0>>] \in {"sent", "refused"}
  /\ loop' = [loop EXCEPT ![k] = "tick"]
  /\ UNCHANGED <<schedVars, approvalVars, live, active>>

\* A loop looks only for the end of the service.
LoopExit_StopOnly(k) ==
  /\ loop[k] = "tick"
  /\ Cancelled
  /\ loop' = [loop EXCEPT ![k] = "gone"]
  /\ UNCHANGED <<schedVars, approvalVars, live, active>>

LoopExit(k) ==
  /\ loop[k] = "tick"
  /\ Replaced(k) \/ Cancelled
  /\ loop' = [loop EXCEPT ![k] = "gone"]
  /\ UNCHANGED <<schedVars, approvalVars, live, active>>

\* Service.Stop: no more loops are started, the context is cancelled ...
ServiceStop ==
  /\ active
  /\ active' = FALSE
  /\ live' = 0
  /\ Stop
  /\ UNCHANGED <<approvalVars, loop>>

\* ... and the loops and then the workers are waited for.
ServiceStopped ==
  /\ \A k \in Loops : loop[k] \in {"none", "gone"}
  /\ StopReturns
  /\ UNCHANGED <<approvalVars, loopVars>>

-----------------------------------------------------------------------------
(* Change requests.                                                        *)

CreateRequest(r) ==
  /\ request[r] = "none"
  /\ request' = [request EXCEPT ![r] = "pending"]

\* SubmitChange from the handlers, which ask for it only under the policy.
SubmitChange(r) ==
  /\ NeedsApproval(RequestType(r))
  /\ CreateRequest(r)
  /\ UNCHANGED <<schedVars, call, policy, effects, loopVars>>

\* The decision overwrites an earlier one.
UpdateDecision_Again(r, status) ==
  /\ request[r] # "none"
  /\ request' = [request EXCEPT ![r] = status]

\* UPDATE ... WHERE id = :id AND status = 'pending'; no row is an error.
UpdateDecision(r, status) ==
  /\ request[r] = "pending"
  /\ request' = [request EXCEPT ![r] = status]

Approve(c, r) ==
  /\ call[c].pc = "idle"
  /\ UpdateDecision(r, "approved")
  /\ call' = IF AutoApply THEN [call EXCEPT ![c] = [pc |-> "apply", on |-> r]] ELSE call
  /\ UNCHANGED <<schedVars, policy, effects, loopVars>>

Reject(r) ==
  /\ UpdateDecision(r, "rejected")
  /\ UNCHANGED <<schedVars, call, policy, effects, loopVars>>

\* The handlers; a decision that was made already is refused by the service.
handleAutomationApprovalApprove(c, r) == Approve(c, r)
handleAutomationApprovalReject(r) == Reject(r)

\* Apply reads the request first.
ApplyRead(c, r) ==
  /\ call[c].pc = "idle"
  /\ request[r] = "approved"
  /\ call' = [call EXCEPT ![c] = [pc |-> "apply", on |-> r]]
  /\ UNCHANGED <<schedVars, request, policy, effects, loopVars>>

\* ApplyChange: UpdateSchedule, or Enqueue of a job that is minted here.
ApplyChange(c) ==
  LET r == call[c].on IN
  /\ call[c].pc = "apply"
  /\ effects' = [effects EXCEPT ![r] = @ \cup {c}]
  /\ \/ /\ r \in Schedule
        /\ \E enabled \in BOOLEAN : UpdateSchedule(enabled)
        /\ call' = [call EXCEPT ![c].pc = "mark"]
        /\ UNCHANGED <<schedVars, active>>
     \/ /\ r \notin Schedule
        /\ Enqueue(RunJob(r, c))
        /\ call' = [call EXCEPT ![c].pc = "enqueue"]
        /\ UNCHANGED loopVars
  /\ UNCHANGED <<request, policy>>

\* The proposal does not parse: nothing is applied, nothing is marked.
ApplyFails(c) ==
  /\ call[c].pc = "apply"
  /\ call' = [call EXCEPT ![c].pc = "done"]
  /\ UNCHANGED <<schedVars, request, policy, effects, loopVars>>

ApplyEnqueued(c) ==
  LET t == <<RunJob(call[c].on, c), 0>> IN
  /\ call[c].pc = "enqueue"
  /\ send[t] \in {"sent", "refused"}
  /\ call' = [call EXCEPT ![c].pc = IF send[t] = "sent" THEN "mark" ELSE "done"]
  /\ UNCHANGED <<schedVars, request, policy, effects, loopVars>>

\* status = CASE WHEN status = 'approved' THEN 'applied' ELSE status END
MarkApplied(c) ==
  LET r == call[c].on IN
  /\ call[c].pc = "mark"
  /\ \/ request' = IF request[r] = "approved" THEN [request EXCEPT ![r] = "applied"] ELSE request
     \/ StoreMayFail /\ UNCHANGED request
  /\ call' = [call EXCEPT ![c].pc = "done"]
  /\ UNCHANGED <<schedVars, policy, effects, loopVars>>

-----------------------------------------------------------------------------
\* POST /automation/jobs is an Enqueue of its own when no approval is needed.
Minted(j) == \/ \E k \in Loops : j = TickJob(k)
             \/ \E r \in Requests, c \in Callers : j = RunJob(r, c)
EnqueueCall(j) ==
  /\ ~NeedsApproval("job_run") /\ ~Minted(j)
  /\ Enqueue(j)
  /\ UNCHANGED <<approvalVars, loopVars>>

RuntimeStep ==
  /\ \/ \E t \in Tickets : SenderStep(t)
     \/ \E w \in Workers : WorkerStep(w)
  /\ UNCHANGED <<approvalVars, loopVars>>

CallStep(c) == ApplyChange(c) \/ ApplyFails(c) \/ ApplyEnqueued(c) \/ MarkApplied(c)

AutoNext ==
  \/ RuntimeStep
  \/ ScheduleCall \/ ServiceStop \/ ServiceStopped
  \/ \E j \in Jobs : EnqueueCall(j)
  \/ \E k \in Loops : LoopTick(k) \/ LoopEnqueued(k) \/ LoopExit(k)
  \/ \E r \in Requests : SubmitChange(r) \/ handleAutomationApprovalReject(r)
  \/ \E c \in Callers, r \in Requests :
       handleAutomationApprovalApprove(c, r) \/ ApplyRead(c, r)
  \/ \E c \in Callers : CallStep(c)

\* select chooses among ready channels at random: a loop or a worker whose
\* context is cancelled is not unlucky for ever, hence strong fairness of the
\* exits.
AutoFairness ==
  /\ \A t \in Tickets : WF_autoVars(SenderStep(t) /\ UNCHANGED <<approvalVars, loopVars>>)
  /\ \A w \in Workers : /\ WF_autoVars(WorkerStep(w) /\ UNCHANGED <<approvalVars, loopVars>>)
                        /\ SF_autoVars(WorkerExit(w) /\ UNCHANGED <<approvalVars, loopVars>>)
  /\ \A k \in Loops : /\ WF_autoVars(LoopEnqueued(k))
                      /\ SF_autoVars(LoopExit(k))
  /\ WF_autoVars(ServiceStopped)

AutoSpec == AutoInit /\ [][AutoNext]_autoVars

-----------------------------------------------------------------------------
(* Properties.                                                             *)

\* What a request asks for happens only if somebody approved it, and a request
\* in effect is never shown as rejected, although decisions and applications
\* of several operators interleave.
EffectApproved ==
  \A r \in Requests : effects[r] # {} => request[r] \in {"approved", "applied"}

\* Service.Stop returns: neither a loop nor a worker is left behind.
ServiceStopEnds == life = "stopping" ~> life = "stopped"

\* The service comes to rest: jobs end, and Stop returns (automation/service.go,
\* scheduler.go).
ServiceSettles == JobsFinish /\ ServiceStopEnds

=============================================================================
