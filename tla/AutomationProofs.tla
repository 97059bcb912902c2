--------------------------- MODULE AutomationProofs ---------------------------
(***************************************************************************)
(* Proofs about the automation service (Automation with JobScheduler) and  *)
(* the workflow definitions (Workflow).                                    *)
(***************************************************************************)
EXTENDS Automation, Workflow, FiniteSetTheorems, SequenceTheorems,
        WellFoundedInduction, TLAPS

-----------------------------------------------------------------------------
(* Change requests.  A call that is on its way to put a request into       *)
(* effect, or has done so, has read it approved; and no decision changes a *)
(* request that is not pending.                                            *)

InEffect == {"approved", "applied"}

CallRecords == [pc : {"idle", "apply", "enqueue", "mark", "done"}, on : Requests \cup {"none"}]

ApprovalInv ==
  /\ call \in [Callers -> CallRecords]
  /\ \A c \in Callers : call[c].pc \in {"apply", "enqueue", "mark"} =>
       call[c].on \in Requests /\ request[call[c].on] \in InEffect
  /\ request \in [Requests -> {"none", "pending", "approved", "applied", "rejected"}]
  /\ effects \in [Requests -> SUBSET Callers]
  /\ EffectApproved

\* A decision, a new request and the mark leave every request in effect so.
LEMMA RequestMoves ==
  ASSUME ApprovalInv, NEW r \in Requests, NEW status \in {"pending", "approved", "applied", "rejected"},
         request[r] \notin InEffect \/ status \in InEffect,
         request' = [request EXCEPT ![r] = status], UNCHANGED effects,
         call' \in [Callers -> CallRecords],
         \A c \in Callers : call'[c].pc \in {"apply", "enqueue", "mark"} =>
           \/ call'[c].on = r /\ status \in InEffect
           \/ call[c].pc \in {"apply", "enqueue", "mark"} /\ call'[c].on = call[c].on
  PROVE  ApprovalInv'
<1>1. request' \in [Requests -> {"none", "pending", "approved", "applied", "rejected"}]
  BY DEF ApprovalInv
<1>2. \A q \in Requests : request[q] \in InEffect => request'[q] \in InEffect
  BY DEF ApprovalInv
<1>3. EffectApproved'
  BY <1>2 DEF ApprovalInv, EffectApproved, InEffect
<1>4. request'[r] = status
  BY DEF ApprovalInv
<1>5. ASSUME NEW c \in Callers, call'[c].pc \in {"apply", "enqueue", "mark"}
      PROVE  call'[c].on \in Requests /\ request'[call'[c].on] \in InEffect
  BY <1>2, <1>4, <1>5 DEF ApprovalInv
<1> QED
  BY <1>1, <1>3, <1>5 DEF ApprovalInv

\* A call goes on with the request it has, or stops.
LEMMA CallMoves ==
  ASSUME ApprovalInv, UNCHANGED request, call' \in [Callers -> CallRecords],
         effects' \in [Requests -> SUBSET Callers],
         \A r \in Requests : effects'[r] # effects[r] => request[r] \in InEffect,
         \A c \in Callers : call'[c].pc \in {"apply", "enqueue", "mark"} =>
           \/ call'[c].on \in Requests /\ request[call'[c].on] \in InEffect
           \/ call[c].pc \in {"apply", "enqueue", "mark"} /\ call'[c].on = call[c].on
  PROVE  ApprovalInv'
<1>1. \A c \in Callers : call'[c].pc \in {"apply", "enqueue", "mark"} =>
        call'[c].on \in Requests /\ request'[call'[c].on] \in InEffect
  BY DEF ApprovalInv
<1>2. EffectApproved'
  BY DEF ApprovalInv, EffectApproved, InEffect
<1> QED
  BY <1>1, <1>2 DEF ApprovalInv

LEMMA CallUpdates ==
  ASSUME ApprovalInv, NEW c \in Callers, NEW pc \in {"apply", "enqueue", "mark", "done"},
         call' = [call EXCEPT ![c].pc = pc]
  PROVE  /\ call' \in [Callers -> CallRecords] /\ call'[c].pc = pc /\ call'[c].on = call[c].on
         /\ \A d \in Callers : d # c => call'[d] = call[d]
BY DEF ApprovalInv, CallRecords

LEMMA CallStarts ==
  ASSUME ApprovalInv, NEW c \in Callers, NEW r \in Requests
  PROVE  LET new == [call EXCEPT ![c] = [pc |-> "apply", on |-> r]]
         IN  /\ new \in [Callers -> CallRecords] /\ new[c].on = r
             /\ \A d \in Callers : d # c => new[d] = call[d]
BY DEF ApprovalInv, CallRecords

LEMMA DecisionSteps ==
  ASSUME ApprovalInv, NEW r \in Requests,
         \/ SubmitChange(r) \/ handleAutomationApprovalReject(r)
         \/ \E c \in Callers : handleAutomationApprovalApprove(c, r)
  PROVE  ApprovalInv'
<1>1. CASE SubmitChange(r) \/ handleAutomationApprovalReject(r)
  <2>1. PICK status \in {"pending", "rejected"} :
          request' = [request EXCEPT ![r] = status] /\ request[r] \notin InEffect /\ UNCHANGED <<call, effects>>
    BY <1>1 DEF SubmitChange, CreateRequest, handleAutomationApprovalReject, Reject, UpdateDecision, InEffect
  <2>2. call' \in [Callers -> CallRecords]
    BY <2>1 DEF ApprovalInv
  <2> QED
    BY <2>1, <2>2, RequestMoves
<1>2. ASSUME NEW c \in Callers, handleAutomationApprovalApprove(c, r) PROVE ApprovalInv'
  <2>1. /\ request' = [request EXCEPT ![r] = "approved"] /\ request[r] \notin InEffect /\ UNCHANGED effects
        /\ call' = IF AutoApply THEN [call EXCEPT ![c] = [pc |-> "apply", on |-> r]] ELSE call
    BY <1>2 DEF handleAutomationApprovalApprove, Approve, UpdateDecision, InEffect
  <2>2. call' \in [Callers -> CallRecords]
    BY <2>1, CallStarts DEF ApprovalInv
  <2>3. \A d \in Callers : call'[d] = call[d] \/ call'[d].on = r
    BY <2>1, CallStarts
  <2>4. PICK status \in InEffect : status = "approved"
    BY DEF InEffect
  <2>5. \A d \in Callers : call'[d].pc \in {"apply", "enqueue", "mark"} =>
          \/ call'[d].on = r /\ status \in InEffect
          \/ call[d].pc \in {"apply", "enqueue", "mark"} /\ call'[d].on = call[d].on
    BY <2>3, <2>4
  <2> QED
    <3>1. /\ status \in {"pending", "approved", "applied", "rejected"}
          /\ request' = [request EXCEPT ![r] = status] /\ UNCHANGED effects
      BY <2>1, <2>4
    <3> QED
      BY <2>2, <2>4, <2>5, <3>1, RequestMoves
<1> QED
  BY <1>1, <1>2

LEMMA CallSteps ==
  ASSUME ApprovalInv, NEW c \in Callers, CallStep(c) \/ \E r \in Requests : ApplyRead(c, r)
  PROVE  ApprovalInv'
<1>1. CASE ApplyChange(c)
  <2>1. call[c].pc = "apply" /\ call[c].on \in Requests /\ request[call[c].on] \in InEffect
    BY <1>1 DEF ApplyChange, ApprovalInv
  <2>2. PICK pc \in {"apply", "enqueue", "mark", "done"} : call' = [call EXCEPT ![c].pc = pc]
    BY <1>1 DEF ApplyChange
  <2>3. UNCHANGED request /\ effects' = [effects EXCEPT ![call[c].on] = effects[call[c].on] \cup {c}]
    BY <1>1 DEF ApplyChange
  <2>4. effects' \in [Requests -> SUBSET Callers] /\ \A r \in Requests : r # call[c].on => effects'[r] = effects[r]
    BY <2>1, <2>3 DEF ApprovalInv
  <2>5. /\ call' \in [Callers -> CallRecords] /\ call'[c].on = call[c].on
        /\ \A d \in Callers : d # c => call'[d] = call[d]
    BY <2>2, CallUpdates
  <2> QED
    BY <2>1, <2>3, <2>4, <2>5, CallMoves
<1>2. CASE ApplyFails(c) \/ ApplyEnqueued(c)
  <2>1. PICK pc \in {"apply", "enqueue", "mark", "done"} : call' = [call EXCEPT ![c].pc = pc]
    BY <1>2 DEF ApplyFails, ApplyEnqueued
  <2>2. UNCHANGED <<request, effects>> /\ call[c].pc \in {"apply", "enqueue", "mark"}
    BY <1>2 DEF ApplyFails, ApplyEnqueued
  <2>3. /\ call' \in [Callers -> CallRecords] /\ call'[c].on = call[c].on
        /\ \A d \in Callers : d # c => call'[d] = call[d]
    BY <2>1, CallUpdates
  <2>4. effects' \in [Requests -> SUBSET Callers]
    BY <2>2 DEF ApprovalInv
  <2> QED
    BY <2>2, <2>3, <2>4, CallMoves
<1>3. CASE MarkApplied(c)
  <2>1. call[c].pc = "mark" /\ call[c].on \in Requests /\ UNCHANGED effects /\ call' = [call EXCEPT ![c].pc = "done"]
    BY <1>3 DEF MarkApplied, ApprovalInv
  <2>2. /\ call' \in [Callers -> CallRecords] /\ call'[c].pc = "done"
        /\ \A d \in Callers : d # c => call'[d] = call[d]
    BY <2>1, CallUpdates
  <2>3. CASE UNCHANGED request
    <3>1. effects' \in [Requests -> SUBSET Callers]
      BY <2>1 DEF ApprovalInv
    <3> QED
      BY <2>1, <2>2, <2>3, <3>1, CallMoves
  <2>4. CASE request' = [request EXCEPT ![call[c].on] = "applied"]
    <3>1. "applied" \in InEffect
      BY DEF InEffect
    <3> QED
      BY <2>1, <2>2, <2>4, <3>1, RequestMoves
  <2> QED
    BY <1>3, <2>3, <2>4 DEF MarkApplied
<1>4. ASSUME NEW r \in Requests, ApplyRead(c, r) PROVE ApprovalInv'
  <2>1. /\ call' = [call EXCEPT ![c] = [pc |-> "apply", on |-> r]] /\ UNCHANGED <<request, effects>>
        /\ request[r] \in InEffect
    BY <1>4 DEF ApplyRead, InEffect
  <2>2. effects' \in [Requests -> SUBSET Callers]
    BY <2>1 DEF ApprovalInv
  <2>3. /\ call' \in [Callers -> CallRecords] /\ call'[c].on = r
        /\ \A d \in Callers : d # c => call'[d] = call[d]
    BY <2>1, CallStarts
  <2> QED
    BY <2>1, <2>2, <2>3, CallMoves
<1> QED
  BY <1>1, <1>2, <1>3, <1>4 DEF CallStep

LEMMA ApprovalInvariant == AutoSpec => []ApprovalInv
<1>1. AutoInit => ApprovalInv
  BY DEF AutoInit, ApprovalInv, CallRecords, NoCall, EffectApproved
<1>2. ApprovalInv /\ [AutoNext]_autoVars => ApprovalInv'
  <2> SUFFICES ASSUME ApprovalInv, [AutoNext]_autoVars PROVE ApprovalInv'
    OBVIOUS
  <2>1. CASE UNCHANGED <<request, call, effects>>
    BY <2>1 DEF ApprovalInv, EffectApproved
  <2>2. CASE RuntimeStep \/ ScheduleCall \/ ServiceStop \/ ServiceStopped
    BY <2>1, <2>2 DEF RuntimeStep, ScheduleCall, ServiceStop, ServiceStopped, approvalVars
  <2>3. ASSUME NEW j \in Jobs, EnqueueCall(j) PROVE ApprovalInv'
    BY <2>1, <2>3 DEF EnqueueCall, approvalVars
  <2>4. ASSUME NEW k \in Loops, LoopTick(k) \/ LoopEnqueued(k) \/ LoopExit(k) PROVE ApprovalInv'
    BY <2>1, <2>4 DEF LoopTick, LoopEnqueued, LoopExit, approvalVars
  <2>5. CASE UNCHANGED autoVars
    BY <2>1, <2>5 DEF autoVars, approvalVars
  <2> QED
    BY <2>2, <2>3, <2>4, <2>5, DecisionSteps, CallSteps DEF AutoNext
<1> QED
  BY <1>1, <1>2, PTL DEF AutoSpec

\* However the calls of several operators interleave: what takes effect was
\* approved and stays so (approvals/service.go, approvals/repository.go).
THEOREM NothingUnapproved == AutoSpec => []EffectApproved
<1>1. ApprovalInv => EffectApproved
  BY DEF ApprovalInv
<1> QED
  BY <1>1, ApprovalInvariant, PTL

-----------------------------------------------------------------------------
(* The scheduler.  A job is in one place at a time, and wherever it is its *)
(* attempt is the number of runs it has had; what a sender sends first it  *)
(* has never sent.                                                         *)

WorkerRecords ==
  [pc : {"idle", "wait", "run", "succeeded", "failed", "gone"}, job : Tickets \cup {NoTicket}]

Ready(t)   == send[t] \in {"timer", "push"}
Carried(w) == worker[w].job # NoTicket
Ran(w)     == worker[w].pc \in {"succeeded", "failed"}

\* No later attempt of the job has been sent, and the first one has.
Current(t) ==
  send[<<t[1], 0>>] # "none" /\ \A b \in Attempts : b > t[2] => send[<<t[1], b>>] = "none"

JobTypes ==
  /\ queue \in Seq(Tickets) /\ send \in [Tickets -> Sending] /\ worker \in [Workers -> WorkerRecords]
  /\ runs \in [Jobs -> Nat] /\ outcome \in [Jobs -> {"none", "succeeded", "failed"}]
  /\ \A w \in Workers : Carried(w) <=> worker[w].pc \notin {"idle", "gone"}

OncePlaced ==
  /\ \A i, k \in DOMAIN queue : queue[i][1] = queue[k][1] => i = k
  /\ \A w, v \in Workers : Carried(w) /\ Carried(v) /\ Job(w) = Job(v) => w = v
  /\ \A t, u \in Tickets : Ready(t) /\ Ready(u) /\ t[1] = u[1] => t = u
  /\ \A w \in Workers, i \in DOMAIN queue : Carried(w) => Job(w) # queue[i][1]
  /\ \A t \in Tickets, i \in DOMAIN queue : Ready(t) => t[1] # queue[i][1]
  /\ \A t \in Tickets, w \in Workers : Ready(t) /\ Carried(w) => t[1] # Job(w)

Counted ==
  /\ \A t \in Tickets : Ready(t) => Current(t) /\ runs[t[1]] = t[2] /\ outcome[t[1]] # "succeeded"
  /\ \A i \in DOMAIN queue :
       Current(queue[i]) /\ runs[queue[i][1]] = queue[i][2] /\ outcome[queue[i][1]] # "succeeded"
  /\ \A w \in Workers : Carried(w) =>
       /\ Current(worker[w].job)
       /\ runs[Job(w)] = IF Ran(w) THEN Attempt(w) + 1 ELSE Attempt(w)
       /\ IF Ran(w) THEN outcome[Job(w)] = worker[w].pc ELSE outcome[Job(w)] # "succeeded"

Unsent ==
  \A j \in Jobs : send[<<j, 0>>] = "none" =>
    runs[j] = 0 /\ outcome[j] = "none" /\ \A b \in Attempts : send[<<j, b>>] = "none"

JobInv == JobTypes /\ OncePlaced /\ Counted /\ Unsent /\ \A j \in Jobs : runs[j] <= MaxAttempts

LEMMA TicketParts ==
  \A t \in Tickets : t[1] \in Jobs /\ t[2] \in Attempts /\ t[2] \in Int /\ t = <<t[1], t[2]>>
BY DEF Tickets, Attempts

LEMMA FirstTicket == ASSUME MaxAttempts \in Nat \ {0}, NEW j \in Jobs PROVE <<j, 0>> \in Tickets /\ 0 \in Attempts
BY DEF Tickets, Attempts

LEMMA QueueParts ==
  ASSUME JobTypes, NEW i \in DOMAIN queue PROVE queue[i] \in Tickets
BY DEF JobTypes

LEMMA CurrentStays ==
  ASSUME MaxAttempts \in Nat \ {0}, \A u \in Tickets : send'[u] = "none" <=> send[u] = "none",
         NEW t \in Tickets
  PROVE  Current(t)' <=> Current(t)
<1>1. <<t[1], 0>> \in Tickets /\ \A b \in Attempts : <<t[1], b>> \in Tickets
  BY TicketParts, FirstTicket DEF Tickets
<1> QED
  BY <1>1 DEF Current

LEMMA UnsentStays ==
  ASSUME Unsent, MaxAttempts \in Nat \ {0}, \A u \in Tickets : send'[u] = "none" <=> send[u] = "none",
         \A j \in Jobs : send[<<j, 0>>] = "none" => runs'[j] = runs[j] /\ outcome'[j] = outcome[j]
  PROVE  Unsent'
<1>1. \A j \in Jobs : <<j, 0>> \in Tickets /\ \A b \in Attempts : <<j, b>> \in Tickets
  BY FirstTicket DEF Tickets
<1> QED
  BY <1>1 DEF Unsent

\* A sender moves without making a ticket ready that was not.
LEMMA SenderMoves ==
  ASSUME JobInv, MaxAttempts \in Nat \ {0}, NEW t \in Tickets,
         NEW to \in {"push", "record", "sent", "refused"}, send[t] # "none",
         to = "push" => Ready(t), send' = [send EXCEPT ![t] = to],
         UNCHANGED <<queue, worker, runs, outcome>>
  PROVE  JobInv'
<1>1. send' \in [Tickets -> Sending] /\ \A u \in Tickets : Ready(u)' => Ready(u)
  BY DEF JobInv, JobTypes, Ready, Sending
<1>2. \A u \in Tickets : send'[u] = "none" <=> send[u] = "none"
  BY DEF JobInv, JobTypes
<1>3. \A u \in Tickets : Current(u)' <=> Current(u)
  BY <1>2, CurrentStays
<1>4. JobTypes'
  BY <1>1 DEF JobInv, JobTypes, Carried
<1>5. OncePlaced'
  BY <1>1 DEF JobInv, OncePlaced, Carried, Job
<1>6. Counted'
  <2>1. \A i \in DOMAIN queue : queue[i] \in Tickets
    BY QueueParts DEF JobInv
  <2>2. \A w \in Workers : Carried(w) => worker[w].job \in Tickets
    BY DEF JobInv, JobTypes, WorkerRecords, Carried
  <2> QED
    BY <1>1, <1>3, <2>1, <2>2 DEF JobInv, Counted, Carried, Ran, Job, Attempt
<1>7. Unsent'
  BY <1>2, UnsentStays DEF JobInv
<1> QED
  BY <1>4, <1>5, <1>6, <1>7 DEF JobInv

\* What Append and Tail do to the places in the queue.
LEMMA AppendPlaces ==
  ASSUME NEW S, NEW q \in Seq(S), NEW t \in S
  PROVE  /\ Append(q, t) \in Seq(S) /\ DOMAIN Append(q, t) = DOMAIN q \cup {Len(q) + 1}
         /\ Len(q) + 1 \notin DOMAIN q
         /\ Append(q, t)[Len(q) + 1] = t /\ \A i \in DOMAIN q : Append(q, t)[i] = q[i]
<1>1. /\ DOMAIN q = 1..Len(q) /\ Len(q) \in Nat /\ Append(q, t) \in Seq(S)
      /\ DOMAIN Append(q, t) = 1..(Len(q) + 1)
  OBVIOUS
<1>2. Append(q, t)[Len(q) + 1] = t /\ \A i \in 1..Len(q) : Append(q, t)[i] = q[i]
  OBVIOUS
<1> QED
  BY <1>1, <1>2

LEMMA TailPlaces ==
  ASSUME NEW S, NEW q \in Seq(S), q # << >>
  PROVE  /\ Tail(q) \in Seq(S) /\ Head(q) \in S /\ 1 \in DOMAIN q /\ Head(q) = q[1]
         /\ \A i \in DOMAIN Tail(q) : i + 1 \in DOMAIN q /\ Tail(q)[i] = q[i + 1] /\ i \in Int /\ i # 0
<1>1. Len(q) \in Nat \ {0} /\ DOMAIN q = 1..Len(q) /\ Tail(q) \in Seq(S) /\ Len(Tail(q)) = Len(q) - 1
  BY EmptySeq
<1>2. DOMAIN Tail(q) = 1..(Len(q) - 1)
  BY <1>1
<1>3. \A i \in 1..(Len(q) - 1) : i + 1 \in 1..Len(q) /\ Tail(q)[i] = q[i + 1]
  BY <1>1
<1> QED
  BY <1>1, <1>2, <1>3

\* The queue gets what was ready.
LEMMA PushStep == ASSUME JobInv, MaxAttempts \in Nat \ {0}, NEW t \in Tickets, Push(t) PROVE JobInv'
<1>1. /\ send[t] = "push" /\ send' = [send EXCEPT ![t] = "record"] /\ queue' = Append(queue, t)
      /\ UNCHANGED <<worker, runs, outcome>> /\ Ready(t)
  BY DEF Push, Sender, Ready
<1>2. PICK n \in Nat :
        /\ queue' \in Seq(Tickets) /\ DOMAIN queue' = DOMAIN queue \cup {n} /\ n \notin DOMAIN queue
        /\ queue'[n] = t /\ \A i \in DOMAIN queue : queue'[i] = queue[i]
  <2>1. queue \in Seq(Tickets) /\ Len(queue) + 1 \in Nat
    BY DEF JobInv, JobTypes
  <2> QED
    BY <1>1, <2>1, AppendPlaces
<1>3. /\ send' \in [Tickets -> Sending] /\ ~ Ready(t)'
      /\ \A u \in Tickets : Ready(u)' => Ready(u) /\ u # t
  BY <1>1 DEF JobInv, JobTypes, Ready, Sending
<1>4. \A u \in Tickets : send'[u] = "none" <=> send[u] = "none"
  BY <1>1 DEF JobInv, JobTypes
<1>5. \A u \in Tickets : Current(u)' <=> Current(u)
  BY <1>4, CurrentStays
<1>6. JobTypes'
  BY <1>1, <1>2, <1>3 DEF JobInv, JobTypes, Carried
<1>7. \A u \in Tickets : Ready(u) /\ u[1] = t[1] => u = t
  BY <1>1 DEF JobInv, OncePlaced
<1>8. OncePlaced'
  <2>1. \A i, k \in DOMAIN queue' : queue'[i][1] = queue'[k][1] => i = k
    BY <1>1, <1>2 DEF JobInv, OncePlaced
  <2>2. \A w \in Workers, i \in DOMAIN queue' : Carried(w)' => Job(w)' # queue'[i][1]
    BY <1>1, <1>2 DEF JobInv, OncePlaced, Carried, Job
  <2>3. \A u \in Tickets, i \in DOMAIN queue' : Ready(u)' => u[1] # queue'[i][1]
    BY <1>1, <1>2, <1>3, <1>7 DEF JobInv, OncePlaced
  <2> QED
    BY <1>1, <1>3, <2>1, <2>2, <2>3 DEF JobInv, OncePlaced, Carried, Job
<1>9. Counted'
  <2>1. \A i \in DOMAIN queue : queue[i] \in Tickets
    BY QueueParts DEF JobInv
  <2>2. \A w \in Workers : Carried(w) => worker[w].job \in Tickets
    BY DEF JobInv, JobTypes, WorkerRecords, Carried
  <2>3. Current(t) /\ runs[t[1]] = t[2] /\ outcome[t[1]] # "succeeded"
    BY <1>1 DEF JobInv, Counted
  <2>4. \A u \in Tickets : Ready(u)' => Current(u)' /\ runs'[u[1]] = u[2] /\ outcome'[u[1]] # "succeeded"
    BY <1>1, <1>3, <1>5 DEF JobInv, Counted
  <2>5. \A i \in DOMAIN queue' :
          Current(queue[i])' /\ runs'[queue'[i][1]] = queue'[i][2] /\ outcome'[queue'[i][1]] # "succeeded"
    BY <1>1, <1>2, <1>5, <2>1, <2>3 DEF JobInv, Counted
  <2>6. \A w \in Workers : Carried(w)' =>
          /\ Current(worker[w].job)'
          /\ runs'[Job(w)'] = IF Ran(w)' THEN Attempt(w)' + 1 ELSE Attempt(w)'
          /\ IF Ran(w)' THEN outcome'[Job(w)'] = worker'[w].pc ELSE outcome'[Job(w)'] # "succeeded"
    BY <1>1, <1>5, <2>2 DEF JobInv, Counted, Carried, Ran, Job, Attempt
  <2> QED
    BY <2>4, <2>5, <2>6 DEF Counted
<1>10. Unsent'
  BY <1>1, <1>4, UnsentStays DEF JobInv
<1> QED
  BY <1>1, <1>6, <1>8, <1>9, <1>10 DEF JobInv

\* A worker gets what was first in the queue.
LEMMA TakeStep == ASSUME JobInv, MaxAttempts \in Nat \ {0}, NEW w \in Workers, Take(w) PROVE JobInv'
<1>1. /\ worker[w].pc = "idle" /\ queue # << >> /\ queue' = Tail(queue)
      /\ worker' = [worker EXCEPT ![w] = [pc |-> "wait", job |-> Head(queue)]]
      /\ UNCHANGED <<send, runs, outcome>>
  BY DEF Take, At
<1>2. PICK t \in Tickets :
        /\ t = Head(queue) /\ queue' \in Seq(Tickets) /\ 1 \in DOMAIN queue /\ t = queue[1]
        /\ \A i \in DOMAIN queue' : i + 1 \in DOMAIN queue /\ queue'[i] = queue[i + 1] /\ i \in Int /\ i # 0
  <2>1. queue \in Seq(Tickets)
    BY DEF JobInv, JobTypes
  <2> QED
    BY <1>1, <2>1, TailPlaces
<1>3. /\ worker'[w] = [pc |-> "wait", job |-> t] /\ \A v \in Workers : v # w => worker'[v] = worker[v]
      /\ t # NoTicket /\ ~ Carried(w)
  <2>1. t # NoTicket
    BY DEF Tickets, NoTicket
  <2> QED
    BY <1>1, <1>2, <2>1 DEF JobInv, JobTypes
<1>4. /\ Carried(w)' /\ Job(w)' = t[1] /\ Attempt(w)' = t[2] /\ ~ Ran(w)'
      /\ \A v \in Workers : v # w => /\ Carried(v)' = Carried(v) /\ Job(v)' = Job(v) /\ Attempt(v)' = Attempt(v)
                                     /\ Ran(v)' = Ran(v)
  BY <1>3 DEF Carried, Job, Attempt, Ran
<1>5. JobTypes'
  <2>1. worker' \in [Workers -> WorkerRecords]
    BY <1>1, <1>2 DEF JobInv, JobTypes, WorkerRecords
  <2>2. \A v \in Workers : Carried(v)' <=> worker'[v].pc \notin {"idle", "gone"}
    BY <1>3, <1>4 DEF JobInv, JobTypes
  <2> QED
    BY <1>1, <1>2, <2>1, <2>2 DEF JobInv, JobTypes
<1>6. \A i \in DOMAIN queue' : queue'[i][1] # t[1]
  <2>1. \A i \in DOMAIN queue : i # 1 => queue[i][1] # queue[1][1]
    BY <1>2 DEF JobInv, OncePlaced
  <2>2. \A i \in DOMAIN queue' : i + 1 # 1
    BY <1>2
  <2> QED
    BY <1>2, <2>1, <2>2
<1>7. OncePlaced'
  <2>1. \A i, k \in DOMAIN queue' : queue'[i][1] = queue'[k][1] => i = k
    <3>1. \A i, k \in DOMAIN queue' : queue'[i][1] = queue'[k][1] => i + 1 = k + 1
      BY <1>2 DEF JobInv, OncePlaced
    <3> QED
      BY <1>2, <3>1
  <2>2. \A v \in Workers, i \in DOMAIN queue' : Carried(v)' => Job(v)' # queue'[i][1]
    BY <1>2, <1>4, <1>6 DEF JobInv, OncePlaced
  <2>3. \A u \in Tickets, i \in DOMAIN queue' : Ready(u)' => u[1] # queue'[i][1]
    BY <1>1, <1>2 DEF JobInv, OncePlaced, Ready
  <2>4. \A v \in Workers : v # w /\ Carried(v) => Job(v) # t[1]
    BY <1>2 DEF JobInv, OncePlaced
  <2>5. \A v, x \in Workers : Carried(v)' /\ Carried(x)' /\ Job(v)' = Job(x)' => v = x
    BY <1>4, <2>4 DEF JobInv, OncePlaced
  <2>6. \A u \in Tickets, v \in Workers : Ready(u)' /\ Carried(v)' => u[1] # Job(v)'
    BY <1>1, <1>2, <1>4 DEF JobInv, OncePlaced, Ready
  <2>7. \A u, x \in Tickets : Ready(u)' /\ Ready(x)' /\ u[1] = x[1] => u = x
    BY <1>1 DEF JobInv, OncePlaced, Ready
  <2> QED
    BY <2>1, <2>2, <2>3, <2>5, <2>6, <2>7 DEF OncePlaced
<1>8. Counted'
  <2>1. Current(t) /\ runs[t[1]] = t[2] /\ outcome[t[1]] # "succeeded"
    BY <1>2 DEF JobInv, Counted
  <2>2. \A u : Current(u)' = Current(u)
    BY <1>1 DEF Current
  <2>3. \A u \in Tickets : Ready(u)' => Current(u)' /\ runs'[u[1]] = u[2] /\ outcome'[u[1]] # "succeeded"
    BY <1>1, <2>2 DEF JobInv, Counted, Ready
  <2>4. \A i \in DOMAIN queue' :
          Current(queue[i])' /\ runs'[queue'[i][1]] = queue'[i][2] /\ outcome'[queue'[i][1]] # "succeeded"
    <3> SUFFICES ASSUME NEW i \in DOMAIN queue'
                 PROVE  /\ Current(queue[i])' /\ runs'[queue'[i][1]] = queue'[i][2]
                        /\ outcome'[queue'[i][1]] # "succeeded"
      OBVIOUS
    <3>1. queue'[i] = queue[i + 1] /\ i + 1 \in DOMAIN queue
      BY <1>2
    <3>2. Current(queue[i + 1]) /\ runs[queue[i + 1][1]] = queue[i + 1][2] /\ outcome[queue[i + 1][1]] # "succeeded"
      BY <3>1 DEF JobInv, Counted
    <3>3. Current(queue[i])' = Current(queue[i + 1])
      BY <1>1, <3>1 DEF Current
    <3> QED
      BY <1>1, <3>1, <3>2, <3>3
  <2>5. \A v \in Workers : Carried(v)' =>
          /\ Current(worker[v].job)'
          /\ runs'[Job(v)'] = IF Ran(v)' THEN Attempt(v)' + 1 ELSE Attempt(v)'
          /\ IF Ran(v)' THEN outcome'[Job(v)'] = worker'[v].pc ELSE outcome'[Job(v)'] # "succeeded"
    <3> SUFFICES ASSUME NEW v \in Workers, Carried(v)'
                 PROVE  /\ Current(worker[v].job)'
                        /\ runs'[Job(v)'] = IF Ran(v)' THEN Attempt(v)' + 1 ELSE Attempt(v)'
                        /\ IF Ran(v)' THEN outcome'[Job(v)'] = worker'[v].pc ELSE outcome'[Job(v)'] # "succeeded"
      OBVIOUS
    <3>1. CASE v = w
      <4>1. Current(worker[v].job)' = Current(t)
        <5>1. worker'[v].job = t /\ send' = send
          BY <1>1, <1>3, <3>1
        <5> QED
          BY <5>1 DEF Current
      <4> QED
        BY <1>1, <1>4, <2>1, <3>1, <4>1
    <3>2. CASE v # w
      <4>1. Current(worker[v].job)' = Current(worker[v].job)
        BY <1>1, <1>3, <3>2 DEF Current
      <4> QED
        BY <1>1, <1>3, <1>4, <3>2, <4>1 DEF JobInv, Counted
    <3> QED
      BY <3>1, <3>2
  <2> QED
    BY <2>3, <2>4, <2>5 DEF Counted
<1>9. Unsent'
  BY <1>1 DEF JobInv, Unsent
<1> QED
  BY <1>1, <1>5, <1>7, <1>8, <1>9 DEF JobInv

\* A worker that carries nothing any more.
LEMMA WorkerRests ==
  ASSUME JobInv, MaxAttempts \in Nat \ {0}, NEW w \in Workers, NEW pc \in {"idle", "gone"},
         worker' = [worker EXCEPT ![w] = [pc |-> pc, job |-> NoTicket]],
         UNCHANGED <<queue, send, runs, outcome>>
  PROVE  JobInv'
<1>1. /\ worker'[w] = [pc |-> pc, job |-> NoTicket] /\ \A v \in Workers : v # w => worker'[v] = worker[v]
      /\ worker' \in [Workers -> WorkerRecords]
  BY DEF JobInv, JobTypes, WorkerRecords
<1>2. /\ ~ Carried(w)'
      /\ \A v \in Workers : v # w => /\ Carried(v)' = Carried(v) /\ Job(v)' = Job(v) /\ Attempt(v)' = Attempt(v)
                                     /\ Ran(v)' = Ran(v)
  BY <1>1 DEF Carried, Job, Attempt, Ran
<1>3. JobTypes'
  BY <1>1, <1>2 DEF JobInv, JobTypes
<1>4. OncePlaced'
  BY <1>2 DEF JobInv, OncePlaced, Ready
<1>5. Counted'
  <2>1. \A v \in Workers : Carried(v)' =>
          /\ Current(worker[v].job)'
          /\ runs'[Job(v)'] = IF Ran(v)' THEN Attempt(v)' + 1 ELSE Attempt(v)'
          /\ IF Ran(v)' THEN outcome'[Job(v)'] = worker'[v].pc ELSE outcome'[Job(v)'] # "succeeded"
    <3> SUFFICES ASSUME NEW v \in Workers, Carried(v)', v # w
                 PROVE  /\ Current(worker[v].job)'
                        /\ runs'[Job(v)'] = IF Ran(v)' THEN Attempt(v)' + 1 ELSE Attempt(v)'
                        /\ IF Ran(v)' THEN outcome'[Job(v)'] = worker'[v].pc ELSE outcome'[Job(v)'] # "succeeded"
      BY <1>2
    <3>1. Current(worker[v].job)' = Current(worker[v].job)
      BY <1>1 DEF Current
    <3> QED
      BY <1>1, <1>2, <3>1 DEF JobInv, Counted
  <2>2. \A u \in Tickets : Ready(u)' => Current(u)' /\ runs'[u[1]] = u[2] /\ outcome'[u[1]] # "succeeded"
    BY DEF JobInv, Counted, Ready, Current
  <2>3. \A i \in DOMAIN queue' :
          Current(queue[i])' /\ runs'[queue'[i][1]] = queue'[i][2] /\ outcome'[queue'[i][1]] # "succeeded"
    BY DEF JobInv, Counted, Current
  <2> QED
    BY <2>1, <2>2, <2>3 DEF Counted
<1>6. Unsent'
  BY DEF JobInv, Unsent
<1> QED
  BY <1>3, <1>4, <1>5, <1>6 DEF JobInv

LEMMA WorkerRuns == ASSUME JobInv, MaxAttempts \in Nat \ {0}, NEW w \in Workers, RecordRunning(w) PROVE JobInv'
<1>1. worker[w].pc = "wait" /\ worker' = [worker EXCEPT ![w].pc = "run"] /\ UNCHANGED <<queue, send, runs, outcome>>
  BY DEF RecordRunning, At, WorkerTo
<1>2. /\ worker'[w].job = worker[w].job /\ worker'[w].pc = "run"
      /\ \A v \in Workers : v # w => worker'[v] = worker[v]
      /\ worker' \in [Workers -> WorkerRecords]
  BY <1>1 DEF JobInv, JobTypes, WorkerRecords
<1>3. \A v \in Workers : /\ Carried(v)' = Carried(v) /\ Job(v)' = Job(v) /\ Attempt(v)' = Attempt(v)
                         /\ Ran(v)' = Ran(v) /\ worker'[v].job = worker[v].job
                         /\ v # w => worker'[v].pc = worker[v].pc
  BY <1>1, <1>2 DEF Carried, Job, Attempt, Ran
<1>4. JobTypes'
  <2>1. Carried(w)
    BY <1>1 DEF JobInv, JobTypes
  <2> QED
    BY <1>1, <1>2, <1>3, <2>1 DEF JobInv, JobTypes
<1>5. OncePlaced'
  BY <1>1, <1>3 DEF JobInv, OncePlaced, Ready
<1>6. Counted'
  <2>1. \A v \in Workers : Carried(v)' =>
          /\ Current(worker[v].job)'
          /\ runs'[Job(v)'] = IF Ran(v)' THEN Attempt(v)' + 1 ELSE Attempt(v)'
          /\ IF Ran(v)' THEN outcome'[Job(v)'] = worker'[v].pc ELSE outcome'[Job(v)'] # "succeeded"
    <3> SUFFICES ASSUME NEW v \in Workers, Carried(v)'
                 PROVE  /\ Current(worker[v].job)'
                        /\ runs'[Job(v)'] = IF Ran(v)' THEN Attempt(v)' + 1 ELSE Attempt(v)'
                        /\ IF Ran(v)' THEN outcome'[Job(v)'] = worker'[v].pc ELSE outcome'[Job(v)'] # "succeeded"
      OBVIOUS
    <3>1. Current(worker[v].job)' = Current(worker[v].job)
      BY <1>1, <1>3 DEF Current
    <3>2. ~ Ran(w)
      BY <1>1 DEF Ran
    <3> QED
      BY <1>1, <1>3, <3>1, <3>2 DEF JobInv, Counted
  <2>2. \A u \in Tickets : Ready(u)' => Current(u)' /\ runs'[u[1]] = u[2] /\ outcome'[u[1]] # "succeeded"
    BY <1>1 DEF JobInv, Counted, Ready, Current
  <2>3. \A i \in DOMAIN queue' :
          Current(queue[i])' /\ runs'[queue'[i][1]] = queue'[i][2] /\ outcome'[queue'[i][1]] # "succeeded"
    BY <1>1 DEF JobInv, Counted, Current
  <2> QED
    BY <2>1, <2>2, <2>3 DEF Counted
<1>7. Unsent'
  BY <1>1 DEF JobInv, Unsent
<1> QED
  BY <1>1, <1>4, <1>5, <1>6, <1>7 DEF JobInv
\* What happens to one job does not make another current or outdated.
LEMMA CurrentOfOthers ==
  ASSUME MaxAttempts \in Nat \ {0}, NEW j, \A u \in Tickets : u[1] # j => send'[u] = send[u],
         NEW t \in Tickets, t[1] # j
  PROVE  Current(t)' <=> Current(t)
<1>1. <<t[1], 0>> \in Tickets /\ \A b \in Attempts : <<t[1], b>> \in Tickets
  BY TicketParts, FirstTicket DEF Tickets
<1>2. <<t[1], 0>>[1] # j /\ \A b \in Attempts : <<t[1], b>>[1] # j
  OBVIOUS
<1>3. send'[<<t[1], 0>>] = send[<<t[1], 0>>] /\ \A b \in Attempts : send'[<<t[1], b>>] = send[<<t[1], b>>]
  BY <1>1, <1>2
<1> QED
  BY <1>3 DEF Current

\* The handler has run: the worker is the only place of its job.
LEMMA HandleStep == ASSUME JobInv, MaxAttempts \in Nat \ {0}, NEW w \in Workers, Handle(w) PROVE JobInv'
<1>1. PICK verdict \in {"succeeded", "failed"} :
        /\ worker[w].pc = "run" /\ worker' = [worker EXCEPT ![w].pc = verdict]
        /\ outcome' = [outcome EXCEPT ![Job(w)] = verdict]
        /\ runs' = [runs EXCEPT ![Job(w)] = runs[Job(w)] + 1]
        /\ UNCHANGED <<queue, send>>
  BY DEF Handle, At, WorkerTo
<1>2. /\ Carried(w) /\ ~ Ran(w) /\ worker[w].job \in Tickets
  BY <1>1 DEF JobInv, JobTypes, Carried, Ran, WorkerRecords
<1>3. Job(w) \in Jobs /\ Attempt(w) \in Attempts /\ Attempt(w) \in Int
  BY <1>2, TicketParts DEF Job, Attempt
<1>4. /\ worker'[w].job = worker[w].job /\ worker'[w].pc = verdict
      /\ \A v \in Workers : v # w => worker'[v] = worker[v]
      /\ worker' \in [Workers -> WorkerRecords]
  BY <1>1 DEF JobInv, JobTypes, WorkerRecords
<1>5. \A v \in Workers : /\ Carried(v)' = Carried(v) /\ Job(v)' = Job(v) /\ Attempt(v)' = Attempt(v)
                         /\ worker'[v].job = worker[v].job
                         /\ v # w => Ran(v)' = Ran(v) /\ worker'[v].pc = worker[v].pc
  BY <1>1, <1>4 DEF Carried, Job, Attempt, Ran
<1>6. /\ runs'[Job(w)] = Attempt(w) + 1 /\ outcome'[Job(w)] = verdict
      /\ runs' \in [Jobs -> Nat] /\ outcome' \in [Jobs -> {"none", "succeeded", "failed"}]
      /\ \A j \in Jobs : j # Job(w) => runs'[j] = runs[j] /\ outcome'[j] = outcome[j]
  <2>1. runs[Job(w)] = Attempt(w)
    BY <1>2 DEF JobInv, Counted
  <2>2. runs \in [Jobs -> Nat] /\ outcome \in [Jobs -> {"none", "succeeded", "failed"}]
    BY DEF JobInv, JobTypes
  <2> QED
    BY <1>1, <1>3, <2>1, <2>2
<1>7. JobTypes'
  <2>1. \A v \in Workers : Carried(v)' <=> worker'[v].pc \notin {"idle", "gone"}
    BY <1>1, <1>2, <1>4, <1>5 DEF JobInv, JobTypes
  <2> QED
    BY <1>1, <1>4, <1>6, <2>1 DEF JobInv, JobTypes
<1>8. OncePlaced'
  BY <1>1, <1>5 DEF JobInv, OncePlaced, Ready
<1>9. Counted'
  <2>1. \A u \in Tickets : Ready(u)' => Current(u)' /\ runs'[u[1]] = u[2] /\ outcome'[u[1]] # "succeeded"
    <3>1. \A u \in Tickets : Ready(u) => u[1] # Job(w) /\ u[1] \in Jobs
      BY <1>2, TicketParts DEF JobInv, OncePlaced
    <3> QED
      BY <1>1, <1>6, <3>1 DEF JobInv, Counted, Ready, Current
  <2>2. \A i \in DOMAIN queue' :
          Current(queue[i])' /\ runs'[queue'[i][1]] = queue'[i][2] /\ outcome'[queue'[i][1]] # "succeeded"
    <3>1. \A i \in DOMAIN queue : queue[i][1] # Job(w) /\ queue[i][1] \in Jobs
      BY <1>2, QueueParts, TicketParts DEF JobInv, OncePlaced
    <3> QED
      BY <1>1, <1>6, <3>1 DEF JobInv, Counted, Current
  <2>3. \A v \in Workers : Carried(v)' =>
          /\ Current(worker[v].job)'
          /\ runs'[Job(v)'] = IF Ran(v)' THEN Attempt(v)' + 1 ELSE Attempt(v)'
          /\ IF Ran(v)' THEN outcome'[Job(v)'] = worker'[v].pc ELSE outcome'[Job(v)'] # "succeeded"
    <3> SUFFICES ASSUME NEW v \in Workers, Carried(v)'
                 PROVE  /\ Current(worker[v].job)'
                        /\ runs'[Job(v)'] = IF Ran(v)' THEN Attempt(v)' + 1 ELSE Attempt(v)'
                        /\ IF Ran(v)' THEN outcome'[Job(v)'] = worker'[v].pc ELSE outcome'[Job(v)'] # "succeeded"
      OBVIOUS
    <3>1. Current(worker[v].job)' = Current(worker[v].job) /\ Carried(v)
      BY <1>1, <1>5 DEF Current
    <3>2. CASE v = w
      <4>1. Ran(w)'
        BY <1>4 DEF Ran
      <4> QED
        BY <1>4, <1>5, <1>6, <3>1, <3>2, <4>1 DEF JobInv, Counted
    <3>3. CASE v # w
      <4>1. Job(v) # Job(w) /\ Job(v) \in Jobs
        BY <1>2, <3>1, <3>3, TicketParts DEF JobInv, OncePlaced, JobTypes, WorkerRecords, Carried, Job
      <4> QED
        BY <1>5, <1>6, <3>1, <3>3, <4>1 DEF JobInv, Counted
    <3> QED
      BY <3>2, <3>3
  <2> QED
    BY <2>1, <2>2, <2>3 DEF Counted
<1>10. Unsent'
  <2>1. send[<<Job(w), 0>>] # "none"
    BY <1>2 DEF JobInv, Counted, Current, Job
  <2> QED
    BY <1>1, <1>6, <2>1 DEF JobInv, Unsent
<1>11. \A j \in Jobs : runs'[j] <= MaxAttempts
  <2>1. Attempt(w) + 1 <= MaxAttempts
    BY <1>3 DEF Attempts
  <2> QED
    BY <1>6, <2>1 DEF JobInv
<1> QED
  BY <1>7, <1>8, <1>9, <1>10, <1>11 DEF JobInv
\* One job changes its place: it becomes ready with the sender of its next
\* attempt, and is nowhere else any more.
LEMMA BecomesReady ==
  ASSUME JobInv, MaxAttempts \in Nat \ {0}, NEW t \in Tickets, NEW to \in {"timer", "push"},
         send' = [send EXCEPT ![t] = to], UNCHANGED <<queue, runs, outcome>>,
         worker' \in [Workers -> WorkerRecords],
         \A v \in Workers : Carried(v)' <=> worker'[v].pc \notin {"idle", "gone"},
         \A v \in Workers : Carried(v)' => worker'[v] = worker[v] /\ Job(v) # t[1],
         \A u \in Tickets : Ready(u) => u[1] # t[1],
         \A i \in DOMAIN queue : queue[i][1] # t[1],
         \A b \in Attempts : b > t[2] => send[<<t[1], b>>] = "none",
         t[2] # 0 => send[<<t[1], 0>>] # "none",
         runs[t[1]] = t[2], outcome[t[1]] # "succeeded"
  PROVE  JobInv'
<1>1. /\ send' \in [Tickets -> Sending] /\ send'[t] = to /\ Ready(t)'
      /\ \A u \in Tickets : u # t => send'[u] = send[u]
      /\ \A u \in Tickets : Ready(u)' => u = t \/ (Ready(u) /\ u[1] # t[1])
  BY DEF JobInv, JobTypes, Ready, Sending
<1>2. \A u \in Tickets : u[1] # t[1] => send'[u] = send[u]
  BY <1>1
<1>3. \A u \in Tickets : u[1] # t[1] => (Current(u)' <=> Current(u))
  BY <1>2, CurrentOfOthers
<1>4. Current(t)'
  <2>1. t \in Tickets /\ t = <<t[1], t[2]>> /\ t[1] \in Jobs /\ t[2] \in Int
    BY TicketParts
  <2>2. <<t[1], 0>> \in Tickets /\ \A b \in Attempts : <<t[1], b>> \in Tickets /\ b \in Int
    BY <2>1, FirstTicket DEF Tickets, Attempts
  <2>3. send'[<<t[1], 0>>] # "none"
    <3>1. CASE t[2] = 0
      BY <1>1, <2>1, <3>1
    <3>2. CASE t[2] # 0
      <4>1. <<t[1], 0>> # t
        BY <2>1, <3>2
      <4> QED
        BY <1>1, <2>2, <3>2, <4>1
    <3> QED
      BY <3>1, <3>2
  <2>4. ASSUME NEW b \in Attempts, b > t[2] PROVE send'[<<t[1], b>>] = "none"
    <3>1. <<t[1], b>> # t
      BY <2>1, <2>4
    <3> QED
      BY <1>1, <2>2, <2>4, <3>1
  <2> QED
    BY <2>3, <2>4 DEF Current
<1>5. JobTypes'
  BY <1>1 DEF JobInv, JobTypes
<1>6. OncePlaced'
  <2>1. \A v \in Workers : Carried(v)' => Carried(v) /\ Job(v)' = Job(v) /\ Job(v) # t[1]
    BY DEF Carried, Job
  <2>2. \A v, x \in Workers : Carried(v)' /\ Carried(x)' /\ Job(v)' = Job(x)' => v = x
    BY <2>1 DEF JobInv, OncePlaced
  <2>3. \A u, x \in Tickets : Ready(u)' /\ Ready(x)' /\ u[1] = x[1] => u = x
    BY <1>1 DEF JobInv, OncePlaced
  <2>4. \A v \in Workers, i \in DOMAIN queue' : Carried(v)' => Job(v)' # queue'[i][1]
    BY <2>1 DEF JobInv, OncePlaced
  <2>5. \A u \in Tickets, i \in DOMAIN queue' : Ready(u)' => u[1] # queue'[i][1]
    BY <1>1 DEF JobInv, OncePlaced
  <2>6. \A u \in Tickets, v \in Workers : Ready(u)' /\ Carried(v)' => u[1] # Job(v)'
    BY <1>1, <2>1 DEF JobInv, OncePlaced
  <2>7. \A i, k \in DOMAIN queue' : queue'[i][1] = queue'[k][1] => i = k
    BY DEF JobInv, OncePlaced
  <2> QED
    BY <2>2, <2>3, <2>4, <2>5, <2>6, <2>7 DEF OncePlaced
<1>7. Counted'
  <2>1. \A u \in Tickets : Ready(u)' => Current(u)' /\ runs'[u[1]] = u[2] /\ outcome'[u[1]] # "succeeded"
    BY <1>1, <1>3, <1>4 DEF JobInv, Counted
  <2>2. \A i \in DOMAIN queue' :
          Current(queue[i])' /\ runs'[queue'[i][1]] = queue'[i][2] /\ outcome'[queue'[i][1]] # "succeeded"
    <3>1. \A i \in DOMAIN queue : queue[i] \in Tickets
      BY QueueParts DEF JobInv
    <3> QED
      BY <1>3, <3>1 DEF JobInv, Counted
  <2>3. \A v \in Workers : Carried(v)' =>
          /\ Current(worker[v].job)'
          /\ runs'[Job(v)'] = IF Ran(v)' THEN Attempt(v)' + 1 ELSE Attempt(v)'
          /\ IF Ran(v)' THEN outcome'[Job(v)'] = worker'[v].pc ELSE outcome'[Job(v)'] # "succeeded"
    <3> SUFFICES ASSUME NEW v \in Workers, Carried(v)'
                 PROVE  /\ Current(worker[v].job)'
                        /\ runs'[Job(v)'] = IF Ran(v)' THEN Attempt(v)' + 1 ELSE Attempt(v)'
                        /\ IF Ran(v)' THEN outcome'[Job(v)'] = worker'[v].pc ELSE outcome'[Job(v)'] # "succeeded"
      OBVIOUS
    <3>1. /\ worker'[v] = worker[v] /\ Carried(v) /\ Job(v)' = Job(v) /\ Attempt(v)' = Attempt(v)
          /\ Ran(v)' = Ran(v)
      BY DEF Carried, Job, Attempt, Ran
    <3>2. worker[v].job \in Tickets /\ worker[v].job[1] # t[1]
      BY <3>1 DEF JobInv, JobTypes, WorkerRecords, Carried, Job
    <3>3. Current(worker[v].job)' <=> Current(worker[v].job)
      <4>1. PICK u \in Tickets : u = worker[v].job
        BY <3>2
      <4>2. Current(u)' <=> Current(u)
        BY <1>3, <3>2, <4>1
      <4> QED
        BY <3>1, <4>1, <4>2 DEF Current
    <3> QED
      BY <3>1, <3>3 DEF JobInv, Counted
  <2> QED
    BY <2>1, <2>2, <2>3 DEF Counted
<1>8. Unsent'
  <2>1. ASSUME NEW j \in Jobs, send'[<<j, 0>>] = "none"
        PROVE  runs'[j] = 0 /\ outcome'[j] = "none" /\ \A b \in Attempts : send'[<<j, b>>] = "none"
    <3>1. <<j, 0>> \in Tickets /\ \A b \in Attempts : <<j, b>> \in Tickets
      BY FirstTicket DEF Tickets
    <3>2. j # t[1]
      BY <1>4, <2>1 DEF Current
    <3>3. send'[<<j, 0>>] = send[<<j, 0>>] /\ \A b \in Attempts : send'[<<j, b>>] = send[<<j, b>>]
      <4>1. <<j, 0>>[1] = j /\ \A b \in Attempts : <<j, b>>[1] = j
        OBVIOUS
      <4> QED
        BY <1>2, <3>1, <3>2, <4>1
    <3> QED
      BY <2>1, <3>3 DEF JobInv, Unsent
  <2> QED
    BY <2>1 DEF Unsent
<1> QED
  BY <1>5, <1>6, <1>7, <1>8 DEF JobInv

LEMMA EnqueueStep == ASSUME JobInv, MaxAttempts \in Nat \ {0}, NEW j \in Jobs, Enqueue(j) PROVE JobInv'
<1>1. PICK t \in Tickets : t = <<j, 0>> /\ t[1] = j /\ t[2] = 0
  BY FirstTicket
<1>2. send[t] = "none" /\ send' = [send EXCEPT ![t] = "push"] /\ UNCHANGED <<queue, worker, runs, outcome>>
  BY <1>1 DEF Enqueue, Sender
<1>3. runs[t[1]] = t[2] /\ outcome[t[1]] # "succeeded" /\ \A b \in Attempts : send[<<t[1], b>>] = "none"
  BY <1>1, <1>2 DEF JobInv, Unsent
<1>4. \A u \in Tickets : Current(u) => u[1] # t[1]
  BY <1>1, <1>2 DEF Current
<1>5. /\ \A u \in Tickets : Ready(u) => u[1] # t[1]
      /\ \A i \in DOMAIN queue : queue[i][1] # t[1]
  BY <1>4, QueueParts DEF JobInv, Counted
<1>6. \A v \in Workers : Carried(v) => Job(v) # t[1]
  <2>1. \A v \in Workers : Carried(v) => worker[v].job \in Tickets
    BY DEF JobInv, JobTypes, WorkerRecords, Carried
  <2> QED
    BY <1>4, <2>1 DEF JobInv, Counted, Job
<1>7. /\ worker' \in [Workers -> WorkerRecords]
      /\ \A v \in Workers : Carried(v)' = Carried(v)
      /\ \A v \in Workers : Carried(v)' <=> worker'[v].pc \notin {"idle", "gone"}
  BY <1>2 DEF JobInv, JobTypes, Carried
<1> QED
  BY <1>1, <1>2, <1>3, <1>5, <1>6, <1>7, BecomesReady
LEMMA TicketMade ==
  ASSUME NEW j \in Jobs, NEW a \in Attempts PROVE \E t \in Tickets : t = <<j, a>> /\ t[1] = j /\ t[2] = a
<1>1. <<j, a>> \in Tickets /\ <<j, a>>[1] = j /\ <<j, a>>[2] = a
  BY DEF Tickets
<1> QED
  BY <1>1

LEMMA FailedStep == ASSUME JobInv, MaxAttempts \in Nat \ {0}, NEW w \in Workers, RecordFailed(w) PROVE JobInv'
<1>1. /\ worker[w].pc = "failed" /\ UNCHANGED <<queue, runs, outcome>>
      /\ worker' = [worker EXCEPT ![w] = [pc |-> "idle", job |-> NoTicket]]
      /\ send' = IF Attempt(w) + 1 < MaxAttempts
                 THEN [send EXCEPT ![<<Job(w), Attempt(w) + 1>>] = "timer"] ELSE send
  BY DEF RecordFailed, At, WorkerIdle, Retry, Job, Attempt
<1>2. CASE Attempt(w) + 1 < MaxAttempts
  <2>1. /\ Carried(w) /\ Ran(w) /\ worker[w].job \in Tickets
    BY <1>1 DEF JobInv, JobTypes, Carried, Ran, WorkerRecords
  <2>2. Job(w) \in Jobs /\ Attempt(w) \in Nat
    BY <2>1, TicketParts DEF Job, Attempt, Attempts
  <2>3. Attempt(w) + 1 \in Attempts
    BY <1>2, <2>2 DEF Attempts
  <2>4. PICK t \in Tickets : t = <<Job(w), Attempt(w) + 1>> /\ t[1] = Job(w) /\ t[2] = Attempt(w) + 1
    BY <2>2, <2>3, TicketMade
  <2>5. send' = [send EXCEPT ![t] = "timer"]
    BY <1>1, <1>2, <2>4
  <2>6. /\ worker'[w] = [pc |-> "idle", job |-> NoTicket] /\ \A v \in Workers : v # w => worker'[v] = worker[v]
        /\ worker' \in [Workers -> WorkerRecords]
    BY <1>1 DEF JobInv, JobTypes, WorkerRecords
  <2>7. ~ Carried(w)' /\ \A v \in Workers : v # w => Carried(v)' = Carried(v)
    BY <2>6 DEF Carried
  <2>8. \A v \in Workers : Carried(v)' <=> worker'[v].pc \notin {"idle", "gone"}
    BY <2>6, <2>7 DEF JobInv, JobTypes
  <2>9. \A v \in Workers : Carried(v)' => worker'[v] = worker[v] /\ Job(v) # t[1]
    BY <2>1, <2>4, <2>6, <2>7 DEF JobInv, OncePlaced
  <2>10. /\ \A u \in Tickets : Ready(u) => u[1] # t[1]
         /\ \A i \in DOMAIN queue : queue[i][1] # t[1]
    BY <2>1, <2>4 DEF JobInv, OncePlaced
  <2>11. /\ Current(worker[w].job) /\ runs[Job(w)] = Attempt(w) + 1 /\ outcome[Job(w)] # "succeeded"
    BY <1>1, <2>1 DEF JobInv, Counted
  <2>12. send[<<t[1], 0>>] # "none" /\ \A b \in Attempts : b > t[2] => send[<<t[1], b>>] = "none"
    <3>1. \A b \in Attempts : b > Attempt(w) + 1 => b > Attempt(w)
      BY <2>2 DEF Attempts
    <3> QED
      BY <2>4, <2>11, <3>1 DEF Current, Job, Attempt
  <2> QED
    BY <1>1, <2>4, <2>5, <2>6, <2>8, <2>9, <2>10, <2>11, <2>12, BecomesReady
<1>3. CASE ~ (Attempt(w) + 1 < MaxAttempts)
  BY <1>1, <1>3, WorkerRests
<1> QED
  BY <1>2, <1>3

LEMMA SenderSteps ==
  ASSUME JobInv, MaxAttempts \in Nat \ {0}, NEW t \in Tickets, SenderStep(t) PROVE JobInv'
<1>1. CASE Push(t)
  BY <1>1, PushStep
<1>2. CASE PushRefused(t) \/ RecordSent(t) \/ BackoffOver(t) \/ BackoffStopped(t)
  <2>1. PICK to \in {"push", "record", "sent", "refused"} :
          /\ send[t] # "none" /\ send' = [send EXCEPT ![t] = to]
          /\ to = "push" => send[t] = "timer"
    BY <1>2 DEF PushRefused, RecordSent, BackoffOver, BackoffStopped, Sender
  <2>2. UNCHANGED <<queue, worker, runs, outcome>>
    BY <1>2 DEF PushRefused, RecordSent, BackoffOver, BackoffStopped
  <2>3. to = "push" => Ready(t)
    BY <2>1 DEF Ready
  <2> QED
    BY <2>1, <2>2, <2>3, SenderMoves
<1> QED
  BY <1>1, <1>2 DEF SenderStep

LEMMA WorkerSteps ==
  ASSUME JobInv, MaxAttempts \in Nat \ {0}, NEW w \in Workers, WorkerStep(w) PROVE JobInv'
<1>1. CASE WorkerExit(w)
  <2>1. worker[w].pc = "idle" /\ worker' = [worker EXCEPT ![w].pc = "gone"] /\ UNCHANGED <<queue, send, runs, outcome>>
    BY <1>1 DEF WorkerExit, At, WorkerTo
  <2>2. worker[w].job = NoTicket /\ worker[w] \in WorkerRecords
    BY <2>1 DEF JobInv, JobTypes, Carried
  <2>3. [worker[w] EXCEPT !.pc = "gone"] = [pc |-> "gone", job |-> NoTicket]
    BY <2>2 DEF WorkerRecords
  <2>4. worker' = [worker EXCEPT ![w] = [pc |-> "gone", job |-> NoTicket]]
    BY <2>1, <2>3 DEF JobInv, JobTypes
  <2> QED
    BY <2>1, <2>4, WorkerRests
<1>2. CASE WaitStopped(w) \/ NoHandler(w) \/ RecordSucceeded(w)
  <2>1. worker' = [worker EXCEPT ![w] = [pc |-> "idle", job |-> NoTicket]] /\ UNCHANGED <<queue, send, runs, outcome>>
    BY <1>2 DEF WaitStopped, NoHandler, RecordSucceeded, WorkerIdle
  <2> QED
    BY <2>1, WorkerRests
<1> QED
  BY <1>1, <1>2, TakeStep, WorkerRuns, HandleStep, FailedStep DEF WorkerStep

LEMMA JobStep == ASSUME JobInv, MaxAttempts \in Nat \ {0}, [SchedNext]_schedVars PROVE JobInv'
<1>1. CASE Stop \/ StopReturns \/ UNCHANGED schedVars
  <2>1. UNCHANGED <<queue, send, worker, runs, outcome>>
    BY <1>1 DEF Stop, StopReturns, schedVars
  <2>2. JobTypes' /\ OncePlaced' /\ Unsent'
    BY <2>1 DEF JobInv, JobTypes, OncePlaced, Unsent, Carried, Ready, Job
  <2>3. Counted'
    BY <2>1 DEF JobInv, Counted, Carried, Ready, Job, Attempt, Ran, Current
  <2> QED
    BY <2>1, <2>2, <2>3 DEF JobInv
<1> QED
  BY <1>1, EnqueueStep, SenderSteps, WorkerSteps DEF SchedNext

LEMMA JobStart == ASSUME SchedInit PROVE JobInv
<1>1. queue = << >> /\ queue \in Seq(Tickets) /\ DOMAIN queue = {}
  <2>1. << >> \in Seq(Tickets) /\ DOMAIN << >> = {}
    BY EmptySeq
  <2> QED
    BY <2>1 DEF SchedInit
<1>2. /\ \A t \in Tickets : send[t] = "none"
      /\ \A w \in Workers : worker[w] = [pc |-> "idle", job |-> NoTicket]
      /\ \A j \in Jobs : runs[j] = 0 /\ outcome[j] = "none"
  BY DEF SchedInit
<1>3. (\A t \in Tickets : ~ Ready(t)) /\ (\A w \in Workers : ~ Carried(w))
  BY <1>2 DEF Ready, Carried
<1>4. JobTypes
  <2>1. /\ send \in [Tickets -> Sending] /\ worker \in [Workers -> WorkerRecords]
        /\ runs \in [Jobs -> Nat] /\ outcome \in [Jobs -> {"none", "succeeded", "failed"}]
    BY DEF SchedInit, Sending, WorkerRecords
  <2> QED
    BY <1>1, <1>2, <1>3, <2>1 DEF JobTypes
<1>5. OncePlaced /\ Counted
  BY <1>1, <1>3 DEF OncePlaced, Counted
<1>6. MaxAttempts \in Nat
  BY SchedulerAssumption
<1>7. \A j \in Jobs, b \in Attempts : <<j, b>> \in Tickets
  BY DEF Tickets
<1> QED
  BY <1>2, <1>4, <1>5, <1>6, <1>7 DEF JobInv, Unsent

LEMMA JobInvSound == ASSUME JobInv PROVE JobsSound
<1>1. ASSUME NEW j \in Jobs PROVE Cardinality(Places(j)) <= 1
  <2>1. /\ \A a \in Attempts : <<j, a>> \in Tickets /\ <<j, a>>[1] = j
        /\ \A a, b \in Attempts : <<j, a>> = <<j, b>> => a = b
    BY DEF Tickets
  <2>2. ASSUME NEW x \in Places(j), NEW y \in Places(j) PROVE x = y
    <3> DEFINE Sends(z) == \E a \in Attempts : Ready(<<j, a>>) /\ z = <<"sender", a>>
               Queues(z) == \E i \in DOMAIN queue : queue[i][1] = j /\ z = <<"queue", i>>
               Carries(z) == \E w \in Workers : Carried(w) /\ Job(w) = j /\ z = <<"worker", w>>
    <3>1. \A z \in Places(j) : Sends(z) \/ Queues(z) \/ Carries(z)
      BY DEF Places, Ready, Carried
    <3>2. ~ (Sends(x) /\ (Queues(y) \/ Carries(y))) /\ ~ (Sends(y) /\ (Queues(x) \/ Carries(x)))
      BY <2>1 DEF JobInv, OncePlaced
    <3>3. ~ (Queues(x) /\ Carries(y)) /\ ~ (Carries(x) /\ Queues(y))
      BY DEF JobInv, OncePlaced
    <3>4. Sends(x) /\ Sends(y) => x = y
      BY <2>1 DEF JobInv, OncePlaced
    <3>5. Queues(x) /\ Queues(y) => x = y
      BY DEF JobInv, OncePlaced
    <3>6. Carries(x) /\ Carries(y) => x = y
      BY DEF JobInv, OncePlaced
    <3> HIDE DEF Sends, Queues, Carries
    <3> QED
      BY <3>1, <3>2, <3>3, <3>4, <3>5, <3>6
  <2>3. CASE Places(j) = {}
    BY <2>3, FS_EmptySet
  <2>4. CASE Places(j) # {}
    <3>1. PICK x : x \in Places(j)
      BY <2>4
    <3>2. Places(j) = {x}
      BY <2>2, <3>1
    <3> QED
      BY <3>2, FS_Singleton
  <2> QED
    BY <2>3, <2>4
<1>2. ASSUME NEW j \in Jobs, outcome[j] = "succeeded" PROVE Places(j) \subseteq {<<"worker", w>> : w \in Workers}
  <2>1. \A a \in Attempts : send[<<j, a>>] \notin {"timer", "push"}
    <3>1. \A a \in Attempts : <<j, a>> \in Tickets /\ <<j, a>>[1] = j
      BY DEF Tickets
    <3> QED
      BY <1>2, <3>1 DEF JobInv, Counted, Ready
  <2>2. \A i \in DOMAIN queue : queue[i][1] # j
    BY <1>2 DEF JobInv, Counted
  <2> QED
    BY <2>1, <2>2 DEF Places
<1> QED
  BY <1>1, <1>2 DEF JobsSound, OneCopy, RunsBounded, JobInv

-----------------------------------------------------------------------------
(* The service submits jobs to the scheduler only as Enqueue does: each of *)
(* its steps is a step of the scheduler or leaves it alone.                *)

LEMMA ServiceStep == ASSUME ApprovalInv, [AutoNext]_autoVars PROVE [SchedNext]_schedVars
<1>1. CASE RuntimeStep \/ ScheduleCall \/ ServiceStop \/ ServiceStopped \/ UNCHANGED autoVars
  BY <1>1 DEF RuntimeStep, ScheduleCall, ServiceStop, ServiceStopped, autoVars, SchedNext
<1>2. ASSUME NEW j \in Jobs, EnqueueCall(j) PROVE SchedNext
  BY <1>2 DEF EnqueueCall, SchedNext
<1>3. ASSUME NEW k \in Loops, LoopTick(k) \/ LoopEnqueued(k) \/ LoopExit(k) PROVE [SchedNext]_schedVars
  <2>1. TickJob(k) \in Jobs
    BY AutomationAssumption
  <2> QED
    BY <1>3, <2>1 DEF LoopTick, LoopEnqueued, LoopExit, SchedNext
<1>4. ASSUME NEW r \in Requests, \/ SubmitChange(r) \/ handleAutomationApprovalReject(r)
                                 \/ \E c \in Callers : handleAutomationApprovalApprove(c, r) \/ ApplyRead(c, r)
      PROVE  UNCHANGED schedVars
  BY <1>4 DEF SubmitChange, handleAutomationApprovalReject, handleAutomationApprovalApprove, Reject, Approve, ApplyRead
<1>5. ASSUME NEW c \in Callers, CallStep(c) PROVE [SchedNext]_schedVars
  <2>1. CASE ApplyChange(c)
    <3>1. call[c].on \in Requests
      BY <2>1 DEF ApplyChange, ApprovalInv
    <3>2. call[c].on \notin Schedule => RunJob(call[c].on, c) \in Jobs
      BY <3>1, AutomationAssumption
    <3> QED
      BY <2>1, <3>2 DEF ApplyChange, SchedNext
  <2> QED
    BY <1>5, <2>1 DEF CallStep, ApplyFails, ApplyEnqueued, MarkApplied
<1> QED
  BY <1>1, <1>2, <1>3, <1>4, <1>5 DEF AutoNext

\* For every number of jobs, workers, loops and callers: a job is in one place at
\* a time and the handler runs no more often than its attempts allow
\* (automation/scheduler.go).
THEOREM JobsStaySound == AutoSpec => []JobsSound
<1>1. AutoInit => JobInv
  BY JobStart DEF AutoInit
<1>2. ApprovalInv /\ JobInv /\ [AutoNext]_autoVars => JobInv'
  <2>1. MaxAttempts \in Nat \ {0}
    BY SchedulerAssumption
  <2> QED
    BY <2>1, ServiceStep, JobStep
<1>3. JobInv => JobsSound
  BY JobInvSound
<1> QED
  BY <1>1, <1>2, <1>3, ApprovalInvariant, PTL DEF AutoSpec

-----------------------------------------------------------------------------
(* Workflow definitions.  A row that a publisher has read is the stored    *)
(* one, or is older and its version tells.                                 *)

DefInv ==
  /\ def \in [version : Nat, status : {"draft", "active", "archived"}, spec : Specs \cup {<< >>}]
  /\ def = NoRow \/ (def.version # 0 /\ def.spec = authored)
  /\ \A e \in Editors : editor[e] # NoRow =>
       /\ editor[e] \in [version : Nat, status : {"draft", "active", "archived"}, spec : Specs \cup {<< >>}]
       /\ editor[e].version <= def.version
       /\ editor[e].version = def.version => editor[e].spec = def.spec

LEMMA DefinitionSaved ==
  ASSUME DefInv, NEW row \in [version : Nat, status : {"draft", "active", "archived"}, spec : Specs \cup {<< >>}],
         def.version # 0, def' = [row EXCEPT !.version = def.version + 1], authored' = row.spec,
         \A e \in Editors : editor'[e] \in {NoRow, editor[e]}
  PROVE  DefInv'
<1>1. /\ def' \in [version : Nat, status : {"draft", "active", "archived"}, spec : Specs \cup {<< >>}]
      /\ def'.version = def.version + 1 /\ def'.spec = authored' /\ def.version \in Nat
  BY DEF DefInv
<1>2. ASSUME NEW e \in Editors, editor'[e] # NoRow
      PROVE  /\ editor'[e] \in [version : Nat, status : {"draft", "active", "archived"}, spec : Specs \cup {<< >>}]
             /\ editor'[e].version < def'.version
  <2>1. editor'[e] = editor[e] /\ editor[e] # NoRow
    BY <1>2
  <2>2. /\ editor[e] \in [version : Nat, status : {"draft", "active", "archived"}, spec : Specs \cup {<< >>}]
        /\ editor[e].version <= def.version
    BY <2>1 DEF DefInv
  <2>3. editor[e].version \in Nat
    BY <2>2
  <2> QED
    BY <1>1, <2>1, <2>2, <2>3
<1>3. \A e \in Editors : editor'[e] # NoRow => editor'[e].version \in Nat
  BY <1>2
<1>4. def'.version \in Nat /\ def'.version # 0
  BY <1>1
<1>5. \A e \in Editors : editor'[e] # NoRow => editor'[e].version <= def'.version /\ editor'[e].version # def'.version
  BY <1>2, <1>3, <1>4
<1> QED
  BY <1>1, <1>2, <1>4, <1>5 DEF DefInv

LEMMA DefinitionStep ==
  ASSUME DefInv, [FlowNext]_flowVars PROVE DefInv'
<1>1. CASE handleWorkflowCreateDefinition
  <2>1. PICK s \in Specs, status \in {"draft", "active"} :
          /\ def = NoRow /\ def' = [version |-> 1, status |-> status, spec |-> s] /\ authored' = s
          /\ UNCHANGED editor
    BY <1>1 DEF handleWorkflowCreateDefinition, CreateDefinition
  <2>2. \A e \in Editors : editor[e] # NoRow =>
          /\ editor[e] \in [version : Nat, status : {"draft", "active", "archived"}, spec : Specs \cup {<< >>}]
          /\ editor[e].version <= 0
    BY <2>1 DEF DefInv, NoRow
  <2>3. \A e \in Editors : editor[e] # NoRow => editor[e].version <= 1 /\ editor[e].version # 1
    <3>1. \A e \in Editors : editor[e] # NoRow => editor[e].version \in Nat
      BY <2>2
    <3> QED
      BY <2>2, <3>1
  <2> QED
    BY <2>1, <2>2, <2>3 DEF DefInv
<1>2. CASE UpdateDefinition
  <2>1. PICK s \in Specs, status \in {"draft", "active"}, seen \in 1..MaxVersion :
          /\ SaveDefinition([version |-> seen, status |-> status, spec |-> s])
          /\ authored' = s /\ UNCHANGED editor
    BY <1>2 DEF UpdateDefinition
  <2>2. PICK row \in [version : Nat, status : {"draft", "active", "archived"}, spec : Specs \cup {<< >>}] :
          row = [version |-> seen, status |-> status, spec |-> s] /\ row.version = seen /\ row.spec = s
    <3>1. seen \in Nat
      BY WorkflowAssumption
    <3>2. [version |-> seen, status |-> status, spec |-> s]
            \in [version : Nat, status : {"draft", "active", "archived"}, spec : Specs \cup {<< >>}]
      BY <3>1
    <3> QED
      BY <3>2
  <2>3. def.version # 0 /\ def' = [row EXCEPT !.version = def.version + 1]
    BY <2>1, <2>2 DEF SaveDefinition
  <2> QED
    BY <2>1, <2>2, <2>3, DefinitionSaved
<1>3. CASE ArchiveDefinition
  <2>1. PICK row \in [version : Nat, status : {"draft", "active", "archived"}, spec : Specs \cup {<< >>}] :
          row = [def EXCEPT !.status = "archived"] /\ row.spec = def.spec
    <3>1. /\ [def EXCEPT !.status = "archived"]
               \in [version : Nat, status : {"draft", "active", "archived"}, spec : Specs \cup {<< >>}]
          /\ [def EXCEPT !.status = "archived"].spec = def.spec
      BY DEF DefInv
    <3> QED
      BY <3>1
  <2>2. def.version # 0 /\ def.spec = authored /\ UNCHANGED <<editor, authored>>
    BY <1>3 DEF ArchiveDefinition, DefInv
  <2>3. def' = [row EXCEPT !.version = def.version + 1]
    BY <1>3, <2>1 DEF ArchiveDefinition, DefInv
  <2> QED
    BY <2>1, <2>2, <2>3, DefinitionSaved
<1>4. ASSUME NEW e \in Editors, PublishRead(e) PROVE DefInv'
  <2>1. UNCHANGED <<def, authored>> /\ editor' = [editor EXCEPT ![e] = def]
    BY <1>4 DEF PublishRead
  <2>2. \A d \in Editors : editor'[d] = editor[d] \/ editor'[d] = def
    BY <2>1
  <2>3. def.version \in Nat
    BY DEF DefInv
  <2> QED
    BY <2>1, <2>2, <2>3 DEF DefInv
<1>5. ASSUME NEW e \in Editors, PublishSave(e) PROVE DefInv'
  <2>1. /\ editor[e] # NoRow /\ SaveDefinition([editor[e] EXCEPT !.status = "active"])
        /\ editor' = [editor EXCEPT ![e] = NoRow] /\ UNCHANGED authored
    BY <1>5 DEF PublishSave
  <2>2. PICK row \in [version : Nat, status : {"draft", "active", "archived"}, spec : Specs \cup {<< >>}] :
          /\ row = [editor[e] EXCEPT !.status = "active"] /\ row.spec = editor[e].spec
          /\ row.version = editor[e].version
    BY <2>1 DEF DefInv
  <2>3. /\ def.version # 0 /\ row.version = def.version /\ def' = [row EXCEPT !.version = def.version + 1]
    <3>1. SaveDefinition(row)
      BY <2>1, <2>2
    <3>2. row.version = def.version /\ def.version \in 1..(MaxVersion - 1)
      BY <3>1 DEF SaveDefinition
    <3> QED
      BY <3>1, <3>2 DEF SaveDefinition
  <2>4. authored' = row.spec
    BY <2>1, <2>2, <2>3 DEF DefInv, NoRow
  <2>5. \A d \in Editors : editor'[d] \in {NoRow, editor[d]}
    BY <2>1
  <2> QED
    BY <2>3, <2>4, <2>5, DefinitionSaved
<1>6. ASSUME NEW e \in Editors, PublishConflict(e) PROVE DefInv'
  <2>1. UNCHANGED <<def, authored>> /\ \A d \in Editors : editor'[d] \in {NoRow, editor[d]}
    BY <1>6 DEF PublishConflict
  <2> QED
    BY <2>1 DEF DefInv
<1>7. CASE handleWorkflowStartExecution \/ Plan \/ Planned \/ ExecuteNode \/ Executed \/ Rerun \/ UNCHANGED flowVars
  <2>1. UNCHANGED <<def, editor, authored>>
    BY <1>7 DEF handleWorkflowStartExecution, StartExecution, Plan, Planned, ExecuteNode, Executed, Rerun, flowVars
  <2> QED
    BY <2>1 DEF DefInv
<1> QED
  BY <1>1, <1>2, <1>3, <1>4, <1>5, <1>6, <1>7 DEF FlowNext, handleWorkflowPublishDefinition

-----------------------------------------------------------------------------
(* Plans of executions: a breadth-first traversal.  First what the         *)
(* operators of the property compute, then what one round of the loop of   *)
(* buildTraversalPlan keeps.                                               *)

\* A set of numbers that is not empty has a least one.
LEMMA Least ==
  ASSUME NEW T \in SUBSET Nat, T # {}
  PROVE  \E m \in T : \A q \in Nat : q < m => q \notin T
<1>1. PICK m \in T : \A q \in T : ~ (<<q, m>> \in OpToRel(<, Nat))
  BY WFMin, NatLessThanWellFounded
<1>2. ASSUME NEW q \in Nat, q < m PROVE q \notin T
  <2>1. <<q, m>> \in Nat \X Nat /\ <<q, m>>[1] = q /\ <<q, m>>[2] = m
    OBVIOUS
  <2>2. <<q, m>> \in OpToRel(<, Nat)
    BY <1>2, <2>1, Zenon DEF OpToRel
  <2> QED
    BY <1>1, <2>2, Zenon
<1> QED
  BY <1>2

\* Induction over the natural numbers, for sets.
LEMMA Climb ==
  ASSUME NEW T, 0 \in T, \A k \in Nat : k \in T => k + 1 \in T
  PROVE  Nat \subseteq T
<1>1. SUFFICES ASSUME Nat \ T # {} PROVE FALSE
  OBVIOUS
<1>2. PICK m \in Nat \ T : \A q \in Nat : q < m => q \notin Nat \ T
  BY <1>1, Least
<1>3. m # 0 /\ m - 1 \in Nat /\ m - 1 < m /\ m - 1 + 1 = m
  BY <1>2
<1> QED
  BY <1>2, <1>3

Edges == Seq(Nodes \X Nodes)
Edge(spec, u, t) == \E i \in DOMAIN spec : spec[i] = <<u, t>>

-----------------------------------------------------------------------------
\* The walks of k steps from the start; a step may stay where it is.
Walks(spec, k) ==
  {p \in [0..k -> Nodes] : p[0] = Start /\ \A i \in 1..k : p[i] \in Succ(spec, {p[i - 1]})}
Reached(spec) == [k \in Nat |-> {p[k] : p \in Walks(spec, k)}]

LEMMA SuccNodes ==
  ASSUME NEW spec \in Edges, NEW S
  PROVE  /\ S \subseteq Succ(spec, S)
         /\ S \subseteq Nodes => Succ(spec, S) \subseteq Nodes
         /\ \A u \in S, t \in Nodes : Edge(spec, u, t) => t \in Succ(spec, S)
         /\ \A t \in Succ(spec, S) : t \in S \/ (t \in Nodes /\ \E u \in S : Edge(spec, u, t))
<1>1. \A i \in DOMAIN spec : spec[i] \in Nodes \X Nodes /\ spec[i] = <<spec[i][1], spec[i][2]>>
  BY DEF Edges
<1>2. S \subseteq Succ(spec, S) /\ (S \subseteq Nodes => Succ(spec, S) \subseteq Nodes)
  BY DEF Succ
<1>3. ASSUME NEW u \in S, NEW t \in Nodes, Edge(spec, u, t) PROVE t \in Succ(spec, S)
  <2>1. PICK i \in DOMAIN spec : spec[i] = <<u, t>>
    BY <1>3 DEF Edge
  <2>2. spec[i][1] = u /\ spec[i][2] = t
    BY <2>1
  <2> QED
    BY <2>2 DEF Succ
<1>4. ASSUME NEW t \in Succ(spec, S)
      PROVE  t \in S \/ (t \in Nodes /\ \E u \in S : Edge(spec, u, t))
  <2>1. CASE t \in S
    BY <2>1
  <2>2. CASE t \notin S
    <3>1. t \in Nodes /\ \E i \in DOMAIN spec : spec[i][1] \in S /\ spec[i][2] = t
      BY <1>4, <2>2 DEF Succ
    <3>2. PICK i \in DOMAIN spec : spec[i][1] \in S /\ spec[i][2] = t
      BY <3>1
    <3>3. spec[i] = <<spec[i][1], t>>
      BY <1>1, <3>2
    <3>4. Edge(spec, spec[i][1], t)
      BY <3>2, <3>3 DEF Edge
    <3> QED
      BY <3>1, <3>2, <3>4
  <2> QED
    BY <2>1, <2>2
<1>6. \A u \in S, t \in Nodes : Edge(spec, u, t) => t \in Succ(spec, S)
  BY <1>3, Zenon
<1> QED
  BY <1>2, <1>4, <1>6

LEMMA WalkStarts ==
  ASSUME NEW spec \in Edges PROVE Reached(spec)[0] = {Start}
<1>1. Start \in Nodes
  BY WorkflowAssumption
<1>2. ASSUME NEW x \in {Start} PROVE x \in Reached(spec)[0]
  <2> DEFINE p == [i \in 0..0 |-> Start]
  <2>1. p \in Walks(spec, 0) /\ p[0] = Start
    BY <1>1 DEF Walks
  <2> QED
    BY <1>2, <2>1 DEF Reached
<1>3. ASSUME NEW x \in Reached(spec)[0] PROVE x = Start
  BY <1>3 DEF Reached, Walks
<1> QED
  BY <1>2, <1>3

LEMMA WalkSteps ==
  ASSUME NEW spec \in Edges, NEW k \in Nat \ {0}
  PROVE  Reached(spec)[k] = Succ(spec, Reached(spec)[k - 1])
<1> DEFINE W == Reached(spec)
<1>0. k - 1 \in Nat /\ k \in Nat
  OBVIOUS
<1>1. ASSUME NEW x \in W[k] PROVE x \in Succ(spec, W[k - 1])
  <2>1. PICK p \in Walks(spec, k) : x = p[k]
    BY <1>1 DEF Reached
  <2>2. p \in [0..k -> Nodes] /\ p[0] = Start /\ \A i \in 1..k : p[i] \in Succ(spec, {p[i - 1]})
    BY DEF Walks
  <2> DEFINE q == [i \in 0..(k - 1) |-> p[i]]
  <2>3. q \in [0..(k - 1) -> Nodes] /\ q[0] = Start
    BY <2>2
  <2>4. ASSUME NEW i \in 1..(k - 1) PROVE q[i] \in Succ(spec, {q[i - 1]})
    <3>1. i \in 1..k /\ i \in 0..(k - 1) /\ i - 1 \in 0..(k - 1)
      OBVIOUS
    <3> QED
      BY <2>2, <3>1
  <2>5. q \in Walks(spec, k - 1)
    BY <2>3, <2>4 DEF Walks
  <2>6. q[k - 1] = p[k - 1]
    OBVIOUS
  <2>7. p[k - 1] \in W[k - 1]
    BY <1>0, <2>5, <2>6 DEF Reached
  <2>8. x \in Succ(spec, {p[k - 1]})
    BY <2>1, <2>2
  <2> QED
    BY <2>7, <2>8 DEF Succ
<1>2. ASSUME NEW x \in Succ(spec, W[k - 1]) PROVE x \in W[k]
  <2>1. PICK u \in W[k - 1] : x \in Succ(spec, {u})
    BY <1>2 DEF Succ
  <2>2. PICK q \in Walks(spec, k - 1) : u = q[k - 1]
    BY <1>0 DEF Reached
  <2>3. q \in [0..(k - 1) -> Nodes] /\ q[0] = Start /\ \A i \in 1..(k - 1) : q[i] \in Succ(spec, {q[i - 1]})
    BY DEF Walks
  <2>4. u \in Nodes /\ x \in Nodes
    BY <2>1, <2>2, <2>3 DEF Succ
  <2> DEFINE p == [i \in 0..k |-> IF i = k THEN x ELSE q[i]]
  <2>5. p \in [0..k -> Nodes] /\ p[0] = Start /\ p[k] = x
    BY <2>3, <2>4
  <2>6. ASSUME NEW i \in 1..k PROVE p[i] \in Succ(spec, {p[i - 1]})
    <3>1. CASE i = k
      <4>1. k - 1 \in 0..k /\ k - 1 # k
        OBVIOUS
      <4>2. p[i] = x /\ p[i - 1] = u
        BY <2>2, <3>1, <4>1
      <4> QED
        BY <2>1, <4>2
    <3>2. CASE i # k
      <4>1. i \in 1..(k - 1) /\ p[i] = q[i] /\ p[i - 1] = q[i - 1]
        BY <3>2
      <4> QED
        BY <2>3, <4>1
    <3> QED
      BY <3>1, <3>2
  <2>7. p \in Walks(spec, k)
    BY <2>5, <2>6 DEF Walks
  <2> QED
    BY <2>5, <2>7 DEF Reached
<1> QED
  BY <1>1, <1>2

\* Within is defined by recursion: the walks show that there is such a function.
LEMMA WithinEquation ==
  ASSUME NEW spec \in Edges
  PROVE  Within(spec) = [k \in Nat |-> IF k = 0 THEN {Start} ELSE Succ(spec, Within(spec)[k - 1])]
<1> DEFINE R == Reached(spec)
<1>1. R = [k \in Nat |-> IF k = 0 THEN {Start} ELSE Succ(spec, R[k - 1])]
  <2>1. R = [k \in Nat |-> R[k]]
    BY DEF Reached
  <2>2. \A k \in Nat : R[k] = IF k = 0 THEN {Start} ELSE Succ(spec, R[k - 1])
    BY WalkStarts, WalkSteps
  <2> HIDE DEF R
  <2> QED
    BY <2>1, <2>2
<1>2. \E w : w = [k \in Nat |-> IF k = 0 THEN {Start} ELSE Succ(spec, w[k - 1])]
  BY <1>1, Zenon
<1> QED
  BY <1>2, Zenon DEF Within

LEMMA WithinSteps ==
  ASSUME NEW spec \in Edges
  PROVE  /\ Within(spec)[0] = {Start}
         /\ \A k \in Nat : Within(spec)[k + 1] = Succ(spec, Within(spec)[k])
<1> DEFINE W == Within(spec)
<1>1. W = [k \in Nat |-> IF k = 0 THEN {Start} ELSE Succ(spec, W[k - 1])]
  BY WithinEquation
<1> HIDE DEF W
<1>2. \A k \in Nat : k + 1 \in Nat /\ k + 1 # 0 /\ k + 1 - 1 = k
  OBVIOUS
<1>3. W[0] = {Start} /\ \A k \in Nat : W[k + 1] = Succ(spec, W[k])
  BY <1>1, <1>2
<1> QED
  BY <1>3 DEF W

LEMMA WithinGrows ==
  ASSUME NEW spec \in Edges, NEW j \in Nat
  PROVE  /\ Within(spec)[j] \subseteq Nodes
         /\ \A i \in 0..j : Within(spec)[i] \subseteq Within(spec)[j]
<1> DEFINE W == Within(spec)
           T == {k \in Nat : W[k] \subseteq Nodes /\ \A i \in 0..k : W[i] \subseteq W[k]}
<1>1. W[0] = {Start} /\ \A k \in Nat : W[k + 1] = Succ(spec, W[k])
  BY WithinSteps
<1> HIDE DEF W
<1>2. 0 \in T
  <2>1. \A i \in 0..0 : i = 0
    OBVIOUS
  <2> QED
    BY <1>1, <2>1, WorkflowAssumption
<1>3. ASSUME NEW k \in Nat, k \in T PROVE k + 1 \in T
  <2>1. W[k] \subseteq W[k + 1] /\ W[k + 1] \subseteq Nodes
    BY <1>1, <1>3, SuccNodes
  <2>2. \A i \in 0..(k + 1) : i \in 0..k \/ i = k + 1
    OBVIOUS
  <2> QED
    BY <1>3, <2>1, <2>2
<1>4. j \in T
  BY <1>2, <1>3, Climb
<1> QED
  BY <1>4 DEF W


-----------------------------------------------------------------------------
\* The loop of Adjacent, as a function of how far it has read.
Listed(spec, n, k) ==
  {f \in [0..k -> Seq(Nodes)] :
     f = [i \in 0..k |-> IF i = 0 THEN <<>>
                         ELSE IF spec[i][1] = n THEN Append(f[i - 1], spec[i][2]) ELSE f[i - 1]]}

LEMMA ListedExists ==
  ASSUME NEW spec \in Edges, NEW n
  PROVE  Listed(spec, n, Len(spec)) # {}
<1> DEFINE L == Len(spec)
           T == {k \in Nat : k <= L => Listed(spec, n, k) # {}}
<1>0. L \in Nat /\ \A k \in 1..L : spec[k][2] \in Nodes
  BY DEF Edges
<1>1. 0 \in T
  <2> DEFINE f == [i \in 0..0 |-> <<>>]
  <2>1. f \in [0..0 -> Seq(Nodes)] /\ \A i \in 0..0 : i = 0
    OBVIOUS
  <2>2. f = [i \in 0..0 |-> IF i = 0 THEN <<>>
                            ELSE IF spec[i][1] = n THEN Append(f[i - 1], spec[i][2]) ELSE f[i - 1]]
    BY <2>1
  <2>3. f \in Listed(spec, n, 0)
    BY <2>1, <2>2 DEF Listed
  <2> QED
    BY <2>3
<1>2. ASSUME NEW k \in Nat, k \in T PROVE k + 1 \in T
  <2> SUFFICES ASSUME k + 1 <= L PROVE Listed(spec, n, k + 1) # {}
    OBVIOUS
  <2>1. k <= L /\ k + 1 \in 1..L
    BY <1>0
  <2>2. PICK f \in [0..k -> Seq(Nodes)] :
          f = [i \in 0..k |-> IF i = 0 THEN <<>>
                              ELSE IF spec[i][1] = n THEN Append(f[i - 1], spec[i][2]) ELSE f[i - 1]]
    BY <1>2, <2>1 DEF Listed
  <2> DEFINE last == IF spec[k + 1][1] = n THEN Append(f[k], spec[k + 1][2]) ELSE f[k]
             g == [i \in 0..(k + 1) |-> IF i = k + 1 THEN last ELSE f[i]]
  <2>3. f[k] \in Seq(Nodes) /\ spec[k + 1][2] \in Nodes
    BY <1>0, <2>1, <2>2
  <2>4. last \in Seq(Nodes)
    BY <2>3
  <2> HIDE DEF last
  <2>5. g \in [0..(k + 1) -> Seq(Nodes)]
    <3>1. \A i \in 0..(k + 1) : i = k + 1 \/ i \in 0..k
      OBVIOUS
    <3> QED
      BY <2>2, <2>4, <3>1
  <2>6. ASSUME NEW i \in 0..(k + 1)
        PROVE  g[i] = IF i = 0 THEN <<>>
                      ELSE IF spec[i][1] = n THEN Append(g[i - 1], spec[i][2]) ELSE g[i - 1]
    <3>1. CASE i = k + 1
      <4>1. k \in 0..(k + 1) /\ k # k + 1 /\ k + 1 # 0 /\ k + 1 - 1 = k
        OBVIOUS
      <4>2. g[i - 1] = f[k] /\ g[i] = last
        BY <3>1, <4>1
      <4> QED
        BY <3>1, <4>1, <4>2 DEF last
    <3>2. CASE i # k + 1
      <4>1. i \in 0..k
        BY <3>2
      <4>2. g[i] = f[i] /\ (i # 0 => g[i - 1] = f[i - 1])
        BY <3>2, <4>1
      <4>3. f[i] = IF i = 0 THEN <<>>
                   ELSE IF spec[i][1] = n THEN Append(f[i - 1], spec[i][2]) ELSE f[i - 1]
        BY <2>2, <4>1
      <4> QED
        BY <4>2, <4>3
    <3> QED
      BY <3>1, <3>2
  <2>7. g = [i \in 0..(k + 1) |-> IF i = 0 THEN <<>>
                                 ELSE IF spec[i][1] = n THEN Append(g[i - 1], spec[i][2]) ELSE g[i - 1]]
    <3> HIDE DEF g
    <3>1. g = [i \in 0..(k + 1) |-> g[i]]
      BY <2>5
    <3> QED
      BY <2>6, <3>1
  <2> HIDE DEF g
  <2> QED
    BY <2>5, <2>7 DEF Listed
<1>3. L \in T
  BY <1>0, <1>1, <1>2, Climb
<1> QED
  BY <1>0, <1>3

LEMMA AppendSet ==
  ASSUME NEW S, NEW q \in Seq(S), NEW x \in S
  PROVE  ToSet(Append(q, x)) = ToSet(q) \cup {x}
BY AppendPlaces DEF ToSet

LEMMA CatPlaces ==
  ASSUME NEW S, NEW q \in Seq(S), NEW r \in Seq(S)
  PROVE  /\ q \o r \in Seq(S) /\ Len(q \o r) = Len(q) + Len(r) /\ DOMAIN (q \o r) = 1..(Len(q) + Len(r))
         /\ DOMAIN q = 1..Len(q) /\ DOMAIN r = 1..Len(r) /\ Len(q) \in Nat /\ Len(r) \in Nat
         /\ \A i \in 1..Len(q) : (q \o r)[i] = q[i]
         /\ \A i \in 1..Len(r) : (q \o r)[Len(q) + i] = r[i]
OBVIOUS

LEMMA CatSet ==
  ASSUME NEW S, NEW q \in Seq(S), NEW r \in Seq(S)
  PROVE  ToSet(q \o r) = ToSet(q) \cup ToSet(r)
<1>1. /\ DOMAIN (q \o r) = 1..(Len(q) + Len(r))
      /\ DOMAIN q = 1..Len(q) /\ DOMAIN r = 1..Len(r) /\ Len(q) \in Nat /\ Len(r) \in Nat
  BY CatPlaces
<1>2. /\ \A i \in 1..Len(q) : (q \o r)[i] = q[i]
      /\ \A i \in 1..Len(r) : (q \o r)[Len(q) + i] = r[i]
  BY CatPlaces
<1>3. ASSUME NEW x \in ToSet(q \o r) PROVE x \in ToSet(q) \cup ToSet(r)
  <2>1. PICK i \in 1..(Len(q) + Len(r)) : x = (q \o r)[i]
    BY <1>1, <1>3 DEF ToSet
  <2>2. CASE i <= Len(q)
    BY <1>1, <1>2, <2>1, <2>2 DEF ToSet
  <2>3. CASE i > Len(q)
    <3>1. i - Len(q) \in 1..Len(r) /\ Len(q) + (i - Len(q)) = i
      BY <1>1, <2>3
    <3> QED
      BY <1>1, <1>2, <2>1, <3>1 DEF ToSet
  <2> QED
    BY <1>1, <2>2, <2>3
<1>4. ASSUME NEW x \in ToSet(q) PROVE x \in ToSet(q \o r)
  <2>1. PICK i \in 1..Len(q) : x = q[i]
    BY <1>1, <1>4 DEF ToSet
  <2>2. i \in 1..(Len(q) + Len(r)) /\ (q \o r)[i] = x
    BY <1>1, <1>2, <2>1
  <2> QED
    BY <1>1, <2>2 DEF ToSet
<1>5. ASSUME NEW x \in ToSet(r) PROVE x \in ToSet(q \o r)
  <2>1. PICK i \in 1..Len(r) : x = r[i]
    BY <1>1, <1>5 DEF ToSet
  <2>2. Len(q) + i \in 1..(Len(q) + Len(r)) /\ (q \o r)[Len(q) + i] = x
    BY <1>1, <1>2, <2>1
  <2> QED
    BY <1>1, <2>2 DEF ToSet
<1> QED
  BY <1>3, <1>4, <1>5

LEMMA HeadAndTail ==
  ASSUME NEW S, NEW q \in Seq(S), q # <<>>
  PROVE  ToSet(q) = {Head(q)} \cup ToSet(Tail(q))
<1>1. PICK h, r : h = Head(q) /\ r = Tail(q)
  OBVIOUS
<1>2. /\ r \in Seq(S) /\ Len(r) = Len(q) - 1 /\ Len(q) \in Nat \ {0} /\ h = q[1]
      /\ DOMAIN q = 1..Len(q) /\ DOMAIN r = 1..Len(r)
  BY <1>1, EmptySeq
<1>3. \A i \in 1..Len(r) : r[i] = q[i + 1]
  BY <1>1, <1>2
<1>4. ASSUME NEW x \in ToSet(q) PROVE x \in {h} \cup ToSet(r)
  <2>1. PICK i \in 1..Len(q) : x = q[i]
    BY <1>2, <1>4 DEF ToSet
  <2>2. CASE i = 1
    BY <1>2, <2>1, <2>2
  <2>3. CASE i # 1
    <3>1. i - 1 \in 1..Len(r) /\ i - 1 + 1 = i
      BY <1>2, <2>3
    <3>2. i - 1 \in DOMAIN r /\ x = r[i - 1]
      BY <1>2, <1>3, <2>1, <3>1
    <3> QED
      BY <3>2 DEF ToSet
  <2> QED
    BY <2>2, <2>3
<1>5. ASSUME NEW x \in {h} \cup ToSet(r) PROVE x \in ToSet(q)
  <2>1. CASE x = h
    BY <1>2, <2>1 DEF ToSet
  <2>2. CASE x # h
    <3>1. PICK i \in 1..Len(r) : x = r[i]
      BY <1>2, <1>5, <2>2 DEF ToSet
    <3>2. i + 1 \in 1..Len(q)
      BY <1>2
    <3>3. i + 1 \in DOMAIN q /\ x = q[i + 1]
      BY <1>2, <1>3, <3>1, <3>2
    <3> QED
      BY <3>3 DEF ToSet
  <2> QED
    BY <2>1, <2>2
<1>6. ToSet(q) = {h} \cup ToSet(r)
  BY <1>4, <1>5
<1> QED
  BY <1>1, <1>6

\* Adjacent lists the targets of n's edges, and nothing else.
LEMMA AdjacentLists ==
  ASSUME NEW spec \in Edges, NEW n
  PROVE  /\ Adjacent(spec, n) \in Seq(Nodes)
         /\ \A t : t \in ToSet(Adjacent(spec, n)) <=> Edge(spec, n, t)
<1> DEFINE L == Len(spec)
           Loop(f) == f = [k \in 0..L |-> IF k = 0 THEN <<>>
                                         ELSE IF spec[k][1] = n THEN Append(f[k - 1], spec[k][2]) ELSE f[k - 1]]
           out == CHOOSE f : Loop(f)
<1>1. \E f : Loop(f)
  <2>1. PICK f : f \in Listed(spec, n, L)
    BY ListedExists
  <2>2. Loop(f)
    BY <2>1 DEF Listed
  <2> QED
    BY <2>2, Zenon
<1>2. Loop(out)
  BY <1>1, Zenon
<1>3. Adjacent(spec, n) = out[L]
  BY Zenon DEF Adjacent
<1> HIDE DEF out
<1>4. PICK o : o = out
  OBVIOUS
<1>5. Loop(o)
  <2> HIDE DEF Loop
  <2> QED
    BY <1>2, <1>4
<1>6. Adjacent(spec, n) = o[L]
  BY <1>3, <1>4, Zenon
<1>7. L \in Nat /\ \A k \in 1..L : spec[k] = <<spec[k][1], spec[k][2]>> /\ spec[k][2] \in Nodes
  BY DEF Edges
<1> DEFINE Good(k) == /\ o[k] \in Seq(Nodes)
                      /\ \A t : t \in ToSet(o[k]) <=> \E i \in 1..k : spec[i] = <<n, t>>
           T == {k \in Nat : k <= L => Good(k)}
<1>a. \A k \in 0..L : o[k] = IF k = 0 THEN <<>>
                              ELSE IF spec[k][1] = n THEN Append(o[k - 1], spec[k][2]) ELSE o[k - 1]
  BY <1>5
<1> HIDE DEF Loop
<1>8. 0 \in T
  <2>1. o[0] = <<>>
    BY <1>7, <1>a
  <2>2. ToSet(o[0]) = {} /\ 1..0 = {}
    BY <2>1 DEF ToSet
  <2>3. o[0] \in Seq(Nodes)
    BY <2>1
  <2>4. Good(0)
    BY <2>2, <2>3
  <2> HIDE DEF Good
  <2> QED
    BY <2>4
<1>9. ASSUME NEW k \in Nat, k \in T PROVE k + 1 \in T
  <2> SUFFICES ASSUME k + 1 <= L PROVE Good(k + 1)
    <3> HIDE DEF Good
    <3> QED
      OBVIOUS
  <2>1. k + 1 \in 1..L /\ k <= L /\ k + 1 \in 0..L /\ k + 1 # 0 /\ k + 1 - 1 = k
    BY <1>7
  <2>2. o[k] \in Seq(Nodes) /\ \A t : t \in ToSet(o[k]) <=> \E i \in 1..k : spec[i] = <<n, t>>
    BY <1>9, <2>1
  <2>3. o[k + 1] = IF spec[k + 1][1] = n THEN Append(o[k], spec[k + 1][2]) ELSE o[k]
    BY <1>a, <2>1
  <2>4. \A i : i \in 1..(k + 1) <=> i \in 1..k \/ i = k + 1
    OBVIOUS
  <2>5. CASE spec[k + 1][1] = n
    <3> DEFINE x == spec[k + 1][2]
    <3>1. x \in Nodes /\ spec[k + 1] = <<n, x>> /\ o[k + 1] = Append(o[k], x)
      BY <1>7, <2>1, <2>3, <2>5
    <3> HIDE DEF x
    <3>2. \A t : t \in ToSet(Append(o[k], x)) <=> t \in ToSet(o[k]) \/ t = x
      BY <2>2, <3>1, AppendSet
    <3>3. \A t : spec[k + 1] = <<n, t>> <=> t = x
      BY <3>1
    <3>4. ASSUME NEW t PROVE t \in ToSet(o[k + 1]) <=> \E i \in 1..(k + 1) : spec[i] = <<n, t>>
      <4>1. t \in ToSet(o[k + 1]) <=> (\E i \in 1..k : spec[i] = <<n, t>>) \/ t = x
        BY <2>2, <3>1, <3>2
      <4> QED
        BY <2>4, <3>3, <4>1
    <3>5. o[k + 1] \in Seq(Nodes)
      BY <2>2, <3>1
    <3> QED
      BY <3>4, <3>5
  <2>6. CASE spec[k + 1][1] # n
    <3>1. \A t : spec[k + 1] # <<n, t>>
      BY <2>6
    <3> QED
      BY <2>2, <2>3, <2>4, <2>6, <3>1
  <2> QED
    BY <2>5, <2>6
<1>10. L \in T
  BY <1>7, <1>8, <1>9, Climb
<1>11. DOMAIN spec = 1..L
  BY DEF Edges
<1>12. /\ o[L] \in Seq(Nodes)
       /\ \A t : t \in ToSet(o[L]) <=> \E i \in 1..L : spec[i] = <<n, t>>
  BY <1>7, <1>10
<1> HIDE DEF L, T
<1> QED
  BY <1>6, <1>11, <1>12 DEF Edge

-----------------------------------------------------------------------------
\* What holds of a plan while it is made.  The visited nodes are complete up to
\* distance d - 1, the first m nodes that wait complete distance d, and what
\* waits behind them is no farther than d + 1.
Level(spec, todo, order, d, m) ==
  /\ d # 0 => Within(spec)[d - 1] \subseteq ToSet(order)
  /\ ToSet(order) \subseteq Within(spec)[d]
  /\ \A i \in 1..m : todo[i] \in Within(spec)[d]
  /\ \A x \in Within(spec)[d] : x \in ToSet(order) \/ \E i \in 1..m : todo[i] = x
  /\ ToSet(todo) \subseteq Within(spec)[d + 1]

\* A visited node is no farther than one visited later.
Nearer(spec, order) ==
  \A i, j \in DOMAIN order : \A k \in Nat :
    i < j /\ order[j] \in Within(spec)[k] => order[i] \in Within(spec)[k]

PlanInv(spec, todo, order) ==
  /\ todo \in Seq(Nodes) /\ order \in Seq(Nodes) /\ IsInjective(order)
  /\ \A u \in ToSet(order), t \in Nodes : Edge(spec, u, t) => t \in ToSet(order) \cup ToSet(todo)
  /\ \A i \in DOMAIN order : order[i] \in Within(spec)[i - 1]
  /\ ToSet(todo) \subseteq Within(spec)[Len(order)]
  /\ Nearer(spec, order)
  /\ \E d \in Nat : \E m \in 0..Len(todo) : Level(spec, todo, order, d, m)

LEMMA PlanStarts ==
  ASSUME NEW spec \in Edges PROVE PlanInv(spec, <<Start>>, <<>>)
<1> DEFINE W == Within(spec)
<1>1. W[0] = {Start} /\ W[0] \subseteq W[1] /\ Start \in Nodes
  BY WithinSteps, WithinGrows, WorkflowAssumption
<1> HIDE DEF W
<1>2. <<Start>> \in Seq(Nodes) /\ Len(<<Start>>) = 1 /\ <<Start>>[1] = Start /\ DOMAIN <<Start>> = 1..1
  BY <1>1
<1>3. ToSet(<<>>) = {} /\ ToSet(<<Start>>) = {Start} /\ Len(<<>>) = 0 /\ DOMAIN <<>> = {}
  BY <1>2 DEF ToSet
<1>4. IsInjective(<<>>) /\ <<>> \in Seq(Nodes) /\ Nearer(spec, <<>>)
  BY DEF IsInjective, Nearer
<1>5. Level(spec, <<Start>>, <<>>, 0, 1)
  BY <1>1, <1>2, <1>3 DEF Level, W
<1>6. 1 \in 0..Len(<<Start>>)
  BY <1>2
<1> QED
  BY <1>1, <1>2, <1>3, <1>4, <1>5, <1>6 DEF PlanInv, W

\* A node that waits can always be taken to be one of the first m.
LEMMA LevelPositive ==
  ASSUME NEW spec \in Edges, NEW todo, NEW order, PlanInv(spec, todo, order), todo # <<>>
  PROVE  \E d \in Nat : \E m \in 1..Len(todo) : Level(spec, todo, order, d, m)
<1> DEFINE W == Within(spec)
<1>1. PICK d \in Nat, m \in 0..Len(todo) : Level(spec, todo, order, d, m)
  BY DEF PlanInv
<1>2. todo \in Seq(Nodes) /\ Len(todo) \in Nat \ {0} /\ DOMAIN todo = 1..Len(todo)
  BY EmptySeq DEF PlanInv
<1>3. CASE m # 0
  BY <1>1, <1>2, <1>3
<1>4. CASE m = 0
  <2>1. W[d] \subseteq ToSet(order) /\ ToSet(order) \subseteq W[d] /\ ToSet(todo) \subseteq W[d + 1]
    BY <1>1, <1>4 DEF Level
  <2>2. /\ d + 1 \in Nat /\ d + 1 # 0 /\ d + 1 - 1 = d /\ W[d] \subseteq W[d + 1]
        /\ W[d + 1] \subseteq W[d + 1 + 1] /\ W[d + 1] \subseteq Nodes
    <3>1. d + 1 \in Nat /\ d + 1 + 1 \in Nat /\ d \in 0..(d + 1) /\ d + 1 \in 0..(d + 1 + 1)
      OBVIOUS
    <3> QED
      BY <3>1, WithinGrows
  <2>3. W[d + 1] = Succ(spec, W[d])
    BY WithinSteps
  <2> HIDE DEF W
  <2>4. ASSUME NEW x \in W[d + 1] PROVE x \in ToSet(order) \cup ToSet(todo)
    <3>1. CASE x \in W[d]
      BY <2>1, <3>1
    <3>2. CASE x \notin W[d]
      <4>1. x \in Nodes /\ \E u \in W[d] : Edge(spec, u, x)
        BY <2>3, <3>2, SuccNodes
      <4>2. PICK u \in W[d] : Edge(spec, u, x)
        BY <4>1
      <4> QED
        BY <2>1, <4>1, <4>2 DEF PlanInv
    <3> QED
      BY <3>1, <3>2
  <2>5. \A i \in 1..Len(todo) : todo[i] \in ToSet(todo)
    BY <1>2 DEF ToSet
  <2>6. \A x \in ToSet(todo) : \E i \in 1..Len(todo) : todo[i] = x
    BY <1>2 DEF ToSet
  <2>7. Level(spec, todo, order, d + 1, Len(todo))
    <3>1. W[d + 1 - 1] \subseteq ToSet(order) /\ ToSet(order) \subseteq W[d + 1]
      BY <2>1, <2>2
    <3>2. \A i \in 1..Len(todo) : todo[i] \in W[d + 1]
      BY <2>1, <2>5
    <3>3. \A x \in W[d + 1] : x \in ToSet(order) \/ \E i \in 1..Len(todo) : todo[i] = x
      BY <2>4, <2>6
    <3>4. ToSet(todo) \subseteq W[d + 1 + 1]
      BY <2>1, <2>2
    <3> QED
      BY <3>1, <3>2, <3>3, <3>4 DEF Level, W
  <2>8. Len(todo) \in 1..Len(todo)
    BY <1>2
  <2> QED
    BY <2>2, <2>7, <2>8
<1> QED
  BY <1>3, <1>4

\* A node that was visited before is dropped from the queue.
LEMMA PlanSkips ==
  ASSUME NEW spec \in Edges, NEW todo, NEW order, PlanInv(spec, todo, order), todo # <<>>,
         Head(todo) \in ToSet(order)
  PROVE  PlanInv(spec, Tail(todo), order)
<1> DEFINE n == Head(todo)
           rest == Tail(todo)
<1>1. todo \in Seq(Nodes) /\ order \in Seq(Nodes)
  BY DEF PlanInv
<1>2. rest \in Seq(Nodes) /\ Len(rest) = Len(todo) - 1 /\ Len(todo) \in Nat \ {0} /\ n = todo[1]
  BY <1>1, EmptySeq
<1>3. \A i \in 1..Len(rest) : rest[i] = todo[i + 1]
  BY <1>1, <1>2
<1>4. ToSet(todo) = {n} \cup ToSet(rest)
  BY <1>1, HeadAndTail
<1>5. PICK d \in Nat, m \in 1..Len(todo) : Level(spec, todo, order, d, m)
  BY LevelPositive
<1>6. n \in ToSet(order)
  OBVIOUS
<1> HIDE DEF rest, n
<1>7. m - 1 \in 0..Len(rest) /\ \A i \in 1..(m - 1) : rest[i] = todo[i + 1] /\ i + 1 \in 1..m
  BY <1>2, <1>3
<1>8. Level(spec, rest, order, d, m - 1)
  <2>1. \A i \in 1..(m - 1) : rest[i] \in Within(spec)[d]
    BY <1>5, <1>7 DEF Level
  <2>2. ASSUME NEW x \in Within(spec)[d], x \notin ToSet(order) PROVE \E i \in 1..(m - 1) : rest[i] = x
    <3>1. PICK i \in 1..m : todo[i] = x
      BY <1>5, <2>2 DEF Level
    <3>2. i # 1
      BY <1>2, <1>6, <2>2, <3>1
    <3>3. i - 1 \in 1..(m - 1) /\ i - 1 \in 1..Len(rest) /\ i - 1 + 1 = i
      BY <1>2, <3>2
    <3> QED
      BY <1>3, <3>1, <3>3
  <2>3. ToSet(rest) \subseteq Within(spec)[d + 1]
    BY <1>4, <1>5 DEF Level
  <2>4. (d # 0 => Within(spec)[d - 1] \subseteq ToSet(order)) /\ ToSet(order) \subseteq Within(spec)[d]
    BY <1>5 DEF Level
  <2> QED
    BY <2>1, <2>2, <2>3, <2>4 DEF Level
<1>9. /\ IsInjective(order) /\ Nearer(spec, order)
      /\ \A i \in DOMAIN order : order[i] \in Within(spec)[i - 1]
      /\ \A u \in ToSet(order), t \in Nodes : Edge(spec, u, t) => t \in ToSet(order) \cup ToSet(todo)
      /\ ToSet(todo) \subseteq Within(spec)[Len(order)]
  BY DEF PlanInv
<1>10. /\ \A u \in ToSet(order), t \in Nodes : Edge(spec, u, t) => t \in ToSet(order) \cup ToSet(rest)
       /\ ToSet(rest) \subseteq Within(spec)[Len(order)]
  BY <1>4, <1>6, <1>9
<1> QED
  BY <1>1, <1>2, <1>7, <1>8, <1>9, <1>10 DEF PlanInv, rest

\* Any other node is visited, and what its edges lead to waits behind the rest.
LEMMA PlanVisits ==
  ASSUME NEW spec \in Edges, NEW todo, NEW order, PlanInv(spec, todo, order), todo # <<>>,
         Head(todo) \notin ToSet(order)
  PROVE  PlanInv(spec, Tail(todo) \o Adjacent(spec, Head(todo)), Append(order, Head(todo)))
<1> DEFINE n == Head(todo)
           rest == Tail(todo)
           out == Adjacent(spec, n)
           queue2 == rest \o out
           order2 == Append(order, n)
           W == Within(spec)
<1>1. todo \in Seq(Nodes) /\ order \in Seq(Nodes) /\ out \in Seq(Nodes)
  BY AdjacentLists DEF PlanInv
<1>2. /\ rest \in Seq(Nodes) /\ Len(rest) = Len(todo) - 1 /\ Len(todo) \in Nat \ {0}
      /\ n = todo[1] /\ n \in Nodes
  BY <1>1, EmptySeq
<1>3. \A i \in 1..Len(rest) : rest[i] = todo[i + 1]
  BY <1>1, <1>2
<1>4. ToSet(todo) = {n} \cup ToSet(rest)
  BY <1>1, HeadAndTail
<1>5. PICK d \in Nat, m \in 1..Len(todo) : Level(spec, todo, order, d, m)
  BY LevelPositive
<1>6. n \notin ToSet(order)
  OBVIOUS
<1>7. \A t : t \in ToSet(out) <=> Edge(spec, n, t)
  BY AdjacentLists
<1>8. \A k \in Nat : W[k] \subseteq W[k + 1] /\ W[k + 1] = Succ(spec, W[k]) /\ W[k] \subseteq Nodes
  <2>1. \A k \in Nat : k + 1 \in Nat /\ k \in 0..(k + 1)
    OBVIOUS
  <2> QED
    BY <2>1, WithinGrows, WithinSteps
<1> HIDE DEF rest, n, out, W
<1>9. /\ queue2 \in Seq(Nodes) /\ Len(queue2) = Len(rest) + Len(out) /\ Len(out) \in Nat
      /\ \A i \in 1..Len(rest) : queue2[i] = rest[i]
  <2>1. rest \in Seq(Nodes) /\ out \in Seq(Nodes)
    BY <1>1, <1>2
  <2>2. PICK q, r : q = rest /\ r = out
    OBVIOUS
  <2>3. /\ q \o r \in Seq(Nodes) /\ Len(q \o r) = Len(q) + Len(r) /\ Len(r) \in Nat
        /\ \A i \in 1..Len(q) : (q \o r)[i] = q[i]
    BY <2>1, <2>2, CatPlaces
  <2>4. queue2 = q \o r
    BY <2>2
  <2> QED
    BY <2>2, <2>3, <2>4
<1>10. ToSet(queue2) = ToSet(rest) \cup ToSet(out)
  BY <1>1, <1>2, CatSet
<1>11. /\ order2 \in Seq(Nodes) /\ Len(order2) = Len(order) + 1 /\ Len(order) \in Nat
       /\ DOMAIN order2 = 1..(Len(order) + 1) /\ DOMAIN order = 1..Len(order)
       /\ order2[Len(order) + 1] = n /\ \A i \in 1..Len(order) : order2[i] = order[i]
  BY <1>1, <1>2
<1>12. ToSet(order2) = ToSet(order) \cup {n}
  BY <1>1, <1>2, AppendSet
<1>13. \A i \in 1..Len(order) : order[i] \in ToSet(order)
  BY <1>11 DEF ToSet
<1>14. /\ IsInjective(order) /\ Nearer(spec, order)
       /\ \A i \in DOMAIN order : order[i] \in W[i - 1]
       /\ \A u \in ToSet(order), t \in Nodes : Edge(spec, u, t) => t \in ToSet(order) \cup ToSet(todo)
       /\ ToSet(todo) \subseteq W[Len(order)]
  BY DEF PlanInv, W
<1>15. /\ n \in W[d] /\ ToSet(order) \subseteq W[d] /\ ToSet(todo) \subseteq W[d + 1]
       /\ d # 0 => W[d - 1] \subseteq ToSet(order)
       /\ \A i \in 1..m : todo[i] \in W[d]
       /\ \A x \in W[d] : x \in ToSet(order) \/ \E i \in 1..m : todo[i] = x
  <2>1. 1 \in 1..m
    OBVIOUS
  <2> QED
    BY <1>2, <1>5, <2>1 DEF Level, W
<1> HIDE DEF queue2, order2
<1>16. IsInjective(order2)
  <2>1. ASSUME NEW i \in 1..(Len(order) + 1), NEW j \in 1..(Len(order) + 1), order2[i] = order2[j] PROVE i = j
    <3>1. CASE i \in 1..Len(order) /\ j \in 1..Len(order)
      BY <1>11, <1>14, <2>1, <3>1 DEF IsInjective
    <3>2. CASE i \in 1..Len(order) /\ j \notin 1..Len(order)
      <4>1. j = Len(order) + 1 /\ order2[i] \in ToSet(order)
        BY <1>11, <1>13, <3>2
      <4> QED
        BY <1>6, <1>11, <2>1, <4>1
    <3>3. CASE i \notin 1..Len(order) /\ j \in 1..Len(order)
      <4>1. i = Len(order) + 1 /\ order2[j] \in ToSet(order)
        BY <1>11, <1>13, <3>3
      <4> QED
        BY <1>6, <1>11, <2>1, <4>1
    <3>4. CASE i \notin 1..Len(order) /\ j \notin 1..Len(order)
      BY <1>11, <3>4
    <3> QED
      BY <3>1, <3>2, <3>3, <3>4
  <2> QED
    BY <1>11, <2>1 DEF IsInjective
<1>17. ASSUME NEW u \in ToSet(order2), NEW t \in Nodes, Edge(spec, u, t)
       PROVE  t \in ToSet(order2) \cup ToSet(queue2)
  <2>1. CASE u = n
    BY <1>7, <1>10, <1>17, <2>1
  <2>2. CASE u # n
    <3>1. t \in ToSet(order) \cup ToSet(todo)
      BY <1>12, <1>14, <1>17, <2>2
    <3> QED
      BY <1>4, <1>10, <1>12, <3>1
  <2> QED
    BY <2>1, <2>2
<1>18. ASSUME NEW i \in DOMAIN order2 PROVE order2[i] \in W[i - 1]
  <2>1. CASE i \in 1..Len(order)
    BY <1>11, <1>14, <2>1
  <2>2. CASE i = Len(order) + 1
    <3>1. n \in W[Len(order)] /\ i - 1 = Len(order)
      BY <1>4, <1>11, <1>14, <2>2
    <3> QED
      BY <1>11, <2>2, <3>1
  <2> QED
    BY <1>11, <2>1, <2>2
<1>19. ASSUME NEW k \in Nat, n \in W[k] PROVE ToSet(out) \subseteq W[k + 1]
  <2>1. ASSUME NEW t \in ToSet(out) PROVE t \in W[k + 1]
    <3>1. Edge(spec, n, t) /\ t \in Nodes
      <4>1. t \in Nodes
        BY <1>1 DEF ToSet
      <4> QED
        BY <1>7, <4>1
    <3>2. t \in Succ(spec, W[k])
      BY <1>19, <3>1, SuccNodes
    <3> QED
      BY <1>8, <3>2
  <2> QED
    BY <2>1
<1>20. ToSet(queue2) \subseteq W[Len(order2)]
  <2>1. n \in W[Len(order)] /\ ToSet(rest) \subseteq W[Len(order)]
    BY <1>4, <1>14
  <2>2. ToSet(out) \subseteq W[Len(order) + 1] /\ ToSet(rest) \subseteq W[Len(order) + 1]
    BY <1>8, <1>11, <1>19, <2>1
  <2> QED
    BY <1>10, <1>11, <2>2
<1>21. ASSUME NEW i \in DOMAIN order2, NEW j \in DOMAIN order2, NEW k \in Nat, i < j, order2[j] \in W[k]
       PROVE  order2[i] \in W[k]
  <2>1. i \in 1..Len(order) /\ order2[i] = order[i] /\ i \in DOMAIN order
    BY <1>11, <1>21
  <2>2. CASE j \in 1..Len(order)
    BY <1>11, <1>14, <1>21, <2>1, <2>2 DEF Nearer, W
  <2>3. CASE j = Len(order) + 1
    <3>1. n \in W[k]
      BY <1>11, <1>21, <2>3
    <3>2. ~ (k < d)
      <4>1. SUFFICES ASSUME k < d PROVE FALSE
        OBVIOUS
      <4>2. d # 0 /\ d - 1 \in Nat /\ k \in 0..(d - 1)
        BY <4>1
      <4>3. W[k] \subseteq W[d - 1]
        BY <4>2, WithinGrows DEF W
      <4> QED
        BY <1>6, <1>15, <3>1, <4>2, <4>3
    <3>3. d \in 0..k
      BY <3>2
    <3>4. W[d] \subseteq W[k]
      BY <3>3, WithinGrows DEF W
    <3>5. order[i] \in W[d]
      BY <1>13, <1>15, <2>1
    <3> QED
      BY <2>1, <3>4, <3>5
  <2> QED
    BY <1>11, <2>2, <2>3
<1>22. m - 1 \in 0..Len(queue2) /\ \A i \in 1..(m - 1) : queue2[i] = todo[i + 1] /\ i + 1 \in 1..m
  <2>1. \A i \in 1..(m - 1) : i \in 1..Len(rest) /\ i + 1 \in 1..m
    BY <1>2
  <2> QED
    BY <1>2, <1>3, <1>9, <2>1
<1>23. Level(spec, queue2, order2, d, m - 1)
  <2>1. \A i \in 1..(m - 1) : queue2[i] \in W[d]
    BY <1>15, <1>22
  <2>2. ASSUME NEW x \in W[d], x \notin ToSet(order2) PROVE \E i \in 1..(m - 1) : queue2[i] = x
    <3>1. PICK i \in 1..m : todo[i] = x
      BY <1>12, <1>15, <2>2
    <3>2. i # 1
      BY <1>2, <1>12, <2>2, <3>1
    <3>3. i - 1 \in 1..(m - 1) /\ i - 1 + 1 = i
      BY <3>2
    <3> QED
      BY <1>22, <3>1, <3>3
  <2>3. ToSet(queue2) \subseteq W[d + 1]
    BY <1>4, <1>10, <1>15, <1>19
  <2>4. (d # 0 => W[d - 1] \subseteq ToSet(order2)) /\ ToSet(order2) \subseteq W[d]
    BY <1>12, <1>15
  <2> QED
    BY <2>1, <2>2, <2>3, <2>4 DEF Level, W
<1>24. Nearer(spec, order2)
  BY <1>21 DEF Nearer, W
<1>25. PlanInv(spec, queue2, order2)
  BY <1>9, <1>11, <1>16, <1>17, <1>18, <1>20, <1>22, <1>23, <1>24 DEF PlanInv, W
<1> QED
  BY <1>25 DEF queue2, order2, rest, out, n

\* A sequence without repetitions is no longer than there are nodes.
LEMMA PlanFits ==
  ASSUME NEW order \in Seq(Nodes), IsInjective(order)
  PROVE  Len(order) \in Nat /\ Cardinality(Nodes) \in Nat /\ Len(order) <= Cardinality(Nodes)
<1>1. /\ IsFiniteSet(Nodes) /\ Len(order) \in Nat /\ DOMAIN order = 1..Len(order)
      /\ order \in [1..Len(order) -> Nodes]
  BY WorkflowAssumption
<1>2. order \in Injection(1..Len(order), Nodes)
  BY <1>1 DEF Injection, IsInjective
<1>3. Cardinality(1..Len(order)) <= Cardinality(Nodes)
  BY <1>1, <1>2, FS_Injection
<1>4. Cardinality(1..Len(order)) = Len(order)
  <2>1. 1 \in Int /\ Len(order) \in Int
    BY <1>1
  <2>2. Cardinality(1..Len(order)) = IF 1 > Len(order) THEN 0 ELSE Len(order) - 1 + 1
    BY <2>1, FS_Interval
  <2> QED
    BY <1>1, <2>2
<1> QED
  BY <1>1, <1>3, <1>4, FS_CardinalityType

\* A reachable node has a distance.
LEMMA DepthIs ==
  ASSUME NEW spec \in Edges, NEW x \in Within(spec)[Cardinality(Nodes)]
  PROVE  /\ Depth(spec, x) \in 0..Cardinality(Nodes) /\ x \in Within(spec)[Depth(spec, x)]
         /\ \A i \in 0..(Depth(spec, x) - 1) : x \notin Within(spec)[i]
<1> DEFINE T == {k \in Nat : x \in Within(spec)[k]}
<1>1. Cardinality(Nodes) \in Nat
  BY WorkflowAssumption, FS_CardinalityType
<1>2. PICK k \in T : \A q \in Nat : q < k => q \notin T
  BY <1>1, Least
<1>3. k <= Cardinality(Nodes)
  BY <1>1, <1>2
<1>4. k \in 0..Cardinality(Nodes) /\ x \in Within(spec)[k] /\ \A i \in 0..(k - 1) : x \notin Within(spec)[i]
  BY <1>1, <1>2, <1>3
<1> QED
  BY <1>4 DEF Depth

\* An empty queue ends the plan: what it visited is what is reachable.
LEMMA PlanEnds ==
  ASSUME NEW spec \in Edges, NEW order, PlanInv(spec, <<>>, order)
  PROVE  /\ IsInjective(order)
         /\ ToSet(order) = Within(spec)[Cardinality(Nodes)]
         /\ \A i, j \in DOMAIN order : i < j => Depth(spec, order[i]) <= Depth(spec, order[j])
<1> DEFINE W == Within(spec)
           N == Cardinality(Nodes)
<1>1. /\ order \in Seq(Nodes) /\ IsInjective(order) /\ Nearer(spec, order)
      /\ \A u \in ToSet(order), t \in Nodes : Edge(spec, u, t) => t \in ToSet(order) \cup ToSet(<<>>)
      /\ \A i \in DOMAIN order : order[i] \in W[i - 1]
  BY DEF PlanInv
<1>2. Len(order) \in Nat /\ N \in Nat /\ Len(order) <= N /\ DOMAIN order = 1..Len(order)
  BY <1>1, PlanFits
<1>3. ToSet(<<>>) = {}
  BY DEF ToSet
<1>4. PICK d \in Nat, m \in 0..Len(<<>>) : Level(spec, <<>>, order, d, m)
  BY DEF PlanInv
<1>5. W[d] \subseteq ToSet(order)
  <2>1. 1..m = {}
    BY <1>4
  <2> QED
    BY <1>4, <2>1 DEF Level
<1>6. W[0] \subseteq W[d]
  <2>1. 0 \in 0..d
    OBVIOUS
  <2> QED
    BY <2>1, WithinGrows
<1>7. \A k \in Nat : W[k + 1] = Succ(spec, W[k])
  BY WithinSteps
<1>8. \A i \in DOMAIN order : order[i] \in W[N]
  <2>1. ASSUME NEW i \in DOMAIN order PROVE order[i] \in W[N]
    <3>1. i - 1 \in 0..N
      BY <1>2
    <3>2. W[i - 1] \subseteq W[N]
      BY <1>2, <3>1, WithinGrows
    <3> QED
      BY <1>1, <3>2
  <2> QED
    BY <2>1
<1> HIDE DEF W, N
<1> DEFINE T == {k \in Nat : W[k] \subseteq ToSet(order)}
<1>9. 0 \in T
  BY <1>5, <1>6
<1>10. ASSUME NEW k \in Nat, k \in T PROVE k + 1 \in T
  <2>1. ASSUME NEW t \in Succ(spec, W[k]) PROVE t \in ToSet(order)
    <3>1. CASE t \in W[k]
      BY <1>10, <3>1
    <3>2. CASE t \notin W[k]
      <4>1. t \in Nodes /\ \E u \in W[k] : Edge(spec, u, t)
        BY <2>1, <3>2, SuccNodes
      <4> QED
        BY <1>1, <1>3, <1>10, <4>1
    <3> QED
      BY <3>1, <3>2
  <2> QED
    BY <1>7, <2>1
<1>11. N \in T
  BY <1>2, <1>9, <1>10, Climb
<1>12. ToSet(order) = W[N]
  <2>1. ToSet(order) \subseteq W[N]
    BY <1>8 DEF ToSet
  <2> QED
    BY <1>11, <2>1
<1>13. ASSUME NEW i \in DOMAIN order, NEW j \in DOMAIN order, i < j
       PROVE  Depth(spec, order[i]) <= Depth(spec, order[j])
  <2>1. PICK a, b : a = Depth(spec, order[i]) /\ b = Depth(spec, order[j])
    OBVIOUS
  <2>2. /\ a \in 0..N /\ \A k \in 0..(a - 1) : order[i] \notin W[k]
        /\ b \in 0..N /\ order[j] \in W[b]
    BY <1>8, <2>1, DepthIs DEF W, N
  <2>3. order[i] \in W[b]
    BY <1>1, <1>2, <1>13, <2>2 DEF Nearer, W
  <2>4. ~ (b \in 0..(a - 1))
    BY <2>2, <2>3
  <2>5. a <= b
    BY <1>2, <2>2, <2>4
  <2> QED
    BY <2>1, <2>5
<1> QED
  BY <1>1, <1>12, <1>13 DEF W, N

-----------------------------------------------------------------------------
(* Executions.  An execution plans over the specification it was submitted *)
(* with; what PlanInv says of the plan holds until the queue is empty, and *)
(* then it is what PlanEnds says.                                          *)

ExecRecords == [phase : {"none", "plan", "run", "done", "failed"}, spec : Edges,
                todo : Seq(Nodes), order : Seq(Nodes), done : Nat]

ExecInv ==
  /\ exec \in ExecRecords
  /\ exec.phase # "none" => PlanInv(exec.spec, exec.todo, exec.order)
  /\ exec.phase \in {"run", "done", "failed"} => exec.todo = <<>>

LEMMA ExecutionStarts ==
  ASSUME NEW spec \in Edges,
         exec' = [NoExec EXCEPT !.phase = "plan", !.spec = spec, !.todo = <<Start>>]
  PROVE  ExecInv'
<1>1. <<Start>> \in Seq(Nodes) /\ <<>> \in Seq(Nodes) /\ 0 \in Nat
  BY WorkflowAssumption
<1>2. /\ exec' \in ExecRecords
      /\ exec'.phase = "plan" /\ exec'.spec = spec /\ exec'.todo = <<Start>> /\ exec'.order = <<>>
  BY <1>1 DEF NoExec, ExecRecords
<1>3. PlanInv(exec'.spec, exec'.todo, exec'.order)
  BY <1>2, PlanStarts
<1> QED
  BY <1>2, <1>3 DEF ExecInv

LEMMA ExecutionPlans ==
  ASSUME ExecInv, Plan PROVE ExecInv'
<1>1. /\ exec \in ExecRecords /\ exec.phase = "plan"
      /\ PlanInv(exec.spec, exec.todo, exec.order) /\ exec.todo # <<>>
  BY DEF ExecInv, Plan
<1>2. PICK spec \in Edges, todo \in Seq(Nodes), order \in Seq(Nodes) :
        spec = exec.spec /\ todo = exec.todo /\ order = exec.order
  BY <1>1 DEF ExecRecords
<1>3. PlanInv(spec, todo, order) /\ todo # <<>>
  BY <1>1, <1>2
<1>4. PICK n, rest : n = Head(todo) /\ rest = Tail(todo)
  OBVIOUS
<1>5. CASE n \in ToSet(order)
  <2>1. PlanInv(spec, rest, order)
    BY <1>3, <1>4, <1>5, PlanSkips
  <2>2. exec' = [exec EXCEPT !.todo = rest]
    BY <1>2, <1>4, <1>5 DEF Plan, Visited
  <2>3. rest \in Seq(Nodes)
    BY <2>1 DEF PlanInv
  <2>4. /\ exec' \in ExecRecords
        /\ exec'.phase = "plan" /\ exec'.spec = spec /\ exec'.todo = rest /\ exec'.order = order
    BY <1>1, <1>2, <2>2, <2>3 DEF ExecRecords
  <2>5. PlanInv(exec'.spec, exec'.todo, exec'.order)
    BY <2>1, <2>4
  <2> QED
    BY <2>4, <2>5 DEF ExecInv
<1>6. CASE n \notin ToSet(order)
  <2>1. PICK queue2, visits : queue2 = rest \o Adjacent(spec, n) /\ visits = Append(order, n)
    OBVIOUS
  <2>2. PlanInv(spec, queue2, visits)
    BY <1>3, <1>4, <1>6, <2>1, PlanVisits
  <2>3. exec' = [exec EXCEPT !.todo = queue2, !.order = visits]
    BY <1>2, <1>4, <1>6, <2>1 DEF Plan, Visited
  <2>4. queue2 \in Seq(Nodes) /\ visits \in Seq(Nodes)
    BY <2>2 DEF PlanInv
  <2>5. /\ exec' \in ExecRecords
        /\ exec'.phase = "plan" /\ exec'.spec = spec /\ exec'.todo = queue2 /\ exec'.order = visits
    BY <1>1, <1>2, <2>3, <2>4 DEF ExecRecords
  <2>6. PlanInv(exec'.spec, exec'.todo, exec'.order)
    BY <2>2, <2>5
  <2> QED
    BY <2>5, <2>6 DEF ExecInv
<1> QED
  BY <1>5, <1>6

\* Once the plan is made it stays as it is.
LEMMA ExecutionRuns ==
  ASSUME ExecInv, Planned \/ ExecuteNode \/ Executed PROVE ExecInv'
<1>1. exec \in ExecRecords /\ PlanInv(exec.spec, exec.todo, exec.order) /\ exec.todo = <<>>
  BY DEF ExecInv, Planned, ExecuteNode, Executed
<1>2. /\ exec' \in ExecRecords
      /\ exec'.spec = exec.spec /\ exec'.todo = exec.todo /\ exec'.order = exec.order
  <2>1. CASE Planned
    BY <1>1, <2>1 DEF Planned, ExecRecords
  <2>2. CASE ExecuteNode
    BY <1>1, <2>2 DEF ExecuteNode, ExecRecords
  <2>3. CASE Executed
    BY <1>1, <2>3 DEF Executed, ExecRecords
  <2> QED
    BY <2>1, <2>2, <2>3
<1>3. PlanInv(exec'.spec, exec'.todo, exec'.order)
  BY <1>1, <1>2
<1> QED
  BY <1>1, <1>2, <1>3 DEF ExecInv

LEMMA ExecutionStep ==
  ASSUME DefInv, ExecInv, [FlowNext]_flowVars PROVE ExecInv'
<1>1. CASE handleWorkflowStartExecution
  <2>1. def.spec \in Edges
    <3>1. def.spec \in Specs \cup {<<>>}
      BY DEF DefInv
    <3>2. <<>> \in Seq(Nodes \X Nodes) /\ \A s \in Specs : s \in Seq(Nodes \X Nodes)
      BY WorkflowAssumption
    <3> QED
      BY <3>1, <3>2, Zenon DEF Edges
  <2>2. exec' = [NoExec EXCEPT !.phase = "plan", !.spec = def.spec, !.todo = <<Start>>]
    BY <1>1 DEF handleWorkflowStartExecution, StartExecution
  <2> QED
    BY <2>1, <2>2, ExecutionStarts
<1>2. CASE Rerun
  <2>1. exec.spec \in Edges
    BY DEF ExecInv, ExecRecords
  <2>2. exec' = [NoExec EXCEPT !.phase = "plan", !.spec = exec.spec, !.todo = <<Start>>]
    BY <1>2 DEF Rerun
  <2> QED
    BY <2>1, <2>2, ExecutionStarts
<1>3. CASE Plan
  BY <1>3, ExecutionPlans
<1>4. CASE Planned \/ ExecuteNode \/ Executed
  BY <1>4, ExecutionRuns
<1>5. CASE \/ handleWorkflowCreateDefinition \/ UpdateDefinition \/ ArchiveDefinition
           \/ (\E e \in Editors : handleWorkflowPublishDefinition(e)) \/ UNCHANGED flowVars
  <2>1. exec' = exec
    BY <1>5 DEF handleWorkflowCreateDefinition, CreateDefinition, UpdateDefinition, ArchiveDefinition,
                handleWorkflowPublishDefinition, PublishRead, PublishSave, PublishConflict, flowVars
  <2> QED
    BY <2>1 DEF ExecInv
<1> QED
  BY <1>1, <1>2, <1>3, <1>4, <1>5 DEF FlowNext

\* The definition holds what the last accepted edit wrote, and a plan visits what
\* is reachable from the start, each node once and the nearer ones first: for
\* every graph, every specification of it and every number of editors and
\* publishers (workflow/service.go, workflow/repository.go, workflow/executor.go).
THEOREM FlowStaysSound == FlowSpec => []FlowSound
<1>1. FlowInit => DefInv /\ ExecInv
  <2> SUFFICES ASSUME FlowInit PROVE DefInv /\ ExecInv
    OBVIOUS
  <2>1. DefInv
    BY DEF FlowInit, DefInv, NoRow
  <2>2. <<>> \in Seq(Nodes) /\ <<>> \in Edges
    BY DEF Edges
  <2>3. ExecInv
    BY <2>2 DEF FlowInit, ExecInv, ExecRecords, NoExec
  <2> QED
    BY <2>1, <2>3
<1>2. DefInv /\ ExecInv /\ [FlowNext]_flowVars => DefInv' /\ ExecInv'
  BY DefinitionStep, ExecutionStep
<1>3. DefInv /\ ExecInv => FlowSound
  <2> SUFFICES ASSUME DefInv, ExecInv PROVE PlanSound /\ NoLostEdit
    BY DEF FlowSound
  <2>1. NoLostEdit
    BY DEF DefInv, NoLostEdit
  <2>2. CASE exec.phase \in {"run", "done"}
    <3>1. exec.spec \in Edges /\ PlanInv(exec.spec, <<>>, exec.order)
      BY <2>2 DEF ExecInv, ExecRecords
    <3> QED
      BY <2>1, <3>1, PlanEnds DEF PlanSound
  <2>3. CASE exec.phase \notin {"run", "done"}
    BY <2>1, <2>3 DEF PlanSound
  <2> QED
    BY <2>2, <2>3
<1> QED
  BY <1>1, <1>2, <1>3, PTL DEF FlowSpec

=============================================================================
