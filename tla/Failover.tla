------------------------------ MODULE Failover ------------------------------
(***************************************************************************)
(* The failover manager (internal/failover/manager.go): on every node a    *)
(* heartbeat loop that evaluates the partner and follows the coordinators, *)
(* a probe goroutine that reports on the partner, and operator calls of    *)
(* the HTTP API.  They share role, state and timestamps under one mutex    *)
(* that each of them takes and gives back several times per call: one step *)
(* is one critical section or one atomic access.                           *)
(*                                                                         *)
(* The heartbeat transport and the configuration watcher have no-op        *)
(* implementations only, so neither ever reports anything.                 *)
(***************************************************************************)
EXTENDS Coordinators

CONSTANTS
  FailbackMode,   \* "auto" or "manual"
  FailTimeout,    \* FailoverTimeout
  StablePeriod,   \* Failback.StablePeriod, always positive
  Threshold,      \* Probe.FailureThreshold, always positive
  Probing,        \* a health probe is configured
  MayFlap,        \* the partner may become unreachable and come back
  MaxOps,         \* bound: operator calls per node
  MaxTime         \* bound: last value of the clock

ASSUME FailoverAssumption ==
  /\ FailbackMode \in {"auto", "manual"}
  /\ FailTimeout \in Nat /\ StablePeriod \in Nat \ {0} /\ Threshold \in Nat \ {0}
  /\ {Probing, MayFlap} \subseteq BOOLEAN
  /\ MaxOps \in Nat /\ MaxTime \in Nat \ {0}

VARIABLES
  role, state,         \* Manager.role, Manager.state
  seen, since,         \* peerLastSeen, peerHealthySince; 0 is the zero time
  approved,            \* manualFailbackAllowed
  loop, api, probe,    \* per node: the three goroutines
  ops,                 \* operator calls so far
  approvals, yields,   \* history: approvals given, and times the loop gave up
                       \* the primary role to a coordinator
  overtaken,           \* history: promotions applied after the loop had read the
                       \* node as standby and before its setRole
  up,                  \* per node: its partner answers probes
  now                  \* the clock

managerVars == <<role, state, seen, since, approved>>
goVars      == <<loop, api, probe>>
histVars    == <<ops, approvals, yields, overtaken>>
vars        == <<coordVars, managerVars, goVars, histVars, up, now>>

Roles  == {"unknown", "primary", "standby"}
States == {"init", "normal", "comm_interrupted", "partner_down"}

\* The loop's program counter and local values, an operator call's, a probe's.
Loops  == [pc : {"idle", "eval", "coord", "serve", "state", "yield", "approve",
                 "demote", "follow", "giveup", "promote"},
           next : States]
Calls  == [pc : {"idle", "set"}, role : Roles]
Probes == [pc : {"idle", "send", "mark", "normal"}, at : Nat, fails : 0..Threshold]

Init ==
  /\ CoordInit
  /\ role = [n \in Nodes |-> "unknown"]
  /\ state = [n \in Nodes |-> "init"]
  /\ seen = [n \in Nodes |-> 0]
  /\ since = [n \in Nodes |-> 0]
  /\ approved = [n \in Nodes |-> FALSE]
  /\ loop = [n \in Nodes |-> [pc |-> "idle", next |-> "init"]]
  /\ api = [n \in Nodes |-> [pc |-> "idle", role |-> "unknown"]]
  /\ probe = [n \in Nodes |-> [pc |-> "idle", at |-> 0, fails |-> 0]]
  /\ ops = [n \in Nodes |-> 0]
  /\ approvals = [n \in Nodes |-> 0]
  /\ yields = [n \in Nodes |-> 0]
  /\ overtaken = [n \in Nodes |-> 0]
  /\ up = [n \in Nodes |-> TRUE]
  /\ now = 1

-----------------------------------------------------------------------------
(* setState and setRole: what happens under the mutex.                     *)

\* setState: entering normal records since when the peer is healthy.
SetState(n, next) ==
  /\ state' = [state EXCEPT ![n] = next]
  /\ since' = IF next = "normal" /\ state[n] # next
              THEN [since EXCEPT ![n] = now] ELSE since

\* A demotion leaves the approval standing.
SetRole_KeepsApproval(n, r) ==
  /\ role' = [role EXCEPT ![n] = r]
  /\ UNCHANGED approved

SetRole(n, r) ==
  /\ role' = [role EXCEPT ![n] = r]
  /\ approved' = IF role[n] # r /\ r = "standby"
                 THEN [approved EXCEPT ![n] = FALSE] ELSE approved

-----------------------------------------------------------------------------
(* One iteration of the loop.                                              *)

LoopGoto(n, label) == loop' = [loop EXCEPT ![n].pc = label]

\* The state evaluatePeer derives from the age of the last answer.
PeerState(last) ==
  IF last = 0 THEN "init"
  ELSE IF now - last > FailTimeout THEN "partner_down"
  ELSE IF 2 * (now - last) > FailTimeout THEN "comm_interrupted"
  ELSE "normal"

EvalRead(n) ==
  /\ loop[n].pc = "idle"
  /\ loop' = [loop EXCEPT ![n].pc = "eval", ![n].next = PeerState(seen[n])]
  /\ UNCHANGED <<coordVars, managerVars, api, probe, histVars, up, now>>

EvalSet(n) ==
  /\ loop[n].pc = "eval"
  /\ SetState(n, loop[n].next)
  /\ loop' = [loop EXCEPT ![n].pc = "coord", ![n].next = "init"]
  /\ UNCHANGED <<coordVars, role, seen, approved, api, probe, histVars, up, now>>

\* The health of the coordinators is not looked at.
CoordHealth_Ignored(n) ==
  /\ loop[n].pc = "coord"
  /\ LoopGoto(n, "serve")
  /\ UNCHANGED <<coordVars, managerVars, api, probe, histVars, up, now>>

\* reconcileCoordinator, in the order of its reads.
CoordHealth(n) ==
  /\ loop[n].pc = "coord"
  /\ LoopGoto(n, IF Healthy(n) THEN "serve" ELSE "demote")
  /\ UNCHANGED <<coordVars, managerVars, api, probe, histVars, up, now>>

CoordServe(n) ==
  /\ loop[n].pc = "serve"
  /\ LoopGoto(n, IF ShouldServePrimary(n) THEN "state" ELSE "yield")
  /\ UNCHANGED <<coordVars, managerVars, api, probe, histVars, up, now>>

ServeState(n) ==
  /\ loop[n].pc = "state"
  /\ LoopGoto(n, IF state[n] # "partner_down" THEN "promote" ELSE "idle")
  /\ UNCHANGED <<coordVars, managerVars, api, probe, histVars, up, now>>

\* A node that is not primary needs no approval to be standby.
YieldRole(n) ==
  /\ loop[n].pc = "yield"
  /\ LoopGoto(n, IF role[n] = "primary" THEN "approve" ELSE "follow")
  /\ UNCHANGED <<coordVars, managerVars, api, probe, histVars, up, now>>

\* What a primary that should not serve waits for.
MayYield(n) ==
  IF FailbackMode = "manual" THEN approved[n]
  ELSE since[n] # 0 /\ now - since[n] >= StablePeriod

YieldApproval(n) ==
  /\ loop[n].pc = "approve"
  /\ LoopGoto(n, IF MayYield(n) THEN "giveup" ELSE "idle")
  /\ UNCHANGED <<coordVars, managerVars, api, probe, histVars, up, now>>

\* setRole at the end of each branch.  What a node without coordinators is forced
\* into is no yield; what it gives up to a coordinator is, whichever role the loop
\* has read.
LoopSetRole(n) ==
  /\ loop[n].pc \in {"promote", "demote", "follow", "giveup"}
  /\ LET r == IF loop[n].pc = "promote" THEN "primary" ELSE "standby" IN
     /\ SetRole(n, r)
     /\ LoopGoto(n, "idle")
     /\ yields' = IF loop[n].pc \in {"follow", "giveup"} /\ role[n] = "primary"
                  THEN [yields EXCEPT ![n] = @ + 1] ELSE yields
  /\ UNCHANGED <<coordVars, state, seen, since, api, probe, ops, approvals, overtaken,
                 up, now>>

-----------------------------------------------------------------------------
(* Operator calls.                                                         *)

AllowManualFailback(n) ==
  /\ ops[n] < MaxOps
  /\ approved' = [approved EXCEPT ![n] = TRUE]
  /\ ops' = [ops EXCEPT ![n] = @ + 1]
  /\ approvals' = [approvals EXCEPT ![n] = @ + 1]
  /\ UNCHANGED <<coordVars, role, state, seen, since, goVars, yields, overtaken, up, now>>

\* TriggerFailover, not a dry run: a healthy peer refuses an unforced
\* promotion, anything else goes on to setRole.
TriggerFailover(n) ==
  /\ api[n].pc = "idle" /\ ops[n] < MaxOps
  /\ \E r \in {"primary", "standby"}, force \in BOOLEAN :
       /\ r = "primary" /\ ~force => state[n] # "normal"
       /\ api' = [api EXCEPT ![n].pc = "set", ![n].role = r]
  /\ ops' = [ops EXCEPT ![n] = @ + 1]
  /\ UNCHANGED <<coordVars, managerVars, loop, probe, approvals, yields, overtaken, up, now>>

ApiSetRole(n) ==
  /\ api[n].pc = "set"
  /\ SetRole(n, api[n].role)
  /\ api' = [api EXCEPT ![n] = [pc |-> "idle", role |-> "unknown"]]
  /\ overtaken' = IF loop[n].pc = "follow" /\ api[n].role = "primary" /\ role[n] # "primary"
                  THEN [overtaken EXCEPT ![n] = @ + 1] ELSE overtaken
  /\ UNCHANGED <<coordVars, state, seen, since, loop, probe, ops, approvals, yields, up, now>>

-----------------------------------------------------------------------------
(* The probe goroutine.                                                    *)

\* The ticker fires; its time is the time of the answer.
ProbeTick(n) ==
  /\ Probing /\ probe[n].pc = "idle"
  /\ probe' = [probe EXCEPT ![n].pc = "send", ![n].at = now]
  /\ UNCHANGED <<coordVars, managerVars, loop, api, histVars, up, now>>

\* A good answer is not reported to the manager.
ProbeAnswer_Unreported(n) ==
  /\ probe[n].pc = "send" /\ up[n]
  /\ probe' = [probe EXCEPT ![n].pc = "idle", ![n].fails = 0]
  /\ UNCHANGED <<coordVars, managerVars, loop, api, histVars, up, now>>

\* The partner answers, and its answer is recorded ...
ProbeAnswer(n) ==
  /\ probe[n].pc = "send" /\ up[n]
  /\ probe' = [probe EXCEPT ![n].pc = "mark", ![n].fails = 0]
  /\ UNCHANGED <<coordVars, managerVars, loop, api, histVars, up, now>>

\* ... MarkPeerHeartbeat takes the mutex twice ...
MarkSeen(n) ==
  /\ probe[n].pc = "mark"
  /\ seen' = [seen EXCEPT ![n] = probe[n].at]
  /\ probe' = [probe EXCEPT ![n].pc = "normal", ![n].at = 0]
  /\ UNCHANGED <<coordVars, role, state, since, approved, loop, api, histVars, up, now>>

MarkNormal(n) ==
  /\ probe[n].pc = "normal"
  /\ SetState(n, "normal")
  /\ probe' = [probe EXCEPT ![n].pc = "idle"]
  /\ UNCHANGED <<coordVars, role, seen, approved, loop, api, histVars, up, now>>

\* The failure count is not capped.
ProbeTimeout_Uncapped(n) ==
  /\ probe[n].pc = "send" /\ ~up[n]
  /\ LET f == probe[n].fails + 1 IN
     /\ SetState(n, IF f >= Threshold THEN "partner_down" ELSE "comm_interrupted")
     /\ probe' = [probe EXCEPT ![n].pc = "idle", ![n].at = 0, ![n].fails = f]
  /\ UNCHANGED <<coordVars, role, seen, approved, loop, api, histVars, up, now>>

\* ... or the ping times out: handleProbeResult sets the state at once.
ProbeTimeout(n) ==
  /\ probe[n].pc = "send" /\ ~up[n]
  /\ LET f == IF probe[n].fails < Threshold THEN probe[n].fails + 1 ELSE Threshold IN
     /\ SetState(n, IF f >= Threshold THEN "partner_down" ELSE "comm_interrupted")
     /\ probe' = [probe EXCEPT ![n].pc = "idle", ![n].at = 0, ![n].fails = f]
  /\ UNCHANGED <<coordVars, role, seen, approved, loop, api, histVars, up, now>>

-----------------------------------------------------------------------------
Flap(n) ==
  /\ MayFlap
  /\ up' = [up EXCEPT ![n] = ~@]
  /\ UNCHANGED <<coordVars, managerVars, goVars, histVars, now>>

Tick ==
  /\ now < MaxTime
  /\ now' = now + 1
  /\ UNCHANGED <<coordVars, managerVars, goVars, histVars, up>>

Poll(n, c) ==
  /\ StoreHealthy(n, c) \/ StoreAllow(n, c)
  /\ UNCHANGED <<managerVars, goVars, histVars, up, now>>

MoveLeader(c) ==
  /\ MoveGrant(c)
  /\ UNCHANGED <<managerVars, goVars, histVars, up, now>>

LoopStep(n) ==
  \/ EvalRead(n) \/ EvalSet(n) \/ CoordHealth(n) \/ CoordServe(n)
  \/ ServeState(n) \/ YieldRole(n) \/ YieldApproval(n) \/ LoopSetRole(n)
ProbeStep(n) == \/ ProbeTick(n) \/ ProbeAnswer(n) \/ MarkSeen(n)
                \/ MarkNormal(n) \/ ProbeTimeout(n)

Next ==
  \/ \E n \in Nodes :
       \/ LoopStep(n) \/ ApiSetRole(n) \/ ProbeStep(n)
       \/ AllowManualFailback(n) \/ TriggerFailover(n) \/ Flap(n)
  \/ \E n \in Nodes, c \in Coords : Poll(n, c)
  \/ \E c \in Coords : MoveLeader(c)
  \/ Tick

Spec == Init /\ [][Next]_vars

\* Goroutines are scheduled and their tickers fire; nobody has to call the API,
\* no partner has to fail or recover and no grant has to move.
Fairness ==
  /\ \A n \in Nodes : WF_vars(LoopStep(n)) /\ WF_vars(ApiSetRole(n)) /\ WF_vars(ProbeStep(n))
  /\ \A n \in Nodes, c \in Coords : WF_vars(Poll(n, c))
  /\ WF_vars(Tick)

FairSpec == Spec /\ Fairness

-----------------------------------------------------------------------------
(* Properties.                                                             *)

\* Nodes without a majority of coordinators, and nodes that should serve.
Blind  == {n \in DOMAIN healthy : ~Healthy(n)}

\* Type correctness of the manager and its three goroutines.
TypeOK ==
  /\ CoordTypeOK
  /\ role \in [Nodes -> Roles] /\ state \in [Nodes -> States]
  /\ seen \in [Nodes -> Nat] /\ since \in [Nodes -> Nat]
  /\ approved \in [Nodes -> BOOLEAN]
  /\ loop \in [Nodes -> Loops] /\ api \in [Nodes -> Calls] /\ probe \in [Nodes -> Probes]
  /\ ops \in [Nodes -> Nat] /\ approvals \in [Nodes -> Nat] /\ yields \in [Nodes -> Nat]
  /\ overtaken \in [Nodes -> Nat]
  /\ up \in [Nodes -> BOOLEAN]
  /\ now \in Nat

\* With manual failback a primary gives up its role to a coordinator only for an
\* approval of the operator, and each approval pays for one such yield, although
\* the loop acts on a role and an approval read before operator calls changed them.
\* The one exception the code has is a promotion that overtakes the loop between
\* its reading of the role as standby and its setRole (manager.go:399, 417): it is
\* undone without an approval.
YieldsApproved ==
  FailbackMode = "manual" => \A n \in Nodes : yields[n] <= approvals[n] + overtaken[n]

\* "coordinator unhealthy; forcing standby": a node that has lost the majority
\* of its coordinators for good ends up in standby, whatever the operator and
\* its partner do meanwhile.
BlindStandby == \A n \in Nodes : <>[](n \in Blind) => <>[](role[n] = "standby")

\* A partner that answers from some time on is seen as normal again and again,
\* although a stale evaluation may overwrite the state an answer set.
PeerRecovered == \A n \in Nodes : <>[]up[n] => []<>(state[n] = "normal")

-----------------------------------------------------------------------------
(* What documents and comments say, and the code does not do.              *)

\* "no two writable primaries when the network flaps": no two nodes are in
\* role primary at the same time.
SinglePrimary ==
  \A n, m \in Nodes : role[n] = "primary" /\ role[m] = "primary" => n = m
=============================================================================
