--------------------------- MODULE FailoverProofs ---------------------------
(***************************************************************************)
(* Proofs about a node: the failover manager, for any number of nodes and  *)
(* coordinators (Failover), and the plan of a DHCPv4 request, for any      *)
(* number of workers, clients and pools (DhcpV4Server).                    *)
(***************************************************************************)
EXTENDS Failover, DhcpV4Server, TLAPS

-----------------------------------------------------------------------------
(* Type correctness.                                                       *)

\* What the manager's own steps preserve: nothing about the coordinators.
ManagerOK ==
  /\ role \in [Nodes -> Roles] /\ state \in [Nodes -> States]
  /\ seen \in [Nodes -> Nat] /\ since \in [Nodes -> Nat]
  /\ approved \in [Nodes -> BOOLEAN]
  /\ loop \in [Nodes -> Loops] /\ api \in [Nodes -> Calls] /\ probe \in [Nodes -> Probes]
  /\ ops \in [Nodes -> Nat] /\ approvals \in [Nodes -> Nat] /\ yields \in [Nodes -> Nat]
  /\ overtaken \in [Nodes -> Nat]
  /\ up \in [Nodes -> BOOLEAN]
  /\ now \in Nat

\* A loop goes to another step with another observation.
LEMMA LoopMoves ==
  ASSUME NEW l \in Loops, NEW s \in States
  PROVE  /\ [l EXCEPT !.pc = "eval", !.next = s] \in Loops
         /\ [l EXCEPT !.pc = "coord", !.next = "init"] \in Loops
         /\ l.next \in States
BY DEF Loops, States

LEMMA LoopTypes ==
  ASSUME ManagerOK, NEW n \in Nodes, LoopStep(n)
  PROVE  ManagerOK'
<1>0. loop[n] \in Loops /\ PeerState(seen[n]) \in States
  BY DEF ManagerOK, PeerState, States
<1>m. /\ [loop[n] EXCEPT !.pc = "eval", !.next = PeerState(seen[n])] \in Loops
      /\ [loop[n] EXCEPT !.pc = "coord", !.next = "init"] \in Loops
      /\ loop[n].next \in States
  BY <1>0, LoopMoves
<1> USE FailoverAssumption DEF ManagerOK, Roles, States, Loops, coordVars, managerVars, histVars
<1>1. CASE EvalRead(n)
  <2>1. loop' = [loop EXCEPT ![n] = [loop[n] EXCEPT !.pc = "eval", !.next = PeerState(seen[n])]]
    BY <1>1 DEF EvalRead
  <2> QED
    BY <1>1, <1>m, <2>1 DEF EvalRead
<1>2. CASE EvalSet(n)
  <2>1. loop' = [loop EXCEPT ![n] = [loop[n] EXCEPT !.pc = "coord", !.next = "init"]]
    BY <1>2 DEF EvalSet
  <2> QED
    BY <1>2, <1>m, <2>1 DEF EvalSet, SetState
<1>3. CASE CoordHealth(n)
  BY <1>3 DEF CoordHealth, LoopGoto
<1>4. CASE CoordServe(n)
  BY <1>4 DEF CoordServe, LoopGoto
<1>5. CASE ServeState(n)
  BY <1>5 DEF ServeState, LoopGoto
<1>6. CASE YieldRole(n)
  BY <1>6 DEF YieldRole, LoopGoto
<1>7. CASE YieldApproval(n)
  BY <1>7 DEF YieldApproval, LoopGoto
<1>8. CASE LoopSetRole(n)
  BY <1>8 DEF LoopSetRole, SetRole, LoopGoto
<1> QED
  BY <1>1, <1>2, <1>3, <1>4, <1>5, <1>6, <1>7, <1>8 DEF LoopStep

LEMMA OperatorTypes ==
  ASSUME ManagerOK, NEW n \in Nodes,
         AllowManualFailback(n) \/ TriggerFailover(n) \/ ApiSetRole(n)
  PROVE  ManagerOK'
<1> USE FailoverAssumption DEF ManagerOK, Roles, Calls, coordVars, managerVars, goVars, histVars
<1>1. CASE AllowManualFailback(n)
  BY <1>1 DEF AllowManualFailback
<1>2. CASE TriggerFailover(n)
  BY <1>2 DEF TriggerFailover
<1>3. CASE ApiSetRole(n)
  BY <1>3 DEF ApiSetRole, SetRole
<1> QED
  BY <1>1, <1>2, <1>3

LEMMA ProbeTypes ==
  ASSUME ManagerOK, NEW n \in Nodes, ProbeStep(n) \/ Flap(n)
  PROVE  ManagerOK'
<1> USE FailoverAssumption DEF FailoverAssumption, ManagerOK, States, Probes, coordVars, managerVars, goVars, histVars
<1>1. CASE ProbeTick(n)
  <2>1. probe' = [probe EXCEPT ![n] = [probe[n] EXCEPT !.pc = "send", !.at = now]]
    BY <1>1 DEF ProbeTick
  <2>2. [probe[n] EXCEPT !.pc = "send", !.at = now] \in Probes
    OBVIOUS
  <2> QED
    BY <1>1, <2>1, <2>2 DEF ProbeTick
<1>2. CASE ProbeAnswer(n)
  <2>1. probe' = [probe EXCEPT ![n] = [probe[n] EXCEPT !.pc = "mark", !.fails = 0]]
    BY <1>2 DEF ProbeAnswer
  <2>0. 0 \in 0..Threshold
    OBVIOUS
  <2>2. [probe[n] EXCEPT !.pc = "mark", !.fails = 0] \in Probes
    BY <2>0
  <2> QED
    BY <1>2, <2>1, <2>2 DEF ProbeAnswer
<1>3. CASE MarkSeen(n)
  BY <1>3 DEF MarkSeen
<1>4. CASE MarkNormal(n)
  BY <1>4 DEF MarkNormal, SetState
<1>5. CASE ProbeTimeout(n)
  <2> DEFINE f == IF probe[n].fails < Threshold THEN probe[n].fails + 1 ELSE Threshold
  <2>1. f \in 0..Threshold
    OBVIOUS
  <2>2. probe' = [probe EXCEPT ![n] = [probe[n] EXCEPT !.pc = "idle", !.at = 0, !.fails = f]]
    BY <1>5 DEF ProbeTimeout
  <2>3. [probe[n] EXCEPT !.pc = "idle", !.at = 0, !.fails = f] \in Probes
    BY <2>1
  <2>4. PICK x \in States : SetState(n, x)
    BY <1>5 DEF ProbeTimeout
  <2>5. state' \in [Nodes -> States] /\ since' \in [Nodes -> Nat]
    BY <2>4 DEF SetState
  <2>6. probe' \in [Nodes -> Probes]
    BY <2>2, <2>3
  <2>7. UNCHANGED <<role, seen, approved, loop, api, histVars, up, now>>
    BY <1>5 DEF ProbeTimeout
  <2> HIDE DEF f
  <2> QED
    BY <2>5, <2>6, <2>7
<1>6. CASE Flap(n)
  BY <1>6 DEF Flap
<1> QED
  BY <1>1, <1>2, <1>3, <1>4, <1>5, <1>6 DEF ProbeStep

\* The polls keep the flags of the coordinators Boolean.
LEMMA CoordTypes ==
  ASSUME CoordTypeOK, NEW n \in Nodes, NEW c \in Coords,
         StoreHealthy(n, c) \/ StoreAllow(n, c) \/ MoveGrant(c)
  PROVE  CoordTypeOK'
<1>1. CASE StoreHealthy(n, c)
  <2>1. PICK b \in BOOLEAN :
          /\ healthy' = [healthy EXCEPT ![n] = [healthy[n] EXCEPT ![c] = b]]
          /\ storing' = [storing EXCEPT ![n] = [storing[n] EXCEPT ![c] = b /\ grant[c] = n]]
    BY <1>1 DEF StoreHealthy
  <2>2. (b /\ grant[c] = n) \in BOOLEAN
    OBVIOUS
  <2>3. [healthy[n] EXCEPT ![c] = b] \in [Coords -> BOOLEAN]
    BY DEF CoordTypeOK
  <2>4. [storing[n] EXCEPT ![c] = b /\ grant[c] = n] \in [Coords -> BOOLEAN \cup {None}]
    BY <2>2 DEF CoordTypeOK
  <2> QED
    BY <1>1, <2>1, <2>3, <2>4 DEF CoordTypeOK, StoreHealthy
<1>2. CASE StoreAllow(n, c)
  <2>1. /\ allow' = [allow EXCEPT ![n] = [allow[n] EXCEPT ![c] = storing[n][c]]]
        /\ storing' = [storing EXCEPT ![n] = [storing[n] EXCEPT ![c] = None]]
    BY <1>2 DEF StoreAllow
  <2>2. storing[n][c] \in BOOLEAN
    BY <1>2 DEF StoreAllow, CoordTypeOK
  <2>3. [allow[n] EXCEPT ![c] = storing[n][c]] \in [Coords -> BOOLEAN]
    BY <2>2 DEF CoordTypeOK
  <2>4. [storing[n] EXCEPT ![c] = None] \in [Coords -> BOOLEAN \cup {None}]
    BY DEF CoordTypeOK
  <2> QED
    BY <1>2, <2>1, <2>3, <2>4 DEF CoordTypeOK, StoreAllow
<1>3. CASE MoveGrant(c)
  BY <1>3 DEF MoveGrant, CoordTypeOK
<1> QED
  BY <1>1, <1>2, <1>3

\* TypeOK holds in every reachable state, for any number of nodes and
\* coordinators: in particular the probe's failure count stays within its
\* threshold.
THEOREM FailoverTypes == Spec => []TypeOK
<1>0. TypeOK <=> CoordTypeOK /\ ManagerOK
  BY DEF TypeOK, ManagerOK
<1>1. Init => TypeOK
  <2>1. Init => CoordTypeOK
    BY DEF Init, CoordInit, CoordTypeOK
  <2>2. Init => ManagerOK
    BY FailoverAssumption DEF FailoverAssumption, Init, ManagerOK, Roles, States,
       Loops, Calls, Probes
  <2> QED
    BY <1>0, <2>1, <2>2
<1>2. TypeOK /\ [Next]_vars => TypeOK'
  <2> SUFFICES ASSUME CoordTypeOK, ManagerOK, [Next]_vars PROVE CoordTypeOK' /\ ManagerOK'
    BY <1>0 DEF TypeOK, ManagerOK
  <2>c. UNCHANGED coordVars => CoordTypeOK'
    BY DEF coordVars, CoordTypeOK
  <2>m. UNCHANGED <<managerVars, goVars, histVars, up, now>> => ManagerOK'
    BY DEF managerVars, goVars, histVars, ManagerOK
  <2>1. ASSUME NEW n \in Nodes, LoopStep(n) PROVE CoordTypeOK' /\ ManagerOK'
    <3>1. UNCHANGED coordVars
      BY <2>1 DEF LoopStep, EvalRead, EvalSet, CoordHealth, CoordServe, ServeState,
                  YieldRole, YieldApproval, LoopSetRole
    <3> QED
      BY <2>1, <2>c, <3>1, LoopTypes
  <2>2. ASSUME NEW n \in Nodes, AllowManualFailback(n) \/ TriggerFailover(n) \/ ApiSetRole(n)
        PROVE  CoordTypeOK' /\ ManagerOK'
    <3>1. UNCHANGED coordVars
      BY <2>2 DEF AllowManualFailback, TriggerFailover, ApiSetRole
    <3> QED
      BY <2>2, <2>c, <3>1, OperatorTypes
  <2>3. ASSUME NEW n \in Nodes, ProbeStep(n) \/ Flap(n) PROVE CoordTypeOK' /\ ManagerOK'
    <3>1. UNCHANGED coordVars
      BY <2>3 DEF ProbeStep, ProbeTick, ProbeAnswer, MarkSeen, MarkNormal, ProbeTimeout, Flap
    <3> QED
      BY <2>3, <2>c, <3>1, ProbeTypes
  <2>4. ASSUME NEW n \in Nodes, NEW c \in Coords, Poll(n, c) PROVE CoordTypeOK' /\ ManagerOK'
    BY <2>4, <2>m, CoordTypes DEF Poll
  <2>5. ASSUME NEW c \in Coords, MoveLeader(c) PROVE CoordTypeOK' /\ ManagerOK'
    <3>1. UNCHANGED <<managerVars, goVars, histVars, up, now>> /\ MoveGrant(c)
      BY <2>5 DEF MoveLeader
    <3>2. CoordTypeOK'
      BY <3>1 DEF MoveGrant, CoordTypeOK
    <3> QED
      BY <2>m, <3>1, <3>2
  <2>6. ASSUME Tick PROVE CoordTypeOK' /\ ManagerOK'
    <3>1. ManagerOK'
      BY <2>6 DEF Tick, managerVars, goVars, histVars, ManagerOK
    <3> QED
      BY <2>6, <2>c, <3>1 DEF Tick
  <2>7. ASSUME UNCHANGED vars PROVE CoordTypeOK' /\ ManagerOK'
    BY <2>7, <2>c, <2>m DEF vars
  <2> QED
    BY <2>1, <2>2, <2>3, <2>4, <2>5, <2>6, <2>7 DEF Next
<1> QED
  BY <1>1, <1>2, PTL DEF Spec

-----------------------------------------------------------------------------
(* Manual failback.                                                        *)

\* An approval is spent by the yield it allows: what the loop has decided to
\* spend, or may still spend, is covered by an approval not yet spent.  And a loop
\* about to undo a promotion is covered by that promotion having overtaken it.
Pending(n) == IF approved[n] \/ loop[n].pc = "giveup" THEN 1 ELSE 0
Undoing(n) == IF loop[n].pc = "follow" /\ role[n] = "primary" THEN 1 ELSE 0
YieldInv   == \A n \in Nodes :
                yields[n] + Pending(n) + Undoing(n) <= approvals[n] + overtaken[n]

\* The counters are numbers, so that the bound is one of arithmetic.
LEMMA YieldNumbers ==
  ASSUME TypeOK, NEW n \in Nodes
  PROVE  /\ yields[n] \in Nat /\ approvals[n] \in Nat /\ overtaken[n] \in Nat
         /\ Pending(n) \in {0, 1} /\ Undoing(n) \in {0, 1}
BY DEF TypeOK, Pending, Undoing

\* A step of node n that leaves the loops of the others alone.
LEMMA YieldOf ==
  ASSUME TypeOK, TypeOK', YieldInv, NEW n \in Nodes,
         \A m \in Nodes : m # n =>
           /\ yields'[m] = yields[m] /\ approvals'[m] = approvals[m]
           /\ overtaken'[m] = overtaken[m] /\ approved'[m] = approved[m]
           /\ loop'[m] = loop[m] /\ role'[m] = role[m],
         yields'[n] + Pending(n)' + Undoing(n)' <= approvals'[n] + overtaken'[n]
  PROVE  YieldInv'
<1> SUFFICES ASSUME NEW m \in Nodes
             PROVE  yields'[m] + Pending(m)' + Undoing(m)' <= approvals'[m] + overtaken'[m]
  BY DEF YieldInv
<1>1. CASE m = n
  BY <1>1
<1>2. CASE m # n
  <2>1. Pending(m)' = Pending(m) /\ Undoing(m)' = Undoing(m)
    BY <1>2 DEF Pending, Undoing
  <2> QED
    BY <1>2, <2>1 DEF YieldInv
<1> QED
  BY <1>1, <1>2

\* A step that changes nothing the bound speaks of.
LEMMA YieldKept ==
  ASSUME TypeOK, YieldInv, UNCHANGED <<yields, approvals, overtaken, approved, loop, role>>
  PROVE  YieldInv'
BY DEF YieldInv, Pending, Undoing

\* A step of the loop that only reads: it opens no decision the reading does not
\* allow, and goes on to follow only from a role that is not primary.
LEMMA YieldReads ==
  ASSUME FailbackMode = "manual", TypeOK, TypeOK', YieldInv, NEW n \in Nodes,
         \/ EvalRead(n) \/ EvalSet(n) \/ CoordHealth(n) \/ CoordServe(n)
         \/ ServeState(n) \/ YieldRole(n) \/ YieldApproval(n)
  PROVE  YieldInv'
<1>1. UNCHANGED <<yields, approvals, overtaken, approved, role>>
  BY DEF EvalRead, EvalSet, CoordHealth, CoordServe, ServeState, YieldRole, YieldApproval,
         histVars, managerVars
<1>2. \A m \in Nodes : m # n => loop'[m] = loop[m]
  BY DEF EvalRead, EvalSet, CoordHealth, CoordServe, ServeState, YieldRole, YieldApproval,
         LoopGoto, TypeOK
<1>3. /\ loop'[n].pc = "giveup" => approved[n]
      /\ loop'[n].pc = "follow" => role[n] # "primary"
  BY DEF EvalRead, EvalSet, CoordHealth, CoordServe, ServeState, YieldRole, YieldApproval,
         MayYield, LoopGoto, TypeOK, Loops
<1>4. Pending(n)' <= Pending(n) /\ Undoing(n)' = 0
  BY <1>1, <1>3 DEF Pending, Undoing
<1>5. yields'[n] + Pending(n)' + Undoing(n)' <= approvals'[n] + overtaken'[n]
  <2>1. yields[n] + Pending(n) + Undoing(n) <= approvals[n] + overtaken[n]
    BY DEF YieldInv
  <2>2. Pending(n)' \in {0, 1}
    BY YieldNumbers, <1>4 DEF Pending
  <2> QED
    BY <1>1, <1>4, <2>1, <2>2, YieldNumbers
<1> QED
  BY <1>1, <1>2, <1>5, YieldOf

\* An approval pays for one decision to yield.
LEMMA YieldApprove ==
  ASSUME TypeOK, TypeOK', YieldInv, NEW n \in Nodes, AllowManualFailback(n)
  PROVE  YieldInv'
<1>1. /\ approvals' = [approvals EXCEPT ![n] = @ + 1]
      /\ approved' = [approved EXCEPT ![n] = TRUE]
      /\ UNCHANGED <<yields, overtaken, loop, role>>
  BY DEF AllowManualFailback, goVars
<1>2. approvals'[n] = approvals[n] + 1 /\ Undoing(n)' = Undoing(n) /\ Pending(n)' = 1
  BY <1>1 DEF Pending, Undoing, TypeOK
<1>3. yields[n] + Pending(n) + Undoing(n) <= approvals[n] + overtaken[n]
  BY DEF YieldInv
<1>4. yields'[n] + Pending(n)' + Undoing(n)' <= approvals'[n] + overtaken'[n]
  BY <1>1, <1>2, <1>3, YieldNumbers
<1>5. \A m \in Nodes : m # n => approvals'[m] = approvals[m] /\ approved'[m] = approved[m]
  BY <1>1 DEF TypeOK
<1> QED
  BY <1>1, <1>4, <1>5, YieldOf

\* A role given up uses the approval up: setRole resets the flag on the way to
\* standby, in the same critical section.  A promotion undone uses up that it
\* overtook the loop.
LEMMA YieldSpend ==
  ASSUME TypeOK, TypeOK', YieldInv, NEW n \in Nodes, LoopSetRole(n)
  PROVE  YieldInv'
<1>1. /\ loop' = [loop EXCEPT ![n].pc = "idle"] /\ UNCHANGED <<approvals, overtaken>>
      /\ loop[n].pc \in {"promote", "demote", "follow", "giveup"}
  BY DEF LoopSetRole, LoopGoto
<1>2. loop'[n].pc = "idle" /\ Undoing(n)' = 0
  BY <1>1 DEF Undoing, TypeOK, Loops
<1>3. yields[n] + Pending(n) + Undoing(n) <= approvals[n] + overtaken[n]
  BY DEF YieldInv
<1>4. yields'[n] + Pending(n)' + Undoing(n)' <= approvals'[n] + overtaken'[n]
  <2>1. CASE loop[n].pc = "giveup" /\ role[n] = "primary"
    <3>1. yields'[n] = yields[n] + 1 /\ approved'[n] = FALSE
      BY <2>1 DEF LoopSetRole, SetRole, TypeOK
    <3>2. Pending(n)' = 0 /\ Pending(n) = 1
      BY <1>2, <2>1, <3>1 DEF Pending
    <3> QED
      BY <1>1, <1>2, <1>3, <3>1, <3>2, YieldNumbers
  <2>2. CASE loop[n].pc = "follow" /\ role[n] = "primary"
    <3>1. yields'[n] = yields[n] + 1 /\ approved'[n] = FALSE
      BY <2>2 DEF LoopSetRole, SetRole, TypeOK
    <3>2. Pending(n)' = 0 /\ Undoing(n) = 1
      BY <1>2, <2>2, <3>1 DEF Pending, Undoing
    <3> QED
      BY <1>1, <1>2, <1>3, <3>1, <3>2, YieldNumbers
  <2>3. CASE ~(loop[n].pc \in {"follow", "giveup"} /\ role[n] = "primary")
    <3>1. yields'[n] = yields[n] /\ (approved'[n] => approved[n])
      BY <2>3 DEF LoopSetRole, SetRole, TypeOK
    <3>2. Pending(n)' <= Pending(n) /\ Pending(n)' \in {0, 1}
      BY <1>2, <3>1 DEF Pending
    <3> QED
      BY <1>1, <1>2, <1>3, <3>1, <3>2, YieldNumbers
  <2> QED
    BY <2>1, <2>2, <2>3
<1>5. \A m \in Nodes : m # n => /\ yields'[m] = yields[m] /\ approved'[m] = approved[m]
                                /\ loop'[m] = loop[m] /\ role'[m] = role[m]
  BY <1>1 DEF LoopSetRole, SetRole, TypeOK
<1> QED
  BY <1>1, <1>4, <1>5, YieldOf

\* An operator's promotion that overtakes the loop is counted as it is applied; a
\* demotion takes the approval with it.
LEMMA YieldOperator ==
  ASSUME TypeOK, TypeOK', YieldInv, NEW n \in Nodes, ApiSetRole(n)
  PROVE  YieldInv'
<1>1. UNCHANGED <<yields, approvals, loop>>
  BY DEF ApiSetRole
<1>2. yields[n] + Pending(n) + Undoing(n) <= approvals[n] + overtaken[n]
  BY DEF YieldInv
<1>3. Pending(n)' <= Pending(n) /\ Pending(n)' \in {0, 1}
  BY <1>1 DEF ApiSetRole, SetRole, Pending, TypeOK
<1>4. yields'[n] + Pending(n)' + Undoing(n)' <= approvals'[n] + overtaken'[n]
  <2>1. CASE loop[n].pc = "follow" /\ api[n].role = "primary" /\ role[n] # "primary"
    <3>1. overtaken'[n] = overtaken[n] + 1
      BY <2>1 DEF ApiSetRole, TypeOK
    <3>2. Undoing(n) = 0 /\ Undoing(n)' \in {0, 1}
      BY <2>1 DEF Undoing
    <3> QED
      BY <1>1, <1>2, <1>3, <3>1, <3>2, YieldNumbers
  <2>2. CASE ~(loop[n].pc = "follow" /\ api[n].role = "primary" /\ role[n] # "primary")
    <3>1. overtaken'[n] = overtaken[n]
      BY <2>2 DEF ApiSetRole, TypeOK
    <3>2. Undoing(n)' <= Undoing(n) /\ Undoing(n)' \in {0, 1}
      BY <1>1, <2>2 DEF ApiSetRole, SetRole, Undoing, TypeOK
    <3> QED
      BY <1>1, <1>2, <1>3, <3>1, <3>2, YieldNumbers
  <2> QED
    BY <2>1, <2>2
<1>5. \A m \in Nodes : m # n => /\ overtaken'[m] = overtaken[m] /\ approved'[m] = approved[m]
                                /\ role'[m] = role[m]
  BY DEF ApiSetRole, SetRole, TypeOK
<1> QED
  BY <1>1, <1>4, <1>5, YieldOf

\* With manual failback the loop gives up the primary role at most once per
\* approval of the operator and once per promotion that overtook its reading of
\* the role, for any number of nodes, coordinators and calls, although it decides
\* on values it read earlier and operators may demote, promote and approve in
\* between.
THEOREM YieldsAreApproved == Spec => []YieldsApproved
<1>1. CASE FailbackMode # "manual"
  <2>1. YieldsApproved
    BY <1>1 DEF YieldsApproved
  <2> QED
    BY <2>1, PTL
<1>2. CASE FailbackMode = "manual"
  <2>1. Init => YieldInv
    BY DEF Init, YieldInv, Pending, Undoing
  <2>2. TypeOK /\ TypeOK' /\ YieldInv /\ [Next]_vars => YieldInv'
    <3> SUFFICES ASSUME TypeOK, TypeOK', YieldInv, [Next]_vars PROVE YieldInv'
      OBVIOUS
    <3>k. UNCHANGED <<yields, approvals, overtaken, approved, loop, role>> => YieldInv'
      BY YieldKept
    <3>1. ASSUME NEW n \in Nodes, LoopStep(n) PROVE YieldInv'
      BY <1>2, <3>1, YieldSpend, YieldReads DEF LoopStep
    <3>2. ASSUME NEW n \in Nodes, ApiSetRole(n) PROVE YieldInv'
      BY <3>2, YieldOperator
    <3>3. ASSUME NEW n \in Nodes, AllowManualFailback(n) PROVE YieldInv'
      BY <3>3, YieldApprove
    <3>4. ASSUME NEW n \in Nodes, ProbeStep(n) \/ TriggerFailover(n) \/ Flap(n) PROVE YieldInv'
      BY <3>4, <3>k DEF ProbeStep, ProbeTick, ProbeAnswer, MarkSeen, MarkNormal, ProbeTimeout,
                        TriggerFailover, Flap, histVars, managerVars, goVars
    <3>5. ASSUME \/ \E n \in Nodes, c \in Coords : Poll(n, c)
                 \/ \E c \in Coords : MoveLeader(c)
                 \/ Tick \/ UNCHANGED vars
          PROVE  YieldInv'
      BY <3>5, <3>k DEF Poll, MoveLeader, Tick, vars, histVars, managerVars, goVars
    <3> QED
      BY <3>1, <3>2, <3>3, <3>4, <3>5 DEF Next
  <2>3. TypeOK /\ YieldInv => YieldsApproved
    BY YieldNumbers DEF YieldsApproved, YieldInv
  <2> QED
    BY <2>1, <2>2, <2>3, FailoverTypes, PTL DEF Spec
<1> QED
  BY <1>1, <1>2

-----------------------------------------------------------------------------
(* The plan of a DHCPv4 request.  Every cached time is one the pool's row had *)
(* at an instant the cache's age bounds, and a remembered pool is one where   *)
(* the client was granted a lease no earlier than it was remembered.          *)

\* Pool p's row had this lease time less than d before instant n.
HadTime(p, time, n, d) == \E t \in 0..n : n - t < d /\ <<p, time>> \in had[t]

PlanTypes ==
  /\ clock \in 0..MaxClock
  /\ DOMAIN had = 0..MaxClock /\ DOMAIN row = PoolIds
  /\ DOMAIN repoCache = PoolIds /\ DOMAIN timesCache = PoolIds
  /\ DOMAIN affinity = Clients /\ DOMAIN granted = Clients \X PoolIds
  /\ DOMAIN call = PlanWorkers /\ decision \in Decisions

RowsKnown == \A p \in PoolIds : <<p, row[p]>> \in had[clock]

RepoSound ==
  \A p \in PoolIds : Known(repoCache[p]) =>
    /\ repoCache[p].at \in 0..clock
    /\ <<p, repoCache[p].time>> \in had[repoCache[p].at]

TimesSound ==
  \A p \in PoolIds : Known(timesCache[p]) =>
    /\ timesCache[p].at \in 0..clock
    /\ HadTime(p, timesCache[p].time, timesCache[p].at, PoolCacheTTL)

GrantedSound ==
  \A x \in Clients \X PoolIds : Known(granted[x]) => granted[x].at \in 0..clock

\* A lease was granted there at that instant or later.
GrantedSince(c, p, n) == Known(granted[<<c, p>>]) /\ granted[<<c, p>>].at >= n

AffinitySound ==
  \A c \in Clients : Known(affinity[c]) =>
    /\ affinity[c].pool \in PoolIds /\ affinity[c].at \in 0..clock
    /\ GrantedSince(c, affinity[c].pool, affinity[c].at)

CallSound(w) ==
  /\ call[w].at \in {"idle", "store", "plan", "lease"}
  /\ call[w].at \in {"store", "plan"} =>
       call[w] \in [at : {"store", "plan"}, client : Clients, relay : Relays]
  /\ call[w].at = "lease" =>
       /\ call[w].client \in Clients /\ call[w].pool \in PoolIds /\ call[w].planned \in 0..clock
       /\ HadTime(call[w].pool, call[w].time, call[w].planned, PoolTimesTTL + PoolCacheTTL)
       /\ call[w].from = "affinity" =>
            GrantedSince(call[w].client, call[w].pool, call[w].planned - AffinityTTL)

PlanInv ==
  /\ PlanTypes /\ RowsKnown /\ RepoSound /\ TimesSound /\ GrantedSound /\ AffinitySound
  /\ \A w \in PlanWorkers : CallSound(w)

\* Time and the record of the past only grow, and so do grants.
Grows ==
  /\ clock \in Nat /\ clock' \in Nat /\ clock <= clock'
  /\ \A t \in 0..clock : had[t] \subseteq had'[t]
GrantsGrow ==
  \A x \in Clients \X PoolIds : Known(granted[x]) =>
    Known(granted'[x]) /\ granted[x].at \in Int /\ granted'[x].at \in Int
                       /\ granted'[x].at >= granted[x].at

LEMMA HadStays ==
  ASSUME Grows, NEW p, NEW time, NEW n \in 0..clock, NEW d, HadTime(p, time, n, d)
  PROVE  HadTime(p, time, n, d)'
BY DEF Grows, HadTime

LEMMA SinceStays ==
  ASSUME GrantsGrow, NEW c \in Clients, NEW p \in PoolIds, NEW n \in Int, GrantedSince(c, p, n)
  PROVE  GrantedSince(c, p, n)'
<1>1. <<c, p>> \in Clients \X PoolIds
  OBVIOUS
<1> QED BY <1>1 DEF GrantsGrow, GrantedSince

LEMMA RepoStays ==
  ASSUME RepoSound, Grows,
         \A p \in PoolIds : repoCache'[p] = repoCache[p] \/ repoCache'[p] = Nothing
  PROVE  RepoSound'
<1> SUFFICES ASSUME NEW p \in PoolIds, Known(repoCache'[p])
             PROVE  /\ repoCache'[p].at \in 0..clock'
                    /\ <<p, repoCache'[p].time>> \in had'[repoCache'[p].at]
  BY DEF RepoSound, Known, Nothing
<1>1. repoCache'[p] = repoCache[p] /\ Known(repoCache[p])
  BY DEF Known, Nothing
<1> QED BY <1>1 DEF RepoSound, Grows

LEMMA TimesStay ==
  ASSUME TimesSound, Grows, timesCache' = timesCache
  PROVE  TimesSound'
<1> SUFFICES ASSUME NEW p \in PoolIds, Known(timesCache[p])
             PROVE  /\ timesCache[p].at \in 0..clock'
                    /\ HadTime(p, timesCache[p].time, timesCache[p].at, PoolCacheTTL)'
  BY DEF TimesSound, Known, Nothing
<1>1. timesCache[p].at \in 0..clock
      /\ HadTime(p, timesCache[p].time, timesCache[p].at, PoolCacheTTL)
  BY DEF TimesSound
<1>2. PICK e : e = timesCache[p]
  OBVIOUS
<1>3. HadTime(p, e.time, e.at, PoolCacheTTL)'
  BY <1>1, <1>2, HadStays
<1>4. timesCache[p].at \in 0..clock'
  BY <1>1 DEF Grows
<1> QED BY <1>2, <1>3, <1>4 DEF HadTime

LEMMA AffinityStays ==
  ASSUME AffinitySound, Grows, GrantsGrow,
         \A c \in Clients : affinity'[c] = affinity[c] \/ affinity'[c] = Nothing
  PROVE  AffinitySound'
<1> SUFFICES ASSUME NEW c \in Clients, Known(affinity'[c])
             PROVE  /\ affinity'[c].pool \in PoolIds /\ affinity'[c].at \in 0..clock'
                    /\ GrantedSince(c, affinity[c].pool, affinity[c].at)'
  BY DEF AffinitySound, Known, Nothing
<1>1. PICK e : e = affinity[c]
  OBVIOUS
<1>2. affinity'[c] = e /\ Known(e)
  BY <1>1 DEF Known, Nothing
<1>3. e.pool \in PoolIds /\ e.at \in 0..clock /\ GrantedSince(c, e.pool, e.at)
  BY <1>1, <1>2 DEF AffinitySound
<1>4. GrantedSince(c, e.pool, e.at)'
  BY <1>3, SinceStays
<1> QED BY <1>2, <1>3, <1>4 DEF Grows, GrantedSince

LEMMA CallStays ==
  ASSUME Grows, GrantsGrow, PlanAssumption, NEW w \in PlanWorkers, CallSound(w), call'[w] = call[w]
  PROVE  CallSound(w)'
<1>1. PICK e : e = call[w]
  OBVIOUS
<1>2. ASSUME e.at = "lease"
      PROVE  /\ e.client \in Clients /\ e.pool \in PoolIds /\ e.planned \in 0..clock'
             /\ HadTime(e.pool, e.time, e.planned, PoolTimesTTL + PoolCacheTTL)'
             /\ e.from = "affinity" => GrantedSince(e.client, e.pool, e.planned - AffinityTTL)'
  <2>1. /\ e.client \in Clients /\ e.pool \in PoolIds /\ e.planned \in 0..clock
        /\ HadTime(e.pool, e.time, e.planned, PoolTimesTTL + PoolCacheTTL)
        /\ e.from = "affinity" => GrantedSince(e.client, e.pool, e.planned - AffinityTTL)
    BY <1>1, <1>2 DEF CallSound
  <2>2. HadTime(e.pool, e.time, e.planned, PoolTimesTTL + PoolCacheTTL)'
    BY <2>1, HadStays
  <2>3. e.planned - AffinityTTL \in Int
    BY <2>1, PlanAssumption
  <2>4. e.from = "affinity" => GrantedSince(e.client, e.pool, e.planned - AffinityTTL)'
    BY <2>1, <2>3, SinceStays
  <2> QED BY <2>1, <2>2, <2>4 DEF Grows
<1> QED BY <1>1, <1>2 DEF CallSound, HadTime, GrantedSince

LEMMA EntriesKnown ==
  /\ \A t, n : Known([time |-> t, at |-> n])
  /\ \A p, n : Known([pool |-> p, at |-> n])
  /\ \A n : Known([at |-> n])
BY DEF Known, Nothing

\* What a request is given: a pool of the tenant, and the affinity's only from it.
LEMMA PlanPool ==
  ASSUME PlanAssumption, PlanInv, NEW c \in Clients, NEW g \in Relays
  PROVE  /\ leasePlan(c, g).pool \in PoolIds
         /\ leasePlan(c, g).from = "affinity" =>
              /\ Known(affinity[c]) /\ clock <= affinity[c].at + AffinityTTL
              /\ leasePlan(c, g).pool = affinity[c].pool
<1>1. PICK l : l = Lookup(c)
  OBVIOUS
<1>2. PICK r : r = Resolve(g)
  OBVIOUS
<1>3. l = NoPool \/ (l \in PoolIds /\ Known(affinity[c]) /\ clock <= affinity[c].at + AffinityTTL
                     /\ l = affinity[c].pool)
  BY <1>1 DEF Lookup, PlanInv, AffinitySound
<1>4. r \in PoolIds \cup {NoPool}
  BY <1>2 DEF PlanAssumption
<1>5. PICK f : f = IF decision.kind = "pool" THEN "policy"
                  ELSE IF l # NoPool THEN "affinity"
                  ELSE IF decision.pool # NoPool THEN "selector"
                  ELSE IF r # NoPool THEN "relay" ELSE "default"
  OBVIOUS
<1>6. PICK q : q = CASE f \in {"policy", "selector"} -> decision.pool
                 [] f = "affinity" -> l
                 [] f = "relay" -> r
                 [] OTHER -> DefaultPool
  OBVIOUS
<1>7. leasePlan(c, g) = [from |-> f, pool |-> q]
  BY <1>1, <1>2, <1>5, <1>6 DEF leasePlan
<1>8. decision \in Decisions
  BY DEF PlanInv, PlanTypes
<1>9. decision.kind = "pool" \/ decision.pool # NoPool => decision.pool \in PoolIds
  BY <1>8 DEF Decisions
<1>10. /\ f \in {"policy", "affinity", "selector", "relay", "default"}
       /\ f \in {"policy", "selector"} => decision.kind = "pool" \/ decision.pool # NoPool
       /\ f = "affinity" => l # NoPool
       /\ f = "relay" => r # NoPool
  BY <1>5
<1>11. f \in {"policy", "selector"} => q \in PoolIds
  BY <1>6, <1>9, <1>10
<1>12. f = "affinity" => q = l /\ l # NoPool
  BY <1>6, <1>10
<1>13. f = "relay" => q \in PoolIds
  BY <1>4, <1>6, <1>10
<1>14. f = "default" => q \in PoolIds
  BY <1>6 DEF PlanAssumption
<1> QED BY <1>3, <1>7, <1>10, <1>11, <1>12, <1>13, <1>14

\* The two caches in front of a pool's row, one behind the other.
LEMMA TimesGiven ==
  ASSUME PlanAssumption, PlanInv, NEW p \in PoolIds
  PROVE  /\ HadTime(p, GetPool(p), clock, PoolCacheTTL)
         /\ HadTime(p, applyPoolLeaseTimes(p), clock, PoolTimesTTL + PoolCacheTTL)
<1> USE PlanAssumption
<1>0. clock \in Nat /\ RowsKnown /\ RepoSound /\ TimesSound
  BY DEF PlanInv, PlanTypes
<1>1. HadTime(p, GetPool(p), clock, PoolCacheTTL)
  <2>1. CASE Live(repoCache[p], PoolCacheTTL)
    <3>1. /\ repoCache[p].at \in 0..clock /\ clock - repoCache[p].at < PoolCacheTTL
          /\ <<p, repoCache[p].time>> \in had[repoCache[p].at]
      BY <1>0, <2>1 DEF Live, RepoSound
    <3> QED BY <2>1, <3>1 DEF GetPool, HadTime
  <2>2. CASE ~Live(repoCache[p], PoolCacheTTL)
    <3>1. GetPool(p) = row[p] /\ <<p, row[p]>> \in had[clock]
      BY <1>0, <2>2 DEF GetPool, RowsKnown
    <3>2. clock \in 0..clock /\ clock - clock < PoolCacheTTL
      BY <1>0
    <3> QED BY <3>1, <3>2 DEF HadTime
  <2> QED BY <2>1, <2>2
<1>2. CASE Live(timesCache[p], PoolTimesTTL)
  <2>1. PICK e : e = timesCache[p]
    OBVIOUS
  <2>2. e.at \in 0..clock /\ clock - e.at < PoolTimesTTL /\ HadTime(p, e.time, e.at, PoolCacheTTL)
    BY <1>0, <1>2, <2>1 DEF Live, TimesSound
  <2>3. PICK t \in 0..e.at : e.at - t < PoolCacheTTL /\ <<p, e.time>> \in had[t]
    BY <2>2 DEF HadTime
  <2>4. t \in 0..clock /\ clock - t < PoolTimesTTL + PoolCacheTTL
    BY <1>0, <2>2, <2>3
  <2>5. HadTime(p, e.time, clock, PoolTimesTTL + PoolCacheTTL)
    BY <2>3, <2>4 DEF HadTime
  <2>6. applyPoolLeaseTimes(p) = e.time
    BY <1>2, <2>1 DEF applyPoolLeaseTimes
  <2> QED BY <1>1, <2>5, <2>6
<1>3. CASE ~Live(timesCache[p], PoolTimesTTL)
  <2>1. PICK v : v = GetPool(p)
    OBVIOUS
  <2>2. PICK t \in 0..clock : clock - t < PoolCacheTTL /\ <<p, v>> \in had[t]
    BY <1>1, <2>1 DEF HadTime
  <2>3. clock - t < PoolTimesTTL + PoolCacheTTL
    BY <1>0, <2>2
  <2>4. HadTime(p, v, clock, PoolTimesTTL + PoolCacheTTL)
    BY <2>2, <2>3 DEF HadTime
  <2> QED BY <1>1, <1>3, <2>1, <2>4 DEF applyPoolLeaseTimes
<1> QED BY <1>1, <1>2, <1>3

LEMMA PlannedKept ==
  ASSUME PlanAssumption, PlanInv, NEW w \in PlanWorkers, PlanRequest(w)
  PROVE  PlanInv'
<1> USE PlanAssumption
<1>0. /\ PlanTypes /\ RowsKnown /\ RepoSound /\ TimesSound /\ GrantedSound /\ AffinitySound
      /\ clock \in Nat /\ \A v \in PlanWorkers : CallSound(v)
  BY DEF PlanInv, PlanTypes
<1>1. call[w] \in [at : {"store", "plan"}, client : Clients, relay : Relays] /\ call[w].at = "plan"
  BY <1>0 DEF CallSound, PlanRequest
<1>2. PICK c \in Clients : c = call[w].client
  BY <1>1
<1>3. PICK g \in Relays : g = call[w].relay
  BY <1>1
<1>4. PICK plan : plan = leasePlan(c, g)
  OBVIOUS
<1>5. PICK p \in PoolIds : p = plan.pool
  BY <1>4, PlanPool
<1>6. /\ affinity' = (IF plan.from = "policy" THEN affinity ELSE Evicted(c))
      /\ repoCache' = (IF Live(timesCache[p], PoolTimesTTL) \/ Live(repoCache[p], PoolCacheTTL)
                       THEN repoCache
                       ELSE [repoCache EXCEPT ![p] = [time |-> row[p], at |-> clock]])
      /\ timesCache' = TimesStored(p)
      /\ call' = [call EXCEPT ![w] = [at |-> "lease", client |-> c, pool |-> p,
           from |-> plan.from, time |-> applyPoolLeaseTimes(p), planned |-> clock]]
      /\ UNCHANGED <<clock, row, had, granted, decision>>
  BY <1>2, <1>3, <1>4, <1>5 DEF PlanRequest
<1>7. Grows /\ GrantsGrow
  BY <1>0, <1>6 DEF Grows, GrantsGrow, GrantedSound
<1>8. \A d \in Clients : affinity'[d] = affinity[d] \/ affinity'[d] = Nothing
  BY <1>0, <1>6 DEF Evicted, PlanTypes
<1>9. AffinitySound'
  BY <1>0, <1>7, <1>8, AffinityStays
<1>10. GrantedSound' /\ RowsKnown'
  BY <1>0, <1>6 DEF GrantedSound, RowsKnown
<1>11. RepoSound'
  <2>1. CASE repoCache' = repoCache
    BY <1>0, <1>7, <2>1, RepoStays
  <2>2. CASE repoCache' = [repoCache EXCEPT ![p] = [time |-> row[p], at |-> clock]]
    <3>1. ASSUME NEW q \in PoolIds, Known(repoCache'[q])
          PROVE  /\ repoCache'[q].at \in 0..clock
                 /\ <<q, repoCache'[q].time>> \in had[repoCache'[q].at]
      <4>1. CASE q = p
        <5>1. repoCache'[q] = [time |-> row[p], at |-> clock]
          BY <1>0, <2>2, <4>1 DEF PlanTypes
        <5> QED BY <1>0, <4>1, <5>1 DEF RowsKnown
      <4>2. CASE q # p
        <5>1. repoCache'[q] = repoCache[q]
          BY <1>0, <2>2, <4>2 DEF PlanTypes
        <5> QED BY <1>0, <3>1, <5>1 DEF RepoSound
      <4> QED BY <4>1, <4>2
    <3> QED BY <1>6, <3>1 DEF RepoSound
  <2> QED BY <1>6, <2>1, <2>2
<1>12. TimesSound'
  <2>1. CASE timesCache' = timesCache
    BY <1>0, <1>7, <2>1, TimesStay
  <2>2. CASE timesCache' = [timesCache EXCEPT ![p] = [time |-> GetPool(p), at |-> clock]]
    <3>0. PICK v : v = GetPool(p)
      OBVIOUS
    <3>1. ASSUME NEW q \in PoolIds, Known(timesCache'[q])
          PROVE  /\ timesCache'[q].at \in 0..clock
                 /\ HadTime(q, timesCache'[q].time, timesCache'[q].at, PoolCacheTTL)
      <4>1. CASE q = p
        <5>1. timesCache'[q] = [time |-> v, at |-> clock]
          BY <1>0, <2>2, <3>0, <4>1 DEF PlanTypes
        <5>2. HadTime(p, v, clock, PoolCacheTTL)
          BY <3>0, TimesGiven
        <5> QED BY <1>0, <4>1, <5>1, <5>2
      <4>2. CASE q # p
        <5>1. timesCache'[q] = timesCache[q]
          BY <1>0, <2>2, <4>2 DEF PlanTypes
        <5> QED BY <1>0, <3>1, <5>1 DEF TimesSound
      <4> QED BY <4>1, <4>2
    <3> QED BY <1>6, <3>1 DEF TimesSound, HadTime
  <2> QED BY <1>6, <2>1, <2>2 DEF TimesStored
<1>13. PlanTypes'
  <2>1. DOMAIN repoCache' = PoolIds /\ DOMAIN timesCache' = PoolIds
    BY <1>0, <1>6 DEF PlanTypes, TimesStored
  <2>2. DOMAIN affinity' = Clients /\ DOMAIN call' = PlanWorkers
    BY <1>0, <1>6 DEF PlanTypes, Evicted
  <2> QED BY <1>0, <1>6, <2>1, <2>2 DEF PlanTypes
<1>14. ASSUME NEW v \in PlanWorkers PROVE CallSound(v)'
  <2>1. CASE v # w
    <3>1. call'[v] = call[v]
      BY <1>0, <1>6, <2>1 DEF PlanTypes
    <3> QED BY <1>0, <1>7, <3>1, CallStays
  <2>2. CASE v = w
    <3>1. PICK time : time = applyPoolLeaseTimes(p)
      OBVIOUS
    <3>2. call'[w] = [at |-> "lease", client |-> c, pool |-> p,
                      from |-> plan.from, time |-> time, planned |-> clock]
      BY <1>0, <1>6, <3>1 DEF PlanTypes
    <3>3. HadTime(p, time, clock, PoolTimesTTL + PoolCacheTTL)
      BY <3>1, TimesGiven
    <3>4. plan.from = "affinity" => GrantedSince(c, p, clock - AffinityTTL)
      <4> SUFFICES ASSUME plan.from = "affinity" PROVE GrantedSince(c, p, clock - AffinityTTL)
        OBVIOUS
      <4>1. Known(affinity[c]) /\ clock <= affinity[c].at + AffinityTTL /\ p = affinity[c].pool
        BY <1>4, <1>5, PlanPool
      <4>2. affinity[c].at \in 0..clock /\ GrantedSince(c, p, affinity[c].at)
        BY <1>0, <4>1 DEF AffinitySound
      <4>3. <<c, p>> \in Clients \X PoolIds /\ Known(granted[<<c, p>>])
        BY <4>2 DEF GrantedSince
      <4>4. granted[<<c, p>>].at \in 0..clock
        BY <1>0, <4>3 DEF GrantedSound
      <4> QED BY <1>0, <4>1, <4>2, <4>3, <4>4 DEF GrantedSince
    <3>5. clock \in 0..clock
      BY <1>0
    <3> QED BY <1>6, <2>2, <3>2, <3>3, <3>4, <3>5 DEF CallSound, HadTime, GrantedSince
  <2> QED BY <2>1, <2>2
<1> QED BY <1>9, <1>10, <1>11, <1>12, <1>13, <1>14 DEF PlanInv

\* The relay's secret: no table and no cache is touched.
LEMMA SecretKept ==
  ASSUME PlanAssumption, PlanInv, NEW w \in PlanWorkers,
         (\E c \in Clients, g \in Relays : verifySecret(w, c, g)) \/ Authorize(w)
  PROVE  PlanInv'
<1>0. /\ PlanTypes /\ RowsKnown /\ RepoSound /\ TimesSound /\ GrantedSound /\ AffinitySound
      /\ \A v \in PlanWorkers : CallSound(v)
  BY DEF PlanInv
<1>1. UNCHANGED <<clock, row, had, repoCache, timesCache, affinity, granted, decision>>
  BY DEF verifySecret, Authorize
<1>2. \/ UNCHANGED call
      \/ \E e \in [at : {"store", "plan"}, client : Clients, relay : Relays] :
           call' = [call EXCEPT ![w] = e]
  <2>1. ASSUME NEW c \in Clients, NEW g \in Relays, verifySecret(w, c, g)
        PROVE  UNCHANGED call \/ \E e \in [at : {"store", "plan"}, client : Clients, relay : Relays] :
                                   call' = [call EXCEPT ![w] = e]
    <3>1. [at |-> "store", client |-> c, relay |-> g]
             \in [at : {"store", "plan"}, client : Clients, relay : Relays]
      OBVIOUS
    <3> QED BY <2>1, <3>1 DEF verifySecret
  <2>2. CASE Authorize(w)
    <3>1. call[w] \in [at : {"store", "plan"}, client : Clients, relay : Relays]
      BY <1>0, <2>2 DEF Authorize, CallSound
    <3>2. [call[w] EXCEPT !.at = "plan"] \in [at : {"store", "plan"}, client : Clients, relay : Relays]
      BY <3>1
    <3>3. call' = [call EXCEPT ![w] = [call[w] EXCEPT !.at = "plan"]]
      BY <2>2 DEF Authorize
    <3> QED BY <3>2, <3>3
  <2> QED BY <2>1, <2>2
<1>3. Grows /\ GrantsGrow
  BY <1>0, <1>1 DEF Grows, GrantsGrow, GrantedSound, PlanTypes
<1>4. DOMAIN call' = PlanWorkers
  BY <1>0, <1>2 DEF PlanTypes
<1>5. ASSUME NEW v \in PlanWorkers PROVE CallSound(v)'
  <2>1. CASE call'[v] = call[v]
    BY <1>0, <1>3, <2>1, CallStays
  <2>2. CASE call'[v] # call[v]
    <3>1. PICK e \in [at : {"store", "plan"}, client : Clients, relay : Relays] :
            call' = [call EXCEPT ![w] = e]
      BY <1>2, <2>2
    <3>2. call'[v] = e
      BY <1>0, <2>2, <3>1 DEF PlanTypes
    <3>3. e.at \in {"store", "plan"}
      BY <3>1
    <3> QED BY <3>1, <3>2, <3>3 DEF CallSound
  <2> QED BY <2>1, <2>2
<1>6. PlanTypes' /\ RowsKnown' /\ GrantedSound'
  BY <1>0, <1>1, <1>4 DEF PlanTypes, RowsKnown, GrantedSound
<1>7. RepoSound' /\ TimesSound' /\ AffinitySound'
  BY <1>0, <1>1, <1>3, RepoStays, TimesStay, AffinityStays
<1> QED BY <1>5, <1>6, <1>7 DEF PlanInv

\* A lease is granted, and where it was granted is remembered.
LEMMA RememberedKept ==
  ASSUME PlanAssumption, PlanInv, NEW w \in PlanWorkers, rememberMobilityAffinity(w)
  PROVE  PlanInv'
<1>0. /\ PlanTypes /\ RowsKnown /\ RepoSound /\ TimesSound /\ GrantedSound /\ AffinitySound
      /\ clock \in Nat /\ \A v \in PlanWorkers : CallSound(v)
  BY DEF PlanInv, PlanTypes
<1>1. /\ UNCHANGED <<clock, row, had, repoCache, timesCache, decision>>
      /\ call' = [call EXCEPT ![w] = [at |-> "idle"]]
      /\ call[w].client \in Clients /\ call[w].pool \in PoolIds
  BY <1>0 DEF rememberMobilityAffinity, NoCall, CallSound
<1>2. PICK c \in Clients : c = call[w].client
  BY <1>1
<1>3. \/ UNCHANGED <<affinity, granted>>
      \/ \E p \in PoolIds : /\ affinity' = [affinity EXCEPT ![c] = [pool |-> p, at |-> clock]]
                            /\ granted' = [granted EXCEPT ![<<c, p>>] = [at |-> clock]]
  BY <1>1, <1>2 DEF rememberMobilityAffinity
<1>4. Grows
  BY <1>0, <1>1 DEF Grows
<1>5. GrantsGrow /\ GrantedSound' /\ AffinitySound' /\ DOMAIN affinity' = Clients
      /\ DOMAIN granted' = Clients \X PoolIds
  <2>1. CASE UNCHANGED <<affinity, granted>>
    <3>1. GrantsGrow /\ GrantedSound'
      BY <1>0, <1>1, <2>1 DEF GrantsGrow, GrantedSound
    <3> QED BY <1>0, <1>4, <2>1, <3>1, AffinityStays DEF PlanTypes
  <2>2. ASSUME NEW p \in PoolIds, affinity' = [affinity EXCEPT ![c] = [pool |-> p, at |-> clock]],
               granted' = [granted EXCEPT ![<<c, p>>] = [at |-> clock]]
        PROVE  GrantsGrow /\ GrantedSound' /\ AffinitySound' /\ DOMAIN affinity' = Clients
               /\ DOMAIN granted' = Clients \X PoolIds
    <3>1. PICK x \in Clients \X PoolIds : x = <<c, p>>
      OBVIOUS
    <3>2. \A y \in Clients \X PoolIds : granted'[y] = IF y = x THEN [at |-> clock] ELSE granted[y]
      BY <1>0, <2>2, <3>1 DEF PlanTypes
    <3>3. Known([at |-> clock]) /\ Known([pool |-> p, at |-> clock])
      BY EntriesKnown
    <3>4. GrantedSound'
      <4>1. ASSUME NEW y \in Clients \X PoolIds, Known(granted'[y]) PROVE granted'[y].at \in 0..clock
        BY <1>0, <3>2, <4>1 DEF GrantedSound
      <4> QED BY <1>1, <4>1 DEF GrantedSound, Known, Nothing
    <3>5. GrantsGrow
      <4> SUFFICES ASSUME NEW y \in Clients \X PoolIds, Known(granted[y])
                   PROVE  Known(granted'[y]) /\ granted[y].at \in Int /\ granted'[y].at \in Int
                          /\ granted'[y].at >= granted[y].at
        BY DEF GrantsGrow, Known, Nothing
      <4>1. granted[y].at \in 0..clock
        BY <1>0 DEF GrantedSound
      <4> QED BY <1>0, <3>2, <3>3, <4>1
    <3>6. AffinitySound'
      <4> SUFFICES ASSUME NEW d \in Clients, Known(affinity'[d])
                   PROVE  /\ affinity'[d].pool \in PoolIds /\ affinity'[d].at \in 0..clock
                          /\ GrantedSince(d, affinity[d].pool, affinity[d].at)'
        BY <1>1 DEF AffinitySound, Known, Nothing
      <4>1. CASE d = c
        <5>1. affinity'[d] = [pool |-> p, at |-> clock]
          BY <1>0, <2>2, <4>1 DEF PlanTypes
        <5>2. granted'[<<c, p>>] = [at |-> clock]
          BY <3>1, <3>2
        <5> QED BY <1>0, <1>1, <3>3, <4>1, <5>1, <5>2 DEF GrantedSince
      <4>2. CASE d # c
        <5>1. PICK e : e = affinity[d]
          OBVIOUS
        <5>2. affinity'[d] = e
          BY <1>0, <2>2, <4>2, <5>1 DEF PlanTypes
        <5>3. e.pool \in PoolIds /\ e.at \in 0..clock /\ GrantedSince(d, e.pool, e.at)
          BY <1>0, <5>1, <5>2 DEF AffinitySound
        <5>4. GrantedSince(d, e.pool, e.at)'
          BY <3>5, <5>3, SinceStays
        <5> QED BY <5>2, <5>3, <5>4 DEF GrantedSince
      <4> QED BY <4>1, <4>2
    <3> QED BY <1>0, <2>2, <3>4, <3>5, <3>6 DEF PlanTypes
  <2> QED BY <1>3, <2>1, <2>2
<1>6. PlanTypes' /\ RowsKnown'
  BY <1>0, <1>1, <1>5 DEF PlanTypes, RowsKnown
<1>7. RepoSound' /\ TimesSound'
  BY <1>0, <1>1, <1>4, RepoStays, TimesStay
<1>8. ASSUME NEW v \in PlanWorkers PROVE CallSound(v)'
  <2>1. CASE v # w
    <3>1. call'[v] = call[v]
      BY <1>0, <1>1, <2>1 DEF PlanTypes
    <3> QED BY <1>0, <1>4, <1>5, <3>1, CallStays
  <2>2. CASE v = w
    <3>1. call'[v] = [at |-> "idle"]
      BY <1>0, <1>1, <2>2 DEF PlanTypes
    <3> QED BY <3>1 DEF CallSound
  <2> QED BY <2>1, <2>2
<1> QED BY <1>5, <1>6, <1>7, <1>8 DEF PlanInv

\* A pool is edited, a policy changes, time passes.
LEMMA WorldKept ==
  ASSUME PlanAssumption, PlanInv,
         \/ \E p \in PoolIds, t \in Times, here \in BOOLEAN : UpdatePool(p, t, here)
         \/ ChangePolicy \/ PlanTick
  PROVE  PlanInv'
<1>0. /\ PlanTypes /\ RowsKnown /\ RepoSound /\ TimesSound /\ GrantedSound /\ AffinitySound
      /\ clock \in Nat /\ \A v \in PlanWorkers : CallSound(v)
  BY DEF PlanInv, PlanTypes
<1>1. UNCHANGED <<timesCache, affinity, granted, call>>
  BY DEF UpdatePool, ChangePolicy, PlanTick
<1>2. GrantsGrow
  BY <1>0, <1>1 DEF GrantsGrow, GrantedSound
<1>3. /\ Grows /\ RowsKnown' /\ PlanTypes'
      /\ \A q \in PoolIds : repoCache'[q] = repoCache[q] \/ repoCache'[q] = Nothing
  <2>1. ASSUME NEW p \in PoolIds, NEW t \in Times, NEW here \in BOOLEAN, UpdatePool(p, t, here)
        PROVE  /\ Grows /\ RowsKnown' /\ PlanTypes'
               /\ \A q \in PoolIds : repoCache'[q] = repoCache[q] \/ repoCache'[q] = Nothing
    <3>1. /\ row' = [row EXCEPT ![p] = t] /\ clock' = clock /\ decision' = decision
          /\ had' = [had EXCEPT ![clock] = had[clock] \union {<<p, t>>}]
          /\ repoCache' = repoCache \/ repoCache' = [repoCache EXCEPT ![p] = Nothing]
      BY <2>1 DEF UpdatePool
    <3>2. \A i \in 0..MaxClock : had[i] \subseteq had'[i]
      BY <1>0, <3>1 DEF PlanTypes
    <3>3. Grows
      BY <1>0, <3>1, <3>2 DEF Grows, PlanTypes, PlanAssumption
    <3>4. RowsKnown'
      BY <1>0, <3>1 DEF RowsKnown, PlanTypes
    <3>5. PlanTypes'
      BY <1>0, <1>1, <3>1 DEF PlanTypes
    <3> QED BY <1>0, <3>1, <3>3, <3>4, <3>5 DEF PlanTypes
  <2>2. CASE ChangePolicy
    BY <1>0, <1>1, <2>2 DEF ChangePolicy, Grows, RowsKnown, PlanTypes
  <2>3. CASE PlanTick
    <3>1. /\ clock < MaxClock /\ clock' = clock + 1 /\ UNCHANGED <<row, repoCache, decision>>
          /\ had' = [had EXCEPT ![clock + 1] = {<<p, row[p]>> : p \in PoolIds}]
      BY <2>3 DEF PlanTick
    <3>2. clock + 1 \in 0..MaxClock
      BY <1>0, <3>1, PlanAssumption
    <3>3. Grows
      BY <1>0, <3>1 DEF Grows, PlanTypes
    <3>4. RowsKnown'
      BY <1>0, <3>1, <3>2 DEF RowsKnown, PlanTypes
    <3>5. PlanTypes'
      BY <1>0, <1>1, <3>1, <3>2 DEF PlanTypes
    <3> QED BY <3>1, <3>3, <3>4, <3>5
  <2> QED BY <2>1, <2>2, <2>3
<1>4. RepoSound' /\ TimesSound' /\ AffinitySound'
  BY <1>0, <1>1, <1>2, <1>3, RepoStays, TimesStay, AffinityStays
<1>5. GrantedSound'
  BY <1>0, <1>1, <1>3 DEF GrantedSound, Grows
<1>6. \A v \in PlanWorkers : CallSound(v)'
  BY <1>0, <1>1, <1>2, <1>3, CallStays
<1> QED BY <1>3, <1>4, <1>5, <1>6 DEF PlanInv

(* The plan of a request is never older than its caches allow, for any workers,
   clients, pools, relays, policies and edits on this node or another: the lease
   time is one the pool's row had within the two cache lifetimes together, and a
   remembered pool is one where the client was granted a lease within the
   affinity's lifetime (dhcpv4/handler.go leasePlan, applyPoolLeaseTimes;
   mobility/affinity.go). *)
THEOREM PlansFresh == PlanSpec => []PlanFresh
<1>1. PlanInit => PlanInv
  <2> SUFFICES ASSUME PlanInit PROVE PlanInv
    OBVIOUS
  <2>1. PICK t \in Times : row = [p \in PoolIds |-> t]
    BY DEF PlanInit
  <2>2. /\ \A p \in PoolIds : repoCache[p] = Nothing /\ timesCache[p] = Nothing
        /\ \A c \in Clients : affinity[c] = Nothing
        /\ \A x \in Clients \X PoolIds : granted[x] = Nothing
        /\ \A w \in PlanWorkers : call[w] = [at |-> "idle"]
    BY DEF PlanInit, NoCall
  <2>3. PlanTypes
    <3>1. 0 \in 0..MaxClock
      BY PlanAssumption
    <3>2. [kind |-> "none", pool |-> NoPool] \in Decisions
      BY DEF Decisions
    <3> QED BY <2>1, <3>1, <3>2 DEF PlanInit, PlanTypes
  <2>4. RowsKnown
    <3>1. 0 \in 0..MaxClock
      BY PlanAssumption
    <3> QED BY <3>1 DEF PlanInit, RowsKnown
  <2>5. \A w \in PlanWorkers : CallSound(w)
    BY <2>2 DEF CallSound
  <2> QED BY <2>2, <2>3, <2>4, <2>5
          DEF PlanInv, RepoSound, TimesSound, GrantedSound, AffinitySound, Known
<1>2. PlanInv /\ [PlanNext]_planVars => PlanInv'
  <2> SUFFICES ASSUME PlanInv, [PlanNext]_planVars PROVE PlanInv'
    OBVIOUS
  <2>1. CASE UNCHANGED planVars
    BY <2>1 DEF planVars, PlanInv, PlanTypes, RowsKnown, RepoSound, TimesSound, GrantedSound,
                AffinitySound, CallSound, HadTime, GrantedSince
  <2>2. CASE PlanNext
    BY <2>2, PlanAssumption, SecretKept, PlannedKept, RememberedKept, WorldKept DEF PlanNext
  <2> QED BY <2>1, <2>2
<1>3. PlanInv => PlanFresh
  <2> SUFFICES ASSUME PlanInv, NEW w \in PlanWorkers, call[w].at = "lease"
               PROVE  /\ \E t \in 0..call[w].planned :
                           /\ call[w].planned - t < PoolTimesTTL + PoolCacheTTL
                           /\ <<call[w].pool, call[w].time>> \in had[t]
                      /\ call[w].from = "affinity" =>
                           /\ Known(granted[<<call[w].client, call[w].pool>>])
                           /\ call[w].planned - granted[<<call[w].client, call[w].pool>>].at
                                <= AffinityTTL
    BY DEF PlanFresh
  <2>1. CallSound(w) /\ GrantedSound /\ clock \in Nat
    BY DEF PlanInv, PlanTypes
  <2>2. PICK c \in Clients, p \in PoolIds : c = call[w].client /\ p = call[w].pool
    BY <2>1 DEF CallSound
  <2>3. call[w].from = "affinity" => GrantedSince(c, p, call[w].planned - AffinityTTL)
    BY <2>1, <2>2 DEF CallSound
  <2>4. Known(granted[<<c, p>>]) => granted[<<c, p>>].at \in 0..clock
    BY <2>1 DEF GrantedSound
  <2>5. call[w].planned \in Nat /\ AffinityTTL \in Nat
    BY <2>1, PlanAssumption DEF CallSound
  <2>6. call[w].from = "affinity" =>
          Known(granted[<<c, p>>]) /\ call[w].planned - granted[<<c, p>>].at <= AffinityTTL
    BY <2>3, <2>4, <2>5 DEF GrantedSince
  <2> QED BY <2>1, <2>2, <2>6 DEF CallSound, HadTime
<1> QED BY <1>1, <1>2, <1>3, PTL DEF PlanSpec
=============================================================================
