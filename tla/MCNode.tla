------------------------------- MODULE MCNode -----------------------------
(***************************************************************************)
(* Model values for a node: Failover, HARuntime and DhcpV4Server.  A       *)
(* behaviour is about one scene, chosen at the start: the manager with     *)
(* manual failback, whose coordinators move their grant and whose operator *)
(* intervenes; the manager with automatic failback and a partner that      *)
(* fails and answers again, while the coordinators stay silent; the role   *)
(* listeners; the replication stream; the DHCPv4 listeners and workers;    *)
(* the plan of a DHCPv4 request.                                           *)
(***************************************************************************)
EXTENDS Failover, HARuntime, DhcpV4Server

CONSTANTS p1, p2

VARIABLE scene   \* "manual", "partner", "run", "repl", "serve" or "plan"

v4Vars == <<serveVars, planVars>>
mcVars == <<vars, runtimeVars, replVars, v4Vars, scene>>

-----------------------------------------------------------------------------
(* DHCPv4: five kinds of traffic, and relays with rules that overlap.      *)

MCDatagrams == 1..3

Direct  == [parses |-> TRUE, type |-> "request", mac |-> "m1", relayed |-> FALSE,
            listed |-> FALSE, option82 |-> "none", relay |-> "k0", trusted |-> TRUE,
            broadcast |-> FALSE, ciaddr |-> FALSE]
Relayed == [Direct EXCEPT !.relayed = TRUE, !.listed = TRUE, !.option82 = "ok", !.relay = "k1"]

MCTraffic == {
  <<Relayed, Direct, [Direct EXCEPT !.type = "discover", !.broadcast = TRUE]>>,
  <<[Direct EXCEPT !.parses = FALSE], [Direct EXCEPT !.type = "release", !.ciaddr = TRUE]>>,
  <<[Relayed EXCEPT !.option82 = "bad"], [Direct EXCEPT !.type = "decline"]>>,
  <<[Relayed EXCEPT !.relay = "k2"], [Direct EXCEPT !.type = "bootp"]>>,
  <<[Relayed EXCEPT !.trusted = FALSE], [Direct EXCEPT !.type = "other", !.mac = "m2"]>>}

\* Relay key k1 belongs to this node, k2 to the other one.
MCRing == <<"n1", "n1", "n2">>
MCHash == [k0 |-> -1, k1 |-> 4, k2 |-> 5]

MCRelays == {[giaddr |-> "g1", vrf |-> "", vpn |-> "v1", vlan |-> 7, region |-> "r1", dc |-> ""]}
OtherPool == CHOOSE p \in PoolIds : p # DefaultPool
MCSelection ==
  [enabled |-> TRUE,
   giaddrRules |-> <<[match |-> [giaddr |-> "g2"], pool |-> DefaultPool]>>,
   vrfRules |-> <<>>,
   vpnRules |-> <<[match |-> [vpn |-> "v2"], pool |-> DefaultPool]>>,
   vlanPools |-> <<>>,
   rules |-> <<[match |-> [giaddr |-> "g1", region |-> "r1"], pool |-> OtherPool],
               [match |-> [region |-> "r1"], pool |-> DefaultPool]>>,
   regions |-> [r1 |-> DefaultPool], default |-> NoPool]

-----------------------------------------------------------------------------
Partner == INSTANCE Failover WITH
  FailbackMode <- "auto", GrantsMove <- FALSE, Probing <- TRUE, MayFlap <- TRUE,
  MaxOps <- 0, MaxTime <- 3

\* A node whose replicator has not been started.
ReplRests ==
  /\ repl = "off" /\ streaming = FALSE /\ stop = "no" /\ faults = 0
  /\ telemetry = [healthy |-> TRUE, state |-> "starting"] /\ observed = telemetry

MCInit ==
  /\ scene \in {"manual", "partner", "run", "repl", "serve", "plan"}
  /\ Init /\ RuntimeInit
  /\ IF scene = "repl" THEN ReplInit ELSE ReplRests
  /\ scene # "manual" => grant = [c \in Coords |-> None]
  /\ ServeInit /\ PlanInit
  /\ scene # "serve" => feature = CHOOSE f \in Traffic : TRUE
  /\ \A p \in PoolIds : row[p] = 1
  /\ scene # "run" => ~vip /\ dns = "unknown" /\ registry = "unknown"

\* The goroutines of one node.
LoopRuns(n)  == (scene = "manual" /\ LoopStep(n)) \/ (scene = "partner" /\ Partner!LoopStep(n))
ApiRuns(n)   == scene = "manual" /\ ApiSetRole(n)
ProbeRuns(n) == scene = "partner" /\ Partner!ProbeStep(n)
PollRuns(n, c) == scene = "manual" /\ Poll(n, c)
TimePasses   == (scene = "manual" /\ Tick) \/ (scene = "partner" /\ Partner!Tick)

MCNext ==
  /\ UNCHANGED scene
  /\ \/ scene = "manual" /\ Next /\ UNCHANGED <<runtimeVars, replVars, v4Vars>>
     \/ /\ scene = "partner" /\ UNCHANGED <<runtimeVars, replVars, v4Vars>>
        /\ \/ \E n \in Nodes : Partner!LoopStep(n) \/ Partner!ProbeStep(n) \/ Partner!Flap(n)
           \/ Partner!Tick
     \/ scene = "run" /\ RuntimeNext /\ UNCHANGED <<vars, replVars, v4Vars>>
     \/ scene = "repl" /\ ReplNext /\ UNCHANGED <<vars, runtimeVars, v4Vars>>
     \/ /\ UNCHANGED <<vars, runtimeVars, replVars>>
        /\ \/ scene = "serve" /\ ServeNext /\ UNCHANGED planVars
           \/ scene = "plan" /\ PlanNext /\ UNCHANGED serveVars

\* Each scene is fair to its own goroutines, as Fairness, RuntimeFairness,
\* ReplFairness and ServeFairness are; the last asks for nothing at rest.
MCSpec ==
  /\ MCInit /\ [][MCNext]_mcVars
  /\ \A n \in Nodes : WF_vars(LoopRuns(n)) /\ WF_vars(ApiRuns(n)) /\ WF_vars(ProbeRuns(n))
  /\ \A n \in Nodes, c \in Coords : WF_vars(PollRuns(n, c))
  /\ WF_vars(TimePasses)
  /\ RuntimeFairness
  /\ ReplFairness
  /\ ServeFairness

\* Failover's liveness, of the scenes in which its goroutines run.
\* A node that has lost its coordinators for good ends up in standby.
BlindStands == scene = "manual" => BlindStandby

\* A partner that answers from some time on is seen as normal again and again.
PeerReturns == scene = "partner" => PeerRecovered
=============================================================================
