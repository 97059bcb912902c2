---------------------------- MODULE ClusterControl ----------------------------
(***************************************************************************)
(* The cluster control plane (internal/server/cluster_control_routes.go,   *)
(* the node routes of feature_routes.go and the member routes of           *)
(* ha_routes.go): the control plane and its members with their tokens, the *)
(* nodes an administrator manages, the HA partner in the server's          *)
(* configuration and in the failover manager, one join job per node, and   *)
(* what of this is in the configuration store.                             *)
(*                                                                         *)
(* Requests of administrators are taken one after the other; the steps of  *)
(* heartbeats, join jobs, failed writes and restarts come in between.      *)
(* Module ClusterJoin is about the inside of a join job.                   *)
(***************************************************************************)
EXTENDS Integers, FiniteSets

CONSTANTS
  CNodes,          \* nodes other than this one
  MaxIssued,       \* bound: node tokens issued
  MaxCtlTrouble    \* bound: failed writes and restarts together

ASSUME ControlAssumption == MaxIssued \in Nat /\ MaxCtlTrouble \in Nat

VARIABLES
  ctl,         \* what the server has in memory
  ctlStored,   \* what the store has: the same record
  manager,     \* failover manager: dynamicNodes and partner; starts empty
  issued,      \* history: tokens issued
  held,        \* per node: the token it was given last
  belongs,     \* history: nodes that joined this cluster and have not left it
  beats,       \* per node: its heartbeat under way, and the members it copied
  revived,     \* history: nodes not belonging that a late heartbeat put back in the store
  executing,   \* the command a request has queued and is about to execute
  watched,     \* the cluster's alert rules are in the rule table
  ctlFaults, ctlRestarts

ctlVars == <<ctl, ctlStored, manager, issued, held, belongs, beats, revived, executing, watched,
             ctlFaults, ctlRestarts>>

NoNode == "none"
NoCommand == [type |-> "none", node |-> NoNode]
NoMembers == [n \in CNodes |-> 0]
NoBeat == [at |-> "idle", copy |-> NoMembers]

\* A managed node: its role; "off" is a disabled standby.
Roles == {"active", "standby", "off"}

Blank == [init |-> FALSE,
          members |-> NoMembers,                   \* clusterControlMembers: token, 0 for none
          nodes |-> [n \in CNodes |-> "none"],    \* clusterNodes: role, "none" for no node
          partner |-> NoNode,                     \* Partner of the HA configuration
          jobs |-> [n \in CNodes |-> "none"],     \* newest join job: status, and
          runs |-> {},                            \* nodes whose job has a pipeline
          cmd |-> "ended"]                        \* newest of clusterCommands: is it over

CtlInit ==
  /\ ctl = Blank /\ ctlStored = Blank
  /\ manager = [nodes |-> {}, partner |-> NoNode]
  /\ issued = 0
  /\ held = [n \in CNodes |-> 0]
  /\ belongs = {} /\ beats = [n \in CNodes |-> NoBeat] /\ revived = {}
  /\ executing = NoCommand /\ watched = FALSE
  /\ ctlFaults = 0 /\ ctlRestarts = 0

Members(c) == {n \in CNodes : c.members[n] # 0}

upsertClusterControlMember(c, n, token) == [c EXCEPT !.members[n] = token]
deleteClusterControlMember(c, n) == [c EXCEPT !.members[n] = 0]
replaceClusterControlMembers(c, tokens) == [c EXCEPT !.members = tokens]

\* A command is kept with its status: whether it failed is not told apart.
registerClusterCommand(c) == [c EXCEPT !.cmd = "queued"]
updateClusterCommand(c, status) == [c EXCEPT !.cmd = status]

ensureClusterOperationalAlertRules == watched' = TRUE
clearClusterOperationalAlertRules  == watched' = FALSE

-----------------------------------------------------------------------------
(* Writes.  Every part of the record is a key of the store.                *)

\* All writes of a request succeed, ...
Saved(keys) == ctlStored' = [k \in DOMAIN Blank |-> IF k \in keys THEN ctl'[k] ELSE ctlStored[k]]

\* ... or the first ones of keys, done before the one that fails.
SaveBreaks(done) ==
  /\ ctlFaults + ctlRestarts < MaxCtlTrouble
  /\ ctlFaults' = ctlFaults + 1
  /\ Saved(done)

AllSaved(keys) == Saved(keys) /\ UNCHANGED ctlFaults

-----------------------------------------------------------------------------
(* HA membership.                                                          *)

\* Manager.UpsertNode and Manager.RemoveNode.
UpsertNode(m, n, role) ==
  IF role = "active" THEN [m EXCEPT !.nodes = @ \cup {n}]
  ELSE IF role = "off" THEN [nodes |-> m.nodes \ {n}, partner |-> IF m.partner = n THEN NoNode ELSE m.partner]
  ELSE [nodes |-> m.nodes \cup {n}, partner |-> n]

RemoveNode(m, n) ==
  [nodes |-> m.nodes \ {n}, partner |-> IF n \in m.nodes /\ m.partner = n THEN NoNode ELSE m.partner]

\* reconcileHAConfigFromClusterNodes: the partner is the first enabled standby
\* of a map, which has no order.
Standbys(c) == {n \in CNodes : c.nodes[n] = "standby"}

reconcileHAConfigFromClusterNodes(c) ==
  IF Standbys(c) = {} THEN {[c EXCEPT !.partner = NoNode]}
  ELSE {[c EXCEPT !.partner = n] : n \in Standbys(c)}

\* syncSecondaryIntoHA: the host of the member's URL becomes the partner.
syncSecondaryIntoHA(c, n) == [c EXCEPT !.partner = n]

\* reconcileClusterSecondaryPartner: the remaining member that comes first, or
\* none, whatever nodes there are.
reconcileClusterSecondaryPartner(c) ==
  IF Members(c) = {} THEN {[c EXCEPT !.partner = NoNode]}
  ELSE {syncSecondaryIntoHA(c, n) : n \in Members(c)}

\* ensureJoinJobForNode: a pending job of the node is taken for a new one.
Pending(c, n) == c.jobs[n] = "pending"

ensureJoinJobForNode(c, n) ==
  IF Pending(c, n) THEN c ELSE [c EXCEPT !.jobs[n] = "pending", !.runs = @ \cup {n}]

enqueueNodeJoinIfNeeded(c, n) ==
  IF n \notin Standbys(c) THEN c ELSE ensureJoinJobForNode(c, n)

\* cancelNodeJoinJobs: the pipeline ends and leaves the job as it is.
cancelNodeJoinJobs(c, n) == [c EXCEPT !.runs = @ \ {n}]

-----------------------------------------------------------------------------
(* Cluster life cycle.                                                     *)

\* handleClusterInitialize: new tokens, this node the only member.
Initialized == replaceClusterControlMembers([ctl EXCEPT !.init = TRUE], NoMembers)

\* The members of the former cluster are kept.
handleClusterInitialize_Merges ==
  /\ ctl' = [ctl EXCEPT !.init = TRUE]
  /\ belongs' = {}
  /\ \/ AllSaved({"init", "members"}) /\ ensureClusterOperationalAlertRules
     \/ (SaveBreaks({}) \/ SaveBreaks({"init"})) /\ UNCHANGED watched
  /\ revived' = {}
  /\ UNCHANGED <<manager, issued, held, beats, executing, ctlRestarts>>

\* The first time, or forced.
handleClusterInitialize ==
  /\ ctl' = Initialized
  /\ belongs' = {}
  /\ \/ AllSaved({"init", "members"}) /\ ensureClusterOperationalAlertRules /\ revived' = {}
     \/ (SaveBreaks({}) \/ SaveBreaks({"init"})) /\ UNCHANGED <<watched, revived>>
  /\ UNCHANGED <<manager, issued, held, beats, executing, ctlRestarts>>

\* handleClusterJoin with a valid cluster token; a failed write ends it before
\* the node reaches the HA configuration and gets its token.
Joined(n) ==
  upsertClusterControlMember([ctl EXCEPT !.nodes[n] = "standby"], n, issued + 1)

handleClusterJoin(n) ==
  /\ ctl.init
  /\ issued < MaxIssued
  /\ issued' = issued + 1
  /\ belongs' = belongs \cup {n} /\ revived' = revived \ {n}
  /\ \/ /\ ctl' = ensureJoinJobForNode(syncSecondaryIntoHA(Joined(n), n), n)
        /\ manager' = UpsertNode(manager, n, "standby")
        /\ held' = [held EXCEPT ![n] = issued']
        /\ AllSaved({"members", "nodes", "partner", "jobs"})
     \/ /\ ctl' = Joined(n)
        /\ SaveBreaks({})
        /\ UNCHANGED <<manager, held>>
  /\ UNCHANGED <<beats, executing, watched, ctlRestarts>>

\* leaveClusterMemberLifecycle
Left(c, n) ==
  cancelNodeJoinJobs(deleteClusterControlMember([c EXCEPT !.nodes[n] = "none"], n), n)

\* The member's token is kept when it leaves.
leaveClusterMemberLifecycle_Keeps(n) ==
  /\ belongs' = belongs \ {n} /\ revived' = revived \ {n}
  /\ manager' = RemoveNode(manager, n)
  /\ ctl' \in {updateClusterCommand(c, "ended") :
               c \in reconcileClusterSecondaryPartner([Left(ctl, n) EXCEPT !.members[n] = ctl.members[n]])}
  /\ AllSaved({"nodes", "members", "partner", "cmd"})

\* The nodes, then the members are saved; when the second fails the command fails.
leaveClusterMemberLifecycle(n) ==
  /\ belongs' = belongs \ {n}
  /\ \/ /\ ctl' \in {updateClusterCommand(c, "ended") :
                      c \in reconcileClusterSecondaryPartner(Left(ctl, n))}
        /\ manager' = LET m == RemoveNode(manager, n) IN
             IF ctl'.partner = NoNode THEN m ELSE UpsertNode(m, ctl'.partner, "standby")
        /\ AllSaved({"nodes", "members", "partner", "cmd"}) /\ revived' = revived \ {n}
     \/ /\ ctl' = updateClusterCommand(Left(ctl, n), "ended")
        /\ manager' = RemoveNode(manager, n)
        /\ SaveBreaks({"nodes", "cmd"}) /\ UNCHANGED revived

\* A command is queued and saved; a failed save ends the request ...
Queue(type, n) ==
  /\ executing = NoCommand
  /\ ctl' = registerClusterCommand(ctl)
  /\ \/ AllSaved({"cmd"}) /\ executing' = [type |-> type, node |-> n]
     \/ SaveBreaks({}) /\ UNCHANGED executing
  /\ UNCHANGED <<manager, issued, held, belongs, beats, revived, watched, ctlRestarts>>

validateClusterCommandTarget(n) == ctl.members[n] # 0

handleClusterCommandCreate(n) ==
  /\ ctl.init /\ validateClusterCommandTarget(n)
  /\ \E type \in {"sync", "leave"} : Queue(type, n)

handleClusterMemberLeave(n) == ctl.members[n] # 0 /\ Queue("leave", n)

\* ... and executed by the same request: "sync" and "verify" are completed as they
\* are, a member leaves if it is still there.
executeClusterCommand ==
  /\ executing # NoCommand
  /\ executing' = NoCommand
  /\ LET n == executing.node IN
     \/ /\ executing.type = "leave" /\ ctl.members[n] # 0
        /\ leaveClusterMemberLifecycle(n)
     \/ /\ executing.type # "leave" \/ ctl.members[n] = 0
        /\ ctl' = updateClusterCommand(ctl, "ended")
        /\ AllSaved({"cmd"}) \/ SaveBreaks({})
        /\ UNCHANGED <<manager, belongs, revived>>
  /\ UNCHANGED <<issued, held, beats, watched, ctlRestarts>>

\* deleteClusterLifecycle, forced if there are members: every member leaves,
\* then everything is cleared.
RemoveNodes(m, ns) ==
  [nodes |-> m.nodes \ ns, partner |-> IF m.partner \in ns \cap m.nodes THEN NoNode ELSE m.partner]

handleClusterDelete ==
  /\ ctl.init
  /\ ctl' = Blank
  /\ manager' = RemoveNodes(manager, Members(ctl))
  /\ belongs' = {}
  /\ \/ AllSaved(DOMAIN Blank) /\ clearClusterOperationalAlertRules /\ revived' = {}
     \/ /\ \/ SaveBreaks({"partner"})
           \/ SaveBreaks({"partner", "init"})
           \/ SaveBreaks({"partner", "init", "members"})
        /\ UNCHANGED <<watched, revived>>
  /\ UNCHANGED <<issued, held, beats, executing, ctlRestarts>>

\* handleClusterState: a heartbeat.  touchClusterControlMember checks the token
\* under the members' lock; the members are copied under it later, and written
\* without it.  One heartbeat of a node is under way at a time.
Accepts(n) == ctl.init /\ ctl.members[n] # 0 /\ ctl.members[n] = held[n]

beatUnchanged == UNCHANGED <<ctl, manager, issued, held, belongs, executing, watched, ctlRestarts>>

touchClusterControlMember(n) ==
  /\ beats[n] = NoBeat /\ Accepts(n)
  /\ beats' = [beats EXCEPT ![n].at = "touched"]
  /\ beatUnchanged /\ UNCHANGED <<ctlStored, ctlFaults, revived>>

snapshotClusterControlMembers(n) ==
  /\ beats[n].at = "touched"
  /\ beats' = [beats EXCEPT ![n] = [at |-> "copied", copy |-> ctl.members]]
  /\ beatUnchanged /\ UNCHANGED <<ctlStored, ctlFaults, revived>>

\* The copy is written, whatever has changed since; a failed write is answered so.
handleClusterState(n) ==
  /\ beats[n].at = "copied"
  /\ beats' = [beats EXCEPT ![n] = NoBeat]
  /\ \/ /\ ctlStored' = replaceClusterControlMembers(ctlStored, beats[n].copy)
        /\ revived' = revived \cup {m \in CNodes \ belongs : beats[n].copy[m] # 0}
        /\ UNCHANGED ctlFaults
     \/ SaveBreaks({}) /\ UNCHANGED revived
  /\ beatUnchanged

-----------------------------------------------------------------------------
(* Nodes.                                                                  *)

\* The end of handleClusterNodeCreate and handleClusterNodeUpdate.
WriteNode(n, role) ==
  /\ \E c \in reconcileHAConfigFromClusterNodes([ctl EXCEPT !.nodes[n] = role]) :
       ctl' = enqueueNodeJoinIfNeeded(c, n)
  /\ manager' = UpsertNode(manager, n, role)
  /\ AllSaved({"nodes", "partner", "jobs"})
  /\ UNCHANGED <<issued, held, belongs, beats, revived, executing, watched, ctlRestarts>>

\* An existing node is written over.
handleClusterNodeCreate(n) == \E role \in {"active", "standby"} : WriteNode(n, role)

handleClusterNodeUpdate(n) == ctl.nodes[n] # "none" /\ \E role \in Roles : WriteNode(n, role)

\* handleClusterNodeDelete, and handleHAMemberRemove with the same effect.
handleClusterNodeDelete(n) ==
  /\ ctl.nodes[n] # "none"
  /\ \E c \in reconcileHAConfigFromClusterNodes([ctl EXCEPT !.nodes[n] = "none"]) :
       ctl' = cancelNodeJoinJobs(c, n)
  /\ manager' = RemoveNode(manager, n)
  /\ AllSaved({"nodes", "partner"})
  /\ UNCHANGED <<issued, held, belongs, beats, revived, executing, watched, ctlRestarts>>

\* handleHAMemberUpsert with syncClusterNodeFromHAMember: no join job.
handleHAMemberUpsert(n) ==
  /\ \E role \in Roles :
       /\ ctl' \in reconcileHAConfigFromClusterNodes([ctl EXCEPT !.nodes[n] = role])
       /\ manager' = UpsertNode(manager, n, role)
  /\ AllSaved({"nodes", "partner"})
  /\ UNCHANGED <<issued, held, belongs, beats, revived, executing, watched, ctlRestarts>>

-----------------------------------------------------------------------------
(* Join jobs and restarts.                                                 *)

\* A pipeline ends, with the node warm or the job failed.
JobEnds(n) ==
  /\ n \in ctl.runs
  /\ ctl' = [ctl EXCEPT !.jobs[n] = "ended", !.runs = @ \ {n}]
  /\ AllSaved({"jobs"})
  /\ UNCHANGED <<manager, issued, held, belongs, beats, revived, executing, watched, ctlRestarts>>

\* restoreClusterCommands: a command that was queued is kept and never executed.
restoreClusterCommands(c) == updateClusterCommand(c, ctlStored.cmd)

\* restoreClusterConfigs: pending jobs are resumed.
CtlRestart ==
  /\ ctlFaults + ctlRestarts < MaxCtlTrouble
  /\ ctlRestarts' = ctlRestarts + 1
  /\ ctl' = restoreClusterCommands([ctlStored EXCEPT !.runs = {n \in CNodes : Pending(ctlStored, n)}])
  /\ executing' = NoCommand /\ beats' = [n \in CNodes |-> NoBeat]
  /\ manager' = [nodes |-> {}, partner |-> ctlStored.partner]
  /\ UNCHANGED <<ctlStored, issued, held, belongs, revived, watched, ctlFaults>>

MemberRequests ==
  \/ handleClusterInitialize \/ handleClusterDelete \/ executeClusterCommand
  \/ \E n \in CNodes :
       handleClusterJoin(n) \/ handleClusterMemberLeave(n) \/ handleClusterCommandCreate(n)

NodeRequests ==
  \E n \in CNodes :
    \/ handleClusterNodeCreate(n) \/ handleClusterNodeUpdate(n) \/ handleClusterNodeDelete(n)
    \/ handleHAMemberUpsert(n)

Heartbeats ==
  \E n \in CNodes :
    touchClusterControlMember(n) \/ snapshotClusterControlMembers(n) \/ handleClusterState(n)

JobsAndRestarts == CtlRestart \/ \E n \in CNodes : JobEnds(n)

CtlNext == MemberRequests \/ NodeRequests \/ Heartbeats \/ JobsAndRestarts

CtlSpec == CtlInit /\ [][CtlNext]_ctlVars

-----------------------------------------------------------------------------
(* Properties.                                                             *)

\* A node whose heartbeat is accepted has joined the present cluster and has
\* not left it, unless a write failed before the server was restarted or a
\* heartbeat that copied the members before the node left wrote them back after.
TokenSound ==
  (ctlFaults = 0 \/ ctlRestarts = 0) =>
    \A n \in CNodes : Accepts(n) /\ n \notin revived => n \in belongs

=============================================================================
