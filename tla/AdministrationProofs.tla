------------------------ MODULE AdministrationProofs ------------------------
(***************************************************************************)
(* Proofs about the components the HTTP API administers: the coordinators' *)
(* vote (Coordinators), the collaboration hub (CollabHub), the tokens of   *)
(* cluster members (ClusterControl), the directory of users (Directory),   *)
(* login and passwords (Login), the security store with its audit trail    *)
(* (AccessSecurity), address pools and their imports (Pools, PoolRoutes),  *)
(* option templates (DhcpOptions), notification settings (Notifications)   *)
(* and the registry of devices (IotRegistry).  Each is a specification of  *)
(* its own.                                                                *)
(***************************************************************************)
EXTENDS MCAdministration, FiniteSetTheorems, TLAPS

-----------------------------------------------------------------------------
(* Coordinators: a node that has whole answers counts only the votes of    *)
(* coordinators that grant it the role, and a coordinator grants one node. *)

CoordInv ==
  /\ CoordTypeOK
  /\ \A n \in Nodes, c \in Coords :
       /\ storing[n][c] = TRUE => grant[c] = n
       /\ storing[n][c] = None /\ healthy[n][c] /\ allow[n][c] => grant[c] = n

LEMMA CoordInvariant == CoordSpec => []CoordInv
<1> USE CoordAssumption DEF CoordAssumption, CoordInv, CoordTypeOK
<1>1. ASSUME CoordInit PROVE CoordInv
  <2>1. CoordTypeOK
    BY <1>1 DEF CoordInit
  <2>2. ASSUME NEW n \in Nodes, NEW c \in Coords
        PROVE  storing[n][c] = None /\ healthy[n][c] = FALSE
    BY <1>1 DEF CoordInit
  <2>3. None # TRUE
    OBVIOUS
  <2> QED
    BY <2>1, <2>2, <2>3 DEF CoordInv
<1>2. CoordInv /\ [CoordNext]_coordVars => CoordInv'
  <2> SUFFICES ASSUME CoordInv, [CoordNext]_coordVars PROVE CoordInv'
    OBVIOUS
  <2>1. ASSUME NEW n \in Nodes, NEW c \in Coords, StoreHealthy(n, c) PROVE CoordInv'
    <3>1. PICK a \in BOOLEAN :
            /\ healthy' = [healthy EXCEPT ![n][c] = a]
            /\ storing' = [storing EXCEPT ![n][c] = a /\ grant[c] = n]
      BY <2>1 DEF StoreHealthy
    <3>2. PICK b \in BOOLEAN : b = (a /\ grant[c] = n)
      OBVIOUS
    <3>3. /\ healthy' = [healthy EXCEPT ![n][c] = a]
          /\ storing' = [storing EXCEPT ![n][c] = b]
          /\ b = TRUE => grant[c] = n
          /\ grant' = grant /\ allow' = allow
      BY <2>1, <3>1, <3>2 DEF StoreHealthy
    <3> QED
      BY <3>3
  <2>2. ASSUME NEW n \in Nodes, NEW c \in Coords, StoreAllow(n, c) PROVE CoordInv'
    <3>1. /\ allow' = [allow EXCEPT ![n][c] = storing[n][c]]
          /\ storing' = [storing EXCEPT ![n][c] = None]
          /\ grant' = grant /\ healthy' = healthy
          /\ storing[n][c] \in BOOLEAN
      BY <2>2 DEF StoreAllow
    <3>2. CoordTypeOK'
      BY <3>1
    <3>3. ASSUME NEW k \in Nodes, NEW d \in Coords
          PROVE  /\ storing'[k][d] = TRUE => grant[d] = k
                 /\ storing'[k][d] = None /\ healthy[k][d] /\ allow'[k][d] => grant[d] = k
      <4>1. CASE k = n /\ d = c
        <5>1. storing'[k][d] = None /\ allow'[k][d] = storing[k][d]
          BY <3>1, <4>1
        <5> QED
          BY <4>1, <5>1, <3>1
      <4>2. CASE ~(k = n /\ d = c)
        <5>1. storing'[k][d] = storing[k][d] /\ allow'[k][d] = allow[k][d]
          BY <3>1, <4>2
        <5> QED
          BY <5>1
      <4> QED
        BY <4>1, <4>2
    <3> QED
      BY <3>1, <3>2, <3>3
  <2>3. CASE UNCHANGED coordVars
    BY <2>3 DEF coordVars
  <2> QED
    BY <2>1, <2>2, <2>3 DEF CoordNext
<1> QED
  BY <1>1, <1>2, PTL DEF CoordSpec

\* Two nodes cannot both have more than half of the votes they count, when each
\* counts more than half of at most three coordinators.
LEMMA VotesDisjoint ==
  ASSUME CoordInv, Coords # {}, Cardinality(Coords) <= 3,
         NEW n \in Nodes, NEW m \in Nodes, n # m, Settled(n), Settled(m),
         Healthy(n), Healthy(m), ShouldServePrimary(n), ShouldServePrimary(m)
  PROVE  FALSE
<1>f. IsFiniteSet(Coords)
  BY CoordAssumption DEF CoordAssumption
<1>1. ASSUME NEW k \in Nodes, Healthy(k), ShouldServePrimary(k)
      PROVE  /\ IsFiniteSet(PrimaryVotes(k)) /\ Cardinality(PrimaryVotes(k)) \in Nat
             /\ Cardinality(PrimaryVotes(k)) * 2 > Cardinality(HealthyCoords(k))
             /\ Cardinality(HealthyCoords(k)) \in Nat
             /\ Cardinality(HealthyCoords(k)) * 2 > Cardinality(Coords)
  <2>1. PrimaryVotes(k) \subseteq HealthyCoords(k) /\ HealthyCoords(k) \subseteq Coords
    BY DEF PrimaryVotes, HealthyCoords
  <2>2. /\ IsFiniteSet(HealthyCoords(k)) /\ IsFiniteSet(PrimaryVotes(k))
        /\ Cardinality(HealthyCoords(k)) \in Nat /\ Cardinality(PrimaryVotes(k)) \in Nat
        /\ Cardinality(Coords) \in Nat
    BY <1>f, <2>1, FS_Subset, FS_CardinalityType
  <2>3. Cardinality(HealthyCoords(k)) * 2 > Cardinality(Coords)
    BY <1>1 DEF Healthy
  <2>4. ASSUME \A c \in Coords : allow[k][c] PROVE PrimaryVotes(k) = HealthyCoords(k)
    BY <2>1, <2>4 DEF PrimaryVotes
  <2> QED
    BY <1>1, <2>2, <2>3, <2>4 DEF ShouldServePrimary
<1>2. PrimaryVotes(n) \cap PrimaryVotes(m) = {}
  BY DEF CoordInv, PrimaryVotes, HealthyCoords, Settled
<1>3. Cardinality(PrimaryVotes(n) \cup PrimaryVotes(m))
        = Cardinality(PrimaryVotes(n)) + Cardinality(PrimaryVotes(m))
  <2> DEFINE A == PrimaryVotes(n)
             B == PrimaryVotes(m)
  <2>1. IsFiniteSet(A) /\ IsFiniteSet(B) /\ A \cap B = {}
    BY <1>1, <1>2
  <2>2. Cardinality(A) \in Nat /\ Cardinality(B) \in Nat
    BY <1>1
  <2> HIDE DEF A, B
  <2>3. Cardinality(A \cup B) = Cardinality(A) + Cardinality(B) - Cardinality(A \cap B)
    BY <2>1, FS_Union
  <2>4. Cardinality(A \cap B) = 0
    BY <2>1, FS_EmptySet
  <2> QED
    BY <2>2, <2>3, <2>4 DEF A, B
<1>4. /\ Cardinality(PrimaryVotes(n) \cup PrimaryVotes(m)) <= Cardinality(Coords)
      /\ Cardinality(Coords) \in Nat
  <2>1. PrimaryVotes(n) \cup PrimaryVotes(m) \subseteq Coords
    BY DEF PrimaryVotes, HealthyCoords
  <2> QED
    BY <1>f, <2>1, FS_Subset, FS_CardinalityType
<1> HIDE DEF PrimaryVotes, HealthyCoords
<1> DEFINE vn == Cardinality(PrimaryVotes(n))
           vm == Cardinality(PrimaryVotes(m))
           hn == Cardinality(HealthyCoords(n))
           hm == Cardinality(HealthyCoords(m))
           all == Cardinality(Coords)
<1>5. /\ vn \in Nat /\ vm \in Nat /\ hn \in Nat /\ hm \in Nat /\ all \in Nat
      /\ vn * 2 > hn /\ hn * 2 > all /\ vm * 2 > hm /\ hm * 2 > all
      /\ vn + vm <= all /\ all <= 3
  BY <1>1, <1>3, <1>4
<1> HIDE DEF vn, vm, hn, hm, all
<1> QED
  BY <1>5

\* "evaluates quorum/leadership based on majority votes" (multi_coordinator.go):
\* with one to three coordinators whose grants stand, two nodes with whole answers
\* are never both told to serve, however many nodes poll.  Four coordinators are
\* too many: a majority of a majority need not meet another one.
THEOREM MajorityRules ==
  ASSUME Coords # {}, Cardinality(Coords) <= 3
  PROVE  CoordSpec => []QuorumUnique
<1>1. CoordInv => QuorumUnique
  BY VotesDisjoint DEF QuorumUnique
<1> QED
  BY <1>1, CoordInvariant, PTL

-----------------------------------------------------------------------------
(* The collaboration hub: who is in the room has an open channel.          *)

\* How far a goroutine is once its channel may be closed, and before.
InRoom == {"registered", "running", "granted", "released", "close", "leave", "unregister"}
Places == InRoom \cup {"away", "admitted", "stored", "drop", "closed"}

\* The client has closed, though its reader may still have messages to handle.
Over(c) == at[c] = "closed" \/ (at[c] = "released" /\ expired[c])

HubInv ==
  /\ at \in [Peers -> Places] /\ sendOpen \in [Peers -> BOOLEAN]
  /\ cancelled \in [Peers -> BOOLEAN] /\ expired \in [Peers -> BOOLEAN]
  /\ room \subseteq Peers
  /\ \A c \in room : at[c] \in InRoom
  /\ \A c \in Peers : sendOpen[c] <=> ~Over(c)
  /\ \A c \in Peers : Over(c) => cancelled[c] /\ c \notin room
  /\ \A c \in Peers : expired[c] =>
       at[c] \in {"close", "leave", "unregister", "drop", "closed", "released"}
  /\ sentClosed \subseteq {c \in Peers : expired[c]}

LEMMA HubInductive ==
  ASSUME HubInv, [HubNext]_hubVars
  PROVE  HubInv'
<1> USE DEF HubInv, InRoom, Places, Over
\* Sends to the room find open channels, and so do a member's own.
<1>b. ASSUME NEW T \in SUBSET room, broadcast(T) PROVE sentClosed' = sentClosed
  BY <1>b DEF broadcast
<1>e. ASSUME NEW c \in Peers, at[c] = "running", enqueue(c) PROVE sentClosed' = sentClosed
  BY <1>e DEF enqueue
\* A member of the room goes on within it.
<1>m. ASSUME NEW c \in Peers, at[c] \in InRoom, ~expired[c], NEW next \in InRoom,
             at' = at \/ To(c, next), UNCHANGED <<sendOpen, room, expired, sentClosed>>,
             cancelled' \in [Peers -> BOOLEAN], \A p \in Peers : cancelled[p] => cancelled'[p]
      PROVE  HubInv'
  BY <1>m DEF To
\* A client that is closing goes on with it.
<1>l. ASSUME NEW c \in Peers, at[c] \in {"close", "leave"}, NEW next \in {"leave", "unregister"},
             To(c, next), UNCHANGED <<sendOpen, room, expired, sentClosed, cancelled>>
      PROVE  HubInv'
  BY <1>l DEF To
<1>1. ASSUME NEW c \in Peers, ServeHTTP(c) \/ UpsertSession(c) PROVE HubInv'
  BY <1>1 DEF ServeHTTP, UpsertSession, To
<1>2. ASSUME NEW c \in Peers, register(c) PROVE HubInv'
  BY <1>2 DEF register, To
<1>3. ASSUME NEW c \in Peers, newClient(c) \/ AnnounceGrant(c) PROVE HubInv'
  BY <1>3, <1>b, <1>m DEF newClient, AnnounceGrant
<1>4. ASSUME NEW c \in Peers, HandlerReturns(c) PROVE HubInv'
  BY <1>4 DEF HandlerReturns
<1>5. ASSUME NEW c \in Peers, Disconnect(c) PROVE HubInv'
  BY <1>5, <1>m DEF Disconnect
\* The reader of a closed client finds its context cancelled: its heartbeat is
\* answered on its own closed channel, and nothing else happens.
<1>6. ASSUME NEW c \in Peers, handleHeartbeat(c) PROVE HubInv'
  <2>1. CASE at[c] = "running" /\ ~cancelled[c] /\ ~TouchSession(c)
    <3>1. /\ at' = [at EXCEPT ![c] = "close"] /\ expired' = [expired EXCEPT ![c] = TRUE]
          /\ UNCHANGED <<sendOpen, cancelled, room>>
      BY <1>6, <2>1 DEF handleHeartbeat, To
    <3>2. sentClosed' = sentClosed
      BY <1>6, <1>e, <2>1 DEF handleHeartbeat
    <3>3. ~expired[c] /\ sendOpen[c]
      BY <2>1
    <3> QED
      BY <2>1, <3>1, <3>2, <3>3
  <2>2. CASE at[c] = "running" /\ ~(~cancelled[c] /\ ~TouchSession(c))
    <3>1. UNCHANGED <<at, expired, sendOpen, cancelled, room>>
      BY <1>6, <2>2 DEF handleHeartbeat
    <3> QED
      BY <1>6, <1>e, <2>2, <3>1 DEF handleHeartbeat
  <2>3. CASE at[c] = "closed" /\ expired[c]
    <3>1. UNCHANGED <<at, expired, sendOpen, cancelled, room>>
      BY <1>6, <2>3 DEF handleHeartbeat
    <3>2. sentClosed' \subseteq sentClosed \cup {c}
      BY <1>6 DEF handleHeartbeat, enqueue
    <3> QED
      BY <2>3, <3>1, <3>2
  <2> QED
    BY <1>6, <2>1, <2>2, <2>3 DEF handleHeartbeat, Reading
<1>7. ASSUME NEW c \in Peers, handleLockAcquire(c) PROVE HubInv'
  <2>1. CASE at[c] = "running"
    <3>1. at' = at \/ To(c, "granted")
      BY <1>7, Zenon DEF handleLockAcquire
    <3> QED
      BY <1>7, <2>1, <3>1, <1>e, <1>m DEF handleLockAcquire
  <2>2. CASE at[c] = "closed" /\ expired[c]
    <3>1. UNCHANGED <<at, expired, sendOpen, cancelled, room>>
      BY <1>7, <2>2 DEF handleLockAcquire, AcquireLock
    <3>2. sentClosed' \subseteq sentClosed \cup {c}
      BY <1>7 DEF handleLockAcquire, enqueue
    <3> QED
      BY <2>2, <3>1, <3>2
  <2> QED
    BY <1>7, <2>1, <2>2 DEF handleLockAcquire, Reading
<1>8. ASSUME NEW c \in Peers, handleLockRelease(c) \/ AnnounceRelease(c) PROVE HubInv'
  <2>1. CASE handleLockRelease(c)
    BY <2>1 DEF handleLockRelease, Reading, To
  <2>2. CASE AnnounceRelease(c)
    BY <2>2, <1>b DEF AnnounceRelease, To
  <2> QED
    BY <1>8, <2>1, <2>2
<1>9. ASSUME NEW c \in Peers, CloseRows(c) \/ CloseLeave(c) PROVE HubInv'
  <2>1. CASE CloseRows(c)
    BY <2>1, <1>l DEF CloseRows
  <2>2. CASE CloseLeave(c)
    BY <2>2, <1>b, <1>l DEF CloseLeave
  <2> QED
    BY <1>9, <2>1, <2>2
<1>10. ASSUME NEW c \in Peers, CloseLast(c) PROVE HubInv'
  <2>1. CASE at[c] = "unregister"
    BY <1>10, <2>1 DEF CloseLast, To
  <2>2. CASE at[c] = "drop"
    <3>1. /\ c \notin room /\ sendOpen' = [sendOpen EXCEPT ![c] = FALSE]
          /\ cancelled' = [cancelled EXCEPT ![c] = TRUE]
          /\ at' = [at EXCEPT ![c] = "closed"] /\ UNCHANGED <<room, expired, sentClosed>>
      BY <1>10, <2>2 DEF CloseLast, To
    <3> QED
      BY <2>2, <3>1
  <2> QED
    BY <1>10, <2>1, <2>2 DEF CloseLast
<1>11. ASSUME NEW c \in Peers, ShutdownClose(c) PROVE HubInv'
  BY <1>11 DEF ShutdownClose
<1>12. ASSUME ShutdownLock \/ ShutdownDone \/ ShutdownTimeout \/ UNCHANGED hubVars
       PROVE  HubInv'
  BY <1>12 DEF ShutdownLock, ShutdownDone, ShutdownTimeout, hubVars
<1> QED
  BY <1>1, <1>2, <1>3, <1>4, <1>5, <1>6, <1>7, <1>8, <1>9, <1>10, <1>11, <1>12
  DEF HubNext, Closing

\* Nobody sends on a closed channel of another client, whatever clients join,
\* leave and lose their sessions while Shutdown runs, for any number of them; on
\* its own only a reader that goes on after its heartbeat closed the client
\* (hub.go close, broadcast, unregister, readLoop).
THEOREM ChannelsOpen == HubSpec => []PanicOnlyAfterExpiry
<1>1. HubInit => HubInv
  BY DEF HubInit, HubInv, Places, Over
<1>2. HubInv => PanicOnlyAfterExpiry
  BY DEF HubInv, PanicOnlyAfterExpiry
<1>3. HubSpec => HubInit /\ [][HubNext]_hubVars
  BY DEF HubSpec
<1> QED
  BY <1>1, <1>2, <1>3, HubInductive, PTL

-----------------------------------------------------------------------------
(* Cluster members: a token is kept for nodes that belong to the cluster.  *)

Tokens == [CNodes -> Nat]
CtlRecords == [init : BOOLEAN, members : Tokens, nodes : [CNodes -> Roles \cup {"none"}],
               partner : CNodes \cup {NoNode}, jobs : [CNodes -> {"none", "pending", "ended"}],
               runs : SUBSET CNodes, cmd : {"ended", "queued"}]

\* Who does not belong to the cluster has a token neither in memory nor, without
\* a failed write, in the store, unless a late heartbeat put it back there.
Strangers == CNodes \ (belongs \cup revived)
Tokenless(c) == \A n \in Strangers : c.members[n] = 0

ControlInv ==
  /\ ctl \in CtlRecords /\ ctlStored \in CtlRecords
  /\ issued \in Nat /\ ctlFaults \in Nat /\ ctlRestarts \in Nat
  /\ beats \in [CNodes -> [at : {"idle", "touched", "copied"}, copy : Tokens]]
  /\ ctlFaults = 0 => Tokenless(ctlStored)
  /\ ctlFaults = 0 \/ ctlRestarts = 0 => Tokenless(ctl)

\* What a request does to tokens, whichever of its writes succeed.
LEMMA SavedMembers ==
  ASSUME ControlInv, ctl' \in CtlRecords, NEW K \in SUBSET DOMAIN Blank, Saved(K)
  PROVE  /\ ctlStored' \in CtlRecords
         /\ "members" \in K => ctlStored'.members = ctl'.members
         /\ "members" \notin K => ctlStored'.members = ctlStored.members
<1>1. DOMAIN Blank = {"init", "members", "nodes", "partner", "jobs", "runs", "cmd"}
  BY DEF Blank
<1>2. ctlStored' = [init |-> IF "init" \in K THEN ctl'.init ELSE ctlStored.init,
                    members |-> IF "members" \in K THEN ctl'.members ELSE ctlStored.members,
                    nodes |-> IF "nodes" \in K THEN ctl'.nodes ELSE ctlStored.nodes,
                    partner |-> IF "partner" \in K THEN ctl'.partner ELSE ctlStored.partner,
                    jobs |-> IF "jobs" \in K THEN ctl'.jobs ELSE ctlStored.jobs,
                    runs |-> IF "runs" \in K THEN ctl'.runs ELSE ctlStored.runs,
                    cmd |-> IF "cmd" \in K THEN ctl'.cmd ELSE ctlStored.cmd]
  BY <1>1 DEF Saved
<1> QED
  BY <1>2 DEF ControlInv, CtlRecords

LEMMA BlankTyped == Blank \in CtlRecords /\ NoMembers \in Tokens /\ \A n \in CNodes : Blank.members[n] = 0
BY DEF Blank, CtlRecords, Tokens, NoNode, NoMembers

\* A request whose writes succeed saves the tokens it changed; who gets no token
\* from it and is no stranger after it was none before.
LEMMA ControlStep ==
  ASSUME ControlInv, ctl' \in CtlRecords, issued' \in Nat, ctlRestarts' = ctlRestarts,
         beats' = beats, NEW K \in SUBSET DOMAIN Blank, Saved(K),
         \/ ctlFaults' = ctlFaults /\ ("members" \in K \/ ctl'.members = ctl.members)
         \/ ctlFaults' = ctlFaults + 1,
         \A n \in Strangers' : ctl'.members[n] = 0 \/ (n \in Strangers /\ ctl'.members[n] = ctl.members[n]),
         "members" \in K \/ ctlFaults' # 0 \/ Strangers' \subseteq Strangers
  PROVE  ControlInv'
<1>1. ctlStored' \in CtlRecords /\ ctlFaults' \in Nat /\ (ctlFaults' = 0 => ctlFaults = 0)
  BY SavedMembers DEF ControlInv
<1>2. ctlFaults' = 0 \/ ctlRestarts' = 0 => Tokenless(ctl)'
  BY <1>1 DEF ControlInv, Tokenless
<1>3. ASSUME ctlFaults' = 0 PROVE Tokenless(ctlStored)'
  <2>1. Tokenless(ctl)' /\ Tokenless(ctlStored)
    BY <1>1, <1>2, <1>3 DEF ControlInv
  <2>2. CASE "members" \in K
    BY <2>1, <2>2, SavedMembers DEF Tokenless
  <2>3. CASE "members" \notin K
    BY <1>3, <2>1, <2>3, SavedMembers DEF Tokenless
  <2> QED
    BY <2>2, <2>3
<1> QED
  BY <1>1, <1>2, <1>3 DEF ControlInv

\* A request that leaves the tokens alone.
LEMMA ControlKeeps ==
  ASSUME ControlInv, ctl' \in CtlRecords, ctl'.members = ctl.members,
         UNCHANGED <<issued, belongs, beats, revived, ctlRestarts>>, NEW K \in SUBSET DOMAIN Blank,
         AllSaved(K) \/ SaveBreaks(K)
  PROVE  ControlInv'
<1>1. Strangers' = Strangers
  BY DEF Strangers
<1> QED
  BY <1>1, ControlStep DEF AllSaved, SaveBreaks, ControlInv

LEMMA ControlInductive ==
  ASSUME ControlInv, [CtlNext]_ctlVars
  PROVE  ControlInv'
<1>k. DOMAIN Blank = {"init", "members", "nodes", "partner", "jobs", "runs", "cmd"}
  BY DEF Blank
<1>c. ctl \in CtlRecords /\ ctlStored \in CtlRecords /\ issued \in Nat /\ ctlFaults \in Nat
  BY DEF ControlInv
\* An administrator's write of one node's role, and the partner chosen after it.
<1>n. ASSUME NEW n \in CNodes, NEW role \in Roles \cup {"none"}
      PROVE  /\ [ctl EXCEPT !.nodes[n] = role] \in CtlRecords
             /\ [ctl EXCEPT !.nodes[n] = role].members = ctl.members
  BY <1>c DEF CtlRecords
<1>p. ASSUME NEW d \in CtlRecords, NEW c \in reconcileHAConfigFromClusterNodes(d)
      PROVE  c \in CtlRecords /\ c.members = d.members
  BY DEF reconcileHAConfigFromClusterNodes, CtlRecords, Standbys
<1>1. CASE handleClusterInitialize
  <2>1. ctl' \in CtlRecords /\ \A n \in CNodes : ctl'.members[n] = 0
    BY <1>c, <1>1 DEF handleClusterInitialize, Initialized, replaceClusterControlMembers,
                      NoMembers, CtlRecords, Tokens
  <2>2. ctlRestarts' = ctlRestarts /\ issued' \in Nat /\ beats' = beats
    BY <1>c, <1>1 DEF handleClusterInitialize
  <2>3. PICK K \in {{"init", "members"}, {}, {"init"}} :
          /\ Saved(K)
          /\ (ctlFaults' = ctlFaults /\ "members" \in K) \/ ctlFaults' = ctlFaults + 1
    BY <1>1 DEF handleClusterInitialize, AllSaved, SaveBreaks
  <2>4. K \in SUBSET DOMAIN Blank
    BY <1>k
  <2>5. \A n \in Strangers' : n \in CNodes
    BY DEF Strangers
  <2> QED
    BY <1>c, <2>1, <2>2, <2>3, <2>4, <2>5, ControlStep
<1>2. CASE handleClusterDelete
  <2>1. ctl' \in CtlRecords /\ \A n \in CNodes : ctl'.members[n] = 0
    BY <1>2, BlankTyped DEF handleClusterDelete
  <2>2. ctlRestarts' = ctlRestarts /\ issued' \in Nat /\ beats' = beats
    BY <1>c, <1>2 DEF handleClusterDelete
  <2>3. PICK K \in {DOMAIN Blank, {"partner"}, {"partner", "init"},
                    {"partner", "init", "members"}} :
          /\ Saved(K)
          /\ (ctlFaults' = ctlFaults /\ K = DOMAIN Blank) \/ ctlFaults' = ctlFaults + 1
    BY <1>2 DEF handleClusterDelete, AllSaved, SaveBreaks
  <2>4. K \in SUBSET DOMAIN Blank /\ "members" \in DOMAIN Blank
    BY <1>k
  <2>5. \A n \in Strangers' : n \in CNodes
    BY DEF Strangers
  <2> QED
    BY <1>c, <2>1, <2>2, <2>3, <2>4, <2>5, ControlStep
<1>3. CASE executeClusterCommand
  <2>1. ASSUME NEW n, leaveClusterMemberLifecycle(n),
               UNCHANGED <<issued, beats, ctlRestarts>>
        PROVE  ControlInv'
    <3> DEFINE c0 == Left(ctl, n)
    <3>1. c0 \in CtlRecords /\ c0.members = [ctl.members EXCEPT ![n] = 0]
      BY <1>c DEF Left, cancelNodeJoinJobs, deleteClusterControlMember, CtlRecords, Tokens
    <3>2. \A c \in reconcileClusterSecondaryPartner(c0) :
            c \in CtlRecords /\ c.members = c0.members
      BY <3>1 DEF reconcileClusterSecondaryPartner, syncSecondaryIntoHA, Members, CtlRecords
    <3> HIDE DEF c0
    <3>3. PICK c \in reconcileClusterSecondaryPartner(c0) \cup {c0} :
            ctl' = updateClusterCommand(c, "ended")
      BY <2>1 DEF leaveClusterMemberLifecycle, c0
    <3>4. c \in CtlRecords /\ c.members = c0.members
      BY <3>1, <3>2, <3>3
    <3>5. ctl' \in CtlRecords /\ ctl'.members = [ctl.members EXCEPT ![n] = 0]
      BY <3>1, <3>3, <3>4 DEF updateClusterCommand, CtlRecords
    <3>6. \A k \in CNodes : ctl'.members[k] = IF k = n THEN 0 ELSE ctl.members[k]
      BY <1>c, <3>5 DEF CtlRecords, Tokens
    <3>7. \A k \in Strangers' : k \in CNodes /\ (k = n \/ k \in Strangers)
      BY <2>1 DEF leaveClusterMemberLifecycle, Strangers
    <3>8. PICK K \in {{"nodes", "members", "partner", "cmd"}, {"nodes", "cmd"}} :
            /\ Saved(K)
            /\ (ctlFaults' = ctlFaults /\ "members" \in K) \/ ctlFaults' = ctlFaults + 1
      BY <2>1 DEF leaveClusterMemberLifecycle, AllSaved, SaveBreaks
    <3>9. K \in SUBSET DOMAIN Blank
      BY <1>k
    <3>10. \A k \in Strangers' :
             ctl'.members[k] = 0 \/ (k \in Strangers /\ ctl'.members[k] = ctl.members[k])
      BY <3>6, <3>7
    <3> QED
      BY <1>c, <2>1, <3>5, <3>8, <3>9, <3>10, ControlStep
  <2>2. ASSUME ctl' = updateClusterCommand(ctl, "ended"), AllSaved({"cmd"}) \/ SaveBreaks({}),
               UNCHANGED <<issued, belongs, beats, revived, ctlRestarts>>
        PROVE  ControlInv'
    <3>1. ctl' \in CtlRecords /\ ctl'.members = ctl.members
      BY <1>c, <2>2 DEF updateClusterCommand, CtlRecords
    <3> QED
      BY <1>k, <2>2, <3>1, ControlKeeps
  <2> QED
    BY <1>3, <2>1, <2>2 DEF executeClusterCommand
<1>4. ASSUME NEW n \in CNodes, handleClusterJoin(n) PROVE ControlInv'
  <2>1. /\ issued' = issued + 1 /\ ctlRestarts' = ctlRestarts /\ beats' = beats
        /\ belongs' = belongs \cup {n} /\ revived' = revived \ {n}
    BY <1>4 DEF handleClusterJoin
  <2> DEFINE j == Joined(n)
  <2>2. j \in CtlRecords /\ j.members = [ctl.members EXCEPT ![n] = issued + 1]
    <3>1. [ctl EXCEPT !.nodes[n] = "standby"] \in CtlRecords
          /\ [ctl EXCEPT !.nodes[n] = "standby"].members = ctl.members
      <4>1. "standby" \in Roles \cup {"none"}
        BY DEF Roles
      <4> QED
        BY <4>1, <1>n
    <3>2. \A c \in CtlRecords, t \in Nat :
            /\ upsertClusterControlMember(c, n, t) \in CtlRecords
            /\ upsertClusterControlMember(c, n, t).members = [c.members EXCEPT ![n] = t]
      BY DEF upsertClusterControlMember, CtlRecords, Tokens
    <3>3. issued + 1 \in Nat
      BY <1>c
    <3> QED
      BY <3>1, <3>2, <3>3 DEF Joined
  <2> HIDE DEF j
  <2> DEFINE p == syncSecondaryIntoHA(j, n)
  <2>3. p \in CtlRecords /\ p.members = j.members
    BY <2>2 DEF syncSecondaryIntoHA, CtlRecords
  <2> HIDE DEF p
  <2>4. ensureJoinJobForNode(p, n) \in CtlRecords
        /\ ensureJoinJobForNode(p, n).members = p.members
    BY <2>3 DEF ensureJoinJobForNode, CtlRecords
  <2>5. ctl' \in {j, ensureJoinJobForNode(p, n)}
    BY <1>4 DEF handleClusterJoin, j, p
  <2>6. ctl' \in CtlRecords /\ ctl'.members = [ctl.members EXCEPT ![n] = issued + 1]
    BY <2>2, <2>3, <2>4, <2>5
  <2>7. \A k \in Strangers' : k \in Strangers /\ ctl'.members[k] = ctl.members[k]
    BY <1>c, <2>1, <2>6 DEF Strangers, CtlRecords, Tokens
  <2>8. PICK K \in {{"members", "nodes", "partner", "jobs"}, {}} :
          /\ Saved(K)
          /\ (ctlFaults' = ctlFaults /\ "members" \in K) \/ ctlFaults' = ctlFaults + 1
    BY <1>4 DEF handleClusterJoin, AllSaved, SaveBreaks
  <2>9. K \in SUBSET DOMAIN Blank
    BY <1>k
  <2> QED
    BY <1>c, <2>1, <2>6, <2>7, <2>8, <2>9, ControlStep
\* A heartbeat: who gets a token back in the store by it is no stranger any more.
<1>5. ASSUME NEW n \in CNodes,
             touchClusterControlMember(n) \/ snapshotClusterControlMembers(n) \/ handleClusterState(n)
      PROVE  ControlInv'
  <2>1. UNCHANGED <<ctl, issued, belongs, ctlRestarts>>
    BY <1>5 DEF touchClusterControlMember, snapshotClusterControlMembers, handleClusterState,
                beatUnchanged
  <2>2. beats' \in [CNodes -> [at : {"idle", "touched", "copied"}, copy : Tokens]]
    <3>1. ctl.members \in Tokens /\ NoBeat \in [at : {"idle", "touched", "copied"}, copy : Tokens]
      BY <1>c, BlankTyped DEF CtlRecords, NoBeat
    <3>2. \E b \in [at : {"idle", "touched", "copied"}, copy : Tokens] :
            beats' = [beats EXCEPT ![n] = b]
      <4>1. beats[n] \in [at : {"idle", "touched", "copied"}, copy : Tokens]
        BY DEF ControlInv
      <4>2. CASE touchClusterControlMember(n)
        <5>1. [beats[n] EXCEPT !.at = "touched"] \in [at : {"idle", "touched", "copied"}, copy : Tokens]
          BY <4>1
        <5> QED
          BY <4>2, <5>1 DEF touchClusterControlMember
      <4>3. CASE snapshotClusterControlMembers(n)
        BY <3>1, <4>3 DEF snapshotClusterControlMembers
      <4>4. CASE handleClusterState(n)
        BY <3>1, <4>4 DEF handleClusterState
      <4> QED
        BY <1>5, <4>2, <4>3, <4>4
    <3> QED
      BY <3>2 DEF ControlInv
  <2>3. CASE UNCHANGED <<ctlStored, ctlFaults, revived>>
    BY <2>1, <2>2, <2>3 DEF ControlInv, Tokenless, Strangers
  <2>4. CASE handleClusterState(n) /\ SaveBreaks({}) /\ UNCHANGED revived
    <3>1. Strangers' = Strangers /\ ctlFaults' = ctlFaults + 1
      BY <2>1, <2>4 DEF Strangers, SaveBreaks
    <3>2. ctlStored' \in CtlRecords
      BY <1>c, <2>1, <2>4, SavedMembers DEF SaveBreaks
    <3> QED
      BY <1>c, <2>1, <2>2, <3>1, <3>2 DEF ControlInv, Tokenless
  <2>5. ASSUME ctlStored' = replaceClusterControlMembers(ctlStored, beats[n].copy), UNCHANGED ctlFaults,
               revived' = revived \cup {m \in CNodes \ belongs : beats[n].copy[m] # 0}
        PROVE  ControlInv'
    <3>1. beats[n].copy \in Tokens
      BY DEF ControlInv
    <3>2. ctlStored' \in CtlRecords /\ ctlStored'.members = beats[n].copy
      BY <1>c, <2>5, <3>1 DEF replaceClusterControlMembers, CtlRecords
    <3>3. \A m \in Strangers' : m \in Strangers /\ beats[n].copy[m] = 0
      BY <2>1, <2>5 DEF Strangers
    <3> QED
      BY <2>1, <2>2, <2>5, <3>2, <3>3 DEF ControlInv, Tokenless
  <2> QED
    BY <1>5, <2>3, <2>4, <2>5
    DEF touchClusterControlMember, snapshotClusterControlMembers, handleClusterState
<1>6. ASSUME NEW type, NEW n, Queue(type, n) PROVE ControlInv'
  <2>1. ctl' \in CtlRecords /\ ctl'.members = ctl.members
    BY <1>c, <1>6 DEF Queue, registerClusterCommand, CtlRecords
  <2> QED
    BY <1>6, <1>k, <2>1, ControlKeeps DEF Queue
<1>7. ASSUME NEW n \in CNodes, NEW role \in Roles, WriteNode(n, role) PROVE ControlInv'
  <2>1. PICK c \in reconcileHAConfigFromClusterNodes([ctl EXCEPT !.nodes[n] = role]) :
          ctl' = enqueueNodeJoinIfNeeded(c, n)
    BY <1>7 DEF WriteNode
  <2>2. c \in CtlRecords /\ c.members = ctl.members
    BY <1>n, <1>p, <2>1
  <2>3. ctl' \in CtlRecords /\ ctl'.members = ctl.members
    BY <2>1, <2>2 DEF enqueueNodeJoinIfNeeded, ensureJoinJobForNode, CtlRecords
  <2> QED
    BY <1>7, <1>k, <2>3, ControlKeeps DEF WriteNode
<1>8. ASSUME NEW n \in CNodes, handleClusterNodeDelete(n) PROVE ControlInv'
  <2>1. PICK c \in reconcileHAConfigFromClusterNodes([ctl EXCEPT !.nodes[n] = "none"]) :
          ctl' = cancelNodeJoinJobs(c, n)
    BY <1>8 DEF handleClusterNodeDelete
  <2>2. c \in CtlRecords /\ c.members = ctl.members
    BY <1>n, <1>p, <2>1
  <2>3. ctl' \in CtlRecords /\ ctl'.members = ctl.members
    BY <2>1, <2>2 DEF cancelNodeJoinJobs, CtlRecords
  <2> QED
    BY <1>8, <1>k, <2>3, ControlKeeps DEF handleClusterNodeDelete
<1>9. ASSUME NEW n \in CNodes, handleHAMemberUpsert(n) PROVE ControlInv'
  <2>1. PICK role \in Roles :
          ctl' \in reconcileHAConfigFromClusterNodes([ctl EXCEPT !.nodes[n] = role])
    BY <1>9 DEF handleHAMemberUpsert
  <2>2. ctl' \in CtlRecords /\ ctl'.members = ctl.members
    BY <1>n, <1>p, <2>1
  <2> QED
    BY <1>9, <1>k, <2>2, ControlKeeps DEF handleHAMemberUpsert
<1>10. ASSUME NEW n \in CNodes, JobEnds(n) PROVE ControlInv'
  <2>1. ctl' \in CtlRecords /\ ctl'.members = ctl.members
    BY <1>c, <1>10 DEF JobEnds, CtlRecords
  <2> QED
    BY <1>10, <1>k, <2>1, ControlKeeps DEF JobEnds
\* A restart takes the tokens of the store, which without a failed write are the
\* memory's.
<1>11. CASE CtlRestart
  <2>1. ctl' \in CtlRecords /\ ctl'.members = ctlStored.members
    BY <1>c, <1>11 DEF CtlRestart, restoreClusterCommands, updateClusterCommand, CtlRecords
  <2>2. /\ ctlRestarts' = ctlRestarts + 1 /\ beats' = [n \in CNodes |-> NoBeat]
        /\ UNCHANGED <<ctlStored, issued, belongs, revived, ctlFaults>>
    BY <1>11 DEF CtlRestart
  <2>3. NoBeat \in [at : {"idle", "touched", "copied"}, copy : Tokens]
    BY BlankTyped DEF NoBeat
  <2>4. Strangers' = Strangers
    BY <2>2 DEF Strangers
  <2> QED
    BY <2>1, <2>2, <2>3, <2>4 DEF ControlInv, Tokenless
<1>12. CASE UNCHANGED ctlVars
  BY <1>12 DEF ctlVars, ControlInv, Tokenless, Strangers
<1> QED
  BY <1>1, <1>2, <1>3, <1>4, <1>5, <1>6, <1>7, <1>8, <1>9, <1>10, <1>11, <1>12
  DEF CtlNext, MemberRequests, NodeRequests, Heartbeats, JobsAndRestarts,
      handleClusterMemberLeave, handleClusterCommandCreate,
      handleClusterNodeCreate, handleClusterNodeUpdate, Roles

LEMMA ControlInvariant == CtlSpec => []ControlInv
<1>1. CtlInit => ControlInv
  BY BlankTyped DEF CtlInit, ControlInv, Tokenless, Strangers, NoBeat
<1> QED
  BY <1>1, ControlInductive, PTL DEF CtlSpec

\* A node whose heartbeat is accepted has joined the present cluster and has not
\* left it, unless a write failed before a restart or a late heartbeat wrote it
\* back: no other interleaving of commands, node routes, joins, heartbeats, deletions
\* and restarts leaves a stale token valid, for any number of nodes and tokens
\* (cluster_control_routes.go).
THEOREM TokensSound == CtlSpec => []TokenSound
<1>1. ControlInv => TokenSound
  BY DEF ControlInv, TokenSound, Accepts, Tokenless, Strangers
<1> QED
  BY <1>1, ControlInvariant, PTL

-----------------------------------------------------------------------------
(* The directory: roles and identity providers.                            *)

Replacements == [pc : {"idle", "begin", "insert"}, want : SUBSET DirectoryRoles,
                 wrote : SUBSET DirectoryRoles]

\* Whatever a transaction is about to write has been asked for.
RolesInv ==
  /\ person \in BOOLEAN
  /\ replace \in [Operators -> Replacements]
  /\ \A o \in Operators : replace[o].pc # "idle" => replace[o].want \in asked
  /\ RolesWhole

\* There is a default whenever there is a provider, and it is one of them.
ProvidersInv ==
  /\ Nobody \notin registry
  /\ IF default = Nobody THEN registry = {} ELSE default \in registry

LEMMA RolesInductive ==
  ASSUME RolesInv, [DirectoryNext]_directoryVars
  PROVE  RolesInv'
<1> USE DEF RolesInv, RolesWhole
<1>t. ASSUME NEW o \in Operators PROVE replace[o] \in Replacements
  OBVIOUS
<1>n. NoReplace \in Replacements /\ NoReplace.pc = "idle"
  BY DEF NoReplace, Replacements
\* One operator's replacement goes on; those asked for stay asked for.
<1>m. ASSUME NEW o \in Operators, NEW x \in Replacements,
             replace' = [replace EXCEPT ![o] = x], x.pc # "idle" => x.want \in asked',
             asked \subseteq asked', person' = person, RolesWhole'
      PROVE  RolesInv'
  <2>1. \A k \in Operators : replace'[k] = IF k = o THEN x ELSE replace[k]
    BY <1>m
  <2> QED
    BY <1>m, <2>1
<1>1. ASSUME NEW o \in Operators, NEW S \in SUBSET DirectoryRoles, ReplaceUserRoles(o, S)
      PROVE  RolesInv'
  <2> DEFINE x == [pc |-> "begin", want |-> S, wrote |-> {}]
  <2>1. x \in Replacements /\ x.want = S
    BY DEF Replacements
  <2>2. /\ replace' = [replace EXCEPT ![o] = x] /\ asked' = asked \cup {S}
        /\ person' = person /\ granted' = granted
    BY <1>1 DEF ReplaceUserRoles
  <2> HIDE DEF x
  <2> QED
    BY <1>m, <2>1, <2>2
<1>2. ASSUME NEW o \in Operators, DeleteRoles(o) PROVE RolesInv'
  <2> DEFINE x == [replace[o] EXCEPT !.pc = "insert"]
  <2>1. x \in Replacements /\ x.want = replace[o].want
    BY <1>t DEF Replacements
  <2>2. /\ replace' = [replace EXCEPT ![o] = x] /\ replace[o].pc = "begin"
        /\ UNCHANGED <<person, granted, asked>>
    BY <1>2 DEF DeleteRoles
  <2> HIDE DEF x
  <2> QED
    BY <1>m, <2>1, <2>2
<1>3. ASSUME NEW o \in Operators, InsertRole(o) PROVE RolesInv'
  <2>1. PICK r \in replace[o].want \ replace[o].wrote :
          replace' = [replace EXCEPT ![o].wrote = @ \cup {r}]
    BY <1>3 DEF InsertRole
  <2> DEFINE x == [replace[o] EXCEPT !.wrote = @ \cup {r}]
  <2>2. x \in Replacements /\ x.want = replace[o].want
    BY <1>t DEF Replacements
  <2>3. /\ replace' = [replace EXCEPT ![o] = x] /\ replace[o].pc = "insert"
        /\ UNCHANGED <<person, granted, asked>>
    BY <1>3, <2>1 DEF InsertRole
  <2> HIDE DEF x
  <2> QED
    BY <1>m, <2>2, <2>3
<1>4. ASSUME NEW o \in Operators, ReplaceFails(o) PROVE RolesInv'
  BY <1>4, <1>m, <1>n DEF ReplaceFails, Rollback
\* What is committed is everything one call asked for.
<1>5. ASSUME NEW o \in Operators, CommitRoles(o) PROVE RolesInv'
  <2>1. /\ replace[o].pc = "insert" /\ replace[o].wrote = replace[o].want
        /\ granted' \in {granted, IF person THEN replace[o].wrote ELSE {}}
        /\ replace' = [replace EXCEPT ![o] = NoReplace]
        /\ UNCHANGED <<person, asked>>
    BY <1>5 DEF CommitRoles
  <2>2. RolesWhole'
    BY <2>1
  <2> QED
    BY <1>m, <1>n, <2>1, <2>2
<1>6. CASE RemoveUser
  BY <1>6 DEF RemoveUser
<1>7. CASE UNCHANGED rolesVars
  BY <1>7 DEF rolesVars
<1>8. ASSUME NEW id \in ProviderIds, NEW e \in BOOLEAN,
             handleCreateAuthProvider(id, e) \/ handleUpdateAuthProvider(id, e)
      PROVE  UNCHANGED rolesVars
  BY <1>8 DEF handleCreateAuthProvider, handleUpdateAuthProvider
<1>9. configureAuthProviders \/ UNCHANGED directoryVars => UNCHANGED rolesVars
  BY DEF configureAuthProviders, directoryVars, rolesVars
<1> QED
  BY <1>1, <1>2, <1>3, <1>4, <1>5, <1>6, <1>7, <1>8, <1>9
  DEF DirectoryNext, handleReplaceUserRoles

LEMMA ProvidersInductive ==
  ASSUME ProvidersInv, [DirectoryNext]_directoryVars
  PROVE  ProvidersInv'
<1> USE DirectoryAssumption DEF DirectoryAssumption, ProvidersInv
<1>1. ASSUME NEW name \in {"ldap", "oidc"}, NEW d \in BOOLEAN, RegisterProvider(name, d)
      PROVE  ProvidersInv'
  BY <1>1 DEF RegisterProvider
<1>2. ASSUME UnregisterProvider("password") PROVE ProvidersInv'
  <2>1. CASE default # "password"
    BY <1>2, <2>1 DEF UnregisterProvider
  <2>2. CASE default = "password" /\ registry = {"password"}
    BY <1>2, <2>2 DEF UnregisterProvider
  <2>3. CASE default = "password" /\ registry # {"password"}
    BY <1>2, <2>3 DEF UnregisterProvider
  <2> QED
    BY <2>1, <2>2, <2>3
<1>3. CASE configureAuthProviders
  BY <1>1, <1>2, <1>3 DEF configureAuthProviders
<1>4. CASE UNCHANGED <<registry, default>>
  BY <1>4
<1>5. ASSUME NEW o \in Operators,
             \/ \E S \in SUBSET DirectoryRoles : handleReplaceUserRoles(o, S)
             \/ DeleteRoles(o) \/ InsertRole(o) \/ ReplaceFails(o) \/ CommitRoles(o)
      PROVE  UNCHANGED <<registry, default>>
  BY <1>5 DEF handleReplaceUserRoles, ReplaceUserRoles, DeleteRoles, InsertRole,
              ReplaceFails, CommitRoles, providerVars
<1>6. ASSUME NEW id \in ProviderIds, NEW e \in BOOLEAN,
             handleCreateAuthProvider(id, e) \/ handleUpdateAuthProvider(id, e)
      PROVE  UNCHANGED <<registry, default>>
  BY <1>6 DEF handleCreateAuthProvider, handleUpdateAuthProvider
<1>7. RemoveUser \/ UNCHANGED directoryVars => UNCHANGED <<registry, default>>
  BY DEF RemoveUser, directoryVars, providerVars
<1> QED
  BY <1>3, <1>4, <1>5, <1>6, <1>7 DEF DirectoryNext

\* Whatever replacements overlap, fail half way or meet the deletion of the user,
\* for any number of operators and roles the user has the roles one call asked for;
\* and whatever providers the configuration registers or removes, a login that
\* names none reaches one (auth/service.go ReplaceUserRoles, UnregisterProvider).
THEOREM DirectoryIsSound == DirectorySpec => []DirectorySound
<1>1. DirectoryInit => RolesInv
  <2>1. NoReplace \in Replacements /\ NoReplace.pc = "idle"
    BY DEF NoReplace, Replacements
  <2> QED
    BY <2>1 DEF DirectoryInit, RolesInv, RolesWhole
<1>2. DirectoryInit => ProvidersInv
  BY DirectoryAssumption DEF DirectoryInit, ProvidersInv, DirectoryAssumption
<1>3. RolesInv /\ ProvidersInv => DirectorySound
  BY DEF RolesInv, ProvidersInv, DirectorySound, DefaultServes, resolveProvider
<1> QED
  BY <1>1, <1>2, <1>3, RolesInductive, ProvidersInductive, PTL DEF DirectorySpec

-----------------------------------------------------------------------------
(* Credentials: what holds of each of the three between its steps.         *)

Guards == [failed : Nat, lock : {"none", "on", "past"}]

\* The login requests the lock did not stop, or will not: they may still fail.
Passing == {a \in Attempts : \/ attempt[a].pc = "allowed"
                             \/ attempt[a].pc = "snapped" /\ attempt[a].seen.lock # "on"}

\* While the lock is on, every further failure is one of a request that passed.
LoginInv ==
  /\ guard \in Guards
  /\ attempt \in [Attempts -> [pc : {"idle", "snapped", "allowed"}, seen : Guards]]
  /\ captchas \in [Captchas -> [state : {"none", "live", "old"}, passes : {0, 1}]]
  /\ \A c \in Captchas : captchas[c].state # "none" => captchas[c].passes = 0
  /\ guard.lock = "none" => guard.failed < LockThreshold
  /\ guard.lock = "on" => guard.failed + Cardinality(Passing) <= LockThreshold + Cardinality(Attempts) - 1
  /\ guard.lock = "past" => guard.failed <= LockThreshold + Cardinality(Attempts) - 1

SecretInv == PasswordOfRecord

\* Whoever took the challenge has it alone.
ResetInv ==
  /\ resets \in {0, 1}
  /\ completer \in [Completers -> {"idle", "update"}]
  /\ reset \in {"none", "issued", "verified", "gone"}
  /\ reset # "gone" => resets = 0
  /\ \A p \in Completers : completer[p] = "update" =>
       /\ reset = "gone" /\ resets = 0
       /\ \A q \in Completers : completer[q] = "update" => q = p

LEMMA CaptchaIssued ==
  ASSUME NEW cs \in [Captchas -> [state : {"none", "live", "old"}, passes : {0, 1}]],
         \A c \in Captchas : cs[c].state # "none" => cs[c].passes = 0
  PROVE  /\ issueCaptcha(cs) \in [Captchas -> [state : {"none", "live", "old"}, passes : {0, 1}]]
         /\ \A c \in Captchas : issueCaptcha(cs)[c].state # "none" => issueCaptcha(cs)[c].passes = 0
<1> DEFINE pruned == pruneExpiredCaptcha(cs)
           fresh  == {c \in Captchas : pruned[c].state = "none"}
           filled == [pruned EXCEPT ![CHOOSE c \in fresh : TRUE] = [state |-> "live", passes |-> 0]]
<1>1. /\ pruned \in [Captchas -> [state : {"none", "live", "old"}, passes : {0, 1}]]
      /\ \A c \in Captchas : pruned[c].state # "none" => pruned[c].passes = 0
  BY DEF pruneExpiredCaptcha
<1>2. issueCaptcha(cs) = IF fresh = {} THEN pruned ELSE filled
  BY DEF issueCaptcha
<1> HIDE DEF pruned
<1>3. ASSUME fresh # {}
      PROVE  /\ filled \in [Captchas -> [state : {"none", "live", "old"}, passes : {0, 1}]]
             /\ \A c \in Captchas : filled[c].state # "none" => filled[c].passes = 0
  <2>1. PICK k : k = CHOOSE c \in fresh : TRUE
    OBVIOUS
  <2>2. k \in Captchas
    BY <1>3, <2>1
  <2>3. filled = [pruned EXCEPT ![k] = [state |-> "live", passes |-> 0]]
    BY <2>1
  <2> QED
    BY <1>1, <2>2, <2>3
<1> QED
  BY <1>1, <1>2, <1>3

\* A request that fails or leaves is no longer passing.
LEMMA PassingCounts ==
  ASSUME IsFiniteSet(Attempts)
  PROVE  /\ IsFiniteSet(Passing) /\ Cardinality(Passing) \in Nat /\ Cardinality(Attempts) \in Nat
         /\ Cardinality(Passing) <= Cardinality(Attempts)
         /\ \A a \in Passing : \A S \in SUBSET (Passing \ {a}) :
              Cardinality(S) \in Nat /\ Cardinality(S) <= Cardinality(Passing) - 1
<1>1. Passing \subseteq Attempts
  BY DEF Passing
<1>2. /\ IsFiniteSet(Passing) /\ Cardinality(Passing) \in Nat /\ Cardinality(Attempts) \in Nat
      /\ Cardinality(Passing) <= Cardinality(Attempts)
  BY <1>1, FS_Subset, FS_CardinalityType
<1>3. ASSUME NEW a \in Passing, NEW S \in SUBSET (Passing \ {a})
      PROVE  Cardinality(S) \in Nat /\ Cardinality(S) <= Cardinality(Passing) - 1
  <2>1. IsFiniteSet(Passing \ {a}) /\ Cardinality(Passing \ {a}) = Cardinality(Passing) - 1
    BY <1>2, FS_RemoveElement
  <2>2. IsFiniteSet(S) /\ Cardinality(S) <= Cardinality(Passing \ {a})
    BY <2>1, FS_Subset
  <2> QED
    BY <2>1, <2>2, FS_CardinalityType
<1> QED
  BY <1>2, <1>3

LEMMA LoginStep ==
  ASSUME IsFiniteSet(Attempts), LoginInv, LoginNext
  PROVE  LoginInv'
<1> USE LoginAssumption DEF LoginAssumption
<1> DEFINE n == Cardinality(Passing)
           m == Cardinality(Attempts)
<1>n. n \in Nat /\ m \in Nat /\ n <= m
  BY PassingCounts
<1>k. Cardinality(Passing') \in Nat /\ Cardinality(Passing') <= m
  <2>1. Passing' \subseteq Attempts
    BY DEF Passing
  <2> QED
    BY <2>1, FS_Subset, FS_CardinalityType
<1>1. ASSUME handleLoginCaptcha PROVE LoginInv'
  <2>1. Passing' = Passing /\ UNCHANGED <<guard, attempt>>
    BY <1>1 DEF handleLoginCaptcha, Passing
  <2>2. /\ captchas' \in [Captchas -> [state : {"none", "live", "old"}, passes : {0, 1}]]
        /\ \A c \in Captchas : captchas'[c].state # "none" => captchas'[c].passes = 0
    BY <1>1, CaptchaIssued DEF handleLoginCaptcha, LoginInv
  <2> QED
    BY <2>1, <2>2 DEF LoginInv
<1>2. ASSUME LockPasses PROVE LoginInv'
  <2>1. guard' = [guard EXCEPT !.lock = "past"] /\ guard.lock = "on" /\ UNCHANGED captchas
    BY <1>2 DEF LockPasses
  <2>2. attempt' \in [Attempts -> [pc : {"idle", "snapped", "allowed"}, seen : Guards]]
    BY <1>2 DEF LockPasses, LoginInv, Guards
  <2>3. guard' \in Guards /\ guard'.lock = "past" /\ guard'.failed = guard.failed
    BY <2>1 DEF LoginInv, Guards
  <2>4. guard.failed <= LockThreshold + m - 1
    BY <2>1, <1>n DEF LoginInv, Guards
  <2> QED
    BY <2>1, <2>2, <2>3, <2>4 DEF LoginInv
<1>3. ASSUME CaptchasExpire PROVE LoginInv'
  <2>1. Passing' = Passing /\ UNCHANGED <<guard, attempt>>
    BY <1>3 DEF CaptchasExpire, Passing
  <2>2. /\ captchas' \in [Captchas -> [state : {"none", "live", "old"}, passes : {0, 1}]]
        /\ \A c \in Captchas : captchas'[c].state # "none" => captchas'[c].passes = 0
    BY <1>3 DEF CaptchasExpire, LoginInv
  <2> QED
    BY <2>1, <2>2 DEF LoginInv
<1>4. ASSUME NEW a \in Attempts, loginGuardSnapshot(a) PROVE LoginInv'
  <2>1. guard' \in Guards /\ UNCHANGED captchas
    BY <1>4 DEF loginGuardSnapshot, Normal, NoGuard, LoginInv, Guards
  <2>2. attempt' = [attempt EXCEPT ![a] = [pc |-> "snapped", seen |-> guard']]
    BY <1>4 DEF loginGuardSnapshot
  <2>3. attempt' \in [Attempts -> [pc : {"idle", "snapped", "allowed"}, seen : Guards]]
    BY <2>1, <2>2 DEF LoginInv
  <2>4. CASE guard.lock = "on"
    <3>1. guard' = guard
      BY <1>4, <2>4 DEF loginGuardSnapshot, Normal
    <3>2. Passing' = Passing
      BY <1>4, <2>2, <2>4, <3>1 DEF loginGuardSnapshot, Passing, LoginInv
    <3> QED
      BY <2>1, <2>3, <2>4, <3>1, <3>2 DEF LoginInv
  <2>5. CASE guard.lock # "on"
    <3>1. guard'.lock = "none" /\ guard'.failed < LockThreshold
      BY <1>4, <2>5 DEF loginGuardSnapshot, Normal, NoGuard, LoginInv, Guards
    <3> QED
      BY <2>1, <2>3, <3>1 DEF LoginInv
  <2> QED
    BY <2>4, <2>5
\* A request that goes on keeps or leaves its place among those that pass.
<1>5. ASSUME NEW a \in Attempts, NEW where \in {"idle", "allowed"}, Goto(a, where),
             where = "allowed" => a \in Passing
      PROVE  /\ attempt' \in [Attempts -> [pc : {"idle", "snapped", "allowed"}, seen : Guards]]
             /\ Passing' \subseteq Passing
             /\ where = "idle" => Passing' \subseteq Attempts \ {a}
  <2>1. /\ attempt' = [attempt EXCEPT ![a] = [pc |-> where, seen |-> NoGuard]]
        /\ attempt \in [Attempts -> [pc : {"idle", "snapped", "allowed"}, seen : Guards]]
        /\ NoGuard \in Guards
    BY <1>5 DEF Goto, LoginInv, Guards, NoGuard
  <2>2. attempt' \in [Attempts -> [pc : {"idle", "snapped", "allowed"}, seen : Guards]]
    BY <2>1
  <2>3. \A b \in Attempts : b # a => attempt'[b] = attempt[b]
    BY <2>1
  <2>4. attempt'[a].pc = where
    BY <2>1
  <2>5. Passing' \subseteq Passing
    BY <1>5, <2>3, <2>4 DEF Passing
  <2>6. where = "idle" => a \notin Passing'
    BY <2>4 DEF Passing
  <2>7. Passing' \subseteq Attempts
    BY DEF Passing
  <2> QED
    BY <2>2, <2>5, <2>6, <2>7
\* With the guard left alone nothing more is needed.
<1>6. ASSUME UNCHANGED guard, Passing' \subseteq Passing,
             attempt' \in [Attempts -> [pc : {"idle", "snapped", "allowed"}, seen : Guards]],
             captchas' \in [Captchas -> [state : {"none", "live", "old"}, passes : {0, 1}]],
             \A c \in Captchas : captchas'[c].state # "none" => captchas'[c].passes = 0
      PROVE  LoginInv'
  <2>1. Cardinality(Passing') <= n
    BY <1>6, PassingCounts, FS_Subset
  <2> HIDE DEF n, m
  <2>2. guard.lock = "on" => guard.failed + Cardinality(Passing') <= LockThreshold + m - 1
    BY <1>n, <1>k, <2>1 DEF n, m, LoginInv, Guards
  <2> QED
    BY <1>6, <2>2 DEF LoginInv, m
<1>7. ASSUME NEW a \in Attempts,
             AnswerLocked(a) \/ NoCaptchaNeeded(a) \/ CaptchaRight(a) \/ CaptchaWrong(a) \/ LoginBreaks(a)
      PROVE  LoginInv'
  <2>1. /\ captchas' \in [Captchas -> [state : {"none", "live", "old"}, passes : {0, 1}]]
        /\ \A c \in Captchas : captchas'[c].state # "none" => captchas'[c].passes = 0
    <3>1. CASE UNCHANGED captchas
      BY <3>1 DEF LoginInv
    <3>2. CASE CaptchaWrong(a)
      BY <3>2, CaptchaIssued DEF CaptchaWrong, LoginInv
    <3>3. CASE CaptchaRight(a)
      <4>1. PICK c \in Captchas : verifyCaptcha(c)
        BY <3>3 DEF CaptchaRight
      <4>2. captchas' = [captchas EXCEPT ![c] = [state |-> "none", passes |-> captchas[c].passes + 1]]
        BY <4>1 DEF verifyCaptcha
      <4>3. captchas[c].passes = 0
        BY <4>1 DEF verifyCaptcha, LoginInv
      <4>4. captchas' = [captchas EXCEPT ![c] = [state |-> "none", passes |-> 1]]
        BY <4>2, <4>3
      <4> QED
        BY <4>4 DEF LoginInv
    <3> QED
      BY <1>7, <3>1, <3>2, <3>3 DEF AnswerLocked, NoCaptchaNeeded, LoginBreaks
  <2>2. PICK where \in {"idle", "allowed"} : Goto(a, where) /\ (where = "allowed" => a \in Passing)
    BY <1>7 DEF AnswerLocked, NoCaptchaNeeded, CaptchaRight, CaptchaWrong, LoginBreaks, Passing
  <2>3. UNCHANGED guard
    BY <1>7 DEF AnswerLocked, NoCaptchaNeeded, CaptchaRight, CaptchaWrong, LoginBreaks
  <2>4. /\ attempt' \in [Attempts -> [pc : {"idle", "snapped", "allowed"}, seen : Guards]]
        /\ Passing' \subseteq Passing
    BY <1>5, <2>2
  <2> QED
    BY <1>6, <2>1, <2>3, <2>4
<1>8. ASSUME NEW a \in Attempts, LoginFails(a) PROVE LoginInv'
  <2>1. /\ captchas' \in [Captchas -> [state : {"none", "live", "old"}, passes : {0, 1}]]
        /\ \A c \in Captchas : captchas'[c].state # "none" => captchas'[c].passes = 0
    BY <1>8, CaptchaIssued DEF LoginFails, LoginInv
  <2>2. /\ attempt' \in [Attempts -> [pc : {"idle", "snapped", "allowed"}, seen : Guards]]
        /\ Passing' \subseteq Passing /\ Passing' \subseteq Attempts \ {a} /\ a \in Passing
    <3>1. Goto(a, "idle") /\ a \in Passing
      BY <1>8 DEF LoginFails, Passing
    <3> QED
      BY <3>1, <1>5
  <2>3. Cardinality(Passing') <= n - 1
    <3>1. Passing' \in SUBSET (Passing \ {a})
      BY <2>2
    <3> QED
      BY <2>2, <3>1, PassingCounts
  <2> HIDE DEF n, m
  <2>4. guard' = recordLoginFailure(guard)
    BY <1>8 DEF LoginFails
  <2>5. guard' \in Guards
    BY <2>4 DEF recordLoginFailure, Normal, NoGuard, Guards, LoginInv
  <2>6. CASE guard.lock = "on"
    <3>1. guard'.failed = guard.failed + 1 /\ guard'.lock = "on"
      BY <2>4, <2>6 DEF recordLoginFailure, Normal, Guards, LoginInv
    <3>2. guard'.failed + Cardinality(Passing') <= LockThreshold + m - 1
      BY <1>n, <1>k, <2>3, <2>6, <3>1 DEF n, m, LoginInv, Guards
    <3> QED
      BY <2>1, <2>2, <2>5, <3>1, <3>2 DEF LoginInv, m
  <2>7. CASE guard.lock # "on"
    <3>1. /\ guard'.lock = "none" => guard'.failed < LockThreshold
          /\ guard'.lock = "on" => guard'.failed <= LockThreshold
          /\ guard'.lock # "past"
      BY <2>4, <2>7 DEF recordLoginFailure, Normal, NoGuard, Guards, LoginInv
    <3>2. guard'.lock = "on" => guard'.failed + Cardinality(Passing') <= LockThreshold + m - 1
      BY <1>n, <1>k, <2>3, <2>5, <3>1 DEF Guards
    <3> QED
      BY <2>1, <2>2, <2>5, <3>1, <3>2 DEF LoginInv, m
  <2> QED
    BY <2>6, <2>7
<1>9. ASSUME NEW a \in Attempts, LoginSucceeds(a) PROVE LoginInv'
  <2>1. /\ attempt' \in [Attempts -> [pc : {"idle", "snapped", "allowed"}, seen : Guards]]
        /\ guard' = NoGuard /\ UNCHANGED captchas
    <3>1. Goto(a, "idle")
      BY <1>9 DEF LoginSucceeds
    <3> QED
      BY <3>1, <1>5, <1>9 DEF LoginSucceeds
  <2>2. guard' \in Guards /\ guard'.lock = "none" /\ guard'.failed < LockThreshold
    BY <2>1 DEF NoGuard, Guards
  <2> QED
    BY <2>1, <2>2 DEF LoginInv
<1> QED
  BY <1>1, <1>2, <1>3, <1>4, <1>7, <1>8, <1>9 DEF LoginNext

LEMMA SecretStep ==
  ASSUME SecretInv, SecretNext
  PROVE  SecretInv'
<1> USE DEF SecretInv, PasswordOfRecord
<1>1. ASSUME NEW s, NEW ok \in BOOLEAN, persistLocked(s, ok)
      PROVE  /\ super'.password \in {acked'} \cup tried'
             /\ whole' => file'.password \in {acked'} \cup tried'
  BY <1>1 DEF persistLocked, WriteFails
<1>2. ASSUME NEW ok \in BOOLEAN, ForceReset(ok) PROVE SecretInv'
  BY <1>1, <1>2 DEF ForceReset
<1>3. ASSUME NEW ok \in BOOLEAN, NEW p \in Changers, UpdatePassword(p, ok) PROVE SecretInv'
  BY <1>1, <1>3 DEF UpdatePassword, Compared
<1>4. ASSUME NEW p \in Changers, ChangeAuthenticate(p) \/ UpdateRefused(p) PROVE SecretInv'
  BY <1>4 DEF ChangeAuthenticate, UpdateRefused
<1>5. ASSUME SuperRestart PROVE SecretInv'
  BY <1>5 DEF SuperRestart
<1> QED
  BY <1>2, <1>3, <1>4, <1>5 DEF SecretNext

LEMMA ResetStep ==
  ASSUME ResetInv, ResetNext
  PROVE  ResetInv'
<1> USE DEF ResetInv
<1>1. ASSUME handlePasswordResetStart \/ handlePasswordResetVerify \/ ResetExpires PROVE ResetInv'
  BY <1>1 DEF handlePasswordResetStart, handlePasswordResetVerify, ResetExpires
<1>2. ASSUME NEW p \in Completers, CompleteTake(p) PROVE ResetInv'
  BY <1>2 DEF CompleteTake
<1>3. ASSUME NEW p \in Completers, CompleteUpdate(p) PROVE ResetInv'
  <2>1. resets = 0 /\ resets' \in {0, 1}
    BY <1>3 DEF CompleteUpdate
  <2> QED
    BY <1>3, <2>1 DEF CompleteUpdate
<1> QED
  BY <1>1, <1>2, <1>3 DEF ResetNext

\* What the login path promises of its counters and secrets, whatever requests
\* overlap (recordLoginFailure, verifyCaptcha, UpdatePassword,
\* handlePasswordResetComplete), for any number of requests and any thresholds.
THEOREM CredentialsHold ==
  ASSUME IsFiniteSet(Attempts)
  PROVE  CredentialsSpec => []CredentialsSound
<1> DEFINE Inv == LoginInv /\ SecretInv /\ ResetInv
<1>1. CredentialsInit => Inv
  <2> SUFFICES ASSUME CredentialsInit PROVE Inv
    OBVIOUS
  <2>1. LoginInv
    BY LoginAssumption DEF LoginAssumption, CredentialsInit, LoginInit, LoginInv, Guards, NoGuard
  <2>2. SecretInv
    BY DEF CredentialsInit, SecretInit, SecretInv, PasswordOfRecord
  <2>3. ResetInv
    BY DEF CredentialsInit, ResetInit, ResetInv
  <2> QED
    BY <2>1, <2>2, <2>3
<1>2. Inv /\ [CredentialsNext]_credentialVars => Inv'
  <2> SUFFICES ASSUME Inv, [CredentialsNext]_credentialVars PROVE Inv'
    OBVIOUS
  <2>1. UNCHANGED loginVars => LoginInv'
    BY DEF loginVars, LoginInv, Passing
  <2>2. UNCHANGED secretVars => SecretInv'
    BY DEF secretVars, SecretInv, PasswordOfRecord
  <2>3. UNCHANGED resetVars => ResetInv'
    BY DEF resetVars, ResetInv
  <2> QED
    BY <2>1, <2>2, <2>3, LoginStep, SecretStep, ResetStep DEF CredentialsNext, credentialVars
<1>3. Inv => CredentialsSound
  <2> SUFFICES ASSUME Inv PROVE CredentialsSound
    OBVIOUS
  <2>1. FailuresBounded
    BY PassingCounts, LoginAssumption DEF LoginAssumption, LoginInv, Guards, FailuresBounded
  <2>2. CaptchaOnce
    BY DEF LoginInv, CaptchaOnce
  <2>3. PasswordOfRecord /\ ResetOnce
    BY DEF SecretInv, ResetInv, ResetOnce
  <2> QED
    BY <2>1, <2>2, <2>3 DEF CredentialsSound
<1> HIDE DEF Inv
<1> QED
  BY <1>1, <1>2, <1>3, PTL DEF CredentialsSpec

-----------------------------------------------------------------------------
(* Security: a saved policy waits for its audit entry at "audit", under    *)
(* the label of the save; a delete may wait there under the same name.     *)

RequestRecords == [pc : {"idle", "handler", "upsert", "audit", "access", "status", "done"},
                   tenant : RawTenants \cup {""}, id : Ids \cup {NoId},
                   label : {"none", "create", "update", "delete"},
                   recorded : BOOLEAN, failed : BOOLEAN,
                   committed : BOOLEAN, header : {"unset", "ok", "failed"}]

Saves == {"create", "update"}

\* A policy is recorded, or about to be, or lost to a failed INSERT.
Covered(t, i) ==
  \/ \E label \in Saves : [tenant |-> t, action |-> label, id |-> i] \in audit
  \/ \E q \in Requests : /\ req[q].pc = "audit" /\ req[q].label \in Saves
                         /\ normalizeTenantID(req[q].tenant) = t /\ req[q].id = i
  \/ auditFaults > 0

SecurityInv ==
  /\ req \in [Requests -> RequestRecords]
  /\ auditFaults \in Nat
  /\ violations \in [TenantIds -> SUBSET Ids]
  /\ rogues \in [TenantIds -> [Ids -> [severity : Severities, acts : SUBSET RogueActions, live : BOOLEAN]]]
  /\ marks \in [TenantIds -> [Ids -> SUBSET RogueActions]]
  /\ \A q \in Requests : req[q].pc = "upsert" => req[q].label \in Saves
  /\ \A q \in Requests : req[q].pc # "idle" => req[q].tenant \in RawTenants
  /\ \A t \in TenantIds : \A i \in violations[t] : Covered(t, i)
  /\ RogueSevere

\* What the invariant says of the requests alone.
ReqInv ==
  /\ req \in [Requests -> RequestRecords]
  /\ \A q \in Requests : req[q].pc = "upsert" => req[q].label \in Saves
  /\ \A q \in Requests : req[q].pc # "idle" => req[q].tenant \in RawTenants

\* A request that moves and was not waiting to audit takes no witness away.
LEMMA StillCovered ==
  ASSUME ReqInv, NEW q \in Requests, NEW r \in RequestRecords,
         req' = [req EXCEPT ![q] = r], ~(req[q].pc = "audit" /\ req[q].label \in Saves),
         audit \subseteq audit', auditFaults' \in Nat, auditFaults \in Nat, auditFaults' >= auditFaults,
         NEW t, NEW i, Covered(t, i)
  PROVE  Covered(t, i)'
<1>1. \A p \in Requests : p # q => req'[p] = req[p]
  BY DEF ReqInv
<1>2. CASE \E label \in Saves : [tenant |-> t, action |-> label, id |-> i] \in audit
  BY <1>2 DEF Covered
<1>3. CASE auditFaults > 0
  BY <1>3 DEF Covered
<1>4. CASE \E p \in Requests : /\ req[p].pc = "audit" /\ req[p].label \in Saves
                               /\ normalizeTenantID(req[p].tenant) = t /\ req[p].id = i
  BY <1>1, <1>4 DEF Covered
<1> QED
  BY <1>2, <1>3, <1>4 DEF Covered

\* Such a step that leaves policies and rogues alone keeps the invariant.
LEMMA Moves ==
  ASSUME SecurityInv, NEW q \in Requests, NEW r \in RequestRecords,
         req' = [req EXCEPT ![q] = r], ~(req[q].pc = "audit" /\ req[q].label \in Saves),
         audit \subseteq audit', auditFaults' \in Nat, auditFaults' >= auditFaults,
         r.pc = "upsert" => r.label \in Saves,
         r.pc # "idle" => r.tenant \in RawTenants,
         violations' \in [TenantIds -> SUBSET Ids],
         \A t \in TenantIds : violations'[t] \subseteq violations[t],
         rogues' \in [TenantIds -> [Ids -> [severity : Severities, acts : SUBSET RogueActions, live : BOOLEAN]]],
         marks' \in [TenantIds -> [Ids -> SUBSET RogueActions]],
         RogueSevere'
  PROVE  SecurityInv'
<1>1. ReqInv /\ auditFaults \in Nat
  BY DEF SecurityInv, ReqInv
<1>2. ReqInv'
  BY <1>1 DEF ReqInv
<1>3. ASSUME NEW t \in TenantIds, NEW i \in violations'[t] PROVE Covered(t, i)'
  <2>1. Covered(t, i)
    BY <1>3 DEF SecurityInv
  <2> QED
    BY <1>1, <2>1, StillCovered
<1> QED
  BY <1>2, <1>3 DEF SecurityInv, ReqInv

\* A tenant named by a request that has arrived is one of the store's.
LEMMA TenantOf ==
  ASSUME SecurityInv, NEW q \in Requests, req[q].pc # "idle"
  PROVE  accessTenantID(q) \in TenantIds /\ req[q] \in RequestRecords
BY DEF SecurityInv, accessTenantID, TenantIds

\* The handlers that answer at once, and those that do not bind.
LEMMA Answers ==
  ASSUME SecurityInv, NEW q \in Requests, req[q].pc = "handler", Responds(q) \/ Refuses(q),
         UNCHANGED <<violations, audit, auditFaults>>,
         rogues' \in [TenantIds -> [Ids -> [severity : Severities, acts : SUBSET RogueActions, live : BOOLEAN]]],
         marks' \in [TenantIds -> [Ids -> SUBSET RogueActions]],
         RogueSevere'
  PROVE  SecurityInv'
<1>1. req[q] \in RequestRecords /\ req \in [Requests -> RequestRecords] /\ req[q].tenant \in RawTenants
  BY DEF SecurityInv
<1>2. PICK b \in BOOLEAN : req' = [req EXCEPT ![q] = [req[q] EXCEPT !.pc = "access", !.committed = b]]
  <2>1. CASE Responds(q)
    <3>1. req' = [req EXCEPT ![q] = [req[q] EXCEPT !.pc = "access", !.committed = TRUE]]
      BY <1>1, <2>1 DEF Responds
    <3> QED
      BY <3>1
  <2>2. CASE Refuses(q)
    <3>4. [req[q] EXCEPT !.pc = "access"] = [req[q] EXCEPT !.pc = "access", !.committed = req[q].committed]
      BY <1>1 DEF RequestRecords
    <3>5. req' = [req EXCEPT ![q] = [req[q] EXCEPT !.pc = "access"]]
      BY <1>1, <2>2 DEF Refuses
    <3>2. req' = [req EXCEPT ![q] = [req[q] EXCEPT !.pc = "access", !.committed = req[q].committed]]
      BY <3>4, <3>5
    <3>3. req[q].committed \in BOOLEAN
      BY <1>1 DEF RequestRecords
    <3> QED
      BY <3>2, <3>3
  <2> QED
    BY <2>1, <2>2
<1>3. PICK r : r = [req[q] EXCEPT !.pc = "access", !.committed = b]
  OBVIOUS
<1>4. /\ r \in RequestRecords /\ req' = [req EXCEPT ![q] = r]
      /\ r.pc = "access" /\ r.tenant = req[q].tenant
  BY <1>1, <1>2, <1>3 DEF RequestRecords
<1>5. /\ violations' \in [TenantIds -> SUBSET Ids]
      /\ \A t \in TenantIds : violations'[t] \subseteq violations[t]
      /\ audit \subseteq audit' /\ auditFaults' \in Nat /\ auditFaults' >= auditFaults
  BY DEF SecurityInv
<1> QED
  BY <1>1, <1>4, <1>5, Moves

RogueType == [severity : Severities, acts : SUBSET RogueActions, live : BOOLEAN]

\* One record replaced, with severity and actions its marks allow.
LEMMA RogueSet ==
  ASSUME SecurityInv, NEW t \in TenantIds, NEW i \in Ids, NEW r \in RogueType,
         NEW m \in SUBSET RogueActions,
         SetRogue(t, i, r), marks' = [marks EXCEPT ![t][i] = m],
         "block" \in m => r.severity = "high",
         "quarantine" \in m => r.severity # "low",
         m \subseteq r.acts
  PROVE  /\ rogues' \in [TenantIds -> [Ids -> [severity : Severities, acts : SUBSET RogueActions, live : BOOLEAN]]]
         /\ marks' \in [TenantIds -> [Ids -> SUBSET RogueActions]]
         /\ RogueSevere'
<1>1. /\ rogues' \in [TenantIds -> [Ids -> [severity : Severities, acts : SUBSET RogueActions, live : BOOLEAN]]]
      /\ marks' \in [TenantIds -> [Ids -> SUBSET RogueActions]]
  BY DEF SecurityInv, SetRogue, RogueType
<1>2. \A s \in TenantIds, j \in Ids :
        \/ s = t /\ j = i /\ rogues'[s][j] = r /\ marks'[s][j] = m
        \/ rogues'[s][j] = rogues[s][j] /\ marks'[s][j] = marks[s][j]
  BY DEF SecurityInv, SetRogue
<1>3. RogueSevere'
  BY <1>2 DEF SecurityInv, RogueSevere
<1> QED
  BY <1>1, <1>3

\* The handlers of the store that change no policy.
LEMMA StoreHandlers ==
  ASSUME SecurityInv, NEW q \in Requests,
         \/ handleAccessTrustPortsSave(q) \/ handleAccessThreatRulesSave(q)
         \/ handleAccessRateLimitsUpsert(q) \/ handleAccessRateLimitsDelete(q)
         \/ RogueMissing(q) \/ BadRequest(q)
  PROVE  SecurityInv'
<1>1. /\ req[q].pc = "handler" /\ (Responds(q) \/ Refuses(q))
      /\ UNCHANGED <<violations, audit, auditFaults, rogues, marks>>
  BY DEF handleAccessTrustPortsSave, handleAccessThreatRulesSave, handleAccessRateLimitsUpsert,
         handleAccessRateLimitsDelete, RogueMissing, BadRequest, RequestAt, storeVars
<1>2. /\ rogues' \in [TenantIds -> [Ids -> [severity : Severities, acts : SUBSET RogueActions, live : BOOLEAN]]]
      /\ marks' \in [TenantIds -> [Ids -> SUBSET RogueActions]]
      /\ RogueSevere'
  BY <1>1 DEF SecurityInv, RogueSevere
<1> QED
  BY <1>1, <1>2, Answers

\* The handlers that write one rogue record and its marks.
LEMMA RogueHandlers ==
  ASSUME SecurityInv, NEW q \in Requests,
         \/ handleAccessRogueServersCreate(q) \/ handleAccessRogueServersUpdate(q)
         \/ handleAccessRogueServersDelete(q) \/ handleAccessRogueServersQuarantine(q)
         \/ handleAccessRogueServersBlock(q)
  PROVE  SecurityInv'
<1>1. /\ req[q].pc = "handler" /\ Responds(q)
      /\ UNCHANGED <<violations, audit, auditFaults>>
  BY DEF handleAccessRogueServersCreate, handleAccessRogueServersUpdate, handleAccessRogueServersDelete,
         handleAccessRogueServersQuarantine, handleAccessRogueServersBlock, RogueMark, RequestAt
<1>2. PICK t \in TenantIds : t = accessTenantID(q)
  BY <1>1, TenantOf
<1> DEFINE Written == \E i \in Ids, r \in RogueType, m \in SUBSET RogueActions :
        /\ SetRogue(t, i, r) /\ marks' = [marks EXCEPT ![t][i] = m]
        /\ "block" \in m => r.severity = "high"
        /\ "quarantine" \in m => r.severity # "low"
        /\ m \subseteq r.acts
<1>3. Written
  <2>1. ASSUME handleAccessRogueServersCreate(q) PROVE Written
    <3>1. PICK i \in ensureID(req[q].id), sv \in Severities, acts \in SUBSET RogueActions :
            createRogueServer(t, i, sv, acts)
      BY <1>2, <2>1 DEF handleAccessRogueServersCreate
    <3>2. i \in Ids
      BY <1>1, TenantOf DEF ensureID, Unused, RequestRecords
    <3>3. PICK r \in RogueType : r = [severity |-> sv, acts |-> acts, live |-> TRUE]
      BY DEF RogueType
    <3>4. PICK m \in SUBSET RogueActions : m = {}
      OBVIOUS
    <3>5. SetRogue(t, i, r) /\ marks' = [marks EXCEPT ![t][i] = m]
      BY <3>1, <3>3, <3>4 DEF createRogueServer
    <3> QED
      BY <3>2, <3>4, <3>5
  <2>2. ASSUME Named(q) PROVE /\ req[q].id \in Ids /\ rogues[t][req[q].id] \in RogueType
                              /\ marks[t][req[q].id] \in SUBSET RogueActions
    <3>1. req[q].id \in Ids
      BY <1>1, <2>2, TenantOf DEF Named, RequestRecords
    <3> QED
      BY <3>1 DEF SecurityInv, RogueType
  <2>3. ASSUME handleAccessRogueServersUpdate(q) PROVE Written
    <3>1. PICK i \in Ids : i = req[q].id
      BY <2>2, <2>3 DEF handleAccessRogueServersUpdate
    <3>2. PICK sv \in Severities \cup {"none"} : updateRogueServer(t, i, sv)
      BY <1>2, <2>3, <3>1 DEF handleAccessRogueServersUpdate
    <3>3. rogues[t][i] \in RogueType
      BY <2>2, <2>3, <3>1 DEF handleAccessRogueServersUpdate
    <3>4. PICK r : r = [rogues[t][i] EXCEPT !.severity = IF sv = "none" THEN rogues[t][i].severity ELSE sv]
      OBVIOUS
    <3>5. r \in RogueType
      BY <3>3, <3>4 DEF RogueType, Severities
    <3>6. SetRogue(t, i, r) /\ marks' = [marks EXCEPT ![t][i] = {}]
      BY <3>2, <3>4 DEF updateRogueServer
    <3>7. {} \in SUBSET RogueActions
      OBVIOUS
    <3> QED
      BY <3>5, <3>6, <3>7
  <2>4. ASSUME handleAccessRogueServersDelete(q) PROVE Written
    <3>1. PICK i \in Ids : i = req[q].id
      BY <2>2, <2>4 DEF handleAccessRogueServersDelete
    <3>2. SetRogue(t, i, Absent) /\ marks' = [marks EXCEPT ![t][i] = {}]
      BY <1>2, <2>4, <3>1 DEF handleAccessRogueServersDelete, deleteRogueServer
    <3>3. Absent \in RogueType
      BY DEF Absent, RogueType, Severities
    <3>4. {} \in SUBSET RogueActions
      OBVIOUS
    <3> QED
      BY <3>2, <3>3, <3>4
  <2>5. ASSUME NEW action \in RogueActions, RogueMark(q, action) PROVE Written
    <3>1. PICK i \in Ids : i = req[q].id
      BY <2>2, <2>5 DEF RogueMark
    <3>2. markRogueAction(t, i, action)
      BY <1>2, <2>5, <3>1 DEF RogueMark
    <3>3. rogues[t][i] \in RogueType /\ marks[t][i] \in SUBSET RogueActions
      BY <2>2, <2>5, <3>1 DEF RogueMark
    <3>4. PICK r : r = [rogues[t][i] EXCEPT !.acts = rogues[t][i].acts \cup {action},
                                           !.severity = Escalated(rogues[t][i].severity, action)]
      OBVIOUS
    <3>5. Escalated(rogues[t][i].severity, action) \in Severities
      BY <3>3 DEF Escalated, Severities, RogueActions, RogueType
    <3>6. /\ r \in RogueType /\ r.acts = rogues[t][i].acts \cup {action}
          /\ r.severity = Escalated(rogues[t][i].severity, action)
      BY <3>3, <3>4, <3>5 DEF RogueType
    <3>7. SetRogue(t, i, r) /\ marks' = [marks EXCEPT ![t][i] = marks[t][i] \cup {action}]
      BY <3>2, <3>4, <3>1 DEF markRogueAction, SecurityInv
    <3>8. /\ "block" \in marks[t][i] => rogues[t][i].severity = "high"
          /\ "quarantine" \in marks[t][i] => rogues[t][i].severity # "low"
          /\ marks[t][i] \subseteq rogues[t][i].acts
      BY DEF SecurityInv, RogueSevere
    <3>9. PICK m \in SUBSET RogueActions : m = marks[t][i] \cup {action}
      BY <3>3
    <3>10. /\ "block" \in m => r.severity = "high"
           /\ "quarantine" \in m => r.severity # "low"
           /\ m \subseteq r.acts
      BY <3>3, <3>6, <3>8, <3>9 DEF Escalated, RogueActions, RogueType, Severities
    <3> QED
      BY <3>6, <3>7, <3>9, <3>10
  <2> QED
    BY <2>1, <2>3, <2>4, <2>5
    DEF handleAccessRogueServersQuarantine, handleAccessRogueServersBlock, RogueActions
<1> QED
  BY <1>1, <1>3, RogueSet, Answers

\* The steps of a request that write no policy: arrival, audit, status.
LEMMA PipelineSteps ==
  ASSUME SecurityInv, NEW q \in Requests,
         \/ Arrive(q) \/ handleAccessViolationPoliciesUpsert(q)
         \/ auditAccessMiddleware(q) \/ auditStatusMiddleware(q)
  PROVE  SecurityInv'
<1>r. req[q] \in RequestRecords /\ req \in [Requests -> RequestRecords] /\ auditFaults \in Nat
  BY DEF SecurityInv
<1>1. /\ violations' \in [TenantIds -> SUBSET Ids]
      /\ \A t \in TenantIds : violations'[t] \subseteq violations[t]
      /\ rogues' \in [TenantIds -> [Ids -> [severity : Severities, acts : SUBSET RogueActions, live : BOOLEAN]]]
      /\ marks' \in [TenantIds -> [Ids -> SUBSET RogueActions]]
      /\ RogueSevere'
  BY DEF SecurityInv, RogueSevere, storeVars, Arrive, handleAccessViolationPoliciesUpsert,
         auditAccessMiddleware, auditStatusMiddleware
<1>2. req[q].pc # "audit"
  BY DEF RequestAt, Arrive, handleAccessViolationPoliciesUpsert, auditAccessMiddleware, auditStatusMiddleware
<1>3. audit \subseteq audit' /\ auditFaults' \in Nat /\ auditFaults' >= auditFaults
  <2>1. ASSUME auditAccessMiddleware(q) PROVE <1>3
    <3>1. PICK ok, e : InsertEvent(ok, e)
      BY <2>1 DEF auditAccessMiddleware
    <3> QED
      BY <1>r, <3>1 DEF InsertEvent
  <2>2. ASSUME UNCHANGED <<audit, auditFaults>> PROVE <1>3
    BY <1>r, <2>2
  <2> QED
    BY <2>1, <2>2 DEF Arrive, handleAccessViolationPoliciesUpsert, auditStatusMiddleware
<1> DEFINE Moved == \E r \in RequestRecords :
        /\ req' = [req EXCEPT ![q] = r]
        /\ r.pc = "upsert" => r.label \in Saves
        /\ r.pc # "idle" => r.tenant \in RawTenants
<1>4. Moved
  <2>1. ASSUME Arrive(q) PROVE Moved
    <3>1. PICK t \in RawTenants, i \in Ids \cup {NoId} :
            req' = [req EXCEPT ![q].pc = "handler", ![q].tenant = t, ![q].id = i]
      BY <2>1 DEF Arrive
    <3>2. PICK r : r = [req[q] EXCEPT !.pc = "handler", !.tenant = t, !.id = i]
      OBVIOUS
    <3>3. r \in RequestRecords /\ r.pc = "handler" /\ r.tenant = t
      BY <1>r, <3>2 DEF RequestRecords
    <3>4. req' = [req EXCEPT ![q] = r]
      BY <1>r, <3>1, <3>2 DEF RequestRecords
    <3> QED
      BY <3>3, <3>4
  <2>2. ASSUME handleAccessViolationPoliciesUpsert(q) PROVE Moved
    <3>1. PICK l \in Saves : req' = [req EXCEPT ![q] = [req[q] EXCEPT !.pc = "upsert", !.label = l]]
      BY <2>2 DEF handleAccessViolationPoliciesUpsert, Saves
    <3>2. PICK r : r = [req[q] EXCEPT !.pc = "upsert", !.label = l]
      OBVIOUS
    <3>3. r \in RequestRecords /\ r.pc = "upsert" /\ r.tenant = req[q].tenant /\ r.label = l
      BY <1>r, <3>1, <3>2 DEF RequestRecords, Saves
    <3>4. req[q].pc # "idle"
      BY <2>2 DEF handleAccessViolationPoliciesUpsert, RequestAt
    <3> QED
      BY <3>1, <3>2, <3>3, <3>4 DEF SecurityInv
  <2>3. ASSUME auditAccessMiddleware(q) PROVE Moved
    <3>1. PICK ok \in BOOLEAN : req' = [req EXCEPT ![q] = [Noted(req[q], ok) EXCEPT !.pc = "status"]]
      BY <2>3 DEF auditAccessMiddleware
    <3>2. PICK r : r = [Noted(req[q], ok) EXCEPT !.pc = "status"]
      OBVIOUS
    <3>3. r \in RequestRecords /\ r.pc = "status" /\ r.tenant = req[q].tenant
      BY <1>r, <3>1, <3>2 DEF RequestRecords, Noted
    <3>4. req[q].pc # "idle"
      BY <2>3 DEF auditAccessMiddleware, RequestAt
    <3> QED
      BY <3>1, <3>2, <3>3, <3>4 DEF SecurityInv
  <2>4. ASSUME auditStatusMiddleware(q) PROVE Moved
    <3>1. PICK h \in {"unset", "ok", "failed"} : h = IF req[q].committed THEN "unset" ELSE StatusOf(req[q])
      BY DEF StatusOf
    <3>2. PICK r : r = [req[q] EXCEPT !.pc = "done", !.header = h]
      OBVIOUS
    <3>3. r \in RequestRecords /\ r.pc = "done" /\ r.tenant = req[q].tenant
      BY <1>r, <3>1, <3>2 DEF RequestRecords
    <3>4. req' = [req EXCEPT ![q] = r]
      BY <2>4, <3>1, <3>2 DEF auditStatusMiddleware
    <3>5. req[q].pc # "idle"
      BY <2>4 DEF auditStatusMiddleware, RequestAt
    <3> QED
      BY <3>3, <3>4, <3>5 DEF SecurityInv
  <2> QED
    BY <2>1, <2>2, <2>3, <2>4
<1> QED
  BY <1>1, <1>2, <1>3, <1>4, Moves

\* A saved policy has its request as a witness.
LEMMA PolicySaved ==
  ASSUME SecurityInv, NEW q \in Requests, UpsertPolicy(q)
  PROVE  SecurityInv'
<1>r. /\ req[q] \in RequestRecords /\ ReqInv /\ auditFaults \in Nat
      /\ req[q].pc = "upsert" /\ req[q].label \in Saves /\ req[q].tenant \in RawTenants
  BY DEF SecurityInv, ReqInv, UpsertPolicy, RequestAt
<1>1. PICK id \in ensureID(req[q].id) :
        upsertViolationPolicy(accessTenantID(q), id) /\ req' = StoreDone(q, id)
  BY DEF UpsertPolicy
<1>2. id \in Ids
  BY <1>r, <1>1 DEF ensureID, Unused, RequestRecords
<1>3. PICK t \in TenantIds : t = accessTenantID(q)
  BY <1>r, TenantOf
<1>4. PICK r : r = [req[q] EXCEPT !.pc = "audit", !.id = id]
  OBVIOUS
<1>5. /\ r \in RequestRecords /\ r.pc = "audit" /\ r.label = req[q].label /\ r.id = id
      /\ r.tenant = req[q].tenant
  BY <1>r, <1>2, <1>4 DEF RequestRecords
<1>6. req' = [req EXCEPT ![q] = r]
  BY <1>r, <1>1, <1>4 DEF StoreDone, ReqInv, RequestRecords
<1>7. UNCHANGED <<rogues, marks, audit, auditFaults>>
  BY DEF UpsertPolicy
<1>8. violations' = [violations EXCEPT ![t] = violations[t] \cup {id}]
  BY <1>1, <1>3 DEF upsertViolationPolicy
<1>9. violations' \in [TenantIds -> SUBSET Ids]
  BY <1>2, <1>8 DEF SecurityInv
<1>10. ReqInv'
  BY <1>r, <1>5, <1>6 DEF ReqInv
<1>11. ASSUME NEW s \in TenantIds, NEW i \in violations'[s] PROVE Covered(s, i)'
  <2>1. CASE s = t /\ i = id
    <3>1. req'[q] = r
      BY <1>r, <1>6 DEF ReqInv
    <3> QED
      BY <1>r, <1>3, <1>5, <2>1, <3>1 DEF Covered, accessTenantID
  <2>2. CASE ~(s = t /\ i = id)
    <3>1. i \in violations[s]
      BY <1>8, <1>11, <2>2 DEF SecurityInv
    <3>2. Covered(s, i)
      BY <3>1 DEF SecurityInv
    <3>3. ~(req[q].pc = "audit" /\ req[q].label \in Saves)
      BY <1>r
    <3>4. audit \subseteq audit' /\ auditFaults' \in Nat /\ auditFaults' >= auditFaults
      BY <1>r, <1>7
    <3> QED
      BY <1>r, <1>5, <1>6, <3>2, <3>3, <3>4, StillCovered
  <2> QED
    BY <2>1, <2>2
<1> QED
  BY <1>7, <1>9, <1>10, <1>11 DEF SecurityInv, ReqInv, RogueSevere

\* A delete takes policies away; its own entry covers none.
LEMMA PolicyDeleted ==
  ASSUME SecurityInv, NEW q \in Requests, handleAccessViolationPoliciesDelete(q)
  PROVE  SecurityInv'
<1>r. /\ req[q] \in RequestRecords /\ req \in [Requests -> RequestRecords] /\ auditFaults \in Nat
      /\ req[q].pc = "handler" /\ req[q].tenant \in RawTenants
      /\ UNCHANGED <<rogues, marks, audit, auditFaults>>
  BY DEF SecurityInv, handleAccessViolationPoliciesDelete, RequestAt
<1>s. /\ rogues' \in [TenantIds -> [Ids -> [severity : Severities, acts : SUBSET RogueActions, live : BOOLEAN]]]
      /\ marks' \in [TenantIds -> [Ids -> SUBSET RogueActions]]
      /\ RogueSevere'
  BY <1>r DEF SecurityInv, RogueSevere
<1>1. CASE Responds(q) /\ UNCHANGED violations
  BY <1>r, <1>s, <1>1, Answers
<1>2. CASE /\ deleteViolationPolicy(accessTenantID(q), req[q].id)
           /\ req' = [req EXCEPT ![q].pc = "audit", ![q].label = "delete"]
  <2>1. PICK r : r = [req[q] EXCEPT !.pc = "audit", !.label = "delete"]
    OBVIOUS
  <2>2. r \in RequestRecords /\ r.pc = "audit" /\ r.tenant = req[q].tenant
    BY <1>r, <2>1 DEF RequestRecords
  <2>3. req' = [req EXCEPT ![q] = r]
    BY <1>r, <1>2, <2>1 DEF RequestRecords
  <2>4. /\ violations' \in [TenantIds -> SUBSET Ids]
        /\ \A t \in TenantIds : violations'[t] \subseteq violations[t]
    BY <1>2 DEF deleteViolationPolicy, SecurityInv
  <2>5. audit \subseteq audit' /\ auditFaults' \in Nat /\ auditFaults' >= auditFaults
    BY <1>r
  <2> QED
    BY <1>r, <1>s, <2>2, <2>3, <2>4, <2>5, Moves
<1> QED
  BY <1>1, <1>2 DEF handleAccessViolationPoliciesDelete

\* The entry takes over from the request, or the failure is counted.
LEMMA ChangeAudited ==
  ASSUME SecurityInv, NEW q \in Requests, AuditChange(q)
  PROVE  SecurityInv'
<1>r. /\ req[q] \in RequestRecords /\ ReqInv /\ auditFaults \in Nat
      /\ req[q].pc = "audit" /\ req[q].tenant \in RawTenants
      /\ UNCHANGED <<rogues, marks, violations>>
  BY DEF SecurityInv, ReqInv, AuditChange, RequestAt, storeVars
<1>1. PICK e : e = [tenant |-> accessTenantID(q), action |-> req[q].label, id |-> req[q].id]
  OBVIOUS
<1>2. PICK ok \in BOOLEAN : recordAudit(q, ok, e, TRUE)
  BY <1>1 DEF AuditChange
<1>3. PICK r : r = [Noted(req[q], ok) EXCEPT !.pc = "access", !.committed = TRUE]
  OBVIOUS
<1>4. r \in RequestRecords /\ r.pc = "access" /\ r.tenant = req[q].tenant
  BY <1>r, <1>3 DEF RequestRecords, Noted
<1>5. req' = [req EXCEPT ![q] = r] /\ InsertEvent(ok, e)
  BY <1>2, <1>3 DEF recordAudit
<1>6. /\ audit \subseteq audit' /\ auditFaults' \in Nat /\ auditFaults' >= auditFaults
      /\ e \in audit' \/ auditFaults' > 0
  BY <1>r, <1>5 DEF InsertEvent
<1>7. ReqInv'
  BY <1>r, <1>4, <1>5 DEF ReqInv
<1>8. ASSUME NEW t \in TenantIds, NEW i \in violations'[t] PROVE Covered(t, i)'
  <2>1. Covered(t, i)
    BY <1>r, <1>8 DEF SecurityInv
  <2>2. CASE /\ req[q].label \in Saves
             /\ normalizeTenantID(req[q].tenant) = t /\ req[q].id = i
    BY <1>1, <1>6, <2>2 DEF Covered, accessTenantID
  <2>3. ASSUME NEW p \in Requests, p # q, req[p].pc = "audit", req[p].label \in Saves,
               normalizeTenantID(req[p].tenant) = t, req[p].id = i
        PROVE  Covered(t, i)'
    <3>1. req'[p] = req[p]
      BY <1>r, <1>5, <2>3 DEF ReqInv
    <3> QED
      BY <2>3, <3>1 DEF Covered
  <2>4. CASE \E label \in Saves : [tenant |-> t, action |-> label, id |-> i] \in audit
    BY <1>6, <2>4 DEF Covered
  <2>5. CASE auditFaults > 0
    BY <1>r, <1>6, <2>5 DEF Covered
  <2> QED
    BY <2>1, <2>2, <2>3, <2>4, <2>5 DEF Covered
<1> QED
  BY <1>r, <1>6, <1>7, <1>8 DEF SecurityInv, ReqInv, RogueSevere

\* What the security API keeps (http_server.go, access_security_store.go): a
\* policy in the store has its audit entry, or a request about to write it, or
\* an INSERT has failed; rogue servers keep the severity their marks call for.
THEOREM SecurityKept == SecuritySpec => []SecuritySound
<1>1. SecurityInit => SecurityInv
  <2> SUFFICES ASSUME SecurityInit PROVE SecurityInv
    OBVIOUS
  <2>1. /\ req \in [Requests -> RequestRecords]
        /\ \A q \in Requests : req[q].pc = "idle"
    BY DEF SecurityInit, RequestRecords
  <2>2. /\ violations \in [TenantIds -> SUBSET Ids] /\ \A t \in TenantIds : violations[t] = {}
        /\ auditFaults \in Nat
    BY DEF SecurityInit, newAccessSecurityStore
  <2>3. /\ rogues \in [TenantIds -> [Ids -> [severity : Severities, acts : SUBSET RogueActions, live : BOOLEAN]]]
        /\ marks \in [TenantIds -> [Ids -> SUBSET RogueActions]]
        /\ \A t \in TenantIds, i \in Ids : marks[t][i] = {}
    BY DEF SecurityInit, newAccessSecurityStore, Absent, Severities
  <2>4. RogueSevere
    BY <2>3 DEF RogueSevere
  <2> QED
    BY <2>1, <2>2, <2>3, <2>4 DEF SecurityInv
<1>2. SecurityInv /\ [SecurityNext]_securityVars => SecurityInv'
  <2>1. ASSUME SecurityInv, UNCHANGED securityVars PROVE SecurityInv'
    <3>1. UNCHANGED <<violations, rogues, marks, audit, req, auditFaults>>
      BY <2>1 DEF securityVars, storeVars
    <3>2. \A t, i : Covered(t, i) => Covered(t, i)'
      BY <3>1 DEF Covered
    <3>3. RogueSevere'
      BY <2>1, <3>1 DEF SecurityInv, RogueSevere
    <3> QED
      BY <2>1, <3>1, <3>2, <3>3 DEF SecurityInv
  <2> QED
    BY <2>1, StoreHandlers, RogueHandlers, PipelineSteps, PolicySaved, PolicyDeleted, ChangeAudited
    DEF SecurityNext, Handler
<1>3. SecurityInv => SecuritySound
  <2> SUFFICES ASSUME SecurityInv PROVE AuditCovers
    BY DEF SecurityInv, SecuritySound
  <2> SUFFICES ASSUME NEW t \in TenantIds, NEW i \in violations[t], Covered(t, i)
               PROVE  \/ [tenant |-> t, action |-> "create", id |-> i] \in audit
                      \/ [tenant |-> t, action |-> "update", id |-> i] \in audit
                      \/ \E q \in Requests : RequestAt(q, "audit") /\ accessTenantID(q) = t /\ req[q].id = i
                      \/ auditFaults > 0
    BY DEF SecurityInv, AuditCovers
  <2> QED
    BY DEF Covered, Saves, RequestAt, accessTenantID
<1> QED
  BY <1>1, <1>2, <1>3, PTL DEF SecuritySpec

-----------------------------------------------------------------------------
(* Pools.  Every pool in a row, in the cache or in a request about to write *)
(* it is one planPool accepts.                                              *)

PoolWell(r) ==
  /\ r = [scope |-> r.scope, parent |-> r.parent, prefix |-> r.prefix, range |-> r.range,
          reserve |-> r.reserve, vlan |-> r.vlan, excluded |-> r.excluded]
  /\ r.scope \in Nat \ {0} /\ r.parent \in PoolIds \cup {NoPool}
  /\ Contains(r.prefix, r.range[1]) /\ Contains(r.prefix, r.range[2])
  /\ normalizeExclusions(r.range, r.excluded)
  /\ r.parent = NoPool <=> r.scope = 1

PoolOrNone(r) == r = NoPool \/ PoolWell(r)

BindingRows == [pool : PoolIds, ip : Addresses, status : {"offline", "online"}]

AdminWell(c) ==
  /\ c.at \in {"idle", "import", "update", "write", "exclude", "unexclude"}
  /\ c.at \in {"update", "write", "exclude", "unexclude"} => c.pool \in PoolIds
  /\ c.at \in {"update", "write"} => PoolWell(c.new)
  /\ c.at = "import" => c \in [at : {"import"}, key : {c.key}, rows : Seq(FileRows),
                               known : {c.known}]

PoolTables ==
  /\ row = [p \in PoolIds |-> row[p]] /\ \A p \in PoolIds : PoolOrNone(row[p])
  /\ cached = [p \in PoolIds |-> cached[p]] /\ \A p \in PoolIds : PoolOrNone(cached[p])
  /\ bound \in [Bindings -> BindingRows \cup {Unbound}]

AdminsWell == /\ admin = [a \in Admins |-> admin[a]]
              /\ \A a \in Admins : AdminWell(admin[a])

PoolInv == PoolTables /\ AdminsWell

LEMMA PlannedWell ==
  ASSUME NEW body, NEW exclusions, NEW parent, PoolOrNone(parent),
         body.parent \in PoolIds \cup {NoPool}, body.parent = NoPool <=> parent = NoPool,
         planPool(body, exclusions, parent).valid
  PROVE  /\ PoolWell(planPool(body, exclusions, parent).plan)
         /\ planPool(body, exclusions, parent).plan.prefix = body.prefix
<1> DEFINE bounds == resolveRangeBounds(body.prefix, body.lo, body.hi)
           reserve == resolveReserve(body.reserve, parent)
           metadata == resolveMetadata(body, parent)
           plan == [scope |-> body.scope, parent |-> body.parent, prefix |-> body.prefix,
                    range |-> bounds.range, reserve |-> reserve,
                    vlan |-> metadata.vlan, excluded |-> exclusions]
<1>1. /\ validateScopeTransition(body.scope, parent) /\ bounds.valid
      /\ normalizeExclusions(bounds.range, exclusions)
      /\ planPool(body, exclusions, parent) = [valid |-> TRUE, plan |-> plan]
  BY DEF planPool, Invalid
<1>2. Contains(body.prefix, bounds.range[1]) /\ Contains(body.prefix, bounds.range[2])
  <2> DEFINE start == IF body.lo = 0 THEN DefaultHostRange(body.prefix)[1] ELSE body.lo
             end == IF body.hi = 0 THEN DefaultHostRange(body.prefix)[2] ELSE body.hi
  <2>1. bounds = IF Contains(body.prefix, start) /\ Contains(body.prefix, end) /\ start <= end
                 THEN [valid |-> TRUE, range |-> <<start, end>>] ELSE Invalid
    BY DEF resolveRangeBounds
  <2> HIDE DEF start, end, bounds
  <2>2. Contains(body.prefix, start) /\ Contains(body.prefix, end)
        /\ bounds = [valid |-> TRUE, range |-> <<start, end>>]
    BY <1>1, <2>1 DEF Invalid
  <2> QED BY <2>2
<1>3. body.scope \in Nat \ {0} /\ (body.parent = NoPool <=> body.scope = 1)
  BY <1>1 DEF validateScopeTransition, PoolOrNone, PoolWell
<1> HIDE DEF bounds, reserve, metadata
<1>4. PoolWell(plan)
  BY <1>1, <1>2, <1>3 DEF PoolWell
<1>5. planPool(body, exclusions, parent).plan = plan /\ plan.prefix = body.prefix
  BY <1>1
<1> QED BY <1>4, <1>5

LEMMA ReadWell ==
  ASSUME PoolTables, NEW p \in PoolIds
  PROVE  PoolOrNone(GetPool(p))
BY DEF PoolTables, GetPool, Fresh

LEMMA ParentWell ==
  ASSUME PoolTables, NEW body, body.parent \in PoolIds \cup {NoPool},
         body.parent # NoPool => Parent(body) # NoPool
  PROVE  PoolOrNone(Parent(body)) /\ (body.parent = NoPool <=> Parent(body) = NoPool)
BY ReadWell DEF Parent, PoolOrNone

LEMMA FilledWell ==
  ASSUME PoolTables, NEW ps
  PROVE  /\ Filled(ps) = [p \in PoolIds |-> Filled(ps)[p]]
         /\ \A p \in PoolIds : PoolOrNone(Filled(ps)[p])
BY ReadWell DEF Filled, PoolTables

LEMMA EvictedWell ==
  ASSUME PoolTables, NEW known
  PROVE  /\ evictTenant(known) = [p \in PoolIds |-> evictTenant(known)[p]]
         /\ \A p \in PoolIds : PoolOrNone(evictTenant(known)[p])
BY DEF evictTenant, PoolTables, PoolOrNone

\* A pool as a request to write it back.
LEMMA AgainWell ==
  ASSUME NEW pool, PoolWell(pool)
  PROVE  poolUpdateRequestFromModel(pool).parent \in PoolIds \cup {NoPool}
BY DEF poolUpdateRequestFromModel, PoolWell

LEMMA ExcludeWell ==
  ASSUME NEW pool, PoolWell(pool), NEW ip, NEW p
  PROVE  /\ PoolWell(autoExcludeBindingIP(pool, ip))
         /\ PoolWell(autoUnexcludeBindingIP(pool, p, ip))
<1>1. ASSUME NEW E, normalizeExclusions(pool.range, E)
      PROVE  PoolWell([pool EXCEPT !.excluded = E])
  BY <1>1 DEF PoolWell
<1>2. PoolWell(autoExcludeBindingIP(pool, ip))
  BY <1>1 DEF autoExcludeBindingIP
<1>3. normalizeExclusions(pool.range, pool.excluded \ {<<ip, ip>>})
  BY DEF PoolWell, normalizeExclusions
<1>4. PoolWell(autoUnexcludeBindingIP(pool, p, ip))
  BY <1>1, <1>3 DEF autoUnexcludeBindingIP
<1> QED BY <1>2, <1>4

\* The kinds of steps: a new or changed row under an emptied or kept cache, a read.
LEMMA CreateKeeps ==
  ASSUME PoolInv, NEW a \in Admins, NEW p \in PoolIds, NEW body,
         body.parent \in PoolIds \cup {NoPool}, CreatePool(a, p, body)
  PROVE  PoolInv'
<1> DEFINE planned == planPool(body, body.excluded, Parent(body))
<1>1. planned.valid /\ InsertPool(p, planned.plan) /\ UNCHANGED <<bound, admin>>
  BY DEF CreatePool
<1>2. PoolWell(planned.plan)
  BY PlannedWell, ParentWell DEF CreatePool, PoolInv
<1> HIDE DEF planned
<1>3. PoolTables'
  <2>1. row' = [q \in PoolIds |-> row'[q]] /\ \A q \in PoolIds : PoolOrNone(row'[q])
    BY <1>1, <1>2 DEF InsertPool, PoolInv, PoolTables, PoolOrNone
  <2>2. cached' = [q \in PoolIds |-> cached'[q]] /\ \A q \in PoolIds : PoolOrNone(cached'[q])
    BY <1>1, EvictedWell DEF InsertPool, PoolInv
  <2> QED BY <1>1, <2>1, <2>2 DEF PoolInv, PoolTables, PoolOrNone, PoolWell
<1> QED BY <1>1, <1>3 DEF PoolInv, AdminsWell, AdminWell, PoolWell

\* Requests that write no row.
LEMMA QuietKeeps ==
  ASSUME PoolInv, UNCHANGED row,
         bound' \in [Bindings -> BindingRows \cup {Unbound}],
         cached' = [q \in PoolIds |-> cached'[q]],
         \A q \in PoolIds : PoolOrNone(cached'[q]),
         UNCHANGED admin \/ \E a \in Admins : \E c : AdminWell(c) /\ admin' = [admin EXCEPT ![a] = c]
  PROVE  PoolInv'
<1>1. PoolTables'
  BY DEF PoolInv, PoolTables, PoolOrNone, PoolWell
<1>2. AdminsWell'
  <2>1. CASE UNCHANGED admin
    BY <2>1 DEF PoolInv, AdminsWell, AdminWell, PoolWell
  <2>2. CASE \E a \in Admins : \E c : AdminWell(c) /\ admin' = [admin EXCEPT ![a] = c]
    <3>1. PICK a \in Admins : \E c : AdminWell(c) /\ admin' = [admin EXCEPT ![a] = c]
      BY <2>2
    <3>1a. PICK c : AdminWell(c) /\ admin' = [admin EXCEPT ![a] = c]
      BY <3>1
    <3>2. admin' = [b \in Admins |-> admin'[b]]
          /\ \A b \in Admins : admin'[b] = c \/ admin'[b] = admin[b]
      BY <3>1a DEF PoolInv, AdminsWell
    <3> QED BY <3>1a, <3>2 DEF PoolInv, AdminsWell, AdminWell, PoolWell
  <2> QED BY <2>1, <2>2
<1> QED BY <1>1, <1>2 DEF PoolInv

\* A write of the row a request has read and changed.
LEMMA WriteKeeps ==
  ASSUME PoolInv, NEW a \in Admins, admin[a].at \in {"update", "write"}, NEW known,
         UpdatePoolRow(admin[a].pool, admin[a].new, known),
         admin' = [admin EXCEPT ![a] = Idle], UNCHANGED bound
  PROVE  PoolInv'
<1>1. admin[a].pool \in PoolIds /\ PoolWell(admin[a].new)
  BY DEF PoolInv, AdminsWell, AdminWell
<1>2. row' = [q \in PoolIds |-> row'[q]] /\ \A q \in PoolIds : PoolOrNone(row'[q])
  BY <1>1 DEF UpdatePoolRow, PoolInv, PoolTables, PoolOrNone
<1>3. cached' = [q \in PoolIds |-> cached'[q]] /\ \A q \in PoolIds : PoolOrNone(cached'[q])
  BY EvictedWell DEF UpdatePoolRow, PoolInv
<1>4. PoolTables'
  BY <1>2, <1>3 DEF PoolInv, PoolTables, PoolOrNone, PoolWell
<1>5. AdminsWell'
  BY DEF PoolInv, AdminsWell, AdminWell, Idle, PoolWell
<1> QED BY <1>4, <1>5 DEF PoolInv

LEMMA UpdateKeeps ==
  ASSUME PoolInv, NEW a \in Admins, NEW p \in PoolIds, NEW body,
         body.parent \in PoolIds \cup {NoPool}, UpdatePoolRead(a, p, body)
  PROVE  PoolInv'
<1> DEFINE kept == IF body.excluded = {} THEN GetPool(p).excluded ELSE body.excluded
           planned == planPool(body, kept, Parent(body))
           c == [at |-> "update", pool |-> p, new |-> planned.plan]
<1>1. /\ planned.valid /\ admin' = [admin EXCEPT ![a] = c]
      /\ cached' = Filled({p, body.parent} \ {NoPool}) /\ UNCHANGED <<row, bound>>
  BY DEF UpdatePoolRead
<1>2. PoolWell(planned.plan)
  BY <1>1, PlannedWell, ParentWell DEF UpdatePoolRead, PoolInv
<1> HIDE DEF planned
<1>3. AdminWell(c)
  BY <1>2 DEF AdminWell
<1>4. cached' = [q \in PoolIds |-> cached'[q]] /\ \A q \in PoolIds : PoolOrNone(cached'[q])
  BY <1>1, FilledWell DEF PoolInv
<1>5. bound' \in [Bindings -> BindingRows \cup {Unbound}]
  BY <1>1 DEF PoolInv, PoolTables
<1> HIDE DEF c
<1> QED BY <1>1, <1>3, <1>4, <1>5, QuietKeeps

LEMMA DeleteKeeps ==
  ASSUME PoolInv, NEW a \in Admins, NEW p \in PoolIds, DeletePool(a, p)
  PROVE  PoolInv'
<1>1. DeletePoolRow(p) /\ UNCHANGED <<bound, admin>>
  BY DEF DeletePool
<1>2. row' = [q \in PoolIds |-> row'[q]] /\ \A q \in PoolIds : PoolOrNone(row'[q])
  BY <1>1 DEF DeletePoolRow, PoolInv, PoolTables, PoolOrNone
<1>3. cached' = [q \in PoolIds |-> cached'[q]] /\ \A q \in PoolIds : PoolOrNone(cached'[q])
  BY <1>1, EvictedWell DEF DeletePoolRow, PoolInv
<1>4. PoolTables'
  BY <1>1, <1>2, <1>3 DEF PoolInv, PoolTables, PoolOrNone, PoolWell
<1> QED BY <1>1, <1>4 DEF PoolInv, AdminsWell, AdminWell, PoolWell

LEMMA BindingsKeep ==
  ASSUME PoolInv, NEW a \in Admins, NEW b \in Bindings, NEW p \in PoolIds, NEW ip \in Addresses,
         CreateBinding(a, b, p, ip) \/ UpdateBinding(a, b, p, ip)
  PROVE  PoolInv'
<1>0. bound \in [Bindings -> BindingRows \cup {Unbound}]
  BY DEF PoolInv, PoolTables
<1>1. /\ \A ps : Filled(ps) = [q \in PoolIds |-> Filled(ps)[q]]
                   /\ \A q \in PoolIds : PoolOrNone(Filled(ps)[q])
      /\ cached = [q \in PoolIds |-> cached[q]] /\ \A q \in PoolIds : PoolOrNone(cached[q])
  BY FilledWell DEF PoolInv, PoolTables
<1>2. CASE CreateBinding(a, b, p, ip)
  <2> DEFINE c == [at |-> "exclude", pool |-> p, ip |-> ip]
  <2>1. AdminWell(c)
    BY DEF AdminWell
  <2>2. /\ admin' = [admin EXCEPT ![a] = c] /\ cached' = Filled({p}) /\ UNCHANGED row
        /\ bound' = [bound EXCEPT ![b] = [pool |-> p, ip |-> ip, status |-> "offline"]]
    BY <1>2 DEF CreateBinding, InsertBinding
  <2>3. bound' \in [Bindings -> BindingRows \cup {Unbound}]
    BY <1>0, <2>2 DEF BindingRows
  <2> HIDE DEF c
  <2> QED BY <1>1, <2>1, <2>2, <2>3, QuietKeeps
<1>3. CASE UpdateBinding(a, b, p, ip)
  <2>1. bound[b] \in BindingRows
    BY <1>0, <1>3 DEF UpdateBinding
  <2>2. [bound[b] EXCEPT !.pool = p, !.ip = ip] \in BindingRows
    BY <2>1 DEF BindingRows
  <2>3. /\ cached' = Filled({p}) /\ UNCHANGED <<row, admin>>
        /\ bound' \in [Bindings -> BindingRows \cup {Unbound}]
    BY <1>0, <1>3, <2>2 DEF UpdateBinding, UpdateBindingRow
  <2> QED BY <1>1, <2>3, QuietKeeps
<1> QED BY <1>2, <1>3

LEMMA UnbindKeeps ==
  ASSUME PoolInv, NEW b \in Bindings,
         (\E a \in Admins : DeleteBinding(a, b)) \/ RecordBindingSeen(b)
  PROVE  PoolInv'
<1>0. bound \in [Bindings -> BindingRows \cup {Unbound}]
  BY DEF PoolInv, PoolTables
<1>1. cached = [q \in PoolIds |-> cached[q]] /\ \A q \in PoolIds : PoolOrNone(cached[q])
  BY DEF PoolInv, PoolTables
<1>4. CASE \E a \in Admins : DeleteBinding(a, b)
  <2>0. PICK a \in Admins : DeleteBinding(a, b)
    BY <1>4
  <2> DEFINE c == [at |-> "unexclude", pool |-> bound[b].pool, ip |-> bound[b].ip]
  <2>1. bound[b] \in BindingRows
    BY <1>0, <2>0 DEF DeleteBinding
  <2>2. AdminWell(c)
    BY <2>1 DEF AdminWell, BindingRows
  <2>3. /\ admin' = [admin EXCEPT ![a] = c] /\ UNCHANGED <<row, cached>>
        /\ bound' \in [Bindings -> BindingRows \cup {Unbound}]
    BY <1>0, <2>0 DEF DeleteBinding, DeleteBindingRow
  <2> HIDE DEF c
  <2> QED BY <1>1, <2>2, <2>3, QuietKeeps
<1>5. CASE RecordBindingSeen(b)
  <2>1. bound[b] \in BindingRows
    BY <1>0, <1>5 DEF RecordBindingSeen
  <2>2. [bound[b] EXCEPT !.status = "online"] \in BindingRows
    BY <2>1 DEF BindingRows
  <2>3. bound' = [bound EXCEPT ![b] = [bound[b] EXCEPT !.status = "online"]]
        /\ UNCHANGED <<row, cached, admin>>
    BY <1>5 DEF RecordBindingSeen
  <2>4. bound' \in [Bindings -> BindingRows \cup {Unbound}]
    BY <1>0, <2>2, <2>3
  <2> QED BY <1>1, <2>3, <2>4, QuietKeeps
<1> QED BY <1>4, <1>5

LEMMA ExclusionKeeps ==
  ASSUME PoolInv, NEW a \in Admins, ReadForExclusion(a)
  PROVE  PoolInv'
<1> DEFINE p == admin[a].pool
           old == GetPool(p)
           new == IF old = NoPool THEN old
                  ELSE IF admin[a].at = "exclude" THEN autoExcludeBindingIP(old, admin[a].ip)
                       ELSE autoUnexcludeBindingIP(old, p, admin[a].ip)
           c == IF new = old THEN Idle ELSE [at |-> "write", pool |-> p, new |-> new]
<1>1. /\ admin' = [admin EXCEPT ![a] = c] /\ cached' = Filled({p})
      /\ UNCHANGED <<row, bound>>
  BY DEF ReadForExclusion
<1>2. p \in PoolIds
  BY DEF ReadForExclusion, PoolInv, AdminsWell, AdminWell
<1>3. old # NoPool => PoolWell(new)
  BY <1>2, ReadWell, ExcludeWell DEF PoolInv, PoolOrNone
<1>4. AdminWell(c)
  BY <1>2, <1>3 DEF AdminWell, Idle
<1>5. cached' = [q \in PoolIds |-> cached'[q]] /\ \A q \in PoolIds : PoolOrNone(cached'[q])
  BY <1>1, FilledWell DEF PoolInv
<1>6. bound' \in [Bindings -> BindingRows \cup {Unbound}]
  BY <1>1 DEF PoolInv, PoolTables
<1> HIDE DEF c, p
<1> QED BY <1>1, <1>4, <1>5, <1>6, QuietKeeps

-----------------------------------------------------------------------------
(* The import.  While the only request is an import, what it holds as known *)
(* covers the prefixes of all rows.                                         *)

ImportKnows ==
  \A a \in Admins, q \in PoolIds :
    admin[a].at = "import" /\ row[q] # NoPool => row[q].prefix \in admin[a].known

LEMMA ImportRowKeeps ==
  ASSUME PoolInv, NEW a \in Admins, NEW p \in PoolIds, ImportRow(a, p)
  PROVE  /\ PoolInv'
         /\ \E prefix \in {Head(admin[a].rows).prefix} :
              /\ \A q \in PoolIds \ {p} : row'[q] = row[q]
              /\ row'[p] = NoPool \/ /\ row'[p].prefix = prefix
                                     /\ ~ findOverlappingPrefix(admin[a].known, prefix)
                                     /\ prefix \in admin'[a].known
              /\ admin[a].known \subseteq admin'[a].known
              /\ \A b \in Admins \ {a} : admin'[b] = admin[b]
<1> DEFINE c == admin[a]
           body == Head(c.rows)
           overlap == findOverlappingPrefix(c.known, body.prefix)
           planned == planPool(body, body.excluded, Parent(body))
           created == /\ ~ overlap
                      /\ body.parent # NoPool => Parent(body) # NoPool
                      /\ planned.valid
           known == IF overlap THEN c.known ELSE Known(c.known, body.prefix)
           d == [c EXCEPT !.rows = Tail(c.rows), !.known = known]
<1>1. /\ c.at = "import" /\ c.rows # <<>> /\ row[p] = NoPool
      /\ IF created THEN InsertPool(p, planned.plan) ELSE UNCHANGED <<row, cached>>
      /\ admin' = [admin EXCEPT ![a] = d] /\ UNCHANGED bound
  BY DEF ImportRow
<1>2. AdminWell(c) /\ c.rows \in Seq(FileRows)
  BY <1>1 DEF PoolInv, AdminsWell, AdminWell
<1>3. body \in FileRows /\ Tail(c.rows) \in Seq(FileRows)
  BY <1>1, <1>2
<1>4. body.parent \in PoolIds \cup {NoPool}
  BY <1>3, RoutesAssumption
<1>5. created => PoolWell(planned.plan) /\ planned.plan.prefix = body.prefix
  BY <1>4, PlannedWell, ParentWell DEF PoolInv
<1>6. c \in [at : {"import"}, key : {c.key}, rows : Seq(FileRows), known : {c.known}]
  BY <1>1, <1>2 DEF AdminWell
<1> HIDE DEF c, planned, body, known
<1>7. /\ d \in [at : {"import"}, key : {c.key}, rows : Seq(FileRows), known : {c.known, known}]
      /\ d.key = c.key /\ d.known = known
  BY <1>3, <1>6
<1> HIDE DEF d
<1>8. AdminWell(d)
  BY <1>7 DEF AdminWell
<1> HIDE DEF d
<1>9. AdminsWell'
  <2>1. admin' = [b \in Admins |-> admin'[b]]
        /\ \A b \in Admins : admin'[b] = d \/ admin'[b] = admin[b]
    BY <1>1 DEF PoolInv, AdminsWell
  <2> QED BY <1>8, <2>1 DEF PoolInv, AdminsWell, AdminWell, PoolWell
<1>10. row' = [q \in PoolIds |-> row'[q]] /\ \A q \in PoolIds : PoolOrNone(row'[q])
  BY <1>1, <1>5 DEF InsertPool, PoolInv, PoolTables, PoolOrNone
<1>11. cached' = [q \in PoolIds |-> cached'[q]] /\ \A q \in PoolIds : PoolOrNone(cached'[q])
  BY <1>1, EvictedWell DEF InsertPool, PoolInv, PoolTables
<1>12. PoolInv'
  BY <1>1, <1>9, <1>10, <1>11 DEF PoolInv, PoolTables, PoolOrNone, PoolWell
<1>13. /\ \A q \in PoolIds \ {p} : row'[q] = row[q]
       /\ row'[p] = NoPool \/ (created /\ row'[p] = planned.plan)
  BY <1>1 DEF InsertPool, PoolInv, PoolTables
<1>14. admin'[a] = d /\ \A b \in Admins \ {a} : admin'[b] = admin[b]
  BY <1>1 DEF PoolInv, AdminsWell
<1>15. c.known \subseteq known /\ (~ overlap => body.prefix \in known)
  BY DEF Known, known
<1> HIDE DEF overlap
<1> QED BY <1>5, <1>7, <1>12, <1>13, <1>14, <1>15 DEF c, body, overlap

LEMMA ImportStartKeeps ==
  ASSUME PoolInv, NEW a \in Admins, NEW key, NEW csv \in Files, ImportStart(a, key, csv)
  PROVE  PoolInv'
<1>0. /\ bound \in [Bindings -> BindingRows \cup {Unbound}]
      /\ cached = [q \in PoolIds |-> cached[q]] /\ \A q \in PoolIds : PoolOrNone(cached[q])
  BY DEF PoolInv, PoolTables
<1> DEFINE c == [at |-> "import", key |-> key, rows |-> csv, known |-> ListPools]
<1>1. AdminWell(c)
  BY RoutesAssumption DEF AdminWell
<1>2. admin' = [admin EXCEPT ![a] = c] /\ UNCHANGED <<row, cached, bound>>
  BY DEF ImportStart
<1> HIDE DEF c
<1> QED BY <1>0, <1>1, <1>2, QuietKeeps

LEMMA ExpiryKeeps ==
  ASSUME PoolInv,
         \/ \E p \in PoolIds : CacheExpires(p)
         \/ \E key \in ImportKeys : AnswerExpires(key)
         \/ UNCHANGED routeVars
  PROVE  PoolInv'
<1>1. /\ UNCHANGED <<row, bound, admin>>
      /\ cached' = [q \in PoolIds |-> cached'[q]] /\ \A q \in PoolIds : PoolOrNone(cached'[q])
  BY DEF CacheExpires, AnswerExpires, routeVars, poolVars, PoolInv, PoolTables, PoolOrNone
<1>2. bound' \in [Bindings -> BindingRows \cup {Unbound}]
  BY <1>1 DEF PoolInv, PoolTables
<1> QED BY <1>1, <1>2, QuietKeeps

LEMMA PoolStarts ==
  ASSUME RoutesInit
  PROVE  PoolInv /\ ImportKnows
BY DEF RoutesInit, PoolsInit, PoolInv, PoolTables, PoolOrNone, AdminsWell, AdminWell, Idle,
   ImportKnows

\* The actions of the routes, by the lemma that is about them.
LEMMA RouteKinds ==
  ASSUME [RoutesNext]_routeVars, PoolInv
  PROVE  \/ \E a \in Admins, p \in PoolIds : \E body :
              /\ body.parent \in PoolIds \cup {NoPool}
              /\ CreatePool(a, p, body) \/ UpdatePoolRead(a, p, body)
         \/ \E a \in Admins, p \in PoolIds : DeletePool(a, p)
         \/ \E a \in Admins, b \in Bindings, p \in PoolIds, ip \in Addresses :
              CreateBinding(a, b, p, ip) \/ UpdateBinding(a, b, p, ip)
         \/ \E b \in Bindings : (\E a \in Admins : DeleteBinding(a, b)) \/ RecordBindingSeen(b)
         \/ \E a \in Admins : UpdatePoolWrite(a) \/ WriteExclusion(a)
         \/ \E a \in Admins : ReadForExclusion(a)
         \/ \E a \in Admins, p \in PoolIds : ImportRow(a, p)
         \/ \E a \in Admins, key \in ImportKeys, csv \in Files : ImportStart(a, key, csv)
         \/ \E a \in Admins : ImportEnd(a)
         \/ \E p \in PoolIds : CacheExpires(p)
         \/ \E key \in ImportKeys : AnswerExpires(key)
         \/ UNCHANGED routeVars
<1>1. CASE PoolsNext
  <2>1. ASSUME NEW a \in Admins, NEW p \in PoolIds, NEW body \in PoolRequests,
               postPool(a, p, body) \/ patchPool(a, p, body)
        PROVE  /\ body.parent \in PoolIds \cup {NoPool}
               /\ CreatePool(a, p, body) \/ UpdatePoolRead(a, p, body)
    BY <2>1, PoolsAssumption DEF postPool, patchPool
  <2>2. ASSUME NEW a \in Admins, NEW b \in Bindings, NEW ip \in Addresses, NEW p \in PoolIds,
               postBinding(a, b, p, ip) \/ patchBinding(a, b, p, ip)
        PROVE  CreateBinding(a, b, p, ip) \/ UpdateBinding(a, b, p, ip)
    BY <2>2 DEF postBinding, patchBinding
  <2>3. ASSUME NEW a \in Admins, NEW b \in Bindings, deleteBinding(a, b)
        PROVE  DeleteBinding(a, b)
    BY <2>3 DEF deleteBinding
  <2> QED BY <1>1, <2>1, <2>2, <2>3 DEF PoolsNext
<1>2. ASSUME NEW a \in Admins, NEW p \in PoolIds, NEW body \in PoolRequests, NEW n \in 1..3,
             handleDHCPPoolsCreate(a, p, body.prefix, n)
      PROVE  \E r : r.parent \in PoolIds \cup {NoPool} /\ CreatePool(a, p, r)
  <2> DEFINE start == DefaultHostRange(body.prefix)[1]
             r == [scope |-> 1, parent |-> NoPool, prefix |-> body.prefix, lo |-> start,
                   hi |-> offsetIPv4(start, n - 1), reserve |-> 10, vlan |-> 0,
                   endpoint |-> FALSE, excluded |-> {}]
  <2>1. CreatePool(a, p, r) /\ r.parent = NoPool
    BY <1>2 DEF handleDHCPPoolsCreate
  <2> QED BY <2>1
<1>3. ASSUME NEW a \in Admins, NEW p \in PoolIds,
             handleDHCPPoolsReconcile(a, p) \/ \E n \in Deltas : handleDHCPPoolsUpdate(a, p, n)
      PROVE  \E r : r.parent \in PoolIds \cup {NoPool} /\ UpdatePoolRead(a, p, r)
  <2>1. PoolWell(GetPool(p))
    BY <1>3, ReadWell DEF handleDHCPPoolsReconcile, handleDHCPPoolsUpdate, PoolInv, PoolOrNone
  <2>2. PICK again : again = poolUpdateRequestFromModel(GetPool(p))
    OBVIOUS
  <2>3. again.parent \in PoolIds \cup {NoPool}
    BY <2>1, <2>2, AgainWell
  <2>4. CASE handleDHCPPoolsReconcile(a, p)
    <3>1. UpdatePoolRead(a, p, again)
      BY <2>2, <2>4 DEF handleDHCPPoolsReconcile
    <3> QED BY <3>1, <2>3
  <2>5. CASE \E n \in Deltas : handleDHCPPoolsUpdate(a, p, n)
    <3>1. PICK hi : UpdatePoolRead(a, p, [again EXCEPT !.hi = hi])
      BY <2>2, <2>5 DEF handleDHCPPoolsUpdate
    <3>2. [again EXCEPT !.hi = hi].parent = again.parent
      BY <2>2 DEF poolUpdateRequestFromModel
    <3> QED BY <3>1, <3>2, <2>3
  <2> QED BY <1>3, <2>4, <2>5
<1>4. ASSUME NEW a \in Admins, NEW b \in Bindings, NEW ip \in Addresses,
             \/ handleCoreBindingsCreate(a, b, ip) \/ handleCoreBindingsUpdate(a, b, ip)
             \/ \E p \in PoolIds, type \in {"MAC", "CLIENT_ID"} :
                  \/ handleDHCPReservationCreate(a, b, p, ip, type)
                  \/ handleDHCPReservationUpdate(a, b, p, ip, type)
      PROVE  \E p \in PoolIds : CreateBinding(a, b, p, ip) \/ UpdateBinding(a, b, p, ip)
  BY <1>4 DEF handleCoreBindingsCreate, handleCoreBindingsUpdate, handleDHCPReservationCreate,
     handleDHCPReservationUpdate
<1>5. ASSUME NEW a \in Admins, NEW b \in Bindings,
             handleCoreBindingsDelete(a, b) \/ handleDHCPReservationDelete(a, b)
      PROVE  DeleteBinding(a, b)
  BY <1>5 DEF handleCoreBindingsDelete, handleDHCPReservationDelete
<1>6. ASSUME NEW a \in Admins, NEW p \in PoolIds, handleDHCPPoolDelete(a, p)
      PROVE  DeletePool(a, p)
  BY <1>6 DEF handleDHCPPoolDelete
<1> QED BY <1>1, <1>2, <1>3, <1>4, <1>5, <1>6 DEF RoutesNext

LEMMA PoolKeeps ==
  ASSUME PoolInv, [RoutesNext]_routeVars
  PROVE  PoolInv'
<1>1. CASE \E a \in Admins, p \in PoolIds : \E body :
             /\ body.parent \in PoolIds \cup {NoPool}
             /\ CreatePool(a, p, body) \/ UpdatePoolRead(a, p, body)
  BY <1>1, CreateKeeps, UpdateKeeps
<1>2. CASE \E a \in Admins, p \in PoolIds : DeletePool(a, p)
  BY <1>2, DeleteKeeps
<1>3. CASE \E a \in Admins, b \in Bindings, p \in PoolIds, ip \in Addresses :
             CreateBinding(a, b, p, ip) \/ UpdateBinding(a, b, p, ip)
  BY <1>3, BindingsKeep
<1>4. CASE \E b \in Bindings : (\E a \in Admins : DeleteBinding(a, b)) \/ RecordBindingSeen(b)
  BY <1>4, UnbindKeeps
<1>5. CASE \E a \in Admins : UpdatePoolWrite(a) \/ WriteExclusion(a)
  BY <1>5, WriteKeeps DEF UpdatePoolWrite, WriteExclusion
<1>6. CASE \E a \in Admins : ReadForExclusion(a)
  BY <1>6, ExclusionKeeps
<1>7. CASE \E a \in Admins, p \in PoolIds : ImportRow(a, p)
  BY <1>7, ImportRowKeeps
<1>8. CASE \E a \in Admins, key \in ImportKeys, csv \in Files : ImportStart(a, key, csv)
  BY <1>8, ImportStartKeeps
<1>9. CASE \E a \in Admins : ImportEnd(a)
  <2>1. PICK a \in Admins : ImportEnd(a)
    BY <1>9
  <2>2. UNCHANGED <<row, cached, bound>> /\ admin' = [admin EXCEPT ![a] = Idle]
    BY <2>1 DEF ImportEnd
  <2>3. AdminWell(Idle)
    BY DEF AdminWell, Idle
  <2> QED BY <2>2, <2>3, QuietKeeps DEF PoolInv, PoolTables
<1>10. CASE \/ \E p \in PoolIds : CacheExpires(p)
            \/ \E key \in ImportKeys : AnswerExpires(key)
            \/ UNCHANGED routeVars
  BY <1>10, ExpiryKeeps
<1> QED BY <1>1, <1>2, <1>3, <1>4, <1>5, <1>6, <1>7, <1>8, <1>9, <1>10, RouteKinds

LEMMA PoolsAreSound ==
  ASSUME PoolInv
  PROVE  PoolSound
<1> SUFFICES ASSUME NEW p \in PoolIds, row[p] # NoPool
             PROVE  /\ Contains(row[p].prefix, row[p].range[1])
                    /\ Contains(row[p].prefix, row[p].range[2])
                    /\ \A e \in row[p].excluded : Within(e, row[p].range)
                    /\ \A e, f \in row[p].excluded : e # f => Disjoint(e, f)
                    /\ (row[p].parent = NoPool <=> row[p].scope = 1)
  BY DEF PoolSound
<1>1. PoolWell(row[p])
  BY DEF PoolInv, PoolTables, PoolOrNone
<1> QED BY <1>1 DEF PoolWell, normalizeExclusions

OneAdmin == \A a, b \in Admins : a = b

\* A new row while an import is under way is apart from every other.
AddedApart ==
  \A a \in Admins, p, q \in PoolIds :
    admin[a].at = "import" /\ row[p] = NoPool /\ row'[p] # NoPool
      /\ q # p /\ row[q] # NoPool => ~ prefixesOverlap(row'[p].prefix, row[q].prefix)

\* What a step that no import makes leaves of imports.
LEMMA NoImport ==
  ASSUME ImportKnows,
         \/ \A a \in Admins : admin[a].at # "import" /\ admin'[a].at # "import"
         \/ /\ UNCHANGED row
            /\ \A a \in Admins : admin'[a] = admin[a] \/ admin'[a].at # "import"
  PROVE  ImportKnows' /\ AddedApart
BY DEF ImportKnows, AddedApart

LEMMA ImportStep ==
  ASSUME PoolInv, ImportKnows, OneAdmin, [RoutesNext]_routeVars
  PROVE  ImportKnows' /\ AddedApart
<1>0. /\ admin = [a \in Admins |-> admin[a]]
      /\ \A a \in Admins : AdminWell(admin[a])
  BY DEF PoolInv, AdminsWell, Idle
<1>1. ASSUME NEW a \in Admins, NEW p \in PoolIds, NEW body,
             CreatePool(a, p, body) \/ UpdatePoolRead(a, p, body) \/ DeletePool(a, p)
      PROVE  \A b \in Admins : admin[b].at # "import" /\ admin'[b].at # "import"
  <2>1. admin[a] = Idle
    BY <1>1 DEF CreatePool, UpdatePoolRead, DeletePool, Starts
  <2>2. UNCHANGED admin \/ \E c : c.at = "update" /\ admin' = [admin EXCEPT ![a] = c]
    <3>1. CASE CreatePool(a, p, body) \/ DeletePool(a, p)
      BY <3>1 DEF CreatePool, DeletePool
    <3>2. CASE UpdatePoolRead(a, p, body)
      <4>1. PICK r : admin' = [admin EXCEPT ![a] = [at |-> "update", pool |-> p, new |-> r]]
        BY <3>2 DEF UpdatePoolRead
      <4> QED BY <4>1
    <3> QED BY <1>1, <3>1, <3>2
  <2> QED BY <1>0, <2>1, <2>2 DEF OneAdmin, Idle
<1>2. ASSUME NEW a \in Admins, NEW b \in Bindings, NEW p \in PoolIds, NEW ip \in Addresses,
             CreateBinding(a, b, p, ip) \/ UpdateBinding(a, b, p, ip)
      PROVE  \A d \in Admins : admin[d].at # "import" /\ admin'[d].at # "import"
  <2>1. admin[a] = Idle
    BY <1>2 DEF CreateBinding, UpdateBinding, Starts
  <2>2. UNCHANGED admin \/ \E c : c.at = "exclude" /\ admin' = [admin EXCEPT ![a] = c]
    <3>1. CASE UpdateBinding(a, b, p, ip)
      BY <3>1 DEF UpdateBinding
    <3>2. CASE CreateBinding(a, b, p, ip)
      <4>1. admin' = [admin EXCEPT ![a] = [at |-> "exclude", pool |-> p, ip |-> ip]]
        BY <3>2 DEF CreateBinding
      <4> QED BY <4>1
    <3> QED BY <1>2, <3>1, <3>2
  <2> QED BY <1>0, <2>1, <2>2 DEF OneAdmin, Idle
<1>3. ASSUME NEW b \in Bindings, NEW a \in Admins, DeleteBinding(a, b)
      PROVE  \A d \in Admins : admin[d].at # "import" /\ admin'[d].at # "import"
  <2>1. admin[a] = Idle
    BY <1>3 DEF DeleteBinding, Starts
  <2>2. \E c : c.at = "unexclude" /\ admin' = [admin EXCEPT ![a] = c]
    <3>1. PICK q, ip : admin' = [admin EXCEPT ![a] = [at |-> "unexclude", pool |-> q, ip |-> ip]]
      BY <1>3 DEF DeleteBinding
    <3> QED BY <3>1
  <2> QED BY <1>0, <2>1, <2>2 DEF OneAdmin, Idle
<1>4. ASSUME NEW a \in Admins, UpdatePoolWrite(a) \/ WriteExclusion(a)
      PROVE  \A d \in Admins : admin[d].at # "import" /\ admin'[d].at # "import"
  <2>1. admin[a].at \in {"update", "write"} /\ admin' = [admin EXCEPT ![a] = Idle]
    BY <1>4 DEF UpdatePoolWrite, WriteExclusion
  <2> QED BY <1>0, <2>1 DEF OneAdmin, Idle
<1>5. ASSUME NEW a \in Admins, ReadForExclusion(a)
      PROVE  \A d \in Admins : admin[d].at # "import" /\ admin'[d].at # "import"
  <2>1. /\ admin[a].at \in {"exclude", "unexclude"}
        /\ \E c : c.at # "import" /\ admin' = [admin EXCEPT ![a] = c]
    <3>1. PICK q, r : admin' = [admin EXCEPT ![a] = Idle]
                      \/ admin' = [admin EXCEPT ![a] = [at |-> "write", pool |-> q, new |-> r]]
      BY <1>5 DEF ReadForExclusion
    <3>2. Idle.at # "import" /\ [at |-> "write", pool |-> q, new |-> r].at # "import"
      BY DEF Idle
    <3> QED BY <1>5, <3>1, <3>2 DEF ReadForExclusion
  <2> QED BY <1>0, <2>1 DEF OneAdmin
<1>6. ASSUME NEW a \in Admins, NEW p \in PoolIds, ImportRow(a, p)
      PROVE  ImportKnows' /\ AddedApart
  <2>1. PICK prefix :
          /\ \A q \in PoolIds \ {p} : row'[q] = row[q]
          /\ row'[p] = NoPool \/ /\ row'[p].prefix = prefix
                                 /\ ~ findOverlappingPrefix(admin[a].known, prefix)
                                 /\ prefix \in admin'[a].known
          /\ admin[a].known \subseteq admin'[a].known
    BY <1>6, ImportRowKeeps
  <2>2. admin[a].at = "import" /\ \A b \in Admins : b = a
    BY <1>6 DEF ImportRow, OneAdmin
  <2>3. ImportKnows'
    BY <2>1, <2>2 DEF ImportKnows
  <2>4. AddedApart
    <3> SUFFICES ASSUME NEW r \in PoolIds, NEW q \in PoolIds, row[r] = NoPool,
                        row'[r] # NoPool, q # r, row[q] # NoPool
                 PROVE  ~ prefixesOverlap(row'[r].prefix, row[q].prefix)
      BY DEF AddedApart
    <3>1. r = p /\ row'[p].prefix = prefix /\ ~ findOverlappingPrefix(admin[a].known, prefix)
      BY <2>1
    <3>2. row[q].prefix \in admin[a].known
      BY <2>2 DEF ImportKnows
    <3> QED BY <3>1, <3>2 DEF findOverlappingPrefix, prefixesOverlap
  <2> QED BY <2>3, <2>4
<1>7. ASSUME NEW a \in Admins, NEW key, NEW csv, ImportStart(a, key, csv)
      PROVE  ImportKnows' /\ AddedApart
  <2> DEFINE c == [at |-> "import", key |-> key, rows |-> csv, known |-> ListPools]
  <2>1. UNCHANGED row /\ admin' = [admin EXCEPT ![a] = c] /\ c.known = ListPools
    BY <1>7 DEF ImportStart
  <2> HIDE DEF c
  <2>2. \A b \in Admins : b = a /\ admin'[b] = c
    BY <1>0, <2>1 DEF OneAdmin
  <2>3. \A q \in PoolIds : row[q] # NoPool => row[q].prefix \in ListPools
    BY DEF ListPools, ListPoolsByFamily
  <2> QED BY <2>1, <2>2, <2>3 DEF ImportKnows, AddedApart
<1>8. ASSUME NEW a \in Admins, ImportEnd(a)
      PROVE  ImportKnows' /\ AddedApart
  <2>1. UNCHANGED row /\ admin' = [admin EXCEPT ![a] = Idle] /\ Idle.at # "import"
    BY <1>8 DEF ImportEnd, Idle
  <2>2. \A b \in Admins : admin'[b] = admin[b] \/ admin'[b].at # "import"
    BY <1>0, <2>1
  <2> QED BY <2>1, <2>2, NoImport
<1>9. CASE \/ \E p \in PoolIds : CacheExpires(p)
           \/ \E key \in ImportKeys : AnswerExpires(key)
           \/ \E b \in Bindings : RecordBindingSeen(b)
           \/ UNCHANGED routeVars
  <2>1. UNCHANGED <<row, admin>>
    BY <1>9 DEF CacheExpires, AnswerExpires, RecordBindingSeen, routeVars, poolVars
  <2> QED BY <2>1, NoImport
<1> QED BY <1>1, <1>2, <1>3, <1>4, <1>5, <1>6, <1>7, <1>8, <1>9, NoImport, RouteKinds

\* Whatever requests interleave and whatever they have read from a stale cache, every
\* stored pool is one planPool accepts (pool/service.go).
THEOREM PoolsStaySound == RoutesSpec => []PoolSound
<1>1. RoutesInit => PoolInv
  BY PoolStarts
<1>2. PoolInv /\ [RoutesNext]_routeVars => PoolInv'
  BY PoolKeeps
<1>3. PoolInv => PoolSound
  BY PoolsAreSound
<1> QED BY <1>1, <1>2, <1>3, PTL DEF RoutesSpec

\* With one request at a time an import adds no pool over another, although it compares
\* with a list it read before its first row (core_ops_routes.go, the CSV import).
THEOREM ImportsApart ==
  ASSUME \A a, b \in Admins : a = b
  PROVE  RoutesSpec => ImportDisjoint
<1>1. RoutesInit => PoolInv /\ ImportKnows
  BY PoolStarts
<1>2. PoolInv /\ ImportKnows /\ [RoutesNext]_routeVars => PoolInv' /\ ImportKnows'
  BY PoolKeeps, ImportStep DEF OneAdmin
<1>3. PoolInv /\ ImportKnows /\ [RoutesNext]_routeVars => [AddedApart]_routeVars
  BY ImportStep DEF OneAdmin
<1> QED BY <1>1, <1>2, <1>3, PTL DEF RoutesSpec, ImportDisjoint, AddedApart

-----------------------------------------------------------------------------
(* DhcpOptions.  While no hydration failed and requests come one at a time, *)
(* the maps are the tables but for the one write that is to follow, and     *)
(* what a synchronisation will write names templates that are still there. *)

ScopeRows == [options : SUBSET Options, template : Templates \cup {NoTemplate}, live : BOOLEAN]
TemplateSets == (SUBSET Options) \cup {NoTemplate}

OptionTables == /\ templateDb \in [Templates -> TemplateSets]
                /\ templateMap \in [Templates -> TemplateSets]
                /\ scopeDb \in [Scopes -> ScopeRows]
                /\ scopeMap \in [Scopes -> ScopeRows]

MapsFollow == templateMap = templateDb /\ scopeMap = scopeDb

NamesSaved(v) == v.template # NoTemplate => templateDb[v.template] # NoTemplate

WriteWell(w) ==
  \/ w = Rest /\ MapsFollow
  \/ w \in [at : {"option"}, key : Options, on : BOOLEAN] /\ MapsFollow
  \/ w \in [at : {"apply"}, todo : SUBSET Options] /\ MapsFollow
  \/ /\ w \in [at : {"template"}, key : Templates, value : TemplateSets]
     /\ templateDb = [templateMap EXCEPT ![w.key] = w.value] /\ scopeMap = scopeDb
  \/ /\ w \in [at : {"scope"}, key : Scopes, value : ScopeRows]
     /\ scopeDb = [scopeMap EXCEPT ![w.key] = w.value] /\ templateMap = templateDb
  \/ /\ w \in [at : {"sync"}, mode : {"replace", "merge"}, from : SUBSET Options,
               todo : SUBSET (Scopes \X ScopeRows)]
     /\ \A target \in w.todo : NamesSaved(target[2])
     /\ MapsFollow

Sighted == /\ OptionTables
           /\ writing = [r \in OptionRequests |-> writing[r]]
           /\ \A r \in OptionRequests : WriteWell(writing[r])
           /\ OptionRequests = {} => MapsFollow
           /\ \A s \in Scopes : NamesSaved(scopeDb[s])

OptionInv == ~blind => Sighted

OneRequest == \A q, r \in OptionRequests : q = r

LEMMA OptionsStart == OptionsInit => OptionInv
<1> SUFFICES ASSUME OptionsInit PROVE Sighted
  BY DEF OptionInv
<1>1. Gone \in ScopeRows /\ Gone.template = NoTemplate
  BY DEF Gone, ScopeRows
<1>2. OptionTables /\ MapsFollow
  <2>1. /\ templateDb = [t \in Templates |-> NoTemplate] /\ templateMap = templateDb
        /\ scopeDb = [s \in Scopes |-> Gone] /\ scopeMap = scopeDb
    BY DEF OptionsInit
  <2>2. NoTemplate \in TemplateSets
    BY DEF TemplateSets
  <2>3. templateDb \in [Templates -> TemplateSets]
    BY <2>1, <2>2
  <2>4. scopeDb \in [Scopes -> ScopeRows]
    BY <1>1, <2>1
  <2> QED BY <2>1, <2>3, <2>4 DEF OptionTables, MapsFollow
<1> QED BY <1>1, <1>2 DEF OptionsInit, Sighted, WriteWell, NamesSaved

\* With one request, a step that leaves it with one more thing to write.
LEMMA NextWrite ==
  ASSUME OneRequest, Sighted, NEW r \in OptionRequests, NEW w,
         writing' = [writing EXCEPT ![r] = w], OptionTables', WriteWell(w)',
         \A s \in Scopes : NamesSaved(scopeDb[s])'
  PROVE  Sighted'
<1>1. writing' = [q \in OptionRequests |-> w]
  BY DEF Sighted, OneRequest
<1> QED BY <1>1 DEF Sighted

LEMMA FreeMeans == ASSUME Sighted, NEW r \in OptionRequests, FreeRequest(r) PROVE MapsFollow
<1>1. WriteWell(writing[r]) /\ writing[r].at = "rest"
  BY DEF Sighted, FreeRequest, Rest
<1> QED BY <1>1 DEF WriteWell

LEMMA OptionHandlers ==
  ASSUME OneRequest, Sighted, NEW r \in OptionRequests, NEW o \in Options,
         \/ handleDHCPOptionCreate(r, o) \/ handleDHCPOptionUpdate(r, o)
         \/ handleDHCPOptionDelete(r, o)
  PROVE  Sighted'
<1>1. FreeRequest(r) /\ UNCHANGED <<templateDb, templateMap, scopeDb, scopeMap>>
  BY DEF handleDHCPOptionCreate, handleDHCPOptionUpdate, handleDHCPOptionDelete, maps
<1>2. PICK b \in BOOLEAN : writing' = [writing EXCEPT ![r] = [at |-> "option", key |-> o, on |-> b]]
  BY DEF handleDHCPOptionCreate, handleDHCPOptionUpdate, handleDHCPOptionDelete, Then
<1> DEFINE w == [at |-> "option", key |-> o, on |-> b]
<1>3. WriteWell(w)'
  BY <1>1, FreeMeans DEF WriteWell, MapsFollow
<1>4. OptionTables' /\ \A s \in Scopes : NamesSaved(scopeDb[s])'
  BY <1>1 DEF Sighted, OptionTables, NamesSaved
<1> HIDE DEF w
<1>5. writing' = [writing EXCEPT ![r] = w]
  BY <1>2 DEF w
<1> QED BY <1>3, <1>4, <1>5, NextWrite

\* A template is written where no scope would miss it.
LEMMA TemplateHandlers ==
  ASSUME OneRequest, Sighted, NEW r \in OptionRequests, NEW t \in Templates,
         \/ \E os \in SUBSET Options : \/ handleDHCOTemplateCreate(r, t, os)
                                       \/ handleDHCOTemplateUpdate(r, t, os)
         \/ handleDHCOTemplateDelete(r, t)
  PROVE  Sighted'
<1>1. FreeRequest(r) /\ UNCHANGED <<templateMap, scopeDb, scopeMap>> /\ MapsFollow
  BY FreeMeans DEF handleDHCOTemplateCreate, handleDHCOTemplateUpdate, handleDHCOTemplateDelete, maps
<1>2. OptionTables
  BY DEF Sighted
<1>3. PICK value \in TemplateSets :
        /\ templateDb' = [templateDb EXCEPT ![t] = value]
        /\ writing' = [writing EXCEPT ![r] = [at |-> "template", key |-> t, value |-> value]]
        /\ value = NoTemplate => \A s \in Scopes : scopeDb[s].template # t
  <2>1. ASSUME NEW os \in SUBSET Options, handleDHCOTemplateCreate(r, t, os)
        PROVE  /\ templateDb' = [templateDb EXCEPT ![t] = os]
               /\ writing' = [writing EXCEPT ![r] = [at |-> "template", key |-> t, value |-> os]]
               /\ os \in TemplateSets /\ os # NoTemplate
    BY <2>1, DhcpOptionsAssumption DEF handleDHCOTemplateCreate, UpsertTemplate, Then, TemplateSets
  <2>2. ASSUME NEW os \in SUBSET Options, handleDHCOTemplateUpdate(r, t, os)
        PROVE  \E kept \in TemplateSets :
               /\ templateDb' = [templateDb EXCEPT ![t] = kept]
               /\ writing' = [writing EXCEPT ![r] = [at |-> "template", key |-> t, value |-> kept]]
               /\ kept # NoTemplate
    <3> DEFINE kept == IF os = {} THEN templateMap[t] ELSE os
    <3>1. kept \in TemplateSets /\ kept # NoTemplate
      BY <2>2, <1>2, DhcpOptionsAssumption DEF handleDHCOTemplateUpdate, TemplateSets, OptionTables
    <3>2. /\ templateDb' = [templateDb EXCEPT ![t] = kept]
          /\ writing' = [writing EXCEPT ![r] = [at |-> "template", key |-> t, value |-> kept]]
      BY <2>2 DEF handleDHCOTemplateUpdate, UpsertTemplate, Then
    <3> HIDE DEF kept
    <3> QED BY <3>1, <3>2
  <2>3. CASE handleDHCOTemplateDelete(r, t)
    <3> DEFINE users == {s \in Scopes : scopeMap[s].template = t}
    <3>1. Cardinality(users) = 0
      BY <2>3 DEF handleDHCOTemplateDelete, templateUsageCount
    <3>2. IsFiniteSet(users)
      BY DhcpOptionsAssumption, FS_Subset
    <3>3. users = {}
      BY <3>1, <3>2, FS_EmptySet
    <3>4. \A s \in Scopes : scopeDb[s].template # t
      BY <3>3, <1>1 DEF MapsFollow
    <3>5. /\ templateDb' = [templateDb EXCEPT ![t] = NoTemplate]
          /\ writing' = [writing EXCEPT ![r] = [at |-> "template", key |-> t, value |-> NoTemplate]]
      BY <2>3 DEF handleDHCOTemplateDelete, DeleteTemplate, Then
    <3>6. NoTemplate \in TemplateSets
      BY DEF TemplateSets
    <3> QED BY <3>4, <3>5, <3>6
  <2> QED BY <2>1, <2>2, <2>3
<1> DEFINE w == [at |-> "template", key |-> t, value |-> value]
<1>4. OptionTables'
  BY <1>1, <1>2, <1>3 DEF OptionTables
<1>5. WriteWell(w)'
  BY <1>1, <1>3 DEF WriteWell, MapsFollow
<1>6. ASSUME NEW s \in Scopes PROVE NamesSaved(scopeDb[s])'
  <2>1. scopeDb'[s] = scopeDb[s] /\ NamesSaved(scopeDb[s])
        /\ scopeDb[s].template \in Templates \cup {NoTemplate}
    BY <1>1, <1>2 DEF Sighted, OptionTables, ScopeRows
  <2>2. \A u \in Templates : templateDb'[u] = IF u = t THEN value ELSE templateDb[u]
    BY <1>2, <1>3 DEF OptionTables
  <2> QED BY <2>1, <2>2, <1>3 DEF NamesSaved
<1> HIDE DEF w
<1>7. writing' = [writing EXCEPT ![r] = w]
  BY <1>3 DEF w
<1> QED BY <1>4, <1>5, <1>6, <1>7, NextWrite

\* A scope is written with a template the map, and so the table, has.
LEMMA ScopeWrite ==
  ASSUME OneRequest, Sighted, NEW r \in OptionRequests, NEW s \in Scopes, NEW v \in ScopeRows,
         FreeRequest(r), NamesSaved(v), scopeDb' = [scopeDb EXCEPT ![s] = v],
         writing' = [writing EXCEPT ![r] = [at |-> "scope", key |-> s, value |-> v]],
         scopeMap' = scopeMap, UNCHANGED <<templateDb, templateMap>>
  PROVE  Sighted'
<1> DEFINE w == [at |-> "scope", key |-> s, value |-> v]
<1>1. OptionTables /\ MapsFollow
  BY FreeMeans DEF Sighted
<1>2. OptionTables'
  BY <1>1 DEF OptionTables
<1>3. WriteWell(w)'
  BY <1>1 DEF WriteWell, MapsFollow
<1>4. ASSUME NEW x \in Scopes PROVE NamesSaved(scopeDb[x])'
  <2>1. scopeDb'[x] = v \/ scopeDb'[x] = scopeDb[x]
    BY <1>1 DEF OptionTables
  <2> QED BY <2>1 DEF Sighted, NamesSaved
<1> HIDE DEF w
<1>5. writing' = [writing EXCEPT ![r] = w]
  BY DEF w
<1> QED BY <1>2, <1>3, <1>4, <1>5, NextWrite

LEMMA ScopeHandlers ==
  ASSUME OneRequest, Sighted, NEW r \in OptionRequests, NEW s \in Scopes,
         \/ \E t \in Templates \cup {NoTemplate}, os \in SUBSET Options :
              handleDHCPScopeCreate(r, s, t, os) \/ handleDHCPScopeUpdate(r, s, t, os)
         \/ handleDHCPScopeDelete(r, s)
  PROVE  Sighted'
<1>1. FreeRequest(r) /\ UNCHANGED <<templateDb, templateMap>> /\ MapsFollow /\ OptionTables
  BY FreeMeans DEF handleDHCPScopeCreate, handleDHCPScopeUpdate, handleDHCPScopeDelete, maps, Sighted
<1>2. ASSUME NEW t \in Templates \cup {NoTemplate}, NEW os \in SUBSET Options, KnownTemplate(t)
      PROVE  Live(t, Chosen(t, os)) \in ScopeRows /\ NamesSaved(Live(t, Chosen(t, os)))
  <2>1. t # NoTemplate => templateMap[t] \in SUBSET Options /\ templateDb[t] # NoTemplate
    BY <1>1, <1>2 DEF KnownTemplate, OptionTables, TemplateSets, MapsFollow
  <2>2. Chosen(t, os) \in SUBSET Options
    BY <2>1 DEF Chosen, resolveTemplateOptionIDs
  <2> QED BY <2>1, <2>2 DEF Live, ScopeRows, NamesSaved
<1>3. ASSUME NEW t \in Templates \cup {NoTemplate}, NEW os \in SUBSET Options,
             handleDHCPScopeCreate(r, s, t, os)
      PROVE  Sighted'
  <2>1. /\ KnownTemplate(t) /\ scopeMap' = scopeMap
        /\ scopeDb' = [scopeDb EXCEPT ![s] = Live(t, Chosen(t, os))]
        /\ writing' = [writing EXCEPT ![r] = [at |-> "scope", key |-> s, value |-> Live(t, Chosen(t, os))]]
    BY <1>3 DEF handleDHCPScopeCreate, UpsertScope, Then, maps
  <2> QED BY <1>1, <1>2, <2>1, ScopeWrite
<1>4. ASSUME NEW t \in Templates \cup {NoTemplate}, NEW os \in SUBSET Options,
             handleDHCPScopeUpdate(r, s, t, os)
      PROVE  Sighted'
  <2> DEFINE new == IF t = NoTemplate THEN scopeDb[s].template ELSE t
             kept == IF os = {} THEN scopeDb[s].options ELSE os
  <2>1. /\ KnownTemplate(new) /\ scopeMap' = scopeDb
        /\ scopeDb' = [scopeDb EXCEPT ![s] = Live(new, Chosen(new, kept))]
        /\ writing' = [writing EXCEPT ![r] = [at |-> "scope", key |-> s, value |-> Live(new, Chosen(new, kept))]]
    BY <1>4 DEF handleDHCPScopeUpdate, UpsertScope, Then
  <2>2. new \in Templates \cup {NoTemplate} /\ kept \in SUBSET Options
    BY <1>1 DEF OptionTables, ScopeRows
  <2>3. scopeMap' = scopeMap
    BY <1>1, <2>1 DEF MapsFollow
  <2> HIDE DEF new, kept
  <2> QED BY <1>1, <1>2, <2>1, <2>2, <2>3, ScopeWrite
<1>5. CASE handleDHCPScopeDelete(r, s)
  <2>1. Gone \in ScopeRows /\ NamesSaved(Gone)
    BY DEF Gone, ScopeRows, NamesSaved
  <2> QED BY <1>1, <1>5, <2>1, ScopeWrite DEF handleDHCPScopeDelete, DeleteScope, Then, maps
<1> QED BY <1>3, <1>4, <1>5

LEMMA ListKeeps == ASSUME Sighted, handleDHCPScopeList PROVE Sighted'
<1>1. scopeMap' = scopeDb /\ UNCHANGED <<templateDb, scopeDb, templateMap, writing>>
  BY DEF handleDHCPScopeList, tables
<1>2. OptionTables /\ OptionTables'
  BY <1>1 DEF Sighted, OptionTables
<1>3. ASSUME NEW r \in OptionRequests PROVE WriteWell(writing[r])'
  <2> DEFINE w == writing[r]
  <2>1. WriteWell(w)
    BY DEF Sighted
  <2>2. writing'[r] = w /\ (MapsFollow => MapsFollow')
    BY <1>1 DEF MapsFollow
  <2> HIDE DEF w
  <2>3. \A v : NamesSaved(v)' <=> NamesSaved(v)
    BY <1>1 DEF NamesSaved
  <2>4. PICK u : u = w
    OBVIOUS
  <2>5. WriteWell(u)'
    <3>1. CASE /\ u \in [at : {"scope"}, key : Scopes, value : ScopeRows]
               /\ scopeDb = [scopeMap EXCEPT ![u.key] = u.value] /\ templateMap = templateDb
      <4>1. scopeDb' = [scopeMap' EXCEPT ![u.key] = u.value]
        <5>1. scopeDb[u.key] = u.value
          BY <1>2, <3>1 DEF OptionTables
        <5>2. scopeDb = [scopeDb EXCEPT ![u.key] = u.value]
          BY <1>2, <3>1, <5>1 DEF OptionTables
        <5> QED BY <1>1, <5>2
      <4> QED BY <3>1, <4>1, <1>1 DEF WriteWell
    <3>2. CASE ~(/\ u \in [at : {"scope"}, key : Scopes, value : ScopeRows]
               /\ scopeDb = [scopeMap EXCEPT ![u.key] = u.value] /\ templateMap = templateDb)
      BY <1>1, <2>1, <2>2, <2>3, <2>4, <3>2 DEF WriteWell
    <3> QED BY <3>1, <3>2
  <2> QED BY <2>2, <2>4, <2>5
<1>4. \A s \in Scopes : NamesSaved(scopeDb[s])'
  BY <1>1 DEF Sighted, NamesSaved
<1> QED BY <1>1, <1>2, <1>3, <1>4 DEF Sighted, MapsFollow

\* What a request still has to write reaches the maps.
LEMMA WriteFollows == ASSUME OneRequest, Sighted, NEW r \in OptionRequests, StoreWrite(r) PROVE Sighted'
<1>1. PICK w : w = writing[r]
  OBVIOUS
<1>2. /\ WriteWell(w) /\ w.at \in {"option", "template", "scope"}
      /\ templateMap' = IF w.at = "template" THEN [templateMap EXCEPT ![w.key] = w.value] ELSE templateMap
      /\ scopeMap' = IF w.at = "scope" THEN [scopeMap EXCEPT ![w.key] = w.value] ELSE scopeMap
      /\ writing' = [writing EXCEPT ![r] = Rest]
      /\ UNCHANGED <<templateDb, scopeDb>>
  BY <1>1 DEF Sighted, StoreWrite, Then, tables
<1>3. MapsFollow'
  BY <1>2 DEF WriteWell, MapsFollow, Rest
<1>4. OptionTables'
  BY <1>2, <1>3 DEF Sighted, OptionTables, MapsFollow
<1>5. WriteWell(Rest)'
  BY <1>3 DEF WriteWell
<1>6. \A s \in Scopes : NamesSaved(scopeDb[s])'
  BY <1>2 DEF Sighted, NamesSaved
<1>7. PICK v : v = Rest
  OBVIOUS
<1> QED BY <1>2, <1>4, <1>5, <1>6, <1>7, NextWrite

LEMMA ApplyKeeps ==
  ASSUME OneRequest, Sighted, NEW r \in OptionRequests,
         (\E t \in Templates : handleDHCOTemplateApply(r, t)) \/ ApplyOption(r)
  PROVE  Sighted'
<1>1. UNCHANGED <<templateDb, scopeDb, templateMap, scopeMap>>
  BY DEF handleDHCOTemplateApply, ApplyOption, tables, maps
<1>2. MapsFollow
  <2>1. CASE \E t \in Templates : handleDHCOTemplateApply(r, t)
    BY <2>1, FreeMeans DEF handleDHCOTemplateApply
  <2>2. CASE ApplyOption(r)
    BY <2>2 DEF ApplyOption, Sighted, WriteWell, Rest
  <2> QED BY <2>1, <2>2
<1>3. \E w : /\ writing' = [writing EXCEPT ![r] = w]
             /\ w = Rest \/ w \in [at : {"apply"}, todo : SUBSET Options]
  <2>1. CASE \E t \in Templates : handleDHCOTemplateApply(r, t)
    <3>1. PICK t \in Templates : handleDHCOTemplateApply(r, t)
      BY <2>1
    <3> DEFINE w == [at |-> "apply", todo |-> templateMap[t]]
    <3>2. templateMap[t] \in SUBSET Options
      BY <3>1 DEF handleDHCOTemplateApply, Sighted, OptionTables, TemplateSets
    <3>3. w \in [at : {"apply"}, todo : SUBSET Options]
      BY <3>2
    <3>4. writing' = [writing EXCEPT ![r] = w]
      BY <3>1 DEF handleDHCOTemplateApply, Then
    <3> HIDE DEF w
    <3> QED BY <3>3, <3>4
  <2>2. CASE ApplyOption(r)
    <3>1. writing[r] \in [at : {"apply"}, todo : SUBSET Options]
      BY <2>2 DEF ApplyOption, Sighted, WriteWell, Rest
    <3>2. ASSUME NEW o \in writing[r].todo, Then(r, [writing[r] EXCEPT !.todo = @ \ {o}])
          PROVE  \E w \in [at : {"apply"}, todo : SUBSET Options] : writing' = [writing EXCEPT ![r] = w]
      <4>1. [writing[r] EXCEPT !.todo = @ \ {o}] \in [at : {"apply"}, todo : SUBSET Options]
        BY <3>1
      <4> QED BY <3>2, <4>1 DEF Then
    <3> QED BY <2>2, <3>2 DEF ApplyOption, Then
  <2> QED BY <2>1, <2>2
<1>4. PICK w : /\ writing' = [writing EXCEPT ![r] = w]
               /\ w = Rest \/ w \in [at : {"apply"}, todo : SUBSET Options]
  BY <1>3
<1>5. WriteWell(w)'
  BY <1>1, <1>2, <1>4 DEF WriteWell, MapsFollow
<1>6. OptionTables' /\ \A s \in Scopes : NamesSaved(scopeDb[s])'
  BY <1>1 DEF Sighted, OptionTables, NamesSaved
<1> QED BY <1>4, <1>5, <1>6, NextWrite

\* Synchronisation writes copies of scopes whose template is there, and while it
\* runs no request deletes one.
SyncWork == [at : {"sync"}, mode : {"replace", "merge"}, from : SUBSET Options,
             todo : SUBSET (Scopes \X ScopeRows)]

LEMMA SyncBegins ==
  ASSUME OneRequest, Sighted, NEW r \in OptionRequests, NEW t \in Templates,
         NEW mode \in {"replace", "merge"}, handleDHCOTemplateSync(r, t, mode)
  PROVE  Sighted'
<1>1. UNCHANGED <<templateDb, scopeDb, templateMap, scopeMap>> /\ MapsFollow /\ OptionTables
      /\ templateMap[t] # NoTemplate
  BY FreeMeans DEF handleDHCOTemplateSync, tables, maps, Sighted
<1> DEFINE todo == {<<s, scopeMap[s]>> : s \in listByTemplate(t)}
           w == [at |-> "sync", mode |-> mode, from |-> templateMap[t], todo |-> todo]
<1>2. writing' = [writing EXCEPT ![r] = w]
  BY DEF handleDHCOTemplateSync, Then
<1>3. todo \in SUBSET (Scopes \X ScopeRows)
  BY <1>1 DEF listByTemplate, OptionTables
<1>4. ASSUME NEW target \in todo PROVE NamesSaved(target[2])'
  <2>1. PICK s \in Scopes : target = <<s, scopeMap[s]>> /\ scopeMap[s].template = t
    BY DEF listByTemplate
  <2> QED BY <1>1, <2>1 DEF NamesSaved, MapsFollow
<1> HIDE DEF todo
<1>5. templateMap[t] \in SUBSET Options
  BY <1>1 DEF OptionTables, TemplateSets
<1>6. w \in SyncWork
  BY <1>3, <1>5 DEF SyncWork
<1>7. w.todo = todo
  OBVIOUS
<1> HIDE DEF w
<1>8. OptionTables' /\ MapsFollow' /\ \A s \in Scopes : NamesSaved(scopeDb[s])'
  BY <1>1 DEF Sighted, OptionTables, NamesSaved, MapsFollow
<1>9. PICK u, new : u = w /\ new = todo
  OBVIOUS
<1>10. \A target \in new : NamesSaved(target[2])'
  BY <1>4, <1>9
<1>11. WriteWell(u)'
  BY <1>6, <1>7, <1>8, <1>9, <1>10 DEF WriteWell, SyncWork
<1> QED BY <1>2, <1>8, <1>9, <1>11, NextWrite

LEMMA SyncGoesOn == ASSUME OneRequest, Sighted, NEW r \in OptionRequests, SyncScope(r) PROVE Sighted'
<1>1. PICK w : w = writing[r]
  OBVIOUS
<1>2. w \in SyncWork /\ (\A target \in w.todo : NamesSaved(target[2])) /\ MapsFollow /\ OptionTables
  BY <1>1 DEF SyncScope, Sighted, WriteWell, SyncWork, Rest
<1>3. UNCHANGED <<templateDb, templateMap>>
  BY DEF SyncScope
<1>4. CASE Then(r, Rest) /\ UNCHANGED <<scopeDb, scopeMap>>
  <2>1. OptionTables' /\ MapsFollow' /\ \A s \in Scopes : NamesSaved(scopeDb[s])'
    BY <1>2, <1>3, <1>4 DEF Sighted, OptionTables, NamesSaved, MapsFollow
  <2>2. PICK v : v = Rest
    OBVIOUS
  <2>3. WriteWell(v)'
    BY <2>1, <2>2 DEF WriteWell
  <2> QED BY <1>4, <2>1, <2>2, <2>3, NextWrite DEF Then
<1>5. CASE \E target \in w.todo :
            LET next == [target[2] EXCEPT !.options = w.from \cup
                           (IF w.mode = "merge" THEN @ ELSE {})] IN
            /\ UpsertScope(target[1], next)
            /\ scopeMap' = [scopeMap EXCEPT ![target[1]] = next]
            /\ Then(r, [w EXCEPT !.todo = @ \ {target}])
  <2>1. PICK target \in w.todo :
            LET next == [target[2] EXCEPT !.options = w.from \cup
                           (IF w.mode = "merge" THEN @ ELSE {})] IN
            /\ UpsertScope(target[1], next)
            /\ scopeMap' = [scopeMap EXCEPT ![target[1]] = next]
            /\ Then(r, [w EXCEPT !.todo = @ \ {target}])
    BY <1>5
  <2> DEFINE next == [target[2] EXCEPT !.options = w.from \cup (IF w.mode = "merge" THEN @ ELSE {})]
             left == [w EXCEPT !.todo = @ \ {target}]
  <2>2. target[1] \in Scopes /\ target[2] \in ScopeRows /\ NamesSaved(target[2])
    BY <1>2 DEF SyncWork
  <2>3. next \in ScopeRows /\ next.template = target[2].template
    BY <1>2, <2>2 DEF ScopeRows, SyncWork
  <2>4. left \in SyncWork /\ left.todo \subseteq w.todo
    BY <1>2 DEF SyncWork
  <2>5. /\ scopeDb' = [scopeDb EXCEPT ![target[1]] = next]
        /\ scopeMap' = [scopeMap EXCEPT ![target[1]] = next]
        /\ writing' = [writing EXCEPT ![r] = left]
    BY <2>1 DEF UpsertScope, Then
  <2> HIDE DEF next, left
  <2>6. OptionTables' /\ MapsFollow'
    BY <1>2, <1>3, <2>2, <2>3, <2>5 DEF OptionTables, MapsFollow
  <2>7. \A v : NamesSaved(v)' <=> NamesSaved(v)
    BY <1>3 DEF NamesSaved
  <2>8. \A s \in Scopes : NamesSaved(scopeDb'[s])
    <3>1. \A s \in Scopes : scopeDb'[s] = next \/ scopeDb'[s] = scopeDb[s]
      BY <1>2, <2>5 DEF OptionTables
    <3> QED BY <3>1, <2>2, <2>3 DEF Sighted, NamesSaved
  <2>9. \A s \in Scopes : NamesSaved(scopeDb[s])'
    BY <2>8, <1>3 DEF NamesSaved
  <2>10. PICK v : v = left
    OBVIOUS
  <2>11. WriteWell(v)'
    <3>1. \A x \in v.todo : NamesSaved(x[2])'
      BY <1>2, <2>4, <2>7, <2>10
    <3> QED BY <3>1, <2>4, <2>6, <2>10 DEF WriteWell, SyncWork
  <2> QED BY <2>5, <2>6, <2>9, <2>10, <2>11, NextWrite
<1> QED BY <1>1, <1>4, <1>5 DEF SyncScope

LEMMA HydrationKeeps == ASSUME Sighted, OptionsRestart(TRUE) PROVE Sighted'
<1>1. /\ templateMap' = templateDb /\ scopeMap' = scopeDb /\ UNCHANGED <<templateDb, scopeDb>>
      /\ writing' = [r \in OptionRequests |-> Rest]
  BY DEF OptionsRestart, hydrateTemplateConfigs, hydrateOptionScopes, tables
<1>2. OptionTables' /\ MapsFollow'
  BY <1>1 DEF Sighted, OptionTables, MapsFollow
<1>3. \A s \in Scopes : NamesSaved(scopeDb[s])'
  BY <1>1 DEF Sighted, NamesSaved
<1>4. \A r \in OptionRequests : WriteWell(writing[r])'
  BY <1>1, <1>2 DEF WriteWell
<1> QED BY <1>1, <1>2, <1>3, <1>4 DEF Sighted

LEMMA OptionKeeps == OneRequest /\ OptionInv /\ [OptionsNext]_optionVars => OptionInv'
<1> SUFFICES ASSUME OneRequest, OptionInv, [OptionsNext]_optionVars, ~blind' PROVE Sighted'
  BY DEF OptionInv
<1>1. ~blind => Sighted
  BY DEF OptionInv
<1>2. CASE UNCHANGED optionVars
  BY <1>1, <1>2 DEF optionVars, Sighted, OptionTables, WriteWell, MapsFollow, NamesSaved
<1>3. ASSUME NEW ok \in BOOLEAN, OptionsRestart(ok) PROVE Sighted'
  <2>1. ok = TRUE /\ ~blind
    BY <1>3 DEF OptionsRestart
  <2> QED BY <1>1, <1>3, <2>1, HydrationKeeps
<1>4. CASE handleDHCPScopeList
  <2>1. ~blind
    BY <1>4 DEF handleDHCPScopeList, process
  <2> QED BY <1>1, <1>4, <2>1, ListKeeps
<1>5. ASSUME NEW r \in OptionRequests, StoreWrite(r) \/ ApplyOption(r) \/ SyncScope(r) PROVE Sighted'
  <2>1. ~blind
    BY <1>5 DEF StoreWrite, ApplyOption, SyncScope, process
  <2> QED BY <1>1, <1>5, <2>1, WriteFollows, ApplyKeeps, SyncGoesOn
<1>6. ASSUME NEW r \in OptionRequests, NEW o \in Options,
             \/ handleDHCPOptionCreate(r, o) \/ handleDHCPOptionUpdate(r, o)
             \/ handleDHCPOptionDelete(r, o)
      PROVE  Sighted'
  <2>1. ~blind
    BY <1>6 DEF handleDHCPOptionCreate, handleDHCPOptionUpdate, handleDHCPOptionDelete, process
  <2> QED BY <1>1, <1>6, <2>1, OptionHandlers
<1>7. ASSUME NEW r \in OptionRequests, NEW t \in Templates,
             \/ handleDHCOTemplateDelete(r, t) \/ handleDHCOTemplateApply(r, t)
             \/ \E mode \in {"replace", "merge"} : handleDHCOTemplateSync(r, t, mode)
             \/ \E os \in SUBSET Options : \/ handleDHCOTemplateCreate(r, t, os)
                                           \/ handleDHCOTemplateUpdate(r, t, os)
      PROVE  Sighted'
  <2>1. ~blind
    BY <1>7 DEF handleDHCOTemplateDelete, handleDHCOTemplateApply, handleDHCOTemplateSync,
                handleDHCOTemplateCreate, handleDHCOTemplateUpdate, process
  <2> QED BY <1>1, <1>7, <2>1, TemplateHandlers, ApplyKeeps, SyncBegins
<1>8. ASSUME NEW r \in OptionRequests, NEW s \in Scopes,
             \/ handleDHCPScopeDelete(r, s)
             \/ \E t \in Templates \cup {NoTemplate}, os \in SUBSET Options :
                  handleDHCPScopeCreate(r, s, t, os) \/ handleDHCPScopeUpdate(r, s, t, os)
      PROVE  Sighted'
  <2>1. ~blind
    BY <1>8 DEF handleDHCPScopeDelete, handleDHCPScopeCreate, handleDHCPScopeUpdate, process
  <2> QED BY <1>1, <1>8, <2>1, ScopeHandlers
<1> QED BY <1>2, <1>3, <1>4, <1>5, <1>6, <1>7, <1>8 DEF OptionsNext

\* A scope that is saved names a template that is saved (core_ops_routes.go,
\* handleDHCOTemplateDelete), with one request at a time and every hydration read.
THEOREM TemplatesHeld == ASSUME OneRequest PROVE OptionsSpec => []TemplateHeld
<1>1. OptionInv => TemplateHeld
  BY DEF OptionInv, Sighted, NamesSaved, TemplateHeld
<1>2. OptionsInit => OptionInv
  BY OptionsStart
<1>3. OptionInv /\ [OptionsNext]_optionVars => OptionInv'
  BY OptionKeeps
<1> QED BY <1>1, <1>2, <1>3, PTL DEF OptionsSpec

-----------------------------------------------------------------------------
(* Notifications.  The settings, the calls and the senders have their       *)
(* shapes; a sender of an email channel saw a host that is still stored.   *)

Smtps == [host : 0..2, pwd : 0..1]
Webhooks == [url : 0..1, alt : 0..1]
Listings == [Channels -> [type : {"none", "webhook", "email"}, target : 0..2]]
Configs == [smtp : Smtps, sms : 0..1, webhook : Webhooks, channels : Listings]

HostStored(smtp) == smtp.host = 0 => smtp = Unset.smtp

Shaped(k, data) == /\ k = "smtp" => data \in Smtps /\ HostStored(data)
                   /\ k = "sms" => data \in 0..1
                   /\ k = "webhook" => data \in Webhooks
                   /\ k = "channels" => data \in Listings

CallWell(c) ==
  /\ c = [pc |-> c.pc, kind |-> c.kind, data |-> c.data, channel |-> c.channel, answer |-> c.answer]
  /\ c.pc \in {"idle", "list", "copy", "write", "mail"}
  /\ c.kind \in Kinds \cup {"none"}
  /\ c.pc \in {"list", "copy", "write"} <=> c.kind # "none"
  /\ c.pc = "list" => /\ c.kind = "channels" /\ c.channel \in Channels
                      /\ c.data \in [type : {"webhook", "email"}, target : 1..2]
  /\ c.pc = "write" => Shaped(c.kind, c.data)

SenderWell(s) == /\ s \in [type : {"none", "webhook", "email"}, target : 0..2, host : 0..2]
                 /\ s # NoSender <=> s.type # "none"
                 /\ s.type = "email" => mem.smtp.host # 0

NotifyShapes ==
  /\ mem \in Configs /\ HostStored(mem.smtp)
  /\ files \in Configs /\ HostStored(files.smtp)
  /\ caller = [a \in NotifyAdmins |-> caller[a]] /\ \A a \in NotifyAdmins : CallWell(caller[a])
  /\ senders = [c \in Channels |-> senders[c]] /\ \A c \in Channels : SenderWell(senders[c])
  /\ fileFaults \in Nat /\ starts \in Nat

(* A setting that was never saved by two calls at once, while no write has  *)
(* failed: one call saves it at most, and what it will write is the         *)
(* setting as it stands.                                                    *)

Agree(k) == IF k = "webhook" THEN files.webhook.url = 1 => files.webhook = mem.webhook
                             ELSE files[k] = mem[k]

Kept(k) ==
  fileFaults = 0 /\ k \notin overlapped =>
    /\ \A a, b \in NotifyAdmins : Saving(a, k) /\ Saving(b, k) => a = b
    /\ (\A a \in NotifyAdmins : ~Saving(a, k)) => Agree(k)
    /\ \A a \in NotifyAdmins : caller[a].kind = k =>
         /\ CallAt(a, "list") => Agree(k)
         /\ CallAt(a, "write") => caller[a].data = mem[k]

NotifyInv == NotifyShapes /\ \A k \in Kinds : Kept(k)

LEMMA NotifyStarts == NotifyInit => NotifyInv
<1> SUFFICES ASSUME NotifyInit PROVE NotifyInv
  OBVIOUS
<1>1. Unset \in Configs /\ HostStored(Unset.smtp)
  BY DEF Unset, Configs, Smtps, Webhooks, Listings, NoChannel, HostStored
<1>2. CallWell(NoCall) /\ SenderWell(NoSender)
  BY DEF NoCall, CallWell, NoSender, SenderWell
<1>3. NotifyShapes
  BY <1>1, <1>2 DEF NotifyInit, NotifyShapes
<1>4. ASSUME NEW k \in Kinds PROVE Kept(k)
  BY DEF NotifyInit, Kept, Saving, CallAt, Agree, NoCall, Unset
<1> QED BY <1>3, <1>4 DEF NotifyInv

(* What one call's step does to the others: nothing but its own setting     *)
(* moves, and a call that begins finds no other one saving it, or marks it. *)

LEMMA CallMoves ==
  ASSUME NotifyInv, NEW a \in NotifyAdmins, NEW c, CallWell(c),
         caller' = [caller EXCEPT ![a] = c],
         \A s \in Channels : senders'[s] = senders[s] \/ SenderWell(senders[s])',
         senders' = [s \in Channels |-> senders'[s]],
         mem' \in Configs, HostStored(mem'.smtp),
         mem.smtp.host # 0 => mem'.smtp.host # 0,
         files' \in Configs, HostStored(files'.smtp),
         fileFaults' \in Nat, starts' \in Nat
  PROVE  /\ NotifyShapes'
         /\ caller'[a] = c
         /\ \A b \in NotifyAdmins \ {a} : caller'[b] = caller[b]
<1>1. caller' = [b \in NotifyAdmins |-> IF b = a THEN c ELSE caller[b]]
  BY DEF NotifyInv, NotifyShapes
<1>2. \A b \in NotifyAdmins : CallWell(caller'[b])
  BY <1>1 DEF NotifyInv, NotifyShapes
<1>3. \A s \in Channels : SenderWell(senders[s])'
  BY DEF NotifyInv, NotifyShapes, SenderWell
<1> QED BY <1>1, <1>2, <1>3 DEF NotifyShapes

\* A step of a call that saves nothing, before or after it.
LEMMA QuietCall ==
  ASSUME NotifyInv, NEW a \in NotifyAdmins, NEW c, CallWell(c),
         caller' = [caller EXCEPT ![a] = c], caller[a].kind = "none", c.kind = "none",
         UNCHANGED <<mem, files, senders, fileFaults, starts, overlapped>>
  PROVE  NotifyInv'
<1>1. /\ NotifyShapes'
      /\ caller'[a] = c
      /\ \A b \in NotifyAdmins \ {a} : caller'[b] = caller[b]
  <2>1. /\ mem' \in Configs /\ HostStored(mem'.smtp) /\ files' \in Configs /\ HostStored(files'.smtp)
        /\ fileFaults' \in Nat /\ starts' \in Nat /\ senders' = [s \in Channels |-> senders'[s]]
    BY DEF NotifyInv, NotifyShapes
  <2> QED BY <2>1, CallMoves
<1>2. ASSUME NEW k \in Kinds PROVE Kept(k)'
  <2>1. \A b \in NotifyAdmins : Saving(b, k)' <=> Saving(b, k)
    BY <1>1 DEF Saving, Kinds
  <2>2. \A b \in NotifyAdmins : caller'[b].kind = k => caller'[b] = caller[b]
    BY <1>1 DEF Kinds
  <2>3. Kept(k) /\ Agree(k)' = Agree(k) /\ mem' = mem
    BY DEF NotifyInv, Agree
  <2> QED BY <2>1, <2>2, <2>3 DEF Kept, CallAt
<1> QED BY <1>1, <1>2 DEF NotifyInv

\* A call begins to save one setting and changes no other one.
LEMMA CallStartsWell ==
  ASSUME NotifyInv, NEW a \in NotifyAdmins, NEW k \in Kinds, NEW next \in {"list", "copy"},
         NEW data, NEW s, CallAt(a, "idle"), CallStarts(a, k, next, data, s),
         CallWell([pc |-> next, kind |-> k, data |-> data, channel |-> s, answer |-> "none"]),
         \A x \in Channels : senders'[x] = senders[x] \/ SenderWell(senders[x])',
         senders' = [x \in Channels |-> senders'[x]],
         mem' \in Configs, HostStored(mem'.smtp),
         mem.smtp.host # 0 => mem'.smtp.host # 0,
         \A j \in Kinds \ {k} : mem'[j] = mem[j],
         next = "list" => mem' = mem,
         UNCHANGED <<files, fileFaults, starts>>
  PROVE  NotifyInv'
<1> DEFINE c == [pc |-> next, kind |-> k, data |-> data, channel |-> s, answer |-> "none"]
<1>1. /\ NotifyShapes'
      /\ caller'[a] = c
      /\ \A b \in NotifyAdmins \ {a} : caller'[b] = caller[b]
  <2>1. /\ files' \in Configs /\ HostStored(files'.smtp) /\ fileFaults' \in Nat /\ starts' \in Nat
        /\ caller' = [caller EXCEPT ![a] = c]
    BY DEF NotifyInv, NotifyShapes, CallStarts
  <2> QED BY <2>1, CallMoves
<1>2. caller[a].kind = "none"
  BY DEF NotifyInv, NotifyShapes, CallWell, CallAt
<1>3. ASSUME NEW j \in Kinds \ {k} PROVE Kept(j)'
  <2>1. \A b \in NotifyAdmins : Saving(b, j)' <=> Saving(b, j)
    BY <1>1, <1>2 DEF Saving, Kinds
  <2>2. \A b \in NotifyAdmins : caller'[b].kind = j => caller'[b] = caller[b]
    BY <1>1, <1>2
  <2>3. Agree(j)' = Agree(j) /\ mem'[j] = mem[j]
    <3>1. mem'[j] = mem[j] /\ files' = files
      OBVIOUS
    <3>2. j = "webhook" => mem'.webhook = mem.webhook
      BY <3>1
    <3> QED BY <3>1, <3>2 DEF Agree
  <2>4. j \notin overlapped' => j \notin overlapped
    BY DEF CallStarts
  <2> QED BY <2>1, <2>2, <2>3, <2>4 DEF Kept, CallAt, NotifyInv
<1>4. Kept(k)'
  <2> SUFFICES ASSUME fileFaults' = 0, k \notin overlapped'
      PROVE /\ \A x, b \in NotifyAdmins : Saving(x, k)' /\ Saving(b, k)' => x = b
            /\ (\A x \in NotifyAdmins : ~Saving(x, k)') => Agree(k)'
            /\ \A x \in NotifyAdmins : caller'[x].kind = k =>
                 /\ caller'[x].pc = "list" => Agree(k)'
                 /\ caller'[x].pc = "write" => caller'[x].data = mem'[k]
    BY DEF Kept, CallAt
  <2>1. fileFaults = 0 /\ k \notin overlapped /\ \A b \in NotifyAdmins \ {a} : ~Saving(b, k)
    BY DEF CallStarts
  <2>2. \A b \in NotifyAdmins \ {a} : ~Saving(b, k)'
    BY <2>1, <1>1 DEF Saving
  <2>3. Saving(a, k)'
    BY <1>1 DEF Saving
  <2>4. next = "list" => Agree(k)'
    <3>1. ~Saving(a, k)
      BY <1>2 DEF Saving, Kinds
    <3>2. Agree(k)
      BY <3>1, <2>1 DEF NotifyInv, Kept
    <3> QED BY <3>2 DEF Agree
  <2>5. \A x \in NotifyAdmins : caller'[x].kind = k /\ caller'[x].pc \in {"list", "write"} => x = a
    BY <2>2 DEF Saving
  <2> QED BY <1>1, <2>2, <2>3, <2>4, <2>5
<1> QED BY <1>1, <1>3, <1>4 DEF NotifyInv

\* The steps that begin a save.
LEMMA SavesBegin ==
  ASSUME NotifyInv, NEW a \in NotifyAdmins,
         \/ handleUpsertNotificationChannel(a) \/ handleSaveSMTPConfig(a)
         \/ handleSaveSMSConfig(a) \/ handleSaveWebhookConfig(a)
  PROVE  NotifyInv'
<1>1. CASE handleUpsertNotificationChannel(a)
  <2>1. PICK c \in Channels, ty \in {"webhook", "email"}, n \in 1..2 :
          /\ registerNotificationChannel(c, [type |-> ty, target |-> n])
          /\ CallStarts(a, "channels", "list", [type |-> ty, target |-> n], c)
    BY <1>1 DEF handleUpsertNotificationChannel
  <2> DEFINE ch == [type |-> ty, target |-> n]
  <2>2. CallAt(a, "idle") /\ UNCHANGED <<mem, files, fileFaults, starts>>
    BY <1>1 DEF handleUpsertNotificationChannel
  <2>3. mem \in Configs /\ HostStored(mem.smtp) /\ senders = [x \in Channels |-> senders[x]]
    BY DEF NotifyInv, NotifyShapes
  <2>4. SenderWell(NewSender(ch, mem.smtp))'
    <3>1. ty = "email" => mem.smtp.host # 0
      BY <2>1 DEF registerNotificationChannel, Registrable
    <3>2. mem.smtp.host \in 0..2
      BY <2>3 DEF Configs, Smtps
    <3> QED BY <3>1, <3>2, <2>2 DEF SenderWell, NewSender, NoSender
  <2>5. senders' = [x \in Channels |-> IF x = c THEN NewSender(ch, mem.smtp) ELSE senders[x]]
    BY <2>1, <2>3 DEF registerNotificationChannel
  <2>6. \A x \in Channels : senders'[x] = senders[x] \/ SenderWell(senders[x])'
    BY <2>2, <2>4, <2>5 DEF SenderWell
  <2>7. CallWell([pc |-> "list", kind |-> "channels", data |-> ch, channel |-> c, answer |-> "none"])
    BY DEF CallWell, Kinds
  <2>8. senders' = [x \in Channels |-> senders'[x]]
    BY <2>5
  <2> QED BY <2>1, <2>2, <2>3, <2>6, <2>7, <2>8, CallStartsWell DEF Kinds
<1>2. CASE handleSaveSMTPConfig(a)
  <2>1. PICK h \in 1..2, p \in 0..1 :
          mem' = [mem EXCEPT !.smtp = [host |-> h, pwd |-> IF p = 0 THEN mem.smtp.pwd ELSE p]]
    BY <1>2 DEF handleSaveSMTPConfig
  <2>2. CallAt(a, "idle") /\ CallStarts(a, "smtp", "copy", 0, "none")
        /\ UNCHANGED <<files, senders, fileFaults, starts>>
    BY <1>2 DEF handleSaveSMTPConfig
  <2>3. mem \in Configs /\ senders = [x \in Channels |-> senders[x]]
    BY DEF NotifyInv, NotifyShapes
  <2> DEFINE new == [host |-> h, pwd |-> IF p = 0 THEN mem.smtp.pwd ELSE p]
  <2>4. new \in Smtps /\ new.host # 0
    BY <2>3 DEF Configs, Smtps
  <2> HIDE DEF new
  <2>5. mem' \in Configs /\ mem'.smtp = new
    BY <2>1, <2>3, <2>4 DEF Configs, new
  <2>6. \A j \in Kinds \ {"smtp"} : mem'[j] = mem[j]
    BY <2>1, <2>3, <2>5 DEF Configs, Kinds
  <2>7. HostStored(mem'.smtp) /\ mem'.smtp.host # 0
    BY <2>4, <2>5 DEF HostStored
  <2>8. CallWell([pc |-> "copy", kind |-> "smtp", data |-> 0, channel |-> "none", answer |-> "none"])
    BY DEF CallWell, Kinds
  <2>9. \A x \in Channels : senders'[x] = senders[x]
    BY <2>2
  <2> QED BY <2>2, <2>3, <2>5, <2>6, <2>7, <2>8, <2>9, CallStartsWell DEF Kinds
<1>3. CASE handleSaveSMSConfig(a)
  <2>1. mem' = [mem EXCEPT !.sms = 1] /\ CallAt(a, "idle") /\ CallStarts(a, "sms", "copy", 0, "none")
        /\ UNCHANGED <<files, senders, fileFaults, starts>>
    BY <1>3 DEF handleSaveSMSConfig
  <2>2. mem \in Configs /\ HostStored(mem.smtp) /\ senders = [x \in Channels |-> senders[x]]
    BY DEF NotifyInv, NotifyShapes
  <2>3. mem' \in Configs /\ mem'.smtp = mem.smtp
    BY <2>1, <2>2 DEF Configs
  <2>4. \A j \in Kinds \ {"sms"} : mem'[j] = mem[j]
    BY <2>1, <2>2, <2>3 DEF Configs, Kinds
  <2>5. CallWell([pc |-> "copy", kind |-> "sms", data |-> 0, channel |-> "none", answer |-> "none"])
    BY DEF CallWell, Kinds
  <2>6. \A x \in Channels : senders'[x] = senders[x]
    BY <2>1
  <2> QED BY <2>1, <2>2, <2>3, <2>4, <2>5, <2>6, CallStartsWell DEF Kinds
<1>4. CASE handleSaveWebhookConfig(a)
  <2>1. PICK u \in 0..1, v \in 0..1 : mem' = [mem EXCEPT !.webhook = [url |-> u, alt |-> v]]
    BY <1>4 DEF handleSaveWebhookConfig
  <2>2. CallAt(a, "idle") /\ CallStarts(a, "webhook", "copy", 0, "none")
        /\ UNCHANGED <<files, senders, fileFaults, starts>>
    BY <1>4 DEF handleSaveWebhookConfig
  <2>3. mem \in Configs /\ HostStored(mem.smtp) /\ senders = [x \in Channels |-> senders[x]]
    BY DEF NotifyInv, NotifyShapes
  <2>4. mem' \in Configs /\ mem'.smtp = mem.smtp
    BY <2>1, <2>3 DEF Configs, Webhooks
  <2>5. \A j \in Kinds \ {"webhook"} : mem'[j] = mem[j]
    BY <2>1, <2>3, <2>4 DEF Configs, Kinds
  <2>6. CallWell([pc |-> "copy", kind |-> "webhook", data |-> 0, channel |-> "none", answer |-> "none"])
    BY DEF CallWell, Kinds
  <2>7. \A x \in Channels : senders'[x] = senders[x]
    BY <2>2
  <2> QED BY <2>2, <2>3, <2>4, <2>5, <2>6, <2>7, CallStartsWell DEF Kinds
<1> QED BY <1>1, <1>2, <1>3, <1>4

\* The steps of a call that is saving: the listing, the copy, the write.
LEMMA SavesGoOn ==
  ASSUME NotifyInv, NEW a \in NotifyAdmins, NEW k \in Kinds, NEW c, Saving(a, k), CallWell(c),
         c.kind \in {k, "none"}, caller' = [caller EXCEPT ![a] = c], senders' = senders,
         mem' \in Configs, HostStored(mem'.smtp), files' \in Configs, HostStored(files'.smtp),
         mem.smtp.host # 0 => mem'.smtp.host # 0,
         \A j \in Kinds \ {k} : mem'[j] = mem[j] /\ files'[j] = files[j],
         fileFaults' \in Nat, fileFaults' >= fileFaults, starts' = starts, overlapped' = overlapped,
         fileFaults' = 0 /\ k \notin overlapped =>
           /\ c.kind = "none" => Agree(k)'
           /\ c.pc # "list"
           /\ c.pc = "write" => c.data = mem'[k]
  PROVE  NotifyInv'
<1>1. /\ NotifyShapes'
      /\ caller'[a] = c
      /\ \A b \in NotifyAdmins \ {a} : caller'[b] = caller[b]
  <2>1. starts' \in Nat /\ senders' = [s \in Channels |-> senders'[s]]
    BY DEF NotifyInv, NotifyShapes
  <2> QED BY <2>1, CallMoves
<1>2. caller[a].kind = k /\ fileFaults \in Nat
  BY DEF Saving, NotifyInv, NotifyShapes
<1>3. ASSUME NEW j \in Kinds \ {k} PROVE Kept(j)'
  <2>1. \A b \in NotifyAdmins : Saving(b, j)' <=> Saving(b, j)
    BY <1>1, <1>2 DEF Saving, Kinds
  <2>2. \A b \in NotifyAdmins : caller'[b].kind = j => caller'[b] = caller[b]
    BY <1>1, <1>2 DEF Kinds
  <2>3. Agree(j)' = Agree(j) /\ mem'[j] = mem[j]
    <3>1. mem'[j] = mem[j] /\ files'[j] = files[j]
      OBVIOUS
    <3>2. j = "webhook" => mem'.webhook = mem.webhook /\ files'.webhook = files.webhook
      BY <3>1
    <3> QED BY <3>1, <3>2 DEF Agree
  <2>4. fileFaults' = 0 => fileFaults = 0
    BY <1>2
  <2> QED BY <2>1, <2>2, <2>3, <2>4 DEF Kept, CallAt, NotifyInv
<1>4. Kept(k)'
  <2> SUFFICES ASSUME fileFaults' = 0, k \notin overlapped'
      PROVE /\ \A x, b \in NotifyAdmins : Saving(x, k)' /\ Saving(b, k)' => x = b
            /\ (\A x \in NotifyAdmins : ~Saving(x, k)') => Agree(k)'
            /\ \A x \in NotifyAdmins : caller'[x].kind = k =>
                 /\ caller'[x].pc = "list" => Agree(k)'
                 /\ caller'[x].pc = "write" => caller'[x].data = mem'[k]
    BY DEF Kept, CallAt
  <2>1. fileFaults = 0 /\ k \notin overlapped
    BY <1>2
  <2>2. \A b \in NotifyAdmins \ {a} : ~Saving(b, k)
    BY <2>1 DEF NotifyInv, Kept
  <2>3. \A b \in NotifyAdmins \ {a} : ~Saving(b, k)'
    BY <2>2, <1>1 DEF Saving
  <2>4. Saving(a, k)' <=> c.kind = k
    BY <1>1 DEF Saving, CallWell, Kinds
  <2>5. \A x \in NotifyAdmins : caller'[x].kind = k /\ caller'[x].pc \in {"list", "write"} => x = a
    BY <2>3 DEF Saving
  <2> QED BY <1>1, <2>1, <2>3, <2>4, <2>5
<1> QED BY <1>1, <1>3, <1>4 DEF NotifyInv

LEMMA ListingKeeps == ASSUME NotifyInv, NEW a \in NotifyAdmins, ListChannel(a) PROVE NotifyInv'
<1> DEFINE c == [pc |-> "copy", kind |-> "channels", data |-> caller[a].data,
                 channel |-> caller[a].channel, answer |-> caller[a].answer]
<1>1. /\ caller[a] = [pc |-> "list", kind |-> "channels", data |-> caller[a].data,
                      channel |-> caller[a].channel, answer |-> caller[a].answer]
      /\ caller[a].channel \in Channels
      /\ caller[a].data \in [type : {"webhook", "email"}, target : 1..2]
  BY DEF NotifyInv, NotifyShapes, CallWell, ListChannel, CallAt
<1>2. mem \in Configs /\ HostStored(mem.smtp) /\ files \in Configs /\ HostStored(files.smtp)
      /\ fileFaults \in Nat
  BY DEF NotifyInv, NotifyShapes
<1>3. mem' = [mem EXCEPT !.channels = [mem.channels EXCEPT ![caller[a].channel] = caller[a].data]]
  BY DEF ListChannel
<1>4. [mem.channels EXCEPT ![caller[a].channel] = caller[a].data] \in Listings
  BY <1>1, <1>2 DEF Configs, Listings
<1>5. mem' \in Configs /\ mem'.smtp = mem.smtp
  BY <1>2, <1>3, <1>4 DEF Configs
<1>6. \A j \in Kinds \ {"channels"} : mem'[j] = mem[j] /\ files'[j] = files[j]
  BY <1>2, <1>3, <1>5 DEF Configs, Kinds, ListChannel
<1>7. caller' = [caller EXCEPT ![a] = c]
  <2>1. [caller[a] EXCEPT !.pc = "copy"] = c
    BY <1>1
  <2> QED BY <2>1 DEF ListChannel
<1>8. CallWell(c) /\ Saving(a, "channels")
  BY <1>1 DEF CallWell, Saving, Kinds
<1> HIDE DEF c
<1>9. c.kind = "channels" /\ c.pc = "copy" /\ "channels" # "none" /\ "channels" \in Kinds
  BY DEF c, Kinds
<1>10. HostStored(mem'.smtp) /\ HostStored(files'.smtp) /\ files' \in Configs /\ fileFaults' \in Nat
       /\ fileFaults' >= fileFaults /\ (mem.smtp.host # 0 => mem'.smtp.host # 0)
  BY <1>2, <1>5 DEF ListChannel
<1>11. senders' = senders /\ starts' = starts /\ overlapped' = overlapped
  BY DEF ListChannel
<1> QED BY <1>5, <1>6, <1>7, <1>8, <1>9, <1>10, <1>11, SavesGoOn

LEMMA CopyKeeps == ASSUME NotifyInv, NEW a \in NotifyAdmins, persistConfig(a) PROVE NotifyInv'
<1> DEFINE k == caller[a].kind
           c == [[caller[a] EXCEPT !.pc = "write"] EXCEPT !.data = mem[k]]
<1>1. /\ caller[a] = [pc |-> "copy", kind |-> k, data |-> caller[a].data,
                      channel |-> caller[a].channel, answer |-> caller[a].answer]
      /\ k \in Kinds
  BY DEF NotifyInv, NotifyShapes, CallWell, persistConfig, CallAt
<1>2. mem \in Configs /\ HostStored(mem.smtp) /\ files \in Configs /\ HostStored(files.smtp)
      /\ fileFaults \in Nat
  BY DEF NotifyInv, NotifyShapes
<1>3. caller' = [caller EXCEPT ![a] = c]
  <2>2. caller = [b \in NotifyAdmins |-> caller[b]]
    BY DEF NotifyInv, NotifyShapes
  <2>3. caller' = [[caller EXCEPT ![a] = [caller[a] EXCEPT !.pc = "write"]]
                     EXCEPT ![a] = [@ EXCEPT !.data = mem[k]]]
    BY DEF persistConfig, Copied
  <2>4. [caller EXCEPT ![a] = [caller[a] EXCEPT !.pc = "write"]][a] = [caller[a] EXCEPT !.pc = "write"]
    BY <2>2
  <2>5. caller' = [[caller EXCEPT ![a] = [caller[a] EXCEPT !.pc = "write"]] EXCEPT ![a] = c]
    BY <2>3, <2>4
  <2> HIDE DEF c
  <2> QED BY <2>2, <2>5
<1>4. c \in [pc : {"write"}, kind : {k}, data : {mem[k]}, channel : {caller[a].channel},
             answer : {caller[a].answer}]
  BY <1>1
<1> HIDE DEF c
<1>4a. CallWell(c)
  <2>1. Shaped(k, mem[k])
    BY <1>1, <1>2 DEF Shaped, Configs, Kinds
  <2> QED BY <1>1, <1>4, <2>1 DEF CallWell, Kinds
<1>5. Saving(a, k)
  BY <1>1 DEF Saving
<1>6. c.kind = k /\ c.pc = "write" /\ c.data = mem[k] /\ c.kind # "none"
  BY <1>1, <1>4 DEF Kinds
<1>7. UNCHANGED <<mem, files, senders, fileFaults, starts, overlapped>>
  BY DEF persistConfig
<1> HIDE DEF k
<1>8. fileFaults' >= fileFaults /\ \A j \in Kinds \ {k} : mem'[j] = mem[j] /\ files'[j] = files[j]
  BY <1>2, <1>7
<1>9. mem' \in Configs /\ HostStored(mem'.smtp) /\ files' \in Configs /\ HostStored(files'.smtp)
      /\ fileFaults' \in Nat /\ mem'[k] = mem[k] /\ mem'.smtp = mem.smtp
  BY <1>2, <1>7
<1> QED BY <1>1, <1>3, <1>4a, <1>5, <1>6, <1>7, <1>8, <1>9, SavesGoOn

LEMMA WriteDone == ASSUME NotifyInv, NEW a \in NotifyAdmins, WriteFile(a) PROVE NotifyInv'
<1>0. PICK k \in Kinds : k = caller[a].kind
  BY DEF NotifyInv, NotifyShapes, CallWell, WriteFile, CallAt
<1>k. PICK data : k = caller[a].kind /\ data = caller[a].data
  BY <1>0
<1>1. Shaped(k, data) /\ CallAt(a, "write") /\ k # "none"
  BY <1>k DEF NotifyInv, NotifyShapes, CallWell, WriteFile, CallAt, Kinds
<1>2. mem \in Configs /\ HostStored(mem.smtp) /\ files \in Configs /\ HostStored(files.smtp)
      /\ fileFaults \in Nat
  BY DEF NotifyInv, NotifyShapes
<1>3. PICK ok \in BOOLEAN :
        /\ files' = IF ok THEN [files EXCEPT ![k] = data] ELSE files
        /\ fileFaults' = IF ok THEN fileFaults ELSE fileFaults + 1
        /\ caller' = [caller EXCEPT ![a] =
             [NoCall EXCEPT !.answer = IF ok \/ k \in {"smtp", "channels"} THEN "saved" ELSE "failed"]]
  BY <1>k DEF WriteFile
<1> DEFINE c == [NoCall EXCEPT !.answer = IF ok \/ k \in {"smtp", "channels"} THEN "saved" ELSE "failed"]
<1>4. CallWell(c) /\ c.kind = "none" /\ c.pc = "idle"
  BY DEF CallWell, NoCall
<1> HIDE DEF c
<1>5. UNCHANGED <<mem, senders, starts, overlapped>>
  BY DEF WriteFile
<1>6. files' \in Configs /\ HostStored(files'.smtp) /\ (ok => files'[k] = data)
      /\ \A j \in Kinds \ {k} : files'[j] = files[j]
  <2>1. CASE ~ok
    BY <1>2, <1>3, <2>1
  <2>2. CASE ok
    <3>1. files' = [files EXCEPT ![k] = data]
      BY <1>3, <2>2
    <3>2. files' \in Configs
      BY <1>1, <1>2, <3>1 DEF Configs, Kinds, Shaped
    <3>3. files'[k] = data /\ \A j \in Kinds \ {k} : files'[j] = files[j]
      BY <1>1, <1>2, <3>1 DEF Configs, Kinds
    <3>4. HostStored(files'.smtp)
      <4>1. CASE k = "smtp"
        <5>1. files'.smtp = data
          BY <3>3, <4>1
        <5> QED BY <5>1, <1>1, <4>1 DEF Shaped
      <4>2. CASE k # "smtp"
        <5>1. files'["smtp"] = files["smtp"]
          BY <3>3, <4>2 DEF Kinds
        <5>2. files'.smtp = files.smtp
          BY <5>1
        <5> QED BY <5>2, <1>2
      <4> QED BY <4>1, <4>2
    <3> QED BY <3>2, <3>3, <3>4
  <2> QED BY <2>1, <2>2
<1>7. ASSUME fileFaults' = 0, k \notin overlapped PROVE Agree(k)'
  <2>1. ok /\ fileFaults = 0
    BY <1>2, <1>3, <1>7
  <2>2. data = mem[k]
    BY <1>k, <1>1, <1>7, <2>1 DEF NotifyInv, Kept
  <2>3. files'[k] = mem'[k]
    BY <1>5, <1>6, <2>1, <2>2
  <2>4. k = "webhook" => files'.webhook = mem'.webhook
    BY <2>3
  <2> QED BY <2>3, <2>4, <1>1 DEF Agree
<1>8. Saving(a, k) /\ fileFaults' \in Nat /\ fileFaults' >= fileFaults
  BY <1>k, <1>1, <1>2, <1>3 DEF Saving, CallAt
<1>9. caller' = [caller EXCEPT ![a] = c]
  BY <1>3 DEF c
<1>10. mem' \in Configs /\ HostStored(mem'.smtp) /\ (mem.smtp.host # 0 => mem'.smtp.host # 0)
       /\ \A j \in Kinds \ {k} : mem'[j] = mem[j] /\ files'[j] = files[j]
  BY <1>2, <1>5, <1>6
<1> QED BY <1>1, <1>4, <1>5, <1>6, <1>7, <1>8, <1>9, <1>10, SavesGoOn

LEMMA TestsKeep ==
  ASSUME NotifyInv, NEW a \in NotifyAdmins,
         \/ handleSendNotificationTest(a) \/ handleTestWebhookConfig(a)
         \/ handleTestSMTPConfig(a) \/ sendSMTPMessage(a)
  PROVE  NotifyInv'
<1>1. UNCHANGED <<mem, files, senders, fileFaults, starts, overlapped>>
  BY DEF handleSendNotificationTest, handleTestWebhookConfig, handleTestSMTPConfig, sendSMTPMessage
<1>2. caller[a].kind = "none"
  BY DEF NotifyInv, NotifyShapes, CallWell, CallAt, handleSendNotificationTest,
         handleTestWebhookConfig, handleTestSMTPConfig, sendSMTPMessage
<1>3. \E c : CallWell(c) /\ c.kind = "none" /\ caller' = [caller EXCEPT ![a] = c]
  <2>1. CASE handleSendNotificationTest(a)
    <3>1. PICK s \in Channels, ok \in BOOLEAN :
            caller' = [caller EXCEPT ![a] = [NoCall EXCEPT
              !.channel = s, !.data = Dispatch(s, ok),
              !.answer = IF Dispatch(s, ok) = "failed" THEN "bad gateway" ELSE "delivered"]]
      BY <2>1 DEF handleSendNotificationTest
    <3> DEFINE d == Dispatch(s, ok)
               e == IF d = "failed" THEN "bad gateway" ELSE "delivered"
               c == [NoCall EXCEPT !.channel = s, !.data = d, !.answer = e]
    <3>2. caller' = [caller EXCEPT ![a] = c]
      BY <3>1
    <3> HIDE DEF d, e
    <3>3. c \in [pc : {"idle"}, kind : {"none"}, data : {d}, channel : {s}, answer : {e}]
      BY DEF NoCall
    <3> HIDE DEF c
    <3>4. CallWell(c) /\ c.kind = "none"
      BY <3>3 DEF CallWell
    <3> QED BY <3>2, <3>4
  <2>2. ASSUME NEW x PROVE LET c == [NoCall EXCEPT !.answer = x] IN CallWell(c) /\ c.kind = "none"
    BY DEF CallWell, NoCall
  <2>3. CASE handleTestWebhookConfig(a) \/ sendSMTPMessage(a)
    BY <2>2, <2>3 DEF handleTestWebhookConfig, sendSMTPMessage
  <2>4. CASE handleTestSMTPConfig(a)
    <3>1. LET c == [NoCall EXCEPT !.pc = "mail"] IN CallWell(c) /\ c.kind = "none"
      BY DEF CallWell, NoCall
    <3> QED BY <3>1, <2>4 DEF handleTestSMTPConfig
  <2> QED BY <2>1, <2>3, <2>4
<1> QED BY <1>1, <1>2, <1>3, QuietCall

\* After a start every setting is what its file says, and nothing is being saved.
LEMMA RestartWell == ASSUME NotifyInv, Restart PROVE NotifyInv'
<1>1. files \in Configs /\ HostStored(files.smtp) /\ fileFaults \in Nat /\ starts \in Nat
  BY DEF NotifyInv, NotifyShapes
<1>2. loadSMTPConfig = files.smtp
  BY <1>1 DEF loadSMTPConfig, HostStored
<1>3. /\ mem' = [smtp |-> files.smtp, sms |-> files.sms,
                 webhook |-> loadWebhookConfig, channels |-> files.channels]
      /\ UNCHANGED <<files, fileFaults, overlapped>> /\ starts' \in Nat
      /\ caller' = [a \in NotifyAdmins |-> NoCall]
      /\ senders' = [c \in Channels |-> IF Registrable(files.channels[c], files.smtp)
                                         THEN NewSender(files.channels[c], files.smtp) ELSE NoSender]
  BY <1>1, <1>2 DEF Restart, loadSMSConfig, loadNotificationChannels
<1>4. loadWebhookConfig \in Webhooks
  BY <1>1 DEF loadWebhookConfig, Configs, Webhooks, Unset
<1>5. mem' \in Configs /\ mem'.smtp = files.smtp
  BY <1>1, <1>3, <1>4 DEF Configs
<1>6. ASSUME NEW c \in Channels PROVE SenderWell(senders[c])'
  <2>1. files.channels[c] \in [type : {"none", "webhook", "email"}, target : 0..2]
        /\ files.smtp.host \in 0..2
    BY <1>1 DEF Configs, Listings, Smtps
  <2>2. senders'[c] = IF Registrable(files.channels[c], files.smtp)
                      THEN NewSender(files.channels[c], files.smtp) ELSE NoSender
    BY <1>3
  <2> QED BY <2>1, <2>2, <1>5 DEF SenderWell, Registrable, NewSender, NoSender
<1>7. CallWell(NoCall) /\ NoCall.kind = "none" /\ NoCall.pc = "idle"
  BY DEF CallWell, NoCall
<1>8. NotifyShapes'
  BY <1>1, <1>3, <1>5, <1>6, <1>7 DEF NotifyShapes
<1>9. ASSUME NEW k \in Kinds PROVE Kept(k)'
  <2>1. \A a \in NotifyAdmins : caller'[a].kind # k
    BY <1>3, <1>7 DEF Kinds
  <2>2. Agree(k)'
    <3>1. CASE k = "webhook"
      <4>1. mem'.webhook = loadWebhookConfig /\ files' = files
        BY <1>3
      <4> QED BY <3>1, <4>1 DEF Agree, loadWebhookConfig
    <3>2. CASE k # "webhook"
      BY <1>3, <3>2 DEF Agree, Kinds
    <3> QED BY <3>1, <3>2
  <2> QED BY <2>1, <2>2 DEF Kept, Saving
<1> QED BY <1>8, <1>9 DEF NotifyInv

LEMMA NotifyKeeps == NotifyInv /\ [NotifyNext]_notifyVars => NotifyInv'
<1> SUFFICES ASSUME NotifyInv, [NotifyNext]_notifyVars PROVE NotifyInv'
  OBVIOUS
<1>1. CASE UNCHANGED <<mem, files, senders, caller, fileFaults, starts, overlapped>>
  <2>1. /\ Configs' = Configs /\ NotifyShapes' = NotifyShapes
        /\ \A k \in Kinds : Kept(k)' = Kept(k)
    BY <1>1 DEF NotifyShapes, SenderWell, Kept, Saving, CallAt, Agree
  <2> QED BY <2>1 DEF NotifyInv
<1>2. CASE UNCHANGED notifyVars \/ FiveSeconds
  BY <1>1, <1>2 DEF notifyVars, FiveSeconds
<1>3. CASE Restart
  BY <1>3, RestartWell
<1>4. ASSUME NEW a \in NotifyAdmins,
             \/ handleUpsertNotificationChannel(a) \/ ListChannel(a) \/ handleSaveSMTPConfig(a)
             \/ handleSaveSMSConfig(a) \/ handleSaveWebhookConfig(a) \/ persistConfig(a) \/ WriteFile(a)
             \/ handleSendNotificationTest(a) \/ handleTestWebhookConfig(a)
             \/ handleTestSMTPConfig(a) \/ sendSMTPMessage(a)
      PROVE  NotifyInv'
  BY <1>4, SavesBegin, ListingKeeps, CopyKeeps, WriteDone, TestsKeep
<1> QED BY <1>2, <1>3, <1>4 DEF NotifyNext

LEMMA NotifyInvariant == NotifySpec => []NotifyInv
<1> QED BY NotifyStarts, NotifyKeeps, PTL DEF NotifySpec

\* At rest the disk holds what the memory holds (http_server.go, persistSMTPConfig and
\* the other files of the notification settings).
THEOREM DiskAgrees == NotifySpec => []PersistedAtRest
<1>1. NotifyInv => PersistedAtRest
  BY DEF NotifyInv, Kept, Agree, PersistedAtRest
<1> QED BY <1>1, NotifyInvariant, PTL

\* A start gives the listed channels their senders back, email included, because the
\* SMTP configuration is read first (http_server.go, NewHTTPServer).
THEOREM SendersReturn == NotifySpec => RestartKeeps
<1>1. ASSUME NotifyInv, [NotifyNext]_notifyVars, starts' # starts,
             NEW c \in Channels, senders[c] # NoSender, mem.channels[c] # NoChannel,
             senders[c].type = mem.channels[c].type,
             files.channels[c] = mem.channels[c], files.smtp = mem.smtp
      PROVE  senders'[c] # NoSender
  <2>1. Restart
    <3>1. ASSUME NEW a \in NotifyAdmins, ~ UNCHANGED starts,
             \/ handleUpsertNotificationChannel(a) \/ ListChannel(a) \/ handleSaveSMTPConfig(a)
             \/ handleSaveSMSConfig(a) \/ handleSaveWebhookConfig(a) \/ persistConfig(a) \/ WriteFile(a)
             \/ handleSendNotificationTest(a) \/ handleTestWebhookConfig(a)
             \/ handleTestSMTPConfig(a) \/ sendSMTPMessage(a)
          PROVE FALSE
      BY <3>1 DEF handleUpsertNotificationChannel, ListChannel, handleSaveSMTPConfig,
             handleSaveSMSConfig, handleSaveWebhookConfig, persistConfig, WriteFile,
             handleSendNotificationTest, handleTestWebhookConfig, handleTestSMTPConfig, sendSMTPMessage
    <3> QED BY <1>1, <3>1 DEF NotifyNext, notifyVars, FiveSeconds
  <2>2. SenderWell(senders[c])
    BY <1>1 DEF NotifyInv, NotifyShapes
  <2>3. Registrable(files.channels[c], files.smtp)
    BY <1>1, <2>2 DEF SenderWell, Registrable
  <2>4. loadSMTPConfig = files.smtp
    BY <1>1 DEF NotifyInv, NotifyShapes, loadSMTPConfig, HostStored
  <2>5. senders'[c] = NewSender(files.channels[c], files.smtp)
    BY <2>1, <2>3, <2>4 DEF Restart, loadNotificationChannels
  <2>6. senders'[c].type = senders[c].type /\ senders[c].type # "none" /\ NoSender.type = "none"
    BY <1>1, <2>2, <2>5 DEF NewSender, SenderWell, NoSender
  <2> QED BY <2>6
<1>2. NotifyInv /\ [NotifyNext]_notifyVars =>
        [starts' # starts =>
          \A c \in Channels :
            (senders[c] # NoSender /\ mem.channels[c] # NoChannel
               /\ senders[c].type = mem.channels[c].type
               /\ files.channels[c] = mem.channels[c] /\ files.smtp = mem.smtp)
              => senders'[c] # NoSender]_notifyVars
  BY <1>1
<1> QED BY <1>2, NotifyInvariant, PTL DEF NotifySpec, RestartKeeps

-----------------------------------------------------------------------------
(* IotRegistry.  Rows and the copies of them the calls hold have one shape. *)

RowShaped(r) == r = [id |-> r.id, profile |-> r.profile, status |-> r.status, seen |-> r.seen]

IotShapes ==
  /\ iotDevices = [d \in Devices |-> iotDevices[d]]
  /\ \A d \in Devices : RowShaped(iotDevices[d])
  /\ work = [c \in Callers |-> work[c]]
  /\ \A c \in Callers : /\ RowShaped(work[c].row)
                        /\ WorkAt(c, "upsert") => work[c].device \in Devices

LEMMA NoRowShaped == RowShaped(NoRow) /\ NoWork.row = NoRow /\ NoWork.pc = "idle"
BY DEF RowShaped, NoRow, NoWork

LEMMA ShapeHolds ==
  ASSUME NEW I, NEW P, NEW S, NEW T, NEW r \in [id : I, profile : P, status : S, seen : T]
  PROVE  RowShaped(r)
BY DEF RowShaped

\* What one call does to the calls, whatever it does to the rows.
LEMMA WorkMoves ==
  ASSUME IotShapes, NEW c \in Callers, NEW w, work' = [work EXCEPT ![c] = w],
         RowShaped(w.row), w.pc = "upsert" => w.device \in Devices,
         iotDevices' = [d \in Devices |-> iotDevices'[d]], \A d \in Devices : RowShaped(iotDevices'[d])
  PROVE  IotShapes'
<1>1. work' = [x \in Callers |-> IF x = c THEN w ELSE work[x]]
  BY DEF IotShapes
<1> QED BY <1>1 DEF IotShapes, WorkAt

\* The row a call prepares has the shape of the one it read or made.
LEMMA PreparedShaped ==
  ASSUME NEW d, NEW p, NEW s, NEW old, RowShaped(old)
  PROVE  /\ RowShaped(Prepared(d, p, s, old).row)
         /\ Prepared(d, p, s, old).device = d
<1> DEFINE n == normalizeStatus(s)
           new == [old EXCEPT !.profile = p, !.status = n]
           w == [NoWork EXCEPT !.pc = "upsert", !.device = d, !.row = new]
<1> HIDE DEF n
<1>1. new \in [id : {old.id}, profile : {p}, status : {n}, seen : {old.seen}]
  BY DEF RowShaped
<1>2. RowShaped(new)
  BY <1>1, ShapeHolds
<1> HIDE DEF new
<1>3. w \in [pc : {"upsert"}, device : {d}, profile : {"none"}, row : {new}, copy : {NoProfile}]
  BY DEF NoWork
<1> HIDE DEF w
<1>4. w.row = new /\ w.device = d
  BY <1>3
<1> QED BY <1>2, <1>4 DEF Prepared, w, new, n

IotKeepsIds ==
  \A d \in Devices : Registered(d) /\ iotDevices'[d] # NoRow => iotDevices'[d].id = iotDevices[d].id

LEMMA RegistrationStep ==
  ASSUME IotShapes, NEW c \in Callers, handleDeviceSave(c) \/ UpsertDeviceRow(c)
  PROVE  IotShapes' /\ IotKeepsIds
<1>1. ASSUME NEW d \in Devices, UpsertDevice(c, d) PROVE IotShapes' /\ iotDevices' = iotDevices
  <2>1. iotDevices' = iotDevices
    BY <1>1 DEF UpsertDevice
  <2>2. \E w : work' = [work EXCEPT ![c] = w] /\ RowShaped(w.row) /\ (w.pc = "upsert" => w.device \in Devices)
    <3>1. PICK p \in Profiles \cup {""}, s \in {"", "RETIRED"} :
            \/ Returns(c)
            \/ work' = [work EXCEPT ![c] = Prepared(d, p, s, iotDevices[d])]
            \/ \E u \in Uuids \ Drawn :
                 work' = [work EXCEPT ![c] = Prepared(d, p, s, [NoRow EXCEPT !.id = u])]
      BY <1>1 DEF UpsertDevice
    <3>2. CASE Returns(c)
      BY <3>2, NoRowShaped DEF Returns
    <3>3. CASE work' = [work EXCEPT ![c] = Prepared(d, p, s, iotDevices[d])]
      <4>1. RowShaped(iotDevices[d])
        BY DEF IotShapes
      <4>2. PICK w : w = Prepared(d, p, s, iotDevices[d])
        OBVIOUS
      <4>3. RowShaped(w.row) /\ w.device = d
        BY <4>1, <4>2, PreparedShaped
      <4>4. work' = [work EXCEPT ![c] = w]
        BY <3>3, <4>2
      <4> QED BY <4>3, <4>4
    <3>4. ASSUME NEW u, work' = [work EXCEPT ![c] = Prepared(d, p, s, [NoRow EXCEPT !.id = u])]
          PROVE  \E w : work' = [work EXCEPT ![c] = w] /\ RowShaped(w.row)
                        /\ (w.pc = "upsert" => w.device \in Devices)
      <4>1. RowShaped([NoRow EXCEPT !.id = u])
        <5>1. [NoRow EXCEPT !.id = u] \in [id : {u}, profile : {NullRef}, status : {"none"}, seen : {0}]
          BY DEF NoRow
        <5> QED BY <5>1, ShapeHolds
      <4>2. PICK w : w = Prepared(d, p, s, [NoRow EXCEPT !.id = u])
        OBVIOUS
      <4>3. RowShaped(w.row) /\ w.device = d
        BY <4>1, <4>2, PreparedShaped
      <4>4. work' = [work EXCEPT ![c] = w]
        BY <3>4, <4>2
      <4> QED BY <4>3, <4>4
    <3> QED BY <3>1, <3>2, <3>3, <3>4
  <2> QED BY <2>1, <2>2, WorkMoves DEF IotShapes
<1>2. CASE UpsertDeviceRow(c)
  <2>1. PICK r, d : r = work[c].row /\ d = work[c].device
    OBVIOUS
  <2>2. d \in Devices /\ RowShaped(r) /\ Returns(c)
        /\ (iotDevices' = [iotDevices EXCEPT ![d] = UpsertRow(d, r)] \/ iotDevices' = iotDevices)
    BY <1>2, <2>1 DEF UpsertDeviceRow, IotShapes
  <2>3. RowShaped(UpsertRow(d, r)) /\ (Registered(d) => UpsertRow(d, r).id = iotDevices[d].id)
    <3>1. CASE Registered(d)
      <4>1. UpsertRow(d, r) \in [id : {iotDevices[d].id}, profile : {r.profile}, status : {r.status}, seen : {r.seen}]
        BY <2>2, <3>1 DEF UpsertRow, RowShaped
      <4> QED BY <4>1 DEF RowShaped
    <3>2. CASE ~Registered(d)
      BY <2>2, <3>2 DEF UpsertRow
    <3> QED BY <3>1, <3>2
  <2>4. /\ iotDevices' = [x \in Devices |-> iotDevices'[x]]
        /\ \A x \in Devices : iotDevices'[x] = iotDevices[x] \/ (x = d /\ iotDevices'[x] = UpsertRow(d, r))
    BY <2>2 DEF IotShapes
  <2>5. \A x \in Devices : RowShaped(iotDevices'[x])
    BY <2>3, <2>4 DEF IotShapes
  <2> QED BY <2>2, <2>3, <2>4, <2>5, WorkMoves, NoRowShaped DEF Returns, IotKeepsIds
<1> QED BY <1>1, <1>2 DEF handleDeviceSave, IotKeepsIds

LEMMA DeviceStep ==
  ASSUME IotShapes, NEW c \in Callers, handleDeviceDelete(c) \/ handleDeviceHeartbeat(c)
  PROVE  IotShapes' /\ IotKeepsIds
<1>1. Returns(c) /\ iotDevices = [x \in Devices |-> iotDevices[x]]
  BY DEF handleDeviceDelete, DeleteDevice, handleDeviceHeartbeat, RecordHeartbeat, IotShapes
<1>2. /\ iotDevices' = [x \in Devices |-> iotDevices'[x]]
      /\ \A x \in Devices : iotDevices'[x] = NoRow
                              \/ (RowShaped(iotDevices'[x]) /\ iotDevices'[x].id = iotDevices[x].id)
  <2>1. ASSUME NEW d \in Devices, DeleteDevice(c, d)
        PROVE  /\ iotDevices' = [x \in Devices |-> iotDevices'[x]]
               /\ \A x \in Devices : iotDevices'[x] = NoRow \/ iotDevices'[x] = iotDevices[x]
    BY <1>1, <2>1 DEF DeleteDevice
  <2>2. ASSUME NEW d \in Devices, RecordHeartbeat(c, d)
        PROVE  /\ iotDevices' = [x \in Devices |-> iotDevices'[x]]
               /\ \A x \in Devices : RowShaped(iotDevices'[x]) /\ iotDevices'[x].id = iotDevices[x].id
    <3>1. PICK s \in {"", "DORMANT"} :
            iotDevices' = IF Registered(d) THEN RecordSeen(d, now', s) ELSE iotDevices
      BY <2>2 DEF RecordHeartbeat
    <3>2. CASE ~Registered(d)
      BY <1>1, <3>1, <3>2 DEF IotShapes
    <3>3. CASE Registered(d)
      <4>1. PICK t, n : t = now' /\ n = normalizeStatus(s)
        OBVIOUS
      <4> DEFINE seen == [iotDevices EXCEPT ![d] = [iotDevices[d] EXCEPT !.seen = t]]
      <4>2. iotDevices' = [[iotDevices EXCEPT ![d].seen = t] EXCEPT ![d].status = n]
        BY <3>1, <3>3, <4>1 DEF RecordSeen
      <4>3. seen = [x \in Devices |-> IF x = d THEN [iotDevices[d] EXCEPT !.seen = t] ELSE iotDevices[x]]
        BY <1>1
      <4>4. [iotDevices[d] EXCEPT !.seen = t] \in
              [id : {iotDevices[d].id}, profile : {iotDevices[d].profile},
               status : {iotDevices[d].status}, seen : {t}]
        <5>1. PICK old : old = iotDevices[d] /\ RowShaped(old)
          BY DEF IotShapes
        <5>2. [old EXCEPT !.seen = t] \in
                [id : {old.id}, profile : {old.profile}, status : {old.status}, seen : {t}]
          BY <5>1 DEF RowShaped
        <5> QED BY <5>1, <5>2
      <4> HIDE DEF seen
      <4>5. iotDevices' = [seen EXCEPT ![d] = [seen[d] EXCEPT !.status = n]]
        BY <4>2 DEF seen
      <4>6. seen[d] \in [id : {iotDevices[d].id}, profile : {iotDevices[d].profile},
                         status : {iotDevices[d].status}, seen : {t}]
        BY <4>3, <4>4
      <4>7. [seen[d] EXCEPT !.status = n] \in
              [id : {iotDevices[d].id}, profile : {iotDevices[d].profile}, status : {n}, seen : {t}]
        BY <4>6
      <4>8. iotDevices' = [x \in Devices |-> IF x = d THEN [seen[d] EXCEPT !.status = n] ELSE iotDevices[x]]
        BY <4>3, <4>5
      <4>9. ASSUME NEW x \in Devices PROVE RowShaped(iotDevices'[x]) /\ iotDevices'[x].id = iotDevices[x].id
        <5>1. CASE x = d
          <6>1. iotDevices'[x] \in
                  [id : {iotDevices[d].id}, profile : {iotDevices[d].profile}, status : {n}, seen : {t}]
            BY <5>1, <4>7, <4>8
          <6> QED BY <5>1, <6>1, ShapeHolds
        <5>2. CASE x # d
          BY <5>2, <4>8 DEF IotShapes
        <5> QED BY <5>1, <5>2
      <4> QED BY <4>8, <4>9
    <3> QED BY <3>2, <3>3
  <2> QED BY <2>1, <2>2 DEF handleDeviceDelete, handleDeviceHeartbeat, IotShapes
<1>3. \A x \in Devices : RowShaped(iotDevices'[x])
  BY <1>2, NoRowShaped
<1> QED BY <1>1, <1>2, <1>3, WorkMoves, NoRowShaped DEF Returns, IotKeepsIds

LEMMA ProfileStep ==
  ASSUME IotShapes, NEW c \in Callers,
         handleProfileCreate(c) \/ handleProfileUpdate(c) \/ UpdateProfileRow(c) \/ handleProfileDelete(c)
  PROVE  IotShapes' /\ IotKeepsIds
<1>1. CASE handleProfileCreate(c) \/ handleProfileUpdate(c) \/ UpdateProfileRow(c)
  <2>1. iotDevices' = iotDevices
    BY <1>1 DEF handleProfileCreate, CreateProfile, handleProfileUpdate, UpdateProfile, UpdateProfileRow
  <2>2. \E w : work' = [work EXCEPT ![c] = w] /\ RowShaped(w.row) /\ w.pc # "upsert"
    <3>1. CASE handleProfileUpdate(c)
      <4>1. PICK p \in Profiles :
              work' = [work EXCEPT ![c] = IF LiveProfile(p)
                THEN [NoWork EXCEPT !.pc = "profile", !.profile = p, !.copy = iotProfiles[p]] ELSE NoWork]
        BY <3>1 DEF handleProfileUpdate, UpdateProfile
      <4> DEFINE w == [NoWork EXCEPT !.pc = "profile", !.profile = p, !.copy = iotProfiles[p]]
      <4>2. w \in [pc : {"profile"}, device : {"none"}, profile : {p}, row : {NoRow}, copy : {iotProfiles[p]}]
        BY DEF NoWork
      <4> HIDE DEF w
      <4>3. RowShaped(w.row) /\ w.pc # "upsert"
        BY <4>2, NoRowShaped
      <4>4. work' = [work EXCEPT ![c] = w] \/ work' = [work EXCEPT ![c] = NoWork]
        BY <4>1 DEF w
      <4> QED BY <4>3, <4>4, NoRowShaped
    <3>2. CASE handleProfileCreate(c) \/ UpdateProfileRow(c)
      BY <3>2, NoRowShaped DEF handleProfileCreate, CreateProfile, UpdateProfileRow, Returns
    <3> QED BY <1>1, <3>1, <3>2
  <2> QED BY <2>1, <2>2, WorkMoves DEF IotShapes, IotKeepsIds
<1>2. CASE handleProfileDelete(c)
  <2>1. PICK p \in Profiles : iotDevices' = Unreferenced(p) /\ Returns(c)
    BY <1>2 DEF handleProfileDelete, DeleteProfile
  <2>2. iotDevices' = [x \in Devices |-> iotDevices'[x]]
    BY <2>1 DEF Unreferenced
  <2>3. ASSUME NEW x \in Devices PROVE RowShaped(iotDevices'[x]) /\ iotDevices'[x].id = iotDevices[x].id
    <3>1. iotDevices'[x] = iotDevices[x] \/ iotDevices'[x] = [iotDevices[x] EXCEPT !.profile = NullRef]
      BY <2>1 DEF Unreferenced
    <3>2. [iotDevices[x] EXCEPT !.profile = NullRef] \in
            [id : {iotDevices[x].id}, profile : {NullRef}, status : {iotDevices[x].status},
             seen : {iotDevices[x].seen}]
      BY DEF IotShapes, RowShaped
    <3> QED BY <3>1, <3>2 DEF IotShapes, RowShaped
  <2> QED BY <2>1, <2>2, <2>3, WorkMoves, NoRowShaped DEF Returns, IotKeepsIds
<1> QED BY <1>1, <1>2

\* A device keeps its identifier (iot/service.go, UpsertDevice), however many calls
\* register it at once.
THEOREM DevicesKeepIds == IotSpec => IdStable
<1>1. IotInit => IotShapes
  BY NoRowShaped DEF IotInit, IotShapes, WorkAt
<1>2. IotShapes /\ [IotNext]_iotVars => IotShapes' /\ IotKeepsIds
  <2> SUFFICES ASSUME IotShapes, [IotNext]_iotVars PROVE IotShapes' /\ IotKeepsIds
    OBVIOUS
  <2>1. CASE UNCHANGED iotVars
    BY <2>1 DEF iotVars, IotShapes, WorkAt, IotKeepsIds
  <2>2. CASE IotNext
    BY <2>2, RegistrationStep, DeviceStep, ProfileStep DEF IotNext
  <2> QED BY <2>1, <2>2
<1>3. IotKeepsIds =>
        [\A d \in Devices : Registered(d) /\ iotDevices'[d] # NoRow
           => iotDevices'[d].id = iotDevices[d].id]_iotVars
  BY DEF IotKeepsIds
<1> QED BY <1>1, <1>2, <1>3, PTL DEF IotSpec, IdStable

-----------------------------------------------------------------------------
(* The settings together: the components share no state, so the conjunction *)
(* of their specifications is the whole.                                    *)

\* Stored settings are whole: pools, templates in use and the notification files
\* (pool/service.go, core_ops_routes.go, http_server.go).
THEOREM SettingsStaySound ==
  ASSUME OneRequest
  PROVE  RoutesSpec /\ OptionsSpec /\ NotifySpec => []SettingsSound
<1>1. OptionsSpec => []TemplateHeld
  BY TemplatesHeld
<1>2. PoolSound /\ TemplateHeld /\ PersistedAtRest => SettingsSound
  BY DEF SettingsSound
<1> QED BY <1>1, <1>2, PoolsStaySound, DiskAgrees, PTL

\* No step takes back what was stored: an import adds no pool over another, a
\* restart keeps the senders, a device keeps its identifier (core_ops_routes.go,
\* http_server.go, iot/service.go).
THEOREM NothingIsLost ==
  ASSUME OneAdmin
  PROVE  RoutesSpec /\ NotifySpec /\ IotSpec => NothingLost
<1>1. RoutesSpec => ImportDisjoint
  BY ImportsApart DEF OneAdmin
<1> QED BY <1>1, SendersReturn, DevicesKeepIds DEF NothingLost

=============================================================================
