---------------------------- MODULE Coordinators ----------------------------
(***************************************************************************)
(* The leadership coordinators a node consults (internal/failover/         *)
(* adapters.go, multi_coordinator.go): every node polls each external      *)
(* coordinator over HTTP and keeps the last answer in two atomic flags;    *)
(* leadership is a vote over these flags.                                  *)
(***************************************************************************)
EXTENDS Integers, FiniteSets

CONSTANTS
  Nodes,
  Coords,      \* the coordinator services every node is configured with
  None,        \* "nobody"
  GrantsMove   \* a coordinator may move its grant to another node

ASSUME CoordAssumption ==
  /\ IsFiniteSet(Coords)
  /\ None \notin Nodes /\ None \notin BOOLEAN
  /\ GrantsMove \in BOOLEAN

VARIABLES
  grant,    \* external: the node each coordinator answers allowPrimary to
  healthy,  \* per node and coordinator: httpCoordinator.healthy
  allow,    \*                           httpCoordinator.allow
  storing   \* the allow flag a poll has still to store, or None

coordVars == <<grant, healthy, allow, storing>>

\* newHTTPCoordinator: allow is set, healthy is not.
CoordInit ==
  /\ grant \in [Coords -> Nodes \cup {None}]
  /\ healthy = [n \in Nodes |-> [c \in Coords |-> FALSE]]
  /\ allow = [n \in Nodes |-> [c \in Coords |-> TRUE]]
  /\ storing = [n \in Nodes |-> [c \in Coords |-> None]]

\* sampleOnce: some endpoint answers with its verdict, or all of them fail;
\* updateState stores the two flags one after the other.
StoreHealthy(n, c) ==
  /\ storing[n][c] = None
  /\ \E answered \in BOOLEAN :
       /\ healthy' = [healthy EXCEPT ![n][c] = answered]
       /\ storing' = [storing EXCEPT ![n][c] = answered /\ grant[c] = n]
  /\ UNCHANGED <<grant, allow>>

StoreAllow(n, c) ==
  /\ storing[n][c] # None
  /\ allow' = [allow EXCEPT ![n][c] = storing[n][c]]
  /\ storing' = [storing EXCEPT ![n][c] = None]
  /\ UNCHANGED <<grant, healthy>>

MoveGrant(c) ==
  /\ GrantsMove
  /\ \E n \in Nodes \cup {None} :
       /\ n # grant[c]
       /\ grant' = [grant EXCEPT ![c] = n]
  /\ UNCHANGED <<healthy, allow, storing>>

\* The nodes polling coordinators whose grants stand.
CoordNext == \E n \in Nodes, c \in Coords : StoreHealthy(n, c) \/ StoreAllow(n, c)

CoordSpec == CoordInit /\ [][CoordNext]_coordVars

-----------------------------------------------------------------------------
(* multiCoordinator.  Without a coordinator the no-op one says yes; a      *)
(* single one is used directly.                                            *)

HealthyCoords(n) == {c \in Coords : healthy[n][c]}
PrimaryVotes(n)  == {c \in HealthyCoords(n) : allow[n][c]}

Healthy(n) ==
  Coords # {} => Cardinality(HealthyCoords(n)) * 2 > Cardinality(Coords)

\* Half of the votes is enough.
ShouldServePrimary_Half(n) ==
  \/ Cardinality(Coords) <= 1 /\ \A c \in Coords : allow[n][c]
  \/ Cardinality(PrimaryVotes(n)) * 2 >= Cardinality(HealthyCoords(n))

ShouldServePrimary(n) ==
  \/ Cardinality(Coords) <= 1 /\ \A c \in Coords : allow[n][c]
  \/ Cardinality(PrimaryVotes(n)) * 2 > Cardinality(HealthyCoords(n))

\* No answer is half stored.
Settled(n) == \A c \in Coords : storing[n][c] = None

-----------------------------------------------------------------------------
CoordTypeOK ==
  /\ grant \in [Coords -> Nodes \cup {None}]
  /\ healthy \in [Nodes -> [Coords -> BOOLEAN]]
  /\ allow \in [Nodes -> [Coords -> BOOLEAN]]
  /\ storing \in [Nodes -> [Coords -> BOOLEAN \cup {None}]]

\* "evaluates quorum/leadership based on majority votes": as long as no
\* coordinator moves its grant, two nodes with whole answers are never both
\* told to serve, whichever coordinators each of them reaches.
QuorumUnique ==
  \A n, m \in Nodes :
    (/\ Settled(n) /\ Settled(m)
     /\ Healthy(n) /\ ShouldServePrimary(n)
     /\ Healthy(m) /\ ShouldServePrimary(m)) => n = m
=============================================================================
