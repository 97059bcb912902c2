-------------------------- MODULE MCAdministration --------------------------
(***************************************************************************)
(* Model values for the components the HTTP API administers: accounts      *)
(* (Login, Directory), the security store and its audit trail              *)
(* (AccessSecurity), pools and options (PoolRoutes, DhcpOptions), cluster  *)
(* members (ClusterControl) and the coordinators they ask (Coordinators),  *)
(* notification channels (Notifications), collaboration (CollabHub) and    *)
(* devices (IotRegistry).  They share no state: a behaviour is about one   *)
(* of them, its scene, and the others rest.  Cluster members have two      *)
(* scenes: node routes come in between the other requests in one,          *)
(* heartbeats in the other.                                                *)
(***************************************************************************)
EXTENDS Login, Directory, AccessSecurity, PoolRoutes, DhcpOptions, ClusterControl,
        Coordinators, Notifications, CollabHub, IotRegistry

CONSTANTS p1, p2, n1, n2, k3

VARIABLE scene

-----------------------------------------------------------------------------
(* Pools: three that clash or nest, two files and two shifts of a range.   *)

Request(s, parent, prefix, lo, hi, reserve, excluded) ==
  [scope |-> s, parent |-> parent, prefix |-> prefix, lo |-> lo, hi |-> hi,
   reserve |-> reserve, vlan |-> 0, endpoint |-> FALSE, excluded |-> excluded]

Wide   == Request(1, NoPool, <<8, 3>>, 0, 0, 0, {<<9, 10>>})
Narrow == Request(1, NoPool, <<8, 2>>, 0, 0, 0, {})
Nested == Request(2, p1, <<8, 2>>, 0, 0, 0, {})
Twice  == Request(1, NoPool, <<8, 3>>, 0, 0, 0, {<<9, 10>>, <<10, 11>>})
Ranged == Request(1, NoPool, <<8, 3>>, 9, 11, 60, {<<10, 11>>})

MCPoolRequests == {Wide, Nested, Twice, Ranged}
MCFiles  == {<<Narrow, Wide>>, <<Twice, Narrow>>}
MCDeltas == {1, -2}

\* Two sessions of one user and one of another.
MCPeers  == {"a", "b", "c"}
MCUserOf == [c \in MCPeers |-> IF c = "c" THEN "u2" ELSE "u1"]

\* Three coordinators that disagree.
MCGrant == [k \in Coords |-> IF k = k3 THEN n2 ELSE n1]

-----------------------------------------------------------------------------
accountVars == <<loginVars, secretVars, resetVars, directoryVars, securityVars>>
networkVars == <<routeVars, optionVars, ctlVars, coordVars>>
serviceVars == <<notifyVars, hubVars, iotVars>>
mcVars == <<accountVars, networkVars, serviceVars, scene>>

MCInit ==
  /\ scene \in {"login", "secret", "reset", "roles", "security", "pools", "options",
                "control", "beats", "quorum", "notify", "hub", "iot"}
  /\ LoginInit /\ SecretInit /\ ResetInit /\ DirectoryInit /\ SecurityInit
  /\ RoutesInit /\ OptionsInit /\ CtlInit /\ CoordInit
  /\ NotifyInit /\ HubInit /\ IotInit
  /\ scene # "roles" => granted = {}
  /\ grant = MCGrant

MCNext ==
  /\ UNCHANGED scene
  /\ \/ /\ UNCHANGED <<networkVars, serviceVars>>
        /\ \/ /\ scene = "login" /\ LoginNext
              /\ UNCHANGED <<secretVars, resetVars, directoryVars, securityVars>>
           \/ /\ scene = "secret" /\ SecretNext
              /\ UNCHANGED <<loginVars, resetVars, directoryVars, securityVars>>
           \/ /\ scene = "reset" /\ ResetNext
              /\ UNCHANGED <<loginVars, secretVars, directoryVars, securityVars>>
           \/ /\ scene = "roles" /\ DirectoryNext
              /\ UNCHANGED <<loginVars, secretVars, resetVars, securityVars>>
           \/ /\ scene = "security" /\ SecurityNext
              /\ UNCHANGED <<loginVars, secretVars, resetVars, directoryVars>>
     \/ /\ UNCHANGED <<accountVars, serviceVars>>
        /\ \/ scene = "pools"   /\ RoutesNext  /\ UNCHANGED <<optionVars, ctlVars, coordVars>>
           \/ scene = "options" /\ OptionsNext /\ UNCHANGED <<routeVars, ctlVars, coordVars>>
           \/ /\ UNCHANGED <<routeVars, optionVars, coordVars>>
              /\ \/ scene = "control" /\ NodeRequests
                 \/ scene = "beats" /\ Heartbeats
                 \/ scene \in {"control", "beats"} /\ (MemberRequests \/ JobsAndRestarts)
           \/ scene = "quorum"  /\ CoordNext   /\ UNCHANGED <<routeVars, optionVars, ctlVars>>
     \/ /\ UNCHANGED <<accountVars, networkVars>>
        /\ \/ scene = "notify" /\ NotifyNext /\ UNCHANGED <<hubVars, iotVars>>
           \/ scene = "hub"    /\ HubNext    /\ UNCHANGED <<notifyVars, iotVars>>
           \/ scene = "iot"    /\ IotNext    /\ UNCHANGED <<notifyVars, hubVars>>

MCSpec == MCInit /\ [][MCNext]_mcVars

-----------------------------------------------------------------------------
\* Stored settings are whole: pools are ones planPool accepts, a template in use
\* keeps its options' references, and at rest the files of the notification
\* settings hold what the memory holds (pool/service.go, dhcp_options_store.go,
\* http_server.go).
SettingsSound == PoolSound /\ TemplateHeld /\ PersistedAtRest

\* What no step takes back: an import adds no pool over another, a restart keeps
\* the senders of the listed channels, a device keeps its identifier
\* (core_ops_routes.go, http_server.go, iot/service.go).
NothingLost == ImportDisjoint /\ RestartKeeps /\ IdStable

=============================================================================
