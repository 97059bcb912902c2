---------------------------- MODULE MCRecords -----------------------------
(***************************************************************************)
(* Model values for the components that decide something from a pool's or  *)
(* a client's state: the selection of an IPv4 address (AddressScan), IPv6  *)
(* prefixes and lifetimes (DhcpV6), the Redis store of active leases       *)
(* (ActiveStore), policy rules and their versions (Policy) and alerts      *)
(* (Alerts).  They share no state: a behaviour is about one of them, its   *)
(* scene, and the others rest.                                             *)
(***************************************************************************)
EXTENDS AddressScan, DhcpV6, ActiveStore, Policy, Alerts

CONSTANTS c1, c2, e1

VARIABLE scene

-----------------------------------------------------------------------------
(* Address selection: sixteen addresses, and a pool for every mode of the  *)
(* scan, with reserves, exclusions, a protected low end, the Redis bitmap  *)
(* and probing, up to the last address of the space.                       *)

Plain == [v4 |-> TRUE, first |-> 0, hostBits |-> 3, lo |-> 2, hi |-> 5,
          reserve |-> 0, mode |-> "SEQUENTIAL", weight |-> 0, exclusions |-> {},
          protect |-> 0, redis |-> FALSE, probing |-> FALSE,
          attempts |-> 8]

MCSetups == {
  [Plain EXCEPT !.redis = TRUE, !.lo = 3, !.exclusions = {<<3, 3>>}],
  [Plain EXCEPT !.mode = "ROUND_ROBIN", !.exclusions = {<<1, 2>>}],
  [Plain EXCEPT !.mode = "ROUND_ROBIN", !.redis = TRUE, !.lo = 3, !.protect = 75],
  [Plain EXCEPT !.mode = "PRIORITY_WEIGHTED", !.lo = 5, !.hi = 2, !.reserve = 50],
  [Plain EXCEPT !.v4 = FALSE, !.reserve = 50, !.exclusions = {<<2, 2>>}],
  [Plain EXCEPT !.first = 12, !.hostBits = 2, !.lo = 14, !.hi = 15],
  [Plain EXCEPT !.probing = TRUE, !.lo = 4, !.hi = 5, !.redis = TRUE],
  [Plain EXCEPT !.probing = TRUE, !.lo = 4, !.hi = 5, !.mode = "ROUND_ROBIN",
                !.attempts = 1],
  [Plain EXCEPT !.hostBits = 1, !.lo = NoAddr, !.hi = NoAddr, !.protect = 50]}

-----------------------------------------------------------------------------
(* IPv6: c2 has the first prefix in its policy; profiles with a maximum     *)
(* below the default, and with t1 = t2 and no default; options that impose *)
(* nothing, or a valid lifetime below the preferred one; and a client's    *)
(* hint of a short preferred lifetime.  Three scenes: every message, one  *)
(* datagram at a time; two goroutines; every reply.                        *)

MCLists     == {<<>>, <<1>>}
MCNoPrefix  == [c \in {c1, c2} |-> NoPrefix]
MCPolicyPD  == [c \in {c1, c2} |-> IF c = c2 THEN <<1, 0>> ELSE NoPrefix]
MCProfiles  == {[def |-> 5, max |-> 1, t1 |-> 0, t2 |-> 0],
                [def |-> 0, max |-> 9, t1 |-> 2, t2 |-> 2]}
MCUsual     == [def |-> 5, max |-> 1, t1 |-> 0, t2 |-> 0]
MCOverrides == {[pref |-> 0, valid |-> 0], [pref |-> 3, valid |-> 1]}
MCHints     == {[pref |-> 0, valid |-> 0], [pref |-> 1, valid |-> 0]}

First == CHOOSE w \in Workers : TRUE
OneByOne == \A w \in Workers \ {First} : pkt[w] = Resting
Held == {w \in Workers : pkt[w].pc \notin {"idle", "reply"}}
Answered == {w \in Workers : pkt[w].pc = "reply"}

\* Replies that say the usual: no option, no hint, one profile.
Usual ==
  \A w \in Answered :
    /\ pkt[w].over.pref = 0 /\ pkt[w].of \in {ZeroProfile, MCUsual}
    /\ \A d \in pkt[w].pds : d.hint.pref = 0
\* One datagram at a time: every message of c1, a few of c2's.
InTurn ==
  /\ Usual /\ OneByOne
  /\ \A w \in Held :
       pkt[w].c = c2 => pkt[w].m \in {"SOLICIT", "REQUEST", "RELEASE"}
\* Requests and releases of IA_PDs, two goroutines, no operator.
Racing ==
  /\ Usual /\ admin = <<>>
  /\ \A w \in Held :
       /\ pkt[w].m \in {"REQUEST", "RELEASE"}
       /\ pkt[w].pc = "eui" => pkt[w].ids # <<>>
\* Every reply to a request or a confirmation.
Replying == OneByOne /\ \A w \in Held : pkt[w].m \in {"REQUEST", "CONFIRM"}

-----------------------------------------------------------------------------
(* Policies: a rule over midnight, a rule for everybody, one without an    *)
(* action.                                                                 *)

MCPolicyRows ==
  {[prio |-> 1, on |-> TRUE, fact |-> "phone", from |-> 4, to |-> 1, act |-> "a"],
   [prio |-> 2, on |-> TRUE, fact |-> "any", from |-> 0, to |-> 3, act |-> "b"],
   [prio |-> 1, on |-> TRUE, fact |-> "any", from |-> 0, to |-> 3, act |-> NoRule]}

-----------------------------------------------------------------------------
(* Alerts: one row of every table an operator may save.  The settings      *)
(* change, and the process restarts, while a pool or a rule is watched.    *)

MCBase       == [warning |-> 0, major |-> 2, critical |-> 2]
MCThresholds == {[poolUsage |-> 1, leaseUsage |-> 2, responseMs |-> 1, timeout |-> 0,
                  failedRatio |-> 1, renewFail |-> 2, qps |-> 1, cpu |-> 1]}
MCNotify     == {[on |-> {e1},
                  policy |-> [s \in {"warning", "major", "critical"} |-> {e1}]]}
MCRouteTables == {{}}
MCAlertRules == {[at |-> 1, severity |-> "major"]}
MCTemplates  == {[channel |-> e1, zh |-> TRUE]}
MCReceivers  == {{"critical"}}
Steady == check \notin {"pool", "rule"} => settings = 0
MCShifts     == {[start |-> 1, end |-> 2]}

-----------------------------------------------------------------------------
mcVars == <<scanVars, v6Vars, activeVars, PolicyVars, alertVars, scene>>

MCInit ==
  /\ scene \in {"scan", "v6", "race", "reply", "active", "rules", "publish", "alert"}
  /\ ScanInit /\ V6Init /\ ActiveInit /\ RuleInit /\ PublishInit /\ AlertInit
  /\ scene # "scan" => setup = CHOOSE s \in Setups : TRUE
  /\ scene # "alert" =>
       check = "pool" /\ row = Nothing /\ rules = {} /\ routes = {}

MCNext ==
  /\ UNCHANGED scene
  /\ \/ scene = "scan" /\ ScanNext /\ UNCHANGED <<v6Vars, activeVars, PolicyVars, alertVars>>
     \/ /\ UNCHANGED <<scanVars, activeVars, PolicyVars, alertVars>>
        /\ \/ scene = "v6" /\ V6Next /\ InTurn'
           \/ scene = "race" /\ V6Next /\ Racing'
           \/ scene = "reply" /\ V6Next /\ Replying'
     \/ scene = "active" /\ ActiveNext /\ UNCHANGED <<scanVars, v6Vars, PolicyVars, alertVars>>
     \/ scene = "alert" /\ AlertNext /\ Steady' /\ UNCHANGED <<scanVars, v6Vars, activeVars, PolicyVars>>
     \/ /\ UNCHANGED <<scanVars, v6Vars, activeVars, alertVars>>
        /\ \/ scene = "rules" /\ RuleNext /\ UNCHANGED publishVars
           \/ scene = "publish" /\ PublishNext /\ UNCHANGED ruleVars

MCSpec == MCInit /\ [][MCNext]_mcVars
=============================================================================
