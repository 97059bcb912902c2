----------------------------- MODULE MCServing -----------------------------
(***************************************************************************)
(* Model values for what stands between a packet or a request and its      *)
(* answer: authentication and roles (Access), the security guard (Guard),  *)
(* and the scripts, transfers and settings an operator asks for (OpsJobs). *)
(* They share no state: a behaviour is about one of them, its scene, and   *)
(* the others rest.                                                        *)
(***************************************************************************)
EXTENDS Access, Guard, OpsJobs

CONSTANTS m1, m2, p1, p2, p3

VARIABLE scene

-----------------------------------------------------------------------------
(* The MAC list: an entry that blocks and one that allows the same MAC.    *)

MCEntryRows == {[mac |-> m1, type |-> "black", act |-> "block", prio |-> 2],
                [mac |-> m1, type |-> "white", act |-> "allow", prio |-> 1]}

-----------------------------------------------------------------------------
guardVars == <<listVars, ruleVars, checkVars>>
mcVars    == <<accessVars, guardVars, OpsVars, scene>>

Init ==
  /\ scene \in {"access", "list", "rule", "check", "script", "transfer", "setting"}
  /\ AccessInit /\ ListInit /\ RuleInit /\ CheckInit
  /\ ScriptInit /\ TransferInit /\ SettingInit

Next ==
  /\ UNCHANGED scene
  /\ \/ /\ scene = "access" /\ AccessNext
        /\ UNCHANGED <<guardVars, OpsVars>>
     \/ /\ UNCHANGED <<accessVars, OpsVars>>
        /\ \/ scene = "list" /\ ListNext /\ UNCHANGED <<ruleVars, checkVars>>
           \/ scene = "rule" /\ RuleNext /\ UNCHANGED <<listVars, checkVars>>
           \/ scene = "check" /\ CheckNext /\ UNCHANGED <<listVars, ruleVars>>
     \/ /\ UNCHANGED <<accessVars, guardVars>>
        /\ \/ scene = "script" /\ ScriptNext /\ UNCHANGED <<transferVars, settingVars>>
           \/ scene = "transfer" /\ TransferNext /\ UNCHANGED <<scriptVars, settingVars>>
           \/ scene = "setting" /\ SettingNext /\ UNCHANGED <<scriptVars, transferVars>>

\* Packets of every client keep arriving at the guard, in its own scene.
Arrivals == \A m \in Macs, ph \in {"check", "renew"} :
              SF_listVars(scene = "list" /\ Arrives(m, ph))

\* At rest no other fair action is enabled: the fairness of the scenes that rest
\* asks for nothing.
Spec ==
  /\ Init /\ [][Next]_mcVars
  /\ AccessFairness /\ ListWorks /\ Arrivals
============================================================================
