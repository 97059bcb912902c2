----------------------------- MODULE MCCluster -----------------------------
(***************************************************************************)
(* Model values for ClusterJoin, SyncTx with the timer of its reconciler,  *)
(* and FailoverPlan.  They share no state: a behaviour is about one of     *)
(* them, chosen at the start.                                              *)
(***************************************************************************)
EXTENDS ClusterJoin, SyncTx, FailoverPlan

VARIABLE scene   \* "join", "sync", "timer" or "plan"

mcVars == <<joinVars, syncVars, backoffVars, planVars, scene>>

\* A server whose reconciler has not been started.
SyncRests == [SyncOff EXCEPT ![Reconciler] = Idle("off")]

Init ==
  /\ JoinInit /\ FPlanInit /\ BackoffInit
  /\ scene \in {"join", "sync", "timer", "plan"}
  /\ SyncInitWith(IF scene = "sync" THEN SyncOff ELSE SyncRests)

Next ==
  \/ scene = "join" /\ JoinNext /\ UNCHANGED <<syncVars, backoffVars, planVars, scene>>
  \/ scene = "sync" /\ SyncNext /\ UNCHANGED <<joinVars, backoffVars, planVars, scene>>
  \/ scene = "timer" /\ ReconcileOnce /\ UNCHANGED <<joinVars, syncVars, planVars, scene>>
  \/ scene = "plan" /\ FPlanNext /\ UNCHANGED <<joinVars, syncVars, backoffVars, scene>>

\* In the initial state of a scene no fair action of the others is enabled, so
\* their fairness asks for nothing.
Spec == Init /\ [][Next]_mcVars /\ JoinFairness /\ SyncFairness /\ FPlanFairness

\* Joins come to an end, and the store catches up with what the server shows.
ClusterSettles == JoinSettles /\ StoreCatchesUp
=============================================================================
