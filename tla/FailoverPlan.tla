----------------------------- MODULE FailoverPlan -----------------------------
(***************************************************************************)
(* Orchestrated failover plans (internal/server/feature_routes.go): the    *)
(* goroutine of a plan takes its steps in order, and when one fails rolls  *)
(* back what it has done, last step first.  Each update of a plan is under *)
(* failoverPlansMu; the pauses between them are where others see it.       *)
(***************************************************************************)
EXTENDS Integers, Sequences, SequencesExt

CONSTANT Plans   \* plans that administrators create

VARIABLES
  fplans,    \* failoverPlans: status, and the status of every step of the plan
  planRun    \* the goroutine of a plan: where it is, the step it is at, executed

planVars == <<fplans, planRun>>

StepOrder == <<"precheck", "freeze_old_primary", "promote_storage", "promote_dhcp",
               "switch_traffic", "verify">>

\* rollbackSteps of rollbackFailoverPlan; the others have nothing to undo.
RollbackOf == [freeze_old_primary |-> "rollback_unfreeze_old_primary",
               promote_storage    |-> "rollback_promote_storage",
               promote_dhcp       |-> "rollback_promote_dhcp",
               switch_traffic     |-> "rollback_switch_traffic"]

Forward     == ToSet(StepOrder)
Undone      == {RollbackOf[f] : f \in DOMAIN RollbackOf}
PlanSteps   == Forward \cup Undone
NoFailure   == "none"

FPlanInit ==
  /\ fplans = [p \in Plans |-> [status |-> "absent", steps |-> [i \in PlanSteps |-> "absent"]]]
  /\ planRun = [p \in Plans |-> [at |-> "idle", fails |-> NoFailure, step |-> "none", executed |-> << >>]]

PlanAt(p, l) == planRun[p].at = l

SetStep(p, i, st) == fplans' = [fplans EXCEPT ![p].steps[i] = st]
PlanGoto(p, l)        == planRun' = [planRun EXCEPT ![p].at = l]

-----------------------------------------------------------------------------
\* handleClusterFailoverPlanCreate: the request may name a step to fail at; the
\* steps are all pending, there are no rollback steps yet.
handleClusterFailoverPlanCreate(p) ==
  /\ fplans[p].status = "absent"
  /\ fplans' = [fplans EXCEPT ![p].status = "PENDING",
                              ![p].steps = [i \in PlanSteps |-> IF i \in Forward THEN "PENDING" ELSE "absent"]]
  /\ \E f \in Forward \cup {NoFailure} :
       planRun' = [planRun EXCEPT ![p] = [@ EXCEPT !.at = "run", !.fails = f]]

\* runFailoverPlan, its first update.
runFailoverPlan(p) ==
  /\ PlanAt(p, "run")
  /\ fplans' = [fplans EXCEPT ![p].status = "RUNNING"]
  /\ planRun' = [planRun EXCEPT ![p].at = "start", ![p].step = StepOrder[1]]

\* startFailoverPlanStep of a forward step.
startFailoverPlanStep(p) ==
  /\ PlanAt(p, "start")
  /\ SetStep(p, planRun[p].step, "RUNNING")
  /\ PlanGoto(p, "execute")

\* executeFailoverPlanStep: fails where the request says so; the precheck also
\* when there is no active node with a standby.
MayFail(p) == planRun[p].step \in {planRun[p].fails, "precheck"}

\* ... success: completeFailoverPlanStep, and the step has been executed.
NextStep(s) == StepOrder[SelectInSeq(StepOrder, LAMBDA x : x = s) + 1]

completeFailoverPlanStep(p) ==
  /\ PlanAt(p, "execute") /\ planRun[p].step # planRun[p].fails
  /\ SetStep(p, planRun[p].step, "SUCCESS")
  /\ LET s == planRun[p].step IN
     planRun' = [planRun EXCEPT ![p].executed = Append(@, s),
                                ![p].at = IF s = "verify" THEN "finish" ELSE "start",
                                ![p].step = IF s = "verify" THEN s ELSE NextStep(s)]

\* ... failure: failFailoverPlanStep.
failFailoverPlanStep(p) ==
  /\ PlanAt(p, "execute") /\ MayFail(p)
  /\ fplans' = [fplans EXCEPT ![p].steps[planRun[p].step] = "FAILED", ![p].status = "FAILED"]
  /\ PlanGoto(p, "rollback")

FinishPlan(p) ==
  /\ PlanAt(p, "finish")
  /\ fplans' = [fplans EXCEPT ![p].status = "SUCCESS"]
  /\ PlanGoto(p, "done")

-----------------------------------------------------------------------------
(* rollbackFailoverPlan                                                    *)

\* The steps are undone in the order they were done.
LastExecuted_First(p) == Head(planRun[p].executed)

LastExecuted(p) == Last(planRun[p].executed)

SkipRollback(p) ==
  /\ PlanAt(p, "rollback") /\ planRun[p].executed # << >>
  /\ LastExecuted(p) \notin DOMAIN RollbackOf
  /\ planRun' = [planRun EXCEPT ![p].executed = Front(@)]
  /\ UNCHANGED fplans

\* ensureFailoverRollbackStep
ensureFailoverRollbackStep(p) ==
  /\ PlanAt(p, "rollback") /\ planRun[p].executed # << >>
  /\ LastExecuted(p) \in DOMAIN RollbackOf
  /\ SetStep(p, RollbackOf[LastExecuted(p)], "PENDING")
  /\ planRun' = [planRun EXCEPT ![p].at = "undo", ![p].step = RollbackOf[LastExecuted(p)]]

StartRollback(p) ==
  /\ PlanAt(p, "undo")
  /\ SetStep(p, planRun[p].step, "RUNNING")
  /\ PlanGoto(p, "undoing")

CompleteRollback(p) ==
  /\ PlanAt(p, "undoing")
  /\ SetStep(p, planRun[p].step, "SUCCESS")
  /\ planRun' = [planRun EXCEPT ![p].at = "rollback", ![p].executed = Front(@)]

rollbackFailoverPlan(p) ==
  /\ PlanAt(p, "rollback") /\ planRun[p].executed = << >>
  /\ fplans' = [fplans EXCEPT ![p].status = "ROLLED_BACK"]
  /\ PlanGoto(p, "done")

PlanStep(p) ==
  \/ runFailoverPlan(p) \/ startFailoverPlanStep(p) \/ completeFailoverPlanStep(p)
  \/ failFailoverPlanStep(p) \/ FinishPlan(p)
  \/ SkipRollback(p) \/ ensureFailoverRollbackStep(p) \/ StartRollback(p)
  \/ CompleteRollback(p) \/ rollbackFailoverPlan(p)

FPlanNext == \E p \in Plans : handleClusterFailoverPlanCreate(p) \/ PlanStep(p)

\* A goroutine goes on; nothing in it waits for another.
FPlanFairness == \A p \in Plans : WF_planVars(PlanStep(p))

FPlanSpec == FPlanInit /\ [][FPlanNext]_planVars

-----------------------------------------------------------------------------
\* The steps of plan p that took effect and have not been undone.
Standing(p) == {f \in DOMAIN RollbackOf :
                  fplans[p].steps[f] = "SUCCESS" /\ fplans[p].steps[RollbackOf[f]] # "SUCCESS"}
Position(f) == SelectInSeq(StepOrder, LAMBDA x : x = f)

\* At every moment what has not been undone is what was done first: a step is
\* undone only when every later one that succeeded has been, and a plan that
\* was rolled back has nothing left that succeeded and can be undone.
UndoneInReverse ==
  \A p \in Plans :
    /\ \A f \in DOMAIN RollbackOf : fplans[p].steps[RollbackOf[f]] \in {"RUNNING", "SUCCESS"} =>
         \A g \in Standing(p) : Position(g) <= Position(f)
    /\ fplans[p].status = "ROLLED_BACK" => Standing(p) = {}

===============================================================================
