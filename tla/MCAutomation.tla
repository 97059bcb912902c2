---------------------------- MODULE MCAutomation ----------------------------
(***************************************************************************)
(* Model values for Automation (with JobScheduler) and Workflow.  The two  *)
(* share no state: a behaviour is about one of them, chosen at the start.  *)
(***************************************************************************)
EXTENDS Automation, Workflow

CONSTANTS r1, c1, c2, j1, a, b, c, d

VARIABLE scene   \* "jobs" or "flow"

mcVars == <<autoVars, flowVars, scene>>

\* One job submitted over the API, the jobs of request r1's two possible
\* applications, and the job of the schedule.  Only j1 has a handler.
MCJobs    == {<<r1, c1>>, <<r1, c2>>, <<"tick", 1>>, j1}
MCHandled == {j1}
MCPolicies == {{"job_run", "schedule"}, {}}

\* A line, a diamond with a back edge, a cycle, a graph with a part out of reach,
\* a cycle whose edges are listed out of order.
MCSpecs == {<< <<a, b>>, <<b, c>> >>,
            << <<a, c>>, <<a, b>>, <<c, d>>, <<b, d>>, <<d, b>> >>,
            << <<a, b>>, <<b, a>> >>,
            << <<b, c>>, <<c, b>> >>,
            << <<b, c>>, <<a, b>>, <<c, a>> >>}

Init ==
  /\ AutoInit /\ FlowInit
  /\ scene \in {"jobs", "flow"}
  /\ scene = "flow" => policy = {}

Next ==
  \/ scene = "jobs" /\ AutoNext /\ UNCHANGED <<flowVars, scene>>
  \/ scene = "flow" /\ FlowNext /\ UNCHANGED <<autoVars, scene>>

\* In the initial state of either no fair action is enabled, so the fairness of
\* the one that rests asks for nothing.
Spec == Init /\ [][Next]_mcVars /\ AutoFairness /\ FlowFairness
=============================================================================
