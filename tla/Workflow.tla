------------------------------ MODULE Workflow ------------------------------
(***************************************************************************)
(* Workflow definitions and their execution (internal/automation/workflow).*)
(* One definition is edited by several callers under optimistic locking    *)
(* (service.go, repository.go); an execution works on a copy of the spec,  *)
(* plans a traversal of its graph and runs the nodes one by one            *)
(* (executor.go).  The scheduler runs a failed execution again from the    *)
(* start.                                                                  *)
(***************************************************************************)
EXTENDS Integers, Sequences, FiniteSets, SequencesExt

CONSTANTS
  Nodes, Start,   \* node ids of a specification, and its start node
  Specs,          \* specifications: the sequences of edges considered
  Editors,        \* callers of the service
  MaxVersion      \* bound: revisions of the definition

\* Spec.Validate: some edges, between different nodes of the specification.
Valid(edges) ==
  /\ edges # <<>>
  /\ \A i \in DOMAIN edges : /\ edges[i] \in Nodes \X Nodes
                             /\ edges[i][1] # edges[i][2]

ASSUME WorkflowAssumption ==
  /\ IsFiniteSet(Nodes) /\ Start \in Nodes
  /\ \A s \in Specs : s \in Seq(Nodes \X Nodes) /\ Valid(s)
  /\ MaxVersion \in Nat \ {0}

VARIABLES
  def,       \* the row of workflow_definitions; version 0 without a row
  editor,    \* per caller of PublishDefinition: the row it read
  exec,      \* the execution: phase, spec, traversal and progress
  authored   \* history: the spec of the last successful create or update

flowVars == <<def, editor, exec, authored>>

NoRow  == [version |-> 0, status |-> "draft", spec |-> <<>>]
NoExec == [phase |-> "none", spec |-> <<>>, todo |-> <<>>, order |-> <<>>, done |-> 0]

FlowInit ==
  /\ def = NoRow
  /\ editor = [e \in Editors |-> NoRow]
  /\ exec = NoExec
  /\ authored = <<>>

-----------------------------------------------------------------------------
(* Definitions.                                                            *)

CreateDefinition(s, status) ==
  /\ def = NoRow
  /\ def' = [version |-> 1, status |-> status, spec |-> s]
  /\ authored' = s
  /\ UNCHANGED <<editor, exec>>

\* The handler refuses a specification that is not valid and an unknown status.
handleWorkflowCreateDefinition ==
  \E s \in Specs, status \in {"draft", "active"} : Valid(s) /\ CreateDefinition(s, status)

\* The UPDATE does not compare versions.
SaveDefinition_Blind(row) ==
  /\ def.version \in 1..(MaxVersion - 1)
  /\ def' = [row EXCEPT !.version = def.version + 1]

\* UPDATE ... SET version = version + 1 WHERE id = :id AND version = :prev_version
SaveDefinition(row) ==
  /\ def.version \in 1..(MaxVersion - 1)
  /\ row.version = def.version
  /\ def' = [row EXCEPT !.version = @ + 1]

\* UpdateDefinition: the caller names the version it has seen.
UpdateDefinition ==
  \E s \in Specs, status \in {"draft", "active"}, seen \in 1..MaxVersion :
    /\ SaveDefinition([version |-> seen, status |-> status, spec |-> s])
    /\ authored' = s
    /\ UNCHANGED <<editor, exec>>

\* PublishDefinition reads the row ...
PublishRead(e) ==
  /\ editor[e] = NoRow
  /\ def # NoRow /\ def.status # "archived"
  /\ editor' = [editor EXCEPT ![e] = def]
  /\ UNCHANGED <<def, exec, authored>>

\* ... and saves it as active; the row may have changed in between.
PublishSave(e) ==
  /\ editor[e] # NoRow
  /\ SaveDefinition([editor[e] EXCEPT !.status = "active"])
  /\ editor' = [editor EXCEPT ![e] = NoRow]
  /\ UNCHANGED <<exec, authored>>

PublishConflict(e) ==
  /\ editor[e] # NoRow
  /\ editor[e].version # def.version
  /\ editor' = [editor EXCEPT ![e] = NoRow]
  /\ UNCHANGED <<def, exec, authored>>

ArchiveDefinition ==
  /\ def # NoRow /\ def.status # "archived" /\ def.version < MaxVersion
  /\ def' = [def EXCEPT !.status = "archived", !.version = @ + 1]
  /\ UNCHANGED <<editor, exec, authored>>

-----------------------------------------------------------------------------
(* Execution.                                                              *)

\* StartExecution: the job carries the spec of an active definition.
StartExecution ==
  /\ exec.phase = "none"
  /\ def.version > 0 /\ def.status = "active"
  /\ exec' = [NoExec EXCEPT !.phase = "plan", !.spec = def.spec, !.todo = <<Start>>]
  /\ UNCHANGED <<def, editor, authored>>

handleWorkflowStartExecution == StartExecution

\* adjacency: the targets of n's edges in the order of the specification.
Adjacent(spec, n) ==
  LET out[k \in 0..Len(spec)] ==
        IF k = 0 THEN <<>>
        ELSE IF spec[k][1] = n THEN Append(out[k - 1], spec[k][2]) ELSE out[k - 1]
  IN  out[Len(spec)]

Visited == ToSet(exec.order)

\* The targets go to the head of the queue.
Plan_DepthFirst ==
  /\ exec.phase = "plan" /\ exec.todo # <<>>
  /\ LET n == Head(exec.todo) IN
     exec' = IF n \in Visited
             THEN [exec EXCEPT !.todo = Tail(@)]
             ELSE [exec EXCEPT !.todo = Adjacent(exec.spec, n) \o Tail(@), !.order = Append(@, n)]
  /\ UNCHANGED <<def, editor, authored>>

\* buildTraversalPlan, one round of its loop.
Plan ==
  /\ exec.phase = "plan" /\ exec.todo # <<>>
  /\ LET n == Head(exec.todo) IN
     exec' = IF n \in Visited
             THEN [exec EXCEPT !.todo = Tail(@)]
             ELSE [exec EXCEPT !.todo = Tail(@) \o Adjacent(exec.spec, n), !.order = Append(@, n)]
  /\ UNCHANGED <<def, editor, authored>>

Planned ==
  /\ exec.phase = "plan" /\ exec.todo = <<>>
  /\ exec' = [exec EXCEPT !.phase = "run"]
  /\ UNCHANGED <<def, editor, authored>>

\* executeNode: a node fails, or the next one is due.
ExecuteNode ==
  /\ exec.phase = "run" /\ exec.done < Len(exec.order)
  /\ exec' \in {[exec EXCEPT !.done = @ + 1], [exec EXCEPT !.phase = "failed"]}
  /\ UNCHANGED <<def, editor, authored>>

Executed ==
  /\ exec.phase = "run" /\ exec.done = Len(exec.order)
  /\ exec' = [exec EXCEPT !.phase = "done"]
  /\ UNCHANGED <<def, editor, authored>>

\* The scheduler runs the job again with the payload it was submitted with.
Rerun ==
  /\ exec.phase = "failed"
  /\ exec' = [NoExec EXCEPT !.phase = "plan", !.spec = exec.spec, !.todo = <<Start>>]
  /\ UNCHANGED <<def, editor, authored>>

handleWorkflowPublishDefinition(e) == PublishRead(e) \/ PublishSave(e) \/ PublishConflict(e)

FlowNext ==
  \/ handleWorkflowCreateDefinition \/ UpdateDefinition \/ ArchiveDefinition
  \/ \E e \in Editors : handleWorkflowPublishDefinition(e)
  \/ handleWorkflowStartExecution \/ Plan \/ Planned \/ ExecuteNode \/ Executed \/ Rerun

FlowFairness == WF_flowVars(Plan \/ Planned)

FlowSpec == FlowInit /\ [][FlowNext]_flowVars

-----------------------------------------------------------------------------
(* Properties.                                                             *)

\* Nodes reachable from the start over the edges of spec.
Succ(spec, S) == S \cup {m \in Nodes : \E i \in DOMAIN spec : spec[i][1] \in S /\ spec[i][2] = m}
Within(spec) == LET w[k \in Nat] == IF k = 0 THEN {Start} ELSE Succ(spec, w[k - 1]) IN w
Depth(spec, n) == CHOOSE k \in 0..Cardinality(Nodes) :
                    n \in Within(spec)[k] /\ \A i \in 0..(k - 1) : n \notin Within(spec)[i]

\* The plan visits every reachable node once, and none before a node that is
\* nearer to the start, for graphs with cycles, joins and unreachable parts.
PlanSound ==
  exec.phase \in {"run", "done"} =>
    /\ IsInjective(exec.order)
    /\ ToSet(exec.order) = Within(exec.spec)[Cardinality(Nodes)]
    /\ \A i, j \in DOMAIN exec.order : i < j =>
        Depth(exec.spec, exec.order[i]) <= Depth(exec.spec, exec.order[j])

\* Publishing never undoes somebody else's edit: the definition holds the
\* specification of the last edit that was accepted.
NoLostEdit == def # NoRow => def.spec = authored

\* The editor and the planner of workflows: no edit is lost, and a plan is a
\* sound order of what is reachable.
FlowSound == PlanSound /\ NoLostEdit

=============================================================================
