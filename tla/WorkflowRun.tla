------------------------------ MODULE WorkflowRun ------------------------------
(***************************************************************************)
(* workflow/registry.py and workflow/orchestrator.py: a workflow run bound *)
(* to one version of its definition, advanced by a driver that calls       *)
(* schedule_ready, while executors answer for the nodes it started.        *)
(*                                                                         *)
(* Every method is synchronous and one step.  None looks at the status of  *)
(* the run or of the node it is called for, so answers may come late, more *)
(* than once and against one another.  Executors and the driver are        *)
(* external: they answer for nodes that were started, as completed or as   *)
(* failed, at any time.                                                    *)
(***************************************************************************)
EXTENDS Naturals, FiniteSets

CONSTANTS
  Nodes,    \* node ids of the workflow
  Versions, \* workflow versions
  Edges     \* the definitions that can be registered: sets of edges

ASSUME WorkflowAssumption == Edges \subseteq SUBSET (Nodes \X Nodes)

VARIABLES
  definitions, \* WorkflowRegistry._definitions
  workflow,    \* the WorkflowRun
  started      \* nodes for which an executor was started

workflowVars == <<definitions, workflow, started>>

-----------------------------------------------------------------------------
NodeStatuses == {"pending", "running", "completed", "failed"}

RunStatuses == {"pending", "running", "completed", "failed"}

NoDefinition == {<<"none", "none">>}

NoWorkflow == [version |-> "none", status |-> "none"]

(* node_runs: the status of each node and the dependencies it was given.   *)
WorkflowRuns == [version : Versions, status : RunStatuses,
                 node    : [Nodes -> NodeStatuses],
                 needs   : [Nodes -> SUBSET Nodes]]

WorkflowTypeOK ==
  /\ definitions \in [Versions -> Edges \union {NoDefinition}]
  /\ workflow \in WorkflowRuns \union {NoWorkflow}
  /\ started \subseteq Nodes

WorkflowInit ==
  /\ definitions = [v \in Versions |-> NoDefinition]
  /\ workflow = NoWorkflow
  /\ started = {}

-----------------------------------------------------------------------------
Register(v, edges) ==
  /\ definitions[v] = NoDefinition
  /\ definitions' = [definitions EXCEPT ![v] = edges]
  /\ UNCHANGED <<workflow, started>>

Instantiate(v) ==
  /\ workflow = NoWorkflow
  /\ definitions[v] # NoDefinition
  /\ workflow' = [version |-> v, status |-> "pending",
                  node  |-> [n \in Nodes |-> "pending"],
                  needs |-> [n \in Nodes |->
                               {m \in Nodes : <<m, n>> \in definitions[v]}]]
  /\ UNCHANGED <<definitions, started>>

Exists == workflow # NoWorkflow

NodesIn(status) == {n \in Nodes : workflow.node[n] = status}

(* Mutants: one finished dependency is enough; a failure stops all.        *)
ReadyAfterOne ==
  {n \in NodesIn("pending") :
     workflow.needs[n] = {} \/ workflow.needs[n] \cap NodesIn("completed") # {}}

ReadyUnlessFailed ==
  {n \in NodesIn("pending") :
     /\ workflow.status # "failed"
     /\ workflow.needs[n] \subseteq NodesIn("completed")}

Ready == {n \in NodesIn("pending") : workflow.needs[n] \subseteq NodesIn("completed")}

(* A run that failed is set to running again, too.                         *)
ScheduleReady ==
  /\ Exists
  /\ Ready # {}
  /\ workflow' = [workflow EXCEPT
       !.status = "running",
       !.node   = [n \in Nodes |-> IF n \in Ready THEN "running" ELSE @[n]]]
  /\ started' = started \union Ready
  /\ UNCHANGED definitions

Completed(n) ==
  LET done == [workflow EXCEPT !.node[n] = "completed"] IN
  IF \A m \in Nodes : done.node[m] = "completed"
    THEN [done EXCEPT !.status = "completed"] ELSE done

CompleteNode(n) ==
  /\ Exists
  /\ n \in started
  /\ workflow' = Completed(n)
  /\ UNCHANGED <<definitions, started>>

FailNode(n) ==
  /\ Exists
  /\ n \in started
  /\ workflow' = [workflow EXCEPT !.node[n] = "failed", !.status = "failed"]
  /\ UNCHANGED <<definitions, started>>

WorkflowNext ==
  \/ \E v \in Versions : Instantiate(v) \/ \E edges \in Edges : Register(v, edges)
  \/ ScheduleReady
  \/ \E n \in Nodes : CompleteNode(n) \/ FailNode(n)

Ends(n) ==
  /\ Exists
  /\ workflow.node[n] = "running"
  /\ CompleteNode(n) \/ FailNode(n)

(* The driver keeps calling schedule_ready, and for every node that was    *)
(* started the executor answers or the driver gives up in the end.         *)
WorkflowFairness ==
  /\ WF_workflowVars(ScheduleReady)
  /\ \A n \in Nodes : WF_workflowVars(Ends(n))

WorkflowSpec == WorkflowInit /\ [][WorkflowNext]_workflowVars /\ WorkflowFairness

-----------------------------------------------------------------------------
(* Whatever answers come late or twice, a node is started only when all it *)
(* depends on in the registered definition of its version is completed.    *)
StartsInOrder ==
  Exists =>
    \A e \in definitions[workflow.version] :
      workflow.node[e[2]] = "pending" /\ workflow'.node[e[2]] # "pending"
        => workflow.node[e[1]] = "completed"

(* What a started node builds on was answered for and never waits or runs  *)
(* again, though a late answer may turn it from completed to failed.       *)
DependenciesAnswered ==
  Exists =>
    \A e \in definitions[workflow.version] :
      workflow.node[e[2]] # "pending" => workflow.node[e[1]] \in {"completed", "failed"}

(* The run is completed exactly when all of its nodes are: neither a late  *)
(* answer nor a further scheduling round parts the two.                    *)
CompletedMeansAll ==
  Exists => (workflow.status = "completed" <=> NodesIn("completed") = Nodes)

(* The nodes of a run and the run itself keep the order of the definition  *)
(* under late, repeated and contradicting answers.                         *)
WorkflowKeepsOrder ==
  [][StartsInOrder /\ DependenciesAnswered' /\ CompletedMeansAll']_workflowVars

(* The nodes that depend, through others or at once, on one that failed.   *)
Blocked(failed) ==
  {n \in Nodes : \A closed \in SUBSET Nodes :
     /\ failed \subseteq closed
     /\ \A m \in Nodes : workflow.needs[m] \cap closed # {} => m \in closed
     => n \in closed}

(* All nodes of an acyclic workflow end, but those that depend on one that *)
(* failed (schedule_ready goes on with the others even in a failed run).   *)
NodesSettle ==
  Exists ~> /\ Exists
            /\ \A n \in Nodes : \/ workflow.node[n] \in {"completed", "failed"}
                               \/ n \in Blocked(NodesIn("failed"))
=============================================================================
