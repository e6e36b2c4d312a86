---------------------------- MODULE MCGraphAgent ----------------------------
(***************************************************************************)
(* A start node, a task and a join that feeds back into the task: the edge *)
(* that leads back and the one into the join are on a cycle.               *)
(***************************************************************************)
EXTENDS GraphAgent, TLC
W == INSTANCE WorkflowGraph

CONSTANTS x1, x2, start, task, join

MCFrom == <<start, start, task, join>>
MCTo == <<task, join, join, task>>
MCWorkflow ==
  [nodes |-> <<start, join, task>>, start |-> start,
   edges |-> [i \in 1..4 |-> [from |-> MCFrom[i], to |-> MCTo[i]]]]
MCOrder == <<start, task, join>>
MCCyclic == {3, 4}

\* The order and the queued edges are what the algorithms of the agent compute.
ASSUME AlgorithmsAssumption ==
  /\ MCOrder = W!TopologicalSort(MCWorkflow)
  /\ MCCyclic = W!FindCyclicEdges(MCWorkflow)

MCExecutions == {x1, x2}
MCTasks == {task}
MCJoins == {join}
MCDeclared ==
  [depth |-> [e \in 1..4 |-> 1], queued |-> {1}, checkpoint |-> {1},
   join |-> [n \in MCJoins |-> [strategy |-> "all"]],
   ordering |-> [n \in MCJoins |-> [order |-> <<>>, repeat |-> FALSE]]]
MCJoinConfigs == {[strategy |-> "count", count |-> 1], [strategy |-> "subset", edges |-> {3}]}
\* The task first; or the start node first, with duplicates.
MCOrderings == {[order |-> <<{3}>>, repeat |-> FALSE], [order |-> <<{1, 2}>>, repeat |-> TRUE]}
MCFilters == {{1, 3}}
MCDepths == {1, 2}

-----------------------------------------------------------------------------
\* "Join node is waiting for additional predecessor(s)": a join that waits for
\* all has outputs of all.  The run does not include it: an ordering that repeats
\* inputs lets a join go on whose task failed.
JoinsWaitForAll ==
  \A s \in Snapshots : \A n \in DOMAIN s.joined :
    s.joined[n].config.strategy = "all" => {From[e] : e \in Incoming(n)} \subseteq s.results
=============================================================================
