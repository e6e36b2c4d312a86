------------------------------ MODULE GraphAgent ------------------------------
(***************************************************************************)
(* The graph agent of the assistant worker (graph-agent.ts): workflow      *)
(* executions over one graph state, edge queues, runtime checkpoints,      *)
(* restore and bulk updates, with the calls that reach it through          *)
(* AgentExecutionService (timeout) and AgentService (pause, resume,        *)
(* continue).                                                              *)
(*                                                                         *)
(* One agent instance serves every call, and its graph state is one field: *)
(* a second execution, a restore or a resume replaces the state while an   *)
(* earlier execution is suspended in a node.  That execution goes on: what *)
(* it does through this.graphState lands in the new state, its own result  *)
(* is computed from the arrays it took at its start.                       *)
(*                                                                         *)
(* An execution is suspended inside a node (the LLM call of a task, the    *)
(* backoff of a retry) and otherwise runs on without a break; the model    *)
(* gives every node a step.  Payloads, names and times are left out, and   *)
(* so is the status of the agent instance: abort() sets it, and no         *)
(* execution of a graph agent reads it.                                    *)
(***************************************************************************)
EXTENDS Naturals, Sequences, FiniteSets, SequencesExt, Subsequences

CONSTANTS
  Executions,     \* calls of execute for the agent, each with its session
  Order,          \* the nodes in the order of topologicalSort
  Tasks,          \* the nodes of type TASK: their step awaits the LLM
  Joins,          \* the nodes of type PARALLEL_JOIN
  From, To,       \* the edges 1..n of the workflow: source and target
  Cyclic,         \* the edges findCyclicEdges returns
  Declared,       \* the graph of the request: [depth, queued, checkpoint, join, ordering]
  JoinConfigs,    \* the convergence configurations a request may set
  Orderings,      \* the data orderings a request may set
  AllowParallel,  \* config.allowParallel: go on after a failed node
  MaxRetries,     \* config.maxRetries
  Filters,        \* the sets of edges the filter of a bulk update matches
  Depths,         \* the queue depths a bulk update asks for
  MaxRequests     \* bound on the pauses, restores and updates of a behaviour

Nodes == {Order[i] : i \in DOMAIN Order}
Edges == DOMAIN From
Incoming(n) == {e \in Edges : To[e] = n}
Outgoing(n) == {e \in Edges : From[e] = n}

\* A convergence configuration: all predecessors, a number of them, or given edges.
ConvergenceConfigs ==
  [strategy : {"all"}] \cup [strategy : {"count"}, count : Nat]
    \cup [strategy : {"subset"}, edges : SUBSET Edges]

\* A data ordering: for each key of the order the edges it names, by itself or by
\* its source.  A request without one gives <<>>, inputs come as they arrived.
DataOrderings == [order : Seq(SUBSET Edges), repeat : BOOLEAN]

\* The graph object: what bulk updates and convergence updates change in place.
\* depth is the maxDepth of an edge queue, queued the edges with queue.enabled.
Graphs ==
  [depth : [Edges -> Nat \ {0}], queued : SUBSET Edges, checkpoint : SUBSET Edges,
   join : [Joins -> ConvergenceConfigs], ordering : [Joins -> DataOrderings]]

ASSUME GraphAssumption ==
  /\ Order \in Seq(Nodes) /\ Order # <<>>
  /\ \A i, j \in DOMAIN Order : Order[i] = Order[j] => i = j
  /\ Tasks \subseteq Nodes /\ Joins \subseteq Nodes \ Tasks
  /\ From \in Seq(Nodes) /\ To \in [Edges -> Nodes]
  /\ Cyclic \subseteq Edges
  /\ Declared \in Graphs
  /\ JoinConfigs \subseteq ConvergenceConfigs /\ Orderings \subseteq DataOrderings
  /\ AllowParallel \in BOOLEAN
  /\ Filters \subseteq SUBSET Edges /\ Depths \subseteq Nat \ {0}
  /\ MaxRetries \in Nat /\ MaxRequests \in Nat

Restored == "restored"   \* the arrays a restore, or the constructor, made
NoGraph == [loaded |-> FALSE]   \* graph: undefined
Live == [shared |-> TRUE]      \* a snapshot that holds the graph object itself

ASSUME OwnersDiffer == Restored \notin Executions

VARIABLES
  state,        \* graphState, without executedNodes and nodeResults
  owner,        \* whose arrays graphState refers to: an execution's or Restored
  lists,        \* owner -> executedNodes and nodeResults
  saved,        \* the states CheckpointService keeps, in order
  at,           \* execution -> index in Order of its node, 0 before the first
  attempt,      \* execution -> retryCount of its node
  backoff,      \* the executions that wait out a backoff
  call,         \* execution -> state of the call: idle, opened, running, answered, failed
  outcome,      \* execution -> status of its result once it is over
  basis,        \* execution -> what the state its call restored had executed
  mixed,        \* history: executions that shared their state or lost it
  requests      \* pauses, restores and updates so far

execVars == <<at, attempt, backoff>>
callVars == <<call, outcome, basis>>
vars == <<state, owner, lists, saved, at, attempt, backoff, call, outcome, basis,
          mixed, requests>>

-----------------------------------------------------------------------------
(***************************************************************************)
(* Edge queues.  Both strategies drop the oldest item and a drain takes    *)
(* all, so a queue is kept in order of arrival; an item is known by the    *)
(* execution that put it there.                                            *)
(***************************************************************************)
EmptyQueue(graph, e) ==
  [items |-> <<>>, max |-> graph.depth[e], processed |-> 0, dropped |-> 0]

\* initializeEdgeQueues
NewQueues(graph) == [e \in Cyclic \cup graph.queued |-> EmptyQueue(graph, e)]

\* Mutated form: the dropped item is not counted.
EnqueueUncounted(q, x) ==
  IF Len(q.items) >= q.max /\ q.items # <<>>
    THEN [q EXCEPT !.items = Append(Tail(@), x)]
  ELSE [q EXCEPT !.items = Append(@, x)]

\* enqueueEdgeQueueItem, dropEdgeQueueItem
Enqueue(q, x) ==
  IF Len(q.items) >= q.max /\ q.items # <<>>
    THEN [q EXCEPT !.items = Append(Tail(@), x), !.dropped = @ + 1]
  ELSE [q EXCEPT !.items = Append(@, x)]

\* drainIncomingEdgeQueues, popEdgeQueueItem
Drain(queues, n) ==
  [e \in DOMAIN queues |->
     IF To[e] = n
       THEN [queues[e] EXCEPT !.processed = @ + Len(queues[e].items), !.items = <<>>]
     ELSE queues[e]]

\* restoreEdgeQueues, createDetachedEdgeQueueState: contents and counters from
\* the snapshot, the bound from the graph where the graph gives the edge a queue.
RestoreQueues(graph, queues) ==
  [e \in DOMAIN NewQueues(graph) \cup DOMAIN queues |->
     IF e \notin DOMAIN queues THEN EmptyQueue(graph, e)
     ELSE IF e \in DOMAIN NewQueues(graph) THEN [queues[e] EXCEPT !.max = graph.depth[e]]
     ELSE queues[e]]

-----------------------------------------------------------------------------
(***************************************************************************)
(* Graph states and snapshots.                                             *)
(***************************************************************************)
NothingExecuted == [executed |-> <<>>, results |-> {}]

\* createEmptyGraphState
EmptyState ==
  [graph |-> NoGraph, pending |-> {}, current |-> {}, history |-> <<>>,
   queues |-> <<>>, traversed |-> [e \in Edges |-> 0], joined |-> <<>>,
   checkpoints |-> {}]

\* resetGraphState and the head of executeWorkflow, on a freshly parsed graph.
FreshState ==
  [graph |-> Declared, pending |-> Nodes, current |-> {}, history |-> <<>>,
   queues |-> NewQueues(Declared), traversed |-> [e \in Edges |-> 0],
   joined |-> <<>>, checkpoints |-> {}]

\* getGraphState: runtimeCheckpoints are not part of it, the history loses its
\* link to the executions that go on.
Snapshot(s, arrays, graph) ==
  [graph |-> graph, pending |-> s.pending, current |-> s.current,
   history |-> [id \in DOMAIN s.history |-> [s.history[id] EXCEPT !.held = FALSE]],
   queues |-> s.queues, traversed |-> s.traversed, joined |-> s.joined,
   executed |-> arrays.executed, results |-> arrays.results]

\* beginNodeExecution of execution x, and the drain at the head of executeNode.
Begin(s, x, n) ==
  [s EXCEPT !.current = {n},
            !.history = [id \in DOMAIN @ \cup {<<x, n>>} |->
                           IF id = <<x, n>> THEN [status |-> "running", held |-> TRUE]
                           ELSE @[id]],
            !.queues = Drain(@, n)]

\* Mutated form: only a completed node leaves the pending ones.
SettleCompleted(s, x, n, status) ==
  [s EXCEPT !.pending = IF status = "completed" THEN @ \ {n} ELSE @,
            !.current = {},
            !.history = [id \in DOMAIN @ |->
                           IF id = <<x, n>> /\ @[id].held
                             THEN [@[id] EXCEPT !.status = status] ELSE @[id]]]

\* Mutated form: the history entry of a failed node is left as it is.
SettleHistory(s, x, n, status) ==
  [s EXCEPT !.pending = @ \ {n},
            !.current = {},
            !.history = [id \in DOMAIN @ |->
                           IF id = <<x, n>> /\ @[id].held /\ status = "completed"
                             THEN [@[id] EXCEPT !.status = status] ELSE @[id]]]

\* markNodeCompleted, markNodeFailed: the entry is the one the execution holds.
Settle(s, x, n, status) ==
  [s EXCEPT !.pending = @ \ {n},
            !.current = {},
            !.history = [id \in DOMAIN @ |->
                           IF id = <<x, n>> /\ @[id].held
                             THEN [@[id] EXCEPT !.status = status] ELSE @[id]]]

\* routeEdgeOutputs up to and including edge last: history and queue of each
\* outgoing edge, in the order of the edges.
Traverse(s, x, n, last) ==
  LET passed == {e \in Outgoing(n) : e <= last}
  IN  [s EXCEPT !.traversed = [e \in Edges |-> IF e \in passed THEN @[e] + 1 ELSE @[e]],
                !.queues = [e \in DOMAIN @ |->
                              IF e \in passed THEN Enqueue(@[e], x) ELSE @[e]]]

\* routeEdgeOutputs.  The checkpoint of an edge is recorded when the edge has
\* been traversed and the later ones have not.
Route(s, x, n, arrays) ==
  [Traverse(s, x, n, Cardinality(Edges)) EXCEPT
     !.checkpoints = @ \cup
       {[edge |-> e, snapshot |-> Snapshot(Traverse(s, x, n, e), arrays, Live)] :
          e \in Outgoing(n) \cap s.graph.checkpoint}]

Appended(arrays, n, failed) ==
  [executed |-> Append(arrays.executed, [node |-> n, failed |-> failed]),
   results |-> IF failed THEN arrays.results ELSE arrays.results \cup {n}]

-----------------------------------------------------------------------------
(***************************************************************************)
(* Convergence: what a join needs and takes (resolveConvergenceInputs).    *)
(* The inputs are the edges whose sources have results; they are put in    *)
(* order first, which may repeat some, and counted then.                   *)
(***************************************************************************)
\* clampCount, where 0 stands for no count.
ClampCount(count, most) ==
  IF count = 0 THEN IF most > 1 THEN most ELSE 1
  ELSE IF count > most THEN most ELSE count

Arrived(n, results) == {e \in Incoming(n) : From[e] \in results}
InEdgeOrder(S) ==
  CHOOSE s \in [1..Cardinality(S) -> S] : \A i, j \in DOMAIN s : i < j => s[i] < s[j]

\* One key of an explicit order: the first input it names, and with
\* includeDuplicates (repeat) even one that was taken already.
Pick(picked, key, repeat, inputs) ==
  LET open == (key \cap inputs) \ IF repeat THEN {} ELSE ToSet(picked)
  IN  IF open = {} THEN picked
      ELSE Append(picked, CHOOSE e \in open : \A f \in open : e <= f)

\* After each key.
PickRounds(ordering, inputs) ==
  LET picked[i \in 0..Len(ordering.order)] ==
        IF i = 0 THEN <<>> ELSE Pick(picked[i - 1], ordering.order[i], ordering.repeat, inputs)
  IN  picked

\* Mutated form: the rest includes what the keys have named.
OrderedTwice(ordering, inputs) ==
  PickRounds(ordering, inputs)[Len(ordering.order)] \o InEdgeOrder(inputs)

\* applyDataOrderingConfig: what the keys name, then the rest; with repeat, all.
Ordered(ordering, inputs) ==
  LET picked == PickRounds(ordering, inputs)[Len(ordering.order)]
  IN  picked \o InEdgeOrder(inputs \ IF ordering.repeat THEN {} ELSE ToSet(picked))

\* How many inputs resolveCountStrategy and resolveAllStrategy ask for, and
\* whether resolveSubsetStrategy asks for some (an empty subset counts as all).
Required(n, config) ==
  IF config.strategy = "count" THEN ClampCount(config.count, Cardinality(Incoming(n)))
  ELSE Cardinality(Incoming(n))
AsksForEdges(config) == config.strategy = "subset" /\ config.edges # {}

\* Mutated form: a join that waits for all goes on with the first arrival.
JoinSatisfiedByAny(n, config, ordering, results) ==
  IF AsksForEdges(config) THEN config.edges \subseteq Arrived(n, results)
  ELSE Len(Ordered(ordering, Arrived(n, results))) >=
         IF config.strategy = "count" THEN Required(n, config) ELSE 1

JoinSatisfied(n, config, ordering, results) ==
  IF AsksForEdges(config) THEN config.edges \subseteq Arrived(n, results)
  ELSE Len(Ordered(ordering, Arrived(n, results))) >= Required(n, config)

JoinInputs(n, config, ordering, results) ==
  LET inputs == Ordered(ordering, Arrived(n, results))
  IN  IF AsksForEdges(config) THEN Without(inputs, Edges \ config.edges)
      ELSE IF config.strategy = "count" THEN SubSeq(inputs, 1, Required(n, config))
      ELSE inputs

-----------------------------------------------------------------------------
(***************************************************************************)
(* Executions.                                                             *)
(***************************************************************************)
InFlight(x) == at[x] \in DOMAIN Order
NodeOf(x) == Order[at[x]]
Others(x) == {y \in Executions \ {x} : InFlight(y)}

Init ==
  /\ state = EmptyState
  /\ owner = Restored
  /\ lists = [o \in Executions \cup {Restored} |-> NothingExecuted]
  /\ saved = <<>>
  /\ at = [x \in Executions |-> 0]
  /\ attempt = [x \in Executions |-> 0]
  /\ backoff = {}
  /\ call = [x \in Executions |-> "idle"]
  /\ outcome = [x \in Executions |-> "none"]
  /\ basis = [x \in Executions |-> {}]
  /\ mixed = {}
  /\ requests = 0

\* AgentExecutionService.execute up to the session.
OpenCall(x) ==
  /\ call[x] = "idle"
  /\ call' = [call EXCEPT ![x] = "opened"]
  /\ UNCHANGED <<state, owner, lists, saved, execVars, outcome, basis, mixed, requests>>

\* The rest of execute up to the first await of the workflow: the timer is
\* armed, the state is reset and the first node begins.
BeginExecution(x) ==
  /\ call[x] = "opened"
  /\ call' = [call EXCEPT ![x] = "running"]
  /\ state' = Begin(FreshState, x, Order[1])
  /\ owner' = x
  /\ lists' = [lists EXCEPT ![x] = NothingExecuted]
  /\ at' = [at EXCEPT ![x] = 1]
  /\ mixed' = IF Others(x) = {} THEN mixed ELSE mixed \cup Others(x) \cup {x}
  /\ UNCHANGED <<saved, attempt, backoff, outcome, basis, requests>>

\* The loop of executeWorkflow goes on with the next node or is over.
Proceed(x, s, stop) ==
  LET next == IF stop THEN Len(Order) + 1 ELSE at[x] + 1
  IN  /\ at' = [at EXCEPT ![x] = next]
      /\ attempt' = [attempt EXCEPT ![x] = 0]
      /\ state' = IF next \in DOMAIN Order THEN Begin(s, x, Order[next]) ELSE s

\* executeNode succeeds: the answer of the LLM, or a node that needs none.
\* node.convergence and node.dataOrdering are normalised in place when a join is
\* evaluated; the model keeps them in their normal form.
CompleteNode(x) ==
  LET n == NodeOf(x)
      config == state.graph.join[n]
      ordering == state.graph.ordering[n]
      results == lists[owner].results
      arrays == Appended(lists[owner], n, FALSE)
      joined == IF n \in Joins
                  THEN [m \in DOMAIN state.joined \cup {n} |->
                          IF m = n
                            THEN [config |-> config, ordering |-> ordering,
                                  inputs |-> JoinInputs(n, config, ordering, results)]
                          ELSE state.joined[m]]
                ELSE state.joined
  IN  /\ InFlight(x) /\ x \notin backoff
      /\ n \in Joins => JoinSatisfied(n, config, ordering, results)
      /\ lists' = [lists EXCEPT ![owner] = arrays]
      /\ Proceed(x, Route(Settle([state EXCEPT !.joined = joined], x, n, "completed"),
                          x, n, arrays), FALSE)
      /\ UNCHANGED <<owner, saved, backoff, callVars, mixed, requests>>

\* The LLM call of a task fails, or the predecessors of a join are missing.
MayFail(x) ==
  LET n == NodeOf(x)
  IN  /\ InFlight(x) /\ x \notin backoff
      /\ n \in Tasks \/ ( /\ n \in Joins
                         /\ ~JoinSatisfied(n, state.graph.join[n], state.graph.ordering[n],
                                           lists[owner].results))

\* Mutated form: one retry too many.
AwaitBackoffOnceMore(x) ==
  /\ attempt[x] <= MaxRetries /\ MayFail(x)
  /\ attempt' = [attempt EXCEPT ![x] = @ + 1]
  /\ backoff' = backoff \cup {x}
  /\ UNCHANGED <<state, owner, lists, saved, at, callVars, mixed, requests>>

\* A failure with retries left: exponential backoff, then another attempt.
AwaitBackoff(x) ==
  /\ attempt[x] < MaxRetries /\ MayFail(x)
  /\ attempt' = [attempt EXCEPT ![x] = @ + 1]
  /\ backoff' = backoff \cup {x}
  /\ UNCHANGED <<state, owner, lists, saved, at, callVars, mixed, requests>>

RetryNode(x) ==
  /\ x \in backoff
  /\ backoff' = backoff \ {x}
  /\ UNCHANGED <<state, owner, lists, saved, at, attempt, callVars, mixed, requests>>

\* The last attempt fails: no edge is routed.
FailNode(x) ==
  LET n == NodeOf(x)
  IN  /\ attempt[x] = MaxRetries /\ MayFail(x)
      /\ lists' = [lists EXCEPT ![owner] = Appended(@, n, TRUE)]
      /\ Proceed(x, Settle(state, x, n, "failed"), ~AllowParallel)
      /\ UNCHANGED <<owner, saved, backoff, callVars, mixed, requests>>

\* executeWorkflow returns and the call is answered, unless it already was.
FinishExecution(x) ==
  LET ended == lists[x].executed
      failed == {i \in DOMAIN ended : ended[i].failed}
  IN  /\ at[x] > Len(Order) /\ outcome[x] = "none"
      /\ outcome' = [outcome EXCEPT ![x] =
                       IF failed = {} THEN "success"
                       ELSE IF failed = DOMAIN ended THEN "failed" ELSE "partial"]
      /\ IF call[x] = "running"
           THEN call' = [call EXCEPT ![x] = "answered"]
         ELSE UNCHANGED call
      /\ UNCHANGED <<state, owner, lists, saved, execVars, basis, mixed, requests>>

\* Mutated form: the timeout is only noticed between two nodes.
TimeOutBetweenNodes(x) ==
  /\ call[x] = "running" /\ outcome[x] = "none" /\ ~InFlight(x)
  /\ call' = [call EXCEPT ![x] = "failed"]
  /\ UNCHANGED <<state, owner, lists, saved, execVars, outcome, basis, mixed, requests>>

\* The timer of execute: the call is rejected.  The workflow goes on.
TimeOut(x) ==
  /\ call[x] = "running" /\ outcome[x] = "none"
  /\ call' = [call EXCEPT ![x] = "failed"]
  /\ UNCHANGED <<state, owner, lists, saved, execVars, outcome, basis, mixed, requests>>

-----------------------------------------------------------------------------
(***************************************************************************)
(* Requests that reach the graph state from outside.                       *)
(***************************************************************************)
CountRequest == requests < MaxRequests /\ requests' = requests + 1

\* restoreGraphState: a new state with new arrays and no checkpoints.  What is
\* in flight has lost its state.
Restore(snapshot) ==
  LET graph == IF snapshot.graph \in {Live, NoGraph} THEN state.graph ELSE snapshot.graph
  IN  /\ state' = [graph |-> graph, pending |-> snapshot.pending,
                   current |-> snapshot.current, history |-> snapshot.history,
                   queues |-> IF graph = NoGraph THEN snapshot.queues
                              ELSE RestoreQueues(graph, snapshot.queues),
                   traversed |-> snapshot.traversed, joined |-> snapshot.joined,
                   checkpoints |-> {}]
      /\ owner' = Restored
      /\ lists' = [lists EXCEPT ![Restored] =
                     [executed |-> snapshot.executed, results |-> snapshot.results]]
      /\ mixed' = mixed \cup {x \in Executions : InFlight(x)}

\* restoreGraphRuntimeCheckpoint
RestoreCheckpoint(checkpoint) ==
  /\ checkpoint \in state.checkpoints
  /\ Restore(checkpoint.snapshot)
  /\ CountRequest
  /\ UNCHANGED <<saved, execVars, callVars>>

\* pauseGraphAgent: the state is saved as a deep copy and the instance aborted.
PauseAgent ==
  /\ saved' = Append(saved, Snapshot(state, lists[owner], state.graph))
  /\ CountRequest
  /\ UNCHANGED <<state, owner, lists, execVars, callVars, mixed>>

\* resumeGraphAgent with a checkpoint
ResumeAgent(i) ==
  /\ i \in DOMAIN saved
  /\ Restore(saved[i])
  /\ CountRequest
  /\ UNCHANGED <<saved, execVars, callVars>>

\* continueGraphAgentWithInput: the saved state is restored and a call of
\* execute is opened.
ContinueAgent(x, i) ==
  /\ i \in DOMAIN saved /\ call[x] = "idle"
  /\ Restore(saved[i])
  /\ call' = [call EXCEPT ![x] = "opened"]
  /\ basis' = [basis EXCEPT ![x] = saved[i].results]
  /\ UNCHANGED <<saved, execVars, outcome, requests>>

\* bulkUpdateEdges over the edges the filter matches, in order: the first edge
\* that refuses the update ends it, the edges before it keep theirs.
Applied(matched, refused) ==
  {e \in matched : \A f \in matched \cap refused : e < f}

UpdateQueueDepth(matched, depth) ==
  LET tooShort == {e \in DOMAIN state.queues : depth < Len(state.queues[e].items)}
      applied == Applied(matched, tooShort)
  IN  /\ state.graph # NoGraph
      /\ state' = [state EXCEPT
           !.graph.depth = [e \in Edges |-> IF e \in applied THEN depth ELSE @[e]],
           !.queues = [e \in DOMAIN @ |->
                         IF e \in applied THEN [@[e] EXCEPT !.max = depth] ELSE @[e]]]
      /\ CountRequest
      /\ UNCHANGED <<owner, lists, saved, execVars, callVars, mixed>>

UpdateQueueEnabled(matched, enabled) ==
  LET holdsItems == {e \in DOMAIN state.queues : ~enabled /\ state.queues[e].items # <<>>}
      applied == Applied(matched, holdsItems)
  IN  /\ state.graph # NoGraph
      /\ state' = [state EXCEPT !.graph.queued =
                     IF enabled THEN @ \cup applied ELSE @ \ applied]
      /\ CountRequest
      /\ UNCHANGED <<owner, lists, saved, execVars, callVars, mixed>>

\* bulkUpdateEdges with isCheckpoint, updateEdgeCheckpoint: nothing refuses it.
UpdateCheckpoints(matched, flag) ==
  /\ state.graph # NoGraph
  /\ state' = [state EXCEPT !.graph.checkpoint =
                 IF flag THEN @ \cup matched ELSE @ \ matched]
  /\ CountRequest
  /\ UNCHANGED <<owner, lists, saved, execVars, callVars, mixed>>

\* updateConvergenceConfig
UpdateConvergence(n, config) ==
  /\ state.graph # NoGraph
  /\ state' = [state EXCEPT !.graph.join[n] = config]
  /\ CountRequest
  /\ UNCHANGED <<owner, lists, saved, execVars, callVars, mixed>>

\* updateDataOrdering
UpdateOrdering(n, ordering) ==
  /\ state.graph # NoGraph
  /\ state' = [state EXCEPT !.graph.ordering[n] = ordering]
  /\ CountRequest
  /\ UNCHANGED <<owner, lists, saved, execVars, callVars, mixed>>

-----------------------------------------------------------------------------
\* Executions that go on without waiting for anything: no request, timer or
\* answer is handled before they are suspended or over.
Running ==
  {x \in Executions : \/ InFlight(x) /\ x \notin backoff /\ NodeOf(x) \notin Tasks
                      \/ at[x] > Len(Order) /\ outcome[x] = "none"}

Advance(x) ==
  /\ Running \subseteq {x}
  /\ CompleteNode(x) \/ AwaitBackoff(x) \/ FailNode(x) \/ FinishExecution(x)

Call(x) == OpenCall(x) \/ BeginExecution(x) \/ TimeOut(x) \/ RetryNode(x)

Manage ==
  \/ \E c \in state.checkpoints : RestoreCheckpoint(c)
  \/ PauseAgent
  \/ \E i \in DOMAIN saved : ResumeAgent(i)
  \/ \E x \in Executions, i \in DOMAIN saved : ContinueAgent(x, i)

Update ==
  \/ \E matched \in Filters, d \in Depths : UpdateQueueDepth(matched, d)
  \/ \E matched \in Filters, b \in BOOLEAN : UpdateQueueEnabled(matched, b)
  \/ \E matched \in Filters, b \in BOOLEAN : UpdateCheckpoints(matched, b)
  \/ \E n \in Joins, config \in JoinConfigs : UpdateConvergence(n, config)
  \/ \E n \in Joins, ordering \in Orderings : UpdateOrdering(n, ordering)

Next ==
  \/ \E x \in Executions : Advance(x)
  \/ Running = {} /\ ((\E x \in Executions : Call(x)) \/ Manage \/ Update)

\* The event loop runs what is ready and fires the timers that are due.  An LLM
\* need not answer.
Fairness ==
  \A x \in Executions :
    /\ WF_vars(x \in Running /\ Advance(x))
    /\ WF_vars(Running = {} /\ BeginExecution(x))
    /\ WF_vars(Running = {} /\ RetryNode(x))
    /\ WF_vars(Running = {} /\ TimeOut(x))

Spec == Init /\ [][Next]_vars /\ Fairness

-----------------------------------------------------------------------------
(***************************************************************************)
(* What holds whatever overlaps: of the state and of every snapshot that   *)
(* is kept and may be restored.                                            *)
(***************************************************************************)
Current == Snapshot(state, lists[owner], state.graph)
Snapshots ==
  {Current} \cup {c.snapshot : c \in state.checkpoints} \cup {saved[i] : i \in DOMAIN saved}

ExecutedNodes(s) == {s.executed[i].node : i \in DOMAIN s.executed}
Counters == [items : Seq(Executions), max : Nat \ {0}, processed : Nat, dropped : Nat]

GraphTypeOK ==
  /\ state.graph \in Graphs \cup {NoGraph}
  /\ owner \in Executions \cup {Restored}
  /\ \A s \in Snapshots :
       /\ s.pending \subseteq Nodes /\ s.current \subseteq Nodes
       /\ DOMAIN s.queues \subseteq Edges
       /\ \A e \in DOMAIN s.queues : s.queues[e] \in Counters
       /\ s.traversed \in [Edges -> Nat]
  /\ at \in [Executions -> 0..(Len(Order) + 1)]
  /\ attempt \in [Executions -> 0..MaxRetries]
  /\ call \in [Executions -> {"idle", "opened", "running", "answered", "failed"}]

\* No node is both pending and executed, and a node has a result exactly when one
\* of its executions completed: in the state, in every runtime checkpoint (taken
\* in the middle of routing) and in every saved state.  No node of the graph is
\* lost either, unless the agent was paused before its first workflow: such a
\* saved state names no graph, and restored over one it forgets the pending nodes.
NodesAccountedFor ==
  GraphTypeOK /\ \A s \in Snapshots :
    s.graph # NoGraph =>
      /\ s.pending \cap ExecutedNodes(s) = {}
      /\ s.results = {n \in Nodes : \E i \in DOMAIN s.executed :
                        s.executed[i].node = n /\ ~s.executed[i].failed}
      /\ (\A i \in DOMAIN saved : saved[i].graph # NoGraph) =>
           Nodes \subseteq s.pending \cup ExecutedNodes(s)

\* What an edge history counts in is what the queue of the edge took in: still
\* queued, drained or dropped.  A queue that a restore created for an edge
\* enabled later starts behind its history.
QueuesMatchHistory ==
  \A s \in Snapshots : \A e \in DOMAIN s.queues :
    LET q == s.queues[e]
        taken == Len(q.items) + q.processed + q.dropped
    IN  taken <= s.traversed[e] /\ (e \in Cyclic => taken = s.traversed[e])

\* A join that has a convergence record completed, and so did every predecessor
\* whose output it took, in the same state; it took as many inputs as its
\* configuration asked for, or those that were asked for.  Unless its ordering
\* repeats inputs, it took none twice, so that one that waits for all has all.
JoinsAreFed ==
  \A s \in Snapshots : \A n \in DOMAIN s.joined :
    LET j == s.joined[n]
    IN  /\ {n} \cup {From[e] : e \in ToSet(j.inputs)} \subseteq s.results
        /\ IF AsksForEdges(j.config) THEN ToSet(j.inputs) = j.config.edges
           ELSE Len(j.inputs) >= Required(n, j.config)
        /\ j.config.strategy = "count" => Len(j.inputs) = Required(n, j.config)
        /\ ~j.ordering.repeat =>
             /\ IsInjective(j.inputs)
             /\ j.config.strategy = "all" => ToSet(j.inputs) = Incoming(n)

\* An execution whose state nothing else touched runs every node once, in the
\* order of the sort; the node it is in is the current one, which is what the
\* bulk update of nodes refuses to change; its result is a success exactly when
\* every node has one, and no entry of its history is left running.
UndisturbedExecutions ==
  \A x \in Executions \ mixed :
    /\ at[x] > 0 =>
         LET own == lists[x].executed
         IN  /\ Len(own) < Len(Order) + 1
             /\ \A i \in DOMAIN own : own[i].node = Order[i]
             /\ AllowParallel => Len(own) = at[x] - 1
    /\ InFlight(x) => owner = x /\ state.current = {NodeOf(x)}
    /\ outcome[x] # "none" =>
         /\ (outcome[x] = "success") <=> (lists[x].results = Nodes)
         /\ owner = x => \A id \in DOMAIN state.history : state.history[id].status # "running"

\* Every call of execute that was opened is answered or rejected, although no
\* LLM need ever answer: the timer of the call sees to it.
CallsAreAnswered ==
  \A x \in Executions : (call[x] = "opened") ~> (call[x] \in {"answered", "failed"})

\* What "Continue Graph agent with new input (after checkpoint)" promises: a
\* continued execution does not execute again what its checkpoint has results of.
ContinuedFromCheckpoint ==
  \A x \in Executions : InFlight(x) => NodeOf(x) \notin basis[x]
=============================================================================
