---------------------------- MODULE WorkflowGraph ----------------------------
(***************************************************************************)
(* The graph algorithms of the graph agent (assistant-worker,              *)
(* graph-agent.ts): the order in which a workflow is executed and the      *)
(* edges that get a queue because they lie on a cycle.  A workflow is a    *)
(* record [nodes, edges, start] of the arrays the code walks: a sequence   *)
(* of nodes, a sequence of edges [from, to] (an edge is known by its       *)
(* index) and the start node.                                              *)
(*                                                                         *)
(* Both searches thread an accumulator through the recursion: each is a    *)
(* recursive function of the node and of what it is given.                 *)
(***************************************************************************)
EXTENDS Naturals, FiniteSets, Subsequences, SequencesExt

NodesOf(w) == ToSet(w.nodes)

\* The adjacency list of n, in the order of the edges.
Neighbors(w, n) ==
  LET out == EntriesAt(w.edges, {i \in DOMAIN w.edges : w.edges[i].from = n})
  IN  [i \in DOMAIN out |-> out[i].to]

-----------------------------------------------------------------------------
(***************************************************************************)
(* topologicalSort: depth first from the start node, then from every node, *)
(* in reverse order of completion.                                         *)
(***************************************************************************)
Orders(w) == [visited : SUBSET NodesOf(w), order : Seq(NodesOf(w))]

\* One node of the list after the other is visited.
EachVisited(visit, list, acc) ==
  LET after[i \in 0..Len(list)] == IF i = 0 THEN acc ELSE visit[<<list[i], after[i - 1]>>]
  IN  after[Len(list)]

\* Mutated form: a node is put in front of the order before its neighbours.
VisitedPreorder(visit, w, n, acc) ==
  IF n \in acc.visited THEN acc
  ELSE EachVisited(visit, Neighbors(w, n),
                   [visited |-> acc.visited \cup {n}, order |-> <<n>> \o acc.order])

\* One call of visit, which answers the calls it makes itself.
Visited(visit, w, n, acc) ==
  IF n \in acc.visited THEN acc
  ELSE LET below == EachVisited(visit, Neighbors(w, n), [acc EXCEPT !.visited = @ \cup {n}])
       IN  [below EXCEPT !.order = <<n>> \o @]

TopologicalSort(w) ==
  LET visit[q \in NodesOf(w) \X Orders(w)] == Visited(visit, w, q[1], q[2])
  IN  EachVisited(visit, <<w.start>> \o w.nodes, [visited |-> {}, order |-> <<>>]).order

-----------------------------------------------------------------------------
(***************************************************************************)
(* findCyclicEdges: an edge is cyclic when its source is reachable from    *)
(* its target.  computeReachability caches the set of every node as soon   *)
(* as its search returns, also when the search was cut short because it    *)
(* met a node of the stack.                                                *)
(***************************************************************************)
\* A cache: the nodes that have a set in it, and these sets.
Caches(w) == [known : SUBSET NodesOf(w), reach : [NodesOf(w) -> SUBSET NodesOf(w)]]
Descents(w) == NodesOf(w) \X (SUBSET NodesOf(w)) \X Caches(w)

\* The neighbors of a node, one after the other: what they reach is added, and the
\* cache grows; a node of the stack is not entered.
EachReached(descend, list, stack, cache) ==
  LET reached(a, m) ==
        IF m \in stack THEN [a EXCEPT !.reach = @ \cup {m}]
        ELSE LET nested == descend[<<m, stack \cup {m}, a.cache>>]
             IN  [reach |-> a.reach \cup {m} \cup nested.reach, cache |-> nested.cache]
      after[i \in 0..Len(list)] ==
        IF i = 0 THEN [reach |-> {}, cache |-> cache] ELSE reached(after[i - 1], list[i])
  IN  after[Len(list)]

\* One call of computeReachability: the result for n and the cache grown on the way.
ReachableFrom(descend, w, n, stack, cache) ==
  IF n \in cache.known THEN [reach |-> cache.reach[n], cache |-> cache]
  ELSE LET found == EachReached(descend, Neighbors(w, n), stack, cache)
       IN  [found EXCEPT !.cache = [known |-> @.known \cup {n},
                                    reach |-> [@.reach EXCEPT ![n] = found.reach]]]

\* The sets in the cache once every node has been asked for.
ComputeReachability(w) ==
  LET descend[q \in Descents(w)] == ReachableFrom(descend, w, q[1], q[2], q[3])
      after[i \in 0..Len(w.nodes)] ==
        IF i = 0 THEN [known |-> {}, reach |-> [n \in NodesOf(w) |-> {}]]
        ELSE descend[<<w.nodes[i], {w.nodes[i]}, after[i - 1]>>].cache
  IN  after[Len(w.nodes)].reach

\* Mutated form: an edge is cyclic when its target is reachable from its source.
ForwardEdges(w) ==
  LET reach == ComputeReachability(w)
  IN  {i \in DOMAIN w.edges : w.edges[i].to \in reach[w.edges[i].from]}

FindCyclicEdges(w) ==
  LET reach == ComputeReachability(w)
  IN  {i \in DOMAIN w.edges : w.edges[i].from \in reach[w.edges[i].to]}

-----------------------------------------------------------------------------
(***************************************************************************)
(* Reference: reachability as the least set closed under the edges.        *)
(***************************************************************************)
ClosedUnder(S, edges) == \A e \in edges : e.from \in S => e.to \in S

\* m is reached from n by one edge or more.
Reaches(w, edges, n, m) ==
  \A S \in SUBSET NodesOf(w) :
    {e.to : e \in {d \in edges : d.from = n}} \subseteq S /\ ClosedUnder(S, edges)
      => m \in S

Acyclic(w, edges) == \A n \in NodesOf(w) : ~Reaches(w, edges, n, n)

\* The order holds every node once, and in a workflow without cycles every
\* node comes after all its predecessors, wherever the search starts and in
\* whatever order the nodes and the edges are listed.
OrderIsTopological(w) ==
  LET order == TopologicalSort(w)
      place(n) == CHOOSE i \in DOMAIN order : order[i] = n
  IN  /\ ToSet(order) = NodesOf(w) /\ IsInjective(order)
      /\ Acyclic(w, ToSet(w.edges)) =>
           \A e \in ToSet(w.edges) : place(e.from) < place(e.to)

\* An edge that gets a queue is on a cycle, and no cycle goes without one:
\* the edges that are left form no cycle, although the cache hides some edges.
CyclesAreQueued(w) ==
  LET cyclic == FindCyclicEdges(w)
  IN  /\ \A i \in cyclic : Reaches(w, ToSet(w.edges), w.edges[i].to, w.edges[i].from)
      /\ Acyclic(w, {w.edges[i] : i \in DOMAIN w.edges \ cyclic})
=============================================================================
