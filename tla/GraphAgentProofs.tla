-------------------------- MODULE GraphAgentProofs --------------------------
(***************************************************************************)
(* Proofs about the graph agent, for any workflow (nodes, edges, joins and *)
(* cycles), any graph a request declares and any number of calls,          *)
(* requests and retries.                                                   *)
(*                                                                         *)
(* GraphInv has two halves.  The first is about data: the state, each of   *)
(* its runtime checkpoints and each saved state is sound by itself         *)
(* (StateSound, SnapshotSound), whoever wrote to it, so that any of them   *)
(* may be restored at any time.  The second (CallsInOrder, Books) is about *)
(* the executions that shared their state with no other: they own it, no   *)
(* other is in flight next to them, and list, history and current node are *)
(* where their position says.                                              *)
(***************************************************************************)
EXTENDS GraphAgent, SubsequenceProofs

\* What a list of executed nodes says: its nodes, and those that completed.
Executed(list) == {list[i].node : i \in DOMAIN list}
Completed(list) == {n \in Nodes : \E i \in DOMAIN list : list[i].node = n /\ ~list[i].failed}

Entries == [node : Nodes, failed : BOOLEAN]
Taken(q) == Len(q.items) + q.processed + q.dropped

\* One convergence record and the results of the state it belongs to.
Fed(n, j, results) ==
  /\ n \in Nodes /\ j.inputs \in Seq(Edges)
  /\ {n} \cup {From[e] : e \in ToSet(j.inputs)} \subseteq results
  /\ IF AsksForEdges(j.config) THEN ToSet(j.inputs) = j.config.edges
     ELSE Len(j.inputs) >= Required(n, j.config)
  /\ j.config.strategy = "count" => Len(j.inputs) = Required(n, j.config)
  /\ ~j.ordering.repeat =>
       IsInjective(j.inputs) /\ (j.config.strategy = "all" => ToSet(j.inputs) = Incoming(n))

\* The queues and the edge history of a state.  An edge on a cycle has a queue as
\* soon as there is a graph.
Counted(queues, traversed) ==
  /\ DOMAIN queues \subseteq Edges /\ \A e \in DOMAIN queues : queues[e] \in Counters
  /\ traversed \in [Edges -> Nat]
  /\ \A e \in DOMAIN queues :
       Taken(queues[e]) <= traversed[e] /\ (e \in Cyclic => Taken(queues[e]) = traversed[e])
  /\ \A e \in Cyclic \ DOMAIN queues : traversed[e] = 0

\* What holds of a graph state together with its arrays.
SnapshotSound(s) ==
  /\ s.pending \subseteq Nodes /\ s.current \subseteq Nodes
  /\ s.executed \in Seq(Entries) /\ s.results = Completed(s.executed)
  /\ s.pending \cap Executed(s.executed) = {}
  /\ Counted(s.queues, s.traversed)
  /\ s.graph # NoGraph => Cyclic \subseteq DOMAIN s.queues
  /\ \A n \in DOMAIN s.joined : Fed(n, s.joined[n], s.results)

NodesKept(s) == s.graph # NoGraph => Nodes \subseteq s.pending \cup Executed(s.executed)
AlwaysParsed(kept) == \A i \in DOMAIN kept : kept[i].graph # NoGraph
KeptSound(s, kept) == SnapshotSound(s) /\ (AlwaysParsed(kept) => NodesKept(s))

Fields == {"graph", "pending", "current", "history", "queues", "traversed", "joined", "checkpoints"}
StateShaped(s) == s = [f \in Fields |-> s[f]]

ListShaped(l) == l.executed \in Seq(Entries) /\ l.results = Completed(l.executed)

Owners == Executions \cup {Restored}

Shaped ==
  /\ owner \in Owners
  /\ DOMAIN lists = Owners /\ \A o \in Owners : ListShaped(lists[o])
  /\ lists = [o \in Owners |-> lists[o]]
  /\ Len(saved) \in Nat /\ saved = [i \in 1..Len(saved) |-> saved[i]]
  /\ at \in [Executions -> 0..(Len(Order) + 1)]
  /\ attempt \in [Executions -> 0..MaxRetries]
  /\ backoff \subseteq Executions
  /\ call \in [Executions -> {"idle", "opened", "running", "answered", "failed"}]
  /\ outcome \in [Executions -> {"none", "success", "partial", "failed"}]
  /\ mixed \subseteq Executions

CallsInOrder ==
  \A x \in Executions :
    /\ call[x] \in {"idle", "opened"} => at[x] = 0
    /\ outcome[x] # "none" => at[x] > Len(Order)
    /\ InFlight(x) => state.graph # NoGraph

\* The same of the state and its arrays before they are in a snapshot.
StateSound(s, l) ==
  /\ s.pending \subseteq Nodes /\ s.current \subseteq Nodes
  /\ ListShaped(l)
  /\ s.pending \cap Executed(l.executed) = {}
  /\ Counted(s.queues, s.traversed)
  /\ s.graph # NoGraph => Cyclic \subseteq DOMAIN s.queues
  /\ \A n \in DOMAIN s.joined : Fed(n, s.joined[n], l.results)

\* A state with its arrays, next to the saved ones.
StateOK(s, l, kept) ==
  /\ StateShaped(s) /\ s.graph \in Graphs \cup {NoGraph}
  /\ StateSound(s, l)
  /\ AlwaysParsed(kept) /\ s.graph # NoGraph => Nodes \subseteq s.pending \cup Executed(l.executed)
  /\ \A c \in s.checkpoints : c.snapshot.graph = Live /\ KeptSound(c.snapshot, kept)

SavedSound ==
  \A i \in 1..Len(saved) : saved[i].graph \in Graphs \cup {NoGraph} /\ KeptSound(saved[i], saved)

\* An execution that shared nothing: while it is in flight or owns the state, no
\* other is in flight.
Apart ==
  /\ \A x \in Executions \ mixed : InFlight(x) => owner = x
  /\ owner \in Executions \ mixed => Others(owner) = {}

InStep(x) ==
  LET own == lists[x].executed
  IN  /\ at[x] > 0 =>
           /\ Len(own) <= Len(Order) /\ \A i \in 1..Len(own) : own[i].node = Order[i]
           /\ InFlight(x) => Len(own) = at[x] - 1 /\ state.current = {NodeOf(x)}
           /\ ~InFlight(x) => \/ Len(own) = Len(Order)
                              \/ ~AllowParallel /\ \E i \in 1..Len(own) : own[i].failed
      /\ outcome[x] # "none" =>
           (outcome[x] = "success" <=> \A i \in 1..Len(own) : ~own[i].failed)

\* Its history has one entry that runs, the one of its node.
HistoryFollows ==
  owner \in Executions \ mixed =>
    /\ \A id \in DOMAIN state.history :
         state.history[id].status = "running" => InFlight(owner) /\ id = <<owner, NodeOf(owner)>>
    /\ InFlight(owner) =>
         /\ <<owner, NodeOf(owner)>> \in DOMAIN state.history
         /\ state.history[<<owner, NodeOf(owner)>>] = [status |-> "running", held |-> TRUE]

Books ==
  /\ Apart
  /\ \A x \in Executions \ mixed : InStep(x)
  /\ HistoryFollows

GraphInv ==
  /\ Shaped /\ StateOK(state, lists[owner], saved) /\ SavedSound
  /\ CallsInOrder /\ Books

\* The placeholders for a graph are no graphs.
LEMMA Placeholders ==
  /\ NoGraph \notin Graphs /\ Live \notin Graphs /\ Live # NoGraph
<1>1. \A g \in Graphs : DOMAIN g = {"depth", "queued", "checkpoint", "join", "ordering"}
  BY DEF Graphs
<1>2. DOMAIN NoGraph = {"loaded"} /\ DOMAIN Live = {"shared"}
  BY DEF NoGraph, Live
<1> QED BY <1>1, <1>2

LEMMA SomeEdges ==
  /\ Len(From) \in Nat /\ Edges = 1..Len(From) /\ IsFiniteSet(Edges)
  /\ Cardinality(Edges) = Len(From)
  /\ \A e \in Edges : From[e] \in Nodes /\ To[e] \in Nodes
<1>1. From \in Seq(Nodes) /\ To \in [Edges -> Nodes]
  BY GraphAssumption
<1>2. /\ Len(From) \in Nat /\ From \in [1..Len(From) -> Nodes] /\ DOMAIN From = 1..Len(From)
  BY ONLY <1>1, LenProperties
<1>3. IsFiniteSet(1..Len(From)) /\ Cardinality(1..Len(From)) = Len(From)
  <2> DEFINE m == Len(From)
  <2>1. m \in Nat
    BY ONLY <1>2
  <2> HIDE DEF m
  <2>2. IsFiniteSet(1..m) /\ Cardinality(1..m) = m
    BY ONLY <2>1, FS_Interval
  <2> QED BY ONLY <2>2 DEF m
<1>4. Edges = 1..Len(From)
  BY <1>2 DEF Edges
<1> QED BY <1>1, <1>2, <1>3, <1>4

LEMMA SomeNodes ==
  /\ Len(Order) \in Nat \ {0} /\ DOMAIN Order = 1..Len(Order)
  /\ \A i \in 1..Len(Order) : Order[i] \in Nodes
  /\ \A n \in Nodes : \E i \in 1..Len(Order) : Order[i] = n
  /\ \A i, j \in 1..Len(Order) : Order[i] = Order[j] => i = j
<1>1. Order \in Seq(Nodes) /\ Order # <<>>
  BY GraphAssumption
<1>2. Len(Order) \in Nat \ {0} /\ DOMAIN Order = 1..Len(Order)
  BY ONLY <1>1, LenProperties, EmptySeq
<1> QED BY <1>2, GraphAssumption DEF Nodes

\* A list without repetition has as many places as members.
LEMMA InjectiveLists ==
  ASSUME NEW T, NEW s \in Seq(T), IsInjective(s)
  PROVE  IsFiniteSet(ToSet(s)) /\ Cardinality(ToSet(s)) = Len(s)
<1>1. /\ Len(s) \in Nat /\ DOMAIN s = 1..Len(s) /\ ToSet(s) = {s[i] : i \in 1..Len(s)}
      /\ \A i, j \in 1..Len(s) : s[i] = s[j] => i = j
  BY MembersOf
<1> DEFINE f == [i \in 1..Len(s) |-> s[i]]
<1>2. f \in Bijection(1..Len(s), ToSet(s))
  <2>1. \A i, j \in 1..Len(s) : f[i] = f[j] => i = j
    BY <1>1
  <2>2. f \in [1..Len(s) -> ToSet(s)] /\ \A e \in ToSet(s) : \E i \in 1..Len(s) : f[i] = e
    BY <1>1
  <2> HIDE DEF f
  <2> QED BY <2>1, <2>2, Fun_IsBij
<1>3. IsFiniteSet(1..Len(s)) /\ Cardinality(1..Len(s)) = Len(s)
  BY <1>1, FS_Interval
<1> HIDE DEF f
<1> QED BY <1>2, <1>3, FS_Bijection DEF ExistsBijection

\* InEdgeOrder lists a set of edges.
LEMMA EdgeOrderLists ==
  ASSUME NEW S \in SUBSET Edges
  PROVE  /\ InEdgeOrder(S) \in Seq(Edges)
         /\ ToSet(InEdgeOrder(S)) = S /\ IsInjective(InEdgeOrder(S))
<1> DEFINE n == Cardinality(S)
           Increasing(s) == \A i, j \in DOMAIN s : i < j => s[i] < s[j]
           w == [k \in 1..n |-> CHOOSE e \in S : Rank(S, e) = k]
           s == InEdgeOrder(S)
<1>1. Len(From) \in Nat /\ S \in SUBSET (1..Len(From))
  BY SomeEdges
<1>2. /\ IsFiniteSet(S) /\ n \in Nat
      /\ \A e, f \in S : e < f => Rank(S, e) < Rank(S, f)
      /\ \A m \in 1..n : \E e \in S : Rank(S, e) = m
  BY <1>1, RankProperties
<1>3. \A e \in S : e \in Nat
  BY <1>1
<1>4. \A k \in 1..n : w[k] \in S /\ Rank(S, w[k]) = k
  BY <1>2
<1>5. w \in [1..n -> S] /\ DOMAIN w = 1..n
  BY <1>4
<1> HIDE DEF w, n
<1>6. Increasing(w)
  <2> SUFFICES ASSUME NEW k \in 1..n, NEW l \in 1..n, k < l PROVE w[k] < w[l]
    BY <1>5
  <2>1. w[k] \in S /\ w[l] \in S /\ Rank(S, w[k]) = k /\ Rank(S, w[l]) = l
    BY <1>4
  <2>2. w[k] \in Nat /\ w[l] \in Nat /\ k \in Nat /\ l \in Nat
    BY <1>2, <1>3, <2>1
  <2>3. w[k] # w[l]
    BY <2>1, <2>2
  <2>4. ~(w[l] < w[k])
    BY <1>2, <2>1, <2>2
  <2> QED BY <2>2, <2>3, <2>4
<1>7. s \in [1..n -> S] /\ Increasing(s)
  <2>1. s = CHOOSE q \in [1..n -> S] : Increasing(q)
    BY DEF InEdgeOrder, n
  <2> HIDE DEF s, Increasing
  <2> QED BY <1>5, <1>6, <2>1
<1> HIDE DEF s
<1>8. \A i, j \in 1..n : s[i] = s[j] => i = j
  <2> SUFFICES ASSUME NEW i \in 1..n, NEW j \in 1..n, s[i] = s[j] PROVE i = j
    OBVIOUS
  <2>1. s[i] \in Nat /\ s[j] \in Nat /\ i \in Nat /\ j \in Nat
    BY <1>2, <1>3, <1>7
  <2>2. ~(i < j) /\ ~(j < i)
    BY <1>7, <2>1
  <2> QED BY <2>1, <2>2
<1>9. \A e \in S : \E i \in 1..n : s[i] = e
  <2>1. s \in Injection(1..n, S)
    BY <1>7, <1>8, Fun_IsInj
  <2>2. Cardinality(1..n) = Cardinality(S)
    BY <1>2, FS_Interval DEF n
  <2>3. s \in Surjection(1..n, S)
    BY <1>2, <2>1, <2>2, FS_Injection
  <2> QED BY <2>3 DEF Surjection
<1>10. s \in Seq(S) /\ Len(s) = n
  BY <1>2, <1>7, FunctionIsList
<1>11. ToSet(s) = S /\ IsInjective(s)
  <2>1. ToSet(s) = {s[i] : i \in 1..n} /\ (IsInjective(s) <=> \A i, j \in 1..n : s[i] = s[j] => i = j)
    BY <1>10, MembersOf
  <2>2. {s[i] : i \in 1..n} = S
    BY <1>7, <1>9
  <2> QED BY <1>8, <2>1, <2>2
<1>12. s \in Seq(Edges)
  BY <1>10, SeqMonotonic
<1> QED BY <1>11, <1>12 DEF s

\* What a key adds is an input, and without repeat a new one.
LEMMA PickSays ==
  ASSUME NEW inputs \in SUBSET Edges, NEW picked \in Seq(inputs), NEW key,
         NEW repeat \in BOOLEAN, ~repeat => IsInjective(picked)
  PROVE  /\ Pick(picked, key, repeat, inputs) \in Seq(inputs)
         /\ ~repeat => IsInjective(Pick(picked, key, repeat, inputs))
<1> DEFINE open == (key \cap inputs) \ IF repeat THEN {} ELSE ToSet(picked)
           e == CHOOSE e \in open : \A f \in open : e <= f
<1>1. Pick(picked, key, repeat, inputs) = IF open = {} THEN picked ELSE Append(picked, e)
  BY DEF Pick
<1>2. open \subseteq inputs /\ (~repeat => open \cap ToSet(picked) = {})
  OBVIOUS
<1>3. ASSUME open # {} PROVE e \in open
  <2>1. open \in SUBSET Nat
    <3>1. Len(From) \in Nat /\ Edges = 1..Len(From)
      BY SomeEdges
    <3> HIDE DEF open
    <3> QED BY <1>2, <3>1
  <2> HIDE DEF open
  <2>2. \E d \in open : \A f \in open : d <= f
    BY <1>3, <2>1, LeastNat
  <2> QED BY <2>2
<1> HIDE DEF open, e
<1>4. ASSUME open # {}
      PROVE  /\ Append(picked, e) \in Seq(inputs)
             /\ ~repeat => IsInjective(Append(picked, e))
  <2>1. e \in inputs /\ (~repeat => e \notin ToSet(picked))
    BY <1>2, <1>3, <1>4
  <2> QED BY <2>1, AppendMembers
<1> QED BY <1>1, <1>4

\* The rounds exist, and what they have picked are inputs.
LEMMA PickRoundsSay ==
  ASSUME NEW ordering \in DataOrderings, NEW inputs \in SUBSET Edges
  PROVE  LET picked == PickRounds(ordering, inputs)[Len(ordering.order)]
         IN  picked \in Seq(inputs) /\ (~ordering.repeat => IsInjective(picked))
<1> DEFINE order == ordering.order
           repeat == ordering.repeat
           n == Len(order)
           S == {q \in Seq(inputs) : ~repeat => IsInjective(q)}
           base == <<>>
           next(q, i) == Pick(q, order[i], repeat, inputs)
           advance == [p \in S \X (1..n) |-> next(p[1], p[2])]
           Rounds(f) == [i \in 0..n |-> IF i = 0 THEN <<>> ELSE next(f[i - 1], i)]
           v == PickRounds(ordering, inputs)
<1>1. order \in Seq(SUBSET Edges) /\ repeat \in BOOLEAN
  BY DEF DataOrderings
<1>2. v = CHOOSE f : f = Rounds(f)
  BY DEF PickRounds
<1> HIDE DEF order, repeat, v
<1>3. n \in Nat
  BY <1>1, LenProperties
<1>4. base \in S /\ base = <<>>
  BY MembersOfNone
<1>5. \A q \in S, i \in 1..n : next(q, i) \in S
  BY <1>1, PickSays
<1> HIDE DEF n, S, base, next
<1>6. PICK g : Iterates(g, S, base, n, advance)
  <2>1. advance \in [S \X (1..n) -> S]
    BY <1>5
  <2> HIDE DEF advance
  <2> QED BY <1>3, <1>4, <2>1, IteratesExists
<1>7. \A i \in 0..n : g[i] = IF i = 0 THEN <<>> ELSE next(g[i - 1], i)
  <2> SUFFICES ASSUME NEW i \in 0..n PROVE g[i] = IF i = 0 THEN <<>> ELSE next(g[i - 1], i)
    OBVIOUS
  <2>1. CASE i = 0
    BY <1>4, <1>6, <2>1 DEF Iterates
  <2>2. CASE i # 0
    <3>1. i \in 1..n /\ i - 1 \in 0..n
      BY <1>3, <2>2
    <3>2. g[i - 1] \in S /\ g[i] = advance[<<g[i - 1], i>>]
      BY <1>6, <3>1 DEF Iterates
    <3> QED BY <2>2, <3>1, <3>2
  <2> QED BY <2>1, <2>2
<1>8. g = Rounds(g)
  BY <1>6, <1>7 DEF Iterates
<1>9. v = Rounds(v)
  BY <1>2, <1>8
<1>10. v[0] = <<>> /\ \A i \in 1..n : v[i] = next(v[i - 1], i)
  BY <1>3, <1>9
<1> DEFINE T == {i \in Nat : i <= n => v[i] \in S}
<1>11. 0 \in T
  BY <1>4, <1>10
<1>12. ASSUME NEW i \in T PROVE i + 1 \in T
  <2> SUFFICES ASSUME i + 1 <= n PROVE v[i + 1] \in S
    OBVIOUS
  <2>1. i \in Nat /\ v[i] \in S /\ i + 1 \in 1..n /\ (i + 1) - 1 = i
    BY <1>3
  <2>2. v[i + 1] = next(v[(i + 1) - 1], i + 1)
    BY <1>10, <2>1
  <2> QED BY <1>5, <2>1, <2>2
<1>13. T = Nat
  <2>1. T \in SUBSET Nat
    OBVIOUS
  <2> HIDE DEF T
  <2> QED BY <1>11, <1>12, <2>1, InductOn
<1>14. v[n] \in S
  BY <1>3, <1>13
<1>15. v[n] \in Seq(inputs) /\ (~repeat => IsInjective(v[n]))
  BY <1>14 DEF S
<1> QED BY <1>15 DEF v, n, order, repeat

\* Putting inputs in order loses none, and without repeat adds none.
LEMMA OrderedSays ==
  ASSUME NEW ordering \in DataOrderings, NEW inputs \in SUBSET Edges
  PROVE  /\ Ordered(ordering, inputs) \in Seq(Edges)
         /\ ToSet(Ordered(ordering, inputs)) = inputs
         /\ ~ordering.repeat => IsInjective(Ordered(ordering, inputs))
<1> DEFINE p == PickRounds(ordering, inputs)[Len(ordering.order)]
           rest == inputs \ IF ordering.repeat THEN {} ELSE ToSet(p)
           t == InEdgeOrder(rest)
           r == Ordered(ordering, inputs)
<1>1. p \in Seq(inputs) /\ (~ordering.repeat => IsInjective(p))
  BY PickRoundsSay
<1>2. r = p \o t
  BY DEF Ordered
<1> HIDE DEF p, r
<1>3. ToSet(p) \subseteq inputs /\ rest \in SUBSET Edges
  BY <1>1, MembersOf
<1>4. /\ inputs = ToSet(p) \cup rest
      /\ ~ordering.repeat => ToSet(p) \cap rest = {}
  BY <1>3
<1>5. p \in Seq(Edges)
  BY <1>1, SeqMonotonic
<1> HIDE DEF rest
<1>6. t \in Seq(Edges) /\ ToSet(t) = rest /\ IsInjective(t)
  BY <1>3, EdgeOrderLists
<1> HIDE DEF t
<1>7. /\ Len(p) \in Nat /\ ToSet(p) = {p[i] : i \in 1..Len(p)}
      /\ IsInjective(p) => \A i, j \in 1..Len(p) : p[i] = p[j] => i = j
  BY <1>5, MembersOf
<1>8. /\ Len(t) \in Nat /\ ToSet(t) = {t[i] : i \in 1..Len(t)}
      /\ \A i, j \in 1..Len(t) : t[i] = t[j] => i = j
  BY <1>6, MembersOf
<1>9. /\ r \in Seq(Edges) /\ Len(r) = Len(p) + Len(t)
      /\ \A i \in 1..Len(p) + Len(t) : r[i] = IF i <= Len(p) THEN p[i] ELSE t[i - Len(p)]
  BY <1>2, <1>5, <1>6, ConcatProperties
<1>10. /\ \A i \in 1..Len(p) : i \in 1..Len(r) /\ r[i] = p[i]
       /\ \A i \in 1..Len(t) : i + Len(p) \in 1..Len(r) /\ r[i + Len(p)] = t[i]
       /\ \A i \in 1..Len(r) :
            \/ i \in 1..Len(p) /\ r[i] = p[i]
            \/ i > Len(p) /\ i - Len(p) \in 1..Len(t) /\ r[i] = t[i - Len(p)]
  <2>1. \A i \in 1..Len(t) : (i + Len(p)) - Len(p) = i
    BY <1>7, <1>8
  <2> QED BY <1>7, <1>8, <1>9, <2>1
<1>11. ToSet(r) = {r[i] : i \in 1..Len(r)}
  BY <1>9, MembersOf
<1>12. ToSet(r) = inputs
  <2>1. ToSet(r) \subseteq ToSet(p) \cup ToSet(t)
    BY <1>7, <1>8, <1>10, <1>11
  <2>2. ToSet(p) \cup ToSet(t) \subseteq ToSet(r)
    <3>1. ToSet(p) \subseteq ToSet(r)
      BY <1>7, <1>10, <1>11
    <3>2. ASSUME NEW e \in ToSet(t) PROVE e \in ToSet(r)
      <4>1. PICK i \in 1..Len(t) : e = t[i]
        BY <1>8
      <4>2. i + Len(p) \in 1..Len(r) /\ r[i + Len(p)] = e
        BY <1>10, <4>1
      <4> QED BY <1>11, <4>2
    <3> QED BY <3>1, <3>2
  <2> QED BY <1>4, <1>6, <2>1, <2>2
<1>13. ASSUME ~ordering.repeat PROVE IsInjective(r)
  <2>1. \A i, j \in 1..Len(p) : p[i] = p[j] => i = j
    BY <1>1, <1>7, <1>13
  <2>2. \A i \in 1..Len(p), j \in 1..Len(t) : p[i] # t[j]
    BY <1>4, <1>6, <1>7, <1>8, <1>13
  <2>3. ASSUME NEW i \in 1..Len(r), NEW j \in 1..Len(r), r[i] = r[j] PROVE i = j
    <3>1. CASE i \in 1..Len(p) /\ j \in 1..Len(p) /\ r[i] = p[i] /\ r[j] = p[j]
      BY <2>1, <2>3, <3>1
    <3>2. CASE /\ i - Len(p) \in 1..Len(t) /\ r[i] = t[i - Len(p)]
               /\ j - Len(p) \in 1..Len(t) /\ r[j] = t[j - Len(p)]
      <4>1. i - Len(p) = j - Len(p)
        BY <1>8, <2>3, <3>2
      <4>2. i \in Int /\ j \in Int
        OBVIOUS
      <4> QED BY <1>7, <4>1, <4>2
    <3> QED BY <1>10, <2>2, <2>3, <3>1, <3>2
  <2> QED BY <1>9, <2>3, MembersOf
<1> QED BY <1>9, <1>12, <1>13 DEF r

\* An entry is added to a list of executed nodes.
LEMMA AppendedSays ==
  ASSUME NEW l, ListShaped(l), NEW n \in Nodes, NEW failed \in BOOLEAN
  PROVE  /\ ListShaped(Appended(l, n, failed))
         /\ Executed(Appended(l, n, failed).executed) = Executed(l.executed) \cup {n}
         /\ l.results \subseteq Appended(l, n, failed).results
         /\ ~failed => n \in Appended(l, n, failed).results
         /\ Len(l.executed) \in Nat
         /\ Len(Appended(l, n, failed).executed) = Len(l.executed) + 1
         /\ \A i \in 1..Len(l.executed) : Appended(l, n, failed).executed[i] = l.executed[i]
         /\ Appended(l, n, failed).executed[Len(l.executed) + 1] = [node |-> n, failed |-> failed]
<1> DEFINE old == l.executed
           e == [node |-> n, failed |-> failed]
           new == Append(old, e)
<1>1. old \in Seq(Entries) /\ e \in Entries /\ l.results = Completed(old)
  BY DEF ListShaped, Entries
<1>2. Appended(l, n, failed).executed = new
      /\ Appended(l, n, failed).results = IF failed THEN l.results ELSE l.results \cup {n}
  BY DEF Appended
<1>3. e.node = n /\ e.failed = failed
  OBVIOUS
<1> HIDE DEF old, e
<1>4. /\ Len(old) \in Nat /\ DOMAIN old = 1..Len(old)
      /\ new \in Seq(Entries) /\ Len(new) = Len(old) + 1
      /\ \A i \in 1..Len(old) : new[i] = old[i]
      /\ new[Len(old) + 1] = e
  BY ONLY <1>1, LenProperties, AppendProperties
<1>5. DOMAIN new = 1..(Len(old) + 1)
  <2> HIDE DEF new
  <2> QED BY ONLY <1>4, LenProperties
<1> HIDE DEF new
<1>6. \A i \in 1..(Len(old) + 1) : i \in 1..Len(old) \/ i = Len(old) + 1
  BY <1>4
<1>7. Executed(new) = Executed(old) \cup {n}
  BY <1>3, <1>4, <1>5, <1>6 DEF Executed
<1>8. Completed(new) = IF failed THEN Completed(old) ELSE Completed(old) \cup {n}
  BY <1>3, <1>4, <1>5, <1>6 DEF Completed
<1> QED BY <1>1, <1>2, <1>4, <1>7, <1>8 DEF ListShaped, old, e

\* A queue with other contents or counts.
LEMMA OtherCounters ==
  ASSUME NEW q \in Counters
  PROVE  /\ \A items \in Seq(Executions) : [q EXCEPT !.items = items] \in Counters
         /\ \A n \in Nat : [q EXCEPT !.processed = n] \in Counters
         /\ \A n \in Nat : [q EXCEPT !.dropped = n] \in Counters
<1> DEFINE S == Seq(Executions)
<1>1. Counters = [items : S, max : Nat \ {0}, processed : Nat, dropped : Nat]
  BY DEF Counters
<1> HIDE DEF S
<1>2. \A items \in S : [q EXCEPT !.items = items] \in Counters
  BY <1>1
<1>3. /\ \A n \in Nat : [q EXCEPT !.processed = n] \in Counters
      /\ \A n \in Nat : [q EXCEPT !.dropped = n] \in Counters
  BY <1>1
<1> QED BY <1>2, <1>3 DEF S

\* One more item in a queue, whether the oldest is dropped for it or not.
LEMMA EnqueueCounts ==
  ASSUME NEW q \in Counters, NEW x \in Executions
  PROVE  Enqueue(q, x) \in Counters /\ Taken(Enqueue(q, x)) = Taken(q) + 1
<1> DEFINE items == q.items
<1>1. /\ items \in Seq(Executions) /\ q.max \in Nat \ {0}
      /\ q.processed \in Nat /\ q.dropped \in Nat
      /\ q = [items |-> q.items, max |-> q.max, processed |-> q.processed, dropped |-> q.dropped]
  BY DEF Counters
<1>2. CASE Len(items) >= q.max /\ items # <<>>
  <2> DEFINE kept == Append(Tail(items), x)
  <2>1. Enqueue(q, x) = [q EXCEPT !.items = kept, !.dropped = @ + 1]
    BY <1>2 DEF Enqueue
  <2> HIDE DEF items
  <2>2. Tail(items) \in Seq(Executions) /\ Len(Tail(items)) = Len(items) - 1 /\ Len(items) \in Nat
    BY ONLY <1>1, <1>2, HeadTailProperties, LenProperties
  <2>3. kept \in Seq(Executions) /\ Len(kept) = Len(items)
    BY ONLY <2>2, AppendProperties, x \in Executions
  <2> HIDE DEF kept
  <2>4. /\ Enqueue(q, x).items = kept /\ Enqueue(q, x).max = q.max
        /\ Enqueue(q, x).processed = q.processed /\ Enqueue(q, x).dropped = q.dropped + 1
    BY <1>1, <2>1
  <2>5. Enqueue(q, x) \in Counters
    <3> DEFINE swapped == [q EXCEPT !.items = kept]
    <3>1. swapped \in Counters
      BY <2>3, OtherCounters
    <3>2. Enqueue(q, x) = [swapped EXCEPT !.dropped = q.dropped + 1]
      BY <2>1
    <3> HIDE DEF swapped
    <3> QED BY <1>1, <3>1, <3>2, OtherCounters
  <2>6. Taken(q) = Len(items) + q.processed + q.dropped
    BY DEF Taken, items
  <2>7. Taken(Enqueue(q, x)) = Len(items) + q.processed + (q.dropped + 1)
    BY <2>3, <2>4 DEF Taken
  <2> QED BY <1>1, <2>2, <2>5, <2>6, <2>7
<1>3. CASE ~(Len(items) >= q.max /\ items # <<>>)
  <2> DEFINE kept == Append(items, x)
  <2>1. Enqueue(q, x) = [q EXCEPT !.items = kept]
    BY <1>3 DEF Enqueue
  <2> HIDE DEF items
  <2>2. kept \in Seq(Executions) /\ Len(kept) = Len(items) + 1 /\ Len(items) \in Nat
    BY ONLY <1>1, AppendProperties, LenProperties, x \in Executions
  <2> HIDE DEF kept
  <2>3. /\ Enqueue(q, x).items = kept /\ Enqueue(q, x).max = q.max
        /\ Enqueue(q, x).processed = q.processed /\ Enqueue(q, x).dropped = q.dropped
    BY <1>1, <2>1
  <2>4. Enqueue(q, x) \in Counters
    <3>1. [q EXCEPT !.items = kept] \in Counters
      BY <2>2, OtherCounters
    <3> QED BY <2>1, <3>1
  <2>5. Taken(q) = Len(items) + q.processed + q.dropped
    BY DEF Taken, items
  <2>6. Taken(Enqueue(q, x)) = Len(items) + 1 + q.processed + q.dropped
    BY <2>2, <2>3 DEF Taken
  <2> QED BY <1>1, <2>2, <2>4, <2>5, <2>6
<1> QED BY <1>2, <1>3

\* What leaves a queue is counted as processed.
LEMMA DrainedCounts ==
  ASSUME NEW q \in Counters
  PROVE  LET drained == [q EXCEPT !.processed = @ + Len(q.items), !.items = <<>>]
         IN  drained \in Counters /\ Taken(drained) = Taken(q)
<1> DEFINE drained == [q EXCEPT !.processed = @ + Len(q.items), !.items = <<>>]
<1>1. /\ q.items \in Seq(Executions) /\ q.max \in Nat \ {0}
      /\ q.processed \in Nat /\ q.dropped \in Nat
  BY DEF Counters
<1>2. Len(q.items) \in Nat
  BY ONLY <1>1, LenProperties
<1>3. <<>> \in Seq(Executions) /\ Len(<<>>) = 0
  BY EmptySeq
<1>4. drained \in Counters
  <2> DEFINE n == q.processed + Len(q.items)
             later == [q EXCEPT !.processed = n]
  <2>1. n \in Nat
    BY <1>1, <1>2
  <2> HIDE DEF n
  <2>2. later \in Counters
    BY <1>1, <2>1, OtherCounters
  <2>3. [later EXCEPT !.items = <<>>] \in Counters
    <3> HIDE DEF later
    <3> QED BY <1>1, <1>3, <2>2, OtherCounters
  <2>4. drained = [later EXCEPT !.items = <<>>]
    BY DEF n
  <2> QED BY <2>3, <2>4
<1>5. /\ drained.items = <<>> /\ drained.processed = q.processed + Len(q.items)
      /\ drained.dropped = q.dropped
  BY DEF Counters
<1> HIDE DEF drained
<1>6. Taken(drained) = Taken(q)
  BY <1>1, <1>2, <1>3, <1>5 DEF Taken
<1> QED BY <1>4, <1>6 DEF drained

LEMMA CountersOf ==
  ASSUME NEW q \in Counters
  PROVE  Taken(q) \in Nat /\ Len(q.items) \in Nat
<1>1. q.items \in Seq(Executions) /\ q.processed \in Nat /\ q.dropped \in Nat
  BY DEF Counters
<1>2. Len(q.items) \in Nat
  BY ONLY <1>1, LenProperties
<1> QED BY <1>1, <1>2 DEF Taken

\* The node of an execution takes what is in the queues of its incoming edges.
LEMMA DrainKeepsCount ==
  ASSUME NEW queues, NEW traversed, Counted(queues, traversed), NEW n
  PROVE  Counted(Drain(queues, n), traversed) /\ DOMAIN Drain(queues, n) = DOMAIN queues
<1> DEFINE d == Drain(queues, n)
<1>1. DOMAIN d = DOMAIN queues
  BY DEF Drain
<1>2. ASSUME NEW e \in DOMAIN queues
      PROVE  d[e] \in Counters /\ Taken(d[e]) = Taken(queues[e])
  <2>1. queues[e] \in Counters
    BY DEF Counted
  <2>2. CASE To[e] = n
    <3>1. d[e] = [queues[e] EXCEPT !.processed = @ + Len(queues[e].items), !.items = <<>>]
      BY <2>2 DEF Drain
    <3> HIDE DEF d
    <3> QED BY <2>1, <3>1, DrainedCounts
  <2>3. CASE To[e] # n
    BY <2>1, <2>3 DEF Drain
  <2> QED BY <2>2, <2>3
<1> HIDE DEF d
<1>3. Counted(d, traversed)
  BY <1>1, <1>2 DEF Counted
<1> QED BY <1>1, <1>3 DEF d

\* Routing puts one item on every edge that is passed and counts it there.
LEMMA TraversedCounts ==
  ASSUME NEW queues, NEW traversed, Counted(queues, traversed), Cyclic \subseteq DOMAIN queues,
         NEW x \in Executions, NEW passed \in SUBSET Edges
  PROVE  Counted([e \in DOMAIN queues |-> IF e \in passed THEN Enqueue(queues[e], x) ELSE queues[e]],
                 [e \in Edges |-> IF e \in passed THEN traversed[e] + 1 ELSE traversed[e]])
<1> DEFINE q == [e \in DOMAIN queues |-> IF e \in passed THEN Enqueue(queues[e], x) ELSE queues[e]]
           t == [e \in Edges |-> IF e \in passed THEN traversed[e] + 1 ELSE traversed[e]]
<1>1. DOMAIN q = DOMAIN queues /\ DOMAIN queues \subseteq Edges
  BY DEF Counted
<1>2. t \in [Edges -> Nat]
  BY DEF Counted
<1>3. \A e \in DOMAIN queues : queues[e] \in Counters /\ Taken(queues[e]) \in Nat
  BY CountersOf DEF Counted
<1>4. ASSUME NEW e \in DOMAIN queues
      PROVE  /\ q[e] \in Counters
             /\ Taken(q[e]) = IF e \in passed THEN Taken(queues[e]) + 1 ELSE Taken(queues[e])
  BY <1>3, EnqueueCounts
<1>5. \A e \in DOMAIN queues : t[e] = IF e \in passed THEN traversed[e] + 1 ELSE traversed[e]
  BY <1>1
<1>6. \A e \in DOMAIN queues : traversed[e] \in Nat
  BY <1>1 DEF Counted
<1> HIDE DEF q, t
<1>7. \A e \in DOMAIN queues : Taken(q[e]) <= t[e] /\ (e \in Cyclic => Taken(q[e]) = t[e])
  BY <1>3, <1>4, <1>5, <1>6 DEF Counted
<1>8. Counted(q, t)
  BY <1>1, <1>2, <1>4, <1>7 DEF Counted
<1> QED BY <1>8 DEF q, t

LEMMA EmptyQueueCounts ==
  ASSUME NEW graph \in Graphs, NEW e \in Edges
  PROVE  EmptyQueue(graph, e) \in Counters /\ Taken(EmptyQueue(graph, e)) = 0
<1>1. graph.depth[e] \in Nat \ {0}
  BY DEF Graphs
<1>2. <<>> \in Seq(Executions) /\ Len(<<>>) = 0
  BY EmptySeq
<1>3. EmptyQueue(graph, e) \in Counters
  BY <1>1, <1>2 DEF EmptyQueue, Counters
<1> QED BY <1>2, <1>3 DEF EmptyQueue, Taken

LEMMA NewQueuesCount ==
  ASSUME NEW graph \in Graphs
  PROVE  /\ Counted(NewQueues(graph), [e \in Edges |-> 0])
         /\ Cyclic \subseteq DOMAIN NewQueues(graph)
<1> DEFINE q == NewQueues(graph)
<1>1. DOMAIN q = Cyclic \cup graph.queued /\ DOMAIN q \subseteq Edges
  BY GraphAssumption DEF NewQueues, Graphs
<1>2. \A e \in DOMAIN q : q[e] \in Counters /\ Taken(q[e]) = 0
  BY <1>1, EmptyQueueCounts DEF NewQueues
<1> HIDE DEF q
<1>3. Counted(q, [e \in Edges |-> 0])
  BY <1>1, <1>2 DEF Counted
<1> QED BY <1>1, <1>3 DEF q

\* A restored queue has the bound of the graph and keeps its contents and counts.
LEMMA RestoredQueuesCount ==
  ASSUME NEW graph \in Graphs, NEW queues, NEW traversed, Counted(queues, traversed)
  PROVE  /\ Counted(RestoreQueues(graph, queues), traversed)
         /\ Cyclic \subseteq DOMAIN RestoreQueues(graph, queues)
<1> DEFINE r == RestoreQueues(graph, queues)
<1>1. DOMAIN NewQueues(graph) = Cyclic \cup graph.queued /\ DOMAIN NewQueues(graph) \subseteq Edges
  BY GraphAssumption DEF NewQueues, Graphs
<1>2. DOMAIN r = DOMAIN NewQueues(graph) \cup DOMAIN queues /\ DOMAIN r \subseteq Edges
  BY <1>1 DEF RestoreQueues, Counted
<1>3. ASSUME NEW e \in DOMAIN r
      PROVE  /\ r[e] \in Counters
             /\ Taken(r[e]) = IF e \in DOMAIN queues THEN Taken(queues[e]) ELSE 0
  <2>1. r[e] = IF e \notin DOMAIN queues THEN EmptyQueue(graph, e)
               ELSE IF e \in DOMAIN NewQueues(graph) THEN [queues[e] EXCEPT !.max = graph.depth[e]]
               ELSE queues[e]
    BY <1>2 DEF RestoreQueues
  <2>2. e \in Edges /\ graph.depth[e] \in Nat \ {0}
    BY <1>2 DEF Graphs
  <2> HIDE DEF r
  <2>3. CASE e \notin DOMAIN queues
    BY <2>1, <2>2, <2>3, EmptyQueueCounts
  <2>4. CASE e \in DOMAIN queues
    <3>1. queues[e] \in Counters
      BY <2>4 DEF Counted
    <3>2. /\ [queues[e] EXCEPT !.max = graph.depth[e]] \in Counters
          /\ Taken([queues[e] EXCEPT !.max = graph.depth[e]]) = Taken(queues[e])
      BY <2>2, <3>1 DEF Counters, Taken
    <3> QED BY <2>1, <2>4, <3>1, <3>2
  <2> QED BY <2>3, <2>4
<1>4. \A e \in DOMAIN r \ DOMAIN queues : traversed[e] \in Nat /\ (e \in Cyclic => traversed[e] = 0)
  BY <1>2 DEF Counted
<1> HIDE DEF r
<1>5. \A e \in DOMAIN r : Taken(r[e]) <= traversed[e] /\ (e \in Cyclic => Taken(r[e]) = traversed[e])
  BY <1>3, <1>4 DEF Counted
<1>6. Counted(r, traversed)
  BY <1>2, <1>3, <1>5 DEF Counted
<1> QED BY <1>1, <1>2, <1>6 DEF r

\* What the steps of an execution change in a state.
LEMMA BeginSays ==
  ASSUME NEW s, StateShaped(s), NEW x, NEW n
  PROVE  LET b == Begin(s, x, n)
         IN  /\ StateShaped(b)
             /\ b.graph = s.graph /\ b.pending = s.pending /\ b.current = {n}
             /\ b.queues = Drain(s.queues, n) /\ b.traversed = s.traversed
             /\ b.joined = s.joined /\ b.checkpoints = s.checkpoints
  BY DEF StateShaped, Fields, Begin

LEMMA BegunHistory ==
  ASSUME NEW s, StateShaped(s), NEW x, NEW n
  PROVE  LET h == Begin(s, x, n).history
         IN  /\ DOMAIN h = DOMAIN s.history \cup {<<x, n>>}
             /\ h[<<x, n>>] = [status |-> "running", held |-> TRUE]
             /\ \A id \in DOMAIN s.history : id # <<x, n>> => h[id] = s.history[id]
<1> DEFINE h == Begin(s, x, n).history
<1>1. h = [id \in DOMAIN s.history \cup {<<x, n>>} |->
             IF id = <<x, n>> THEN [status |-> "running", held |-> TRUE] ELSE s.history[id]]
  BY DEF StateShaped, Fields, Begin
<1> HIDE DEF h
<1>2. /\ DOMAIN h = DOMAIN s.history \cup {<<x, n>>}
      /\ h[<<x, n>>] = [status |-> "running", held |-> TRUE]
      /\ \A id \in DOMAIN s.history : id # <<x, n>> => h[id] = s.history[id]
  BY <1>1
<1> QED BY <1>2 DEF h

LEMMA SettleSays ==
  ASSUME NEW s, StateShaped(s), NEW x, NEW n, NEW status
  PROVE  LET t == Settle(s, x, n, status)
         IN  /\ StateShaped(t)
             /\ t.graph = s.graph /\ t.pending = s.pending \ {n} /\ t.current = {}
             /\ t.queues = s.queues /\ t.traversed = s.traversed
             /\ t.joined = s.joined /\ t.checkpoints = s.checkpoints
  BY DEF StateShaped, Fields, Settle

LEMMA SettledHistory ==
  ASSUME NEW s, StateShaped(s), NEW x, NEW n, NEW status
  PROVE  Settle(s, x, n, status).history =
           [id \in DOMAIN s.history |->
              IF id = <<x, n>> /\ s.history[id].held
                THEN [s.history[id] EXCEPT !.status = status] ELSE s.history[id]]
  BY DEF StateShaped, Fields, Settle

LEMMA TraverseKeeps ==
  ASSUME NEW s, StateShaped(s), NEW x, NEW n, NEW last
  PROVE  LET t == Traverse(s, x, n, last)
         IN  /\ StateShaped(t)
             /\ t.graph = s.graph /\ t.pending = s.pending /\ t.current = s.current
             /\ t.history = s.history /\ t.joined = s.joined /\ t.checkpoints = s.checkpoints
  BY DEF StateShaped, Fields, Traverse

LEMMA TraverseSays ==
  ASSUME NEW s, StateShaped(s), NEW x, NEW n, NEW last
  PROVE  LET t == Traverse(s, x, n, last)
             passed == {e \in Outgoing(n) : e <= last}
         IN  /\ t.queues = [e \in DOMAIN s.queues |->
                              IF e \in passed THEN Enqueue(s.queues[e], x) ELSE s.queues[e]]
             /\ t.traversed = [e \in Edges |->
                                 IF e \in passed THEN s.traversed[e] + 1 ELSE s.traversed[e]]
  BY DEF StateShaped, Fields, Traverse

LEMMA RouteSays ==
  ASSUME NEW s, StateShaped(s), NEW x, NEW n, NEW arrays
  PROVE  LET r == Route(s, x, n, arrays)
             t == Traverse(s, x, n, Cardinality(Edges))
         IN  /\ StateShaped(r)
             /\ r.graph = t.graph /\ r.pending = t.pending /\ r.current = t.current
             /\ r.history = t.history /\ r.queues = t.queues /\ r.traversed = t.traversed
             /\ r.joined = t.joined
             /\ r.checkpoints = s.checkpoints \cup
                  {[edge |-> e, snapshot |-> Snapshot(Traverse(s, x, n, e), arrays, Live)] :
                     e \in Outgoing(n) \cap s.graph.checkpoint}
<1> DEFINE t == Traverse(s, x, n, Cardinality(Edges))
           new == {[edge |-> e, snapshot |-> Snapshot(Traverse(s, x, n, e), arrays, Live)] :
                     e \in Outgoing(n) \cap s.graph.checkpoint}
<1>1. StateShaped(t) /\ t.checkpoints = s.checkpoints
  BY TraverseKeeps
<1>2. Route(s, x, n, arrays) = [t EXCEPT !.checkpoints = t.checkpoints \cup new]
  BY DEF Route
<1> HIDE DEF t, new
<1>3. LET r == [t EXCEPT !.checkpoints = t.checkpoints \cup new]
      IN  /\ StateShaped(r)
          /\ r.graph = t.graph /\ r.pending = t.pending /\ r.current = t.current
          /\ r.history = t.history /\ r.queues = t.queues /\ r.traversed = t.traversed
          /\ r.joined = t.joined /\ r.checkpoints = t.checkpoints \cup new
  BY <1>1 DEF StateShaped, Fields
<1> QED BY <1>1, <1>2, <1>3 DEF t, new

LEMMA SnapshotSays ==
  ASSUME NEW s, NEW l, NEW g
  PROVE  LET t == Snapshot(s, l, g)
         IN  /\ t.graph = g /\ t.pending = s.pending /\ t.current = s.current
             /\ t.queues = s.queues /\ t.traversed = s.traversed /\ t.joined = s.joined
             /\ t.executed = l.executed /\ t.results = l.results
  BY DEF Snapshot

LEMMA StatesAndSnapshots ==
  ASSUME NEW s, NEW l
  PROVE  /\ SnapshotSound(Snapshot(s, l, s.graph)) <=> StateSound(s, l)
         /\ StateSound(s, l) /\ s.graph # NoGraph => SnapshotSound(Snapshot(s, l, Live))
         /\ NodesKept(Snapshot(s, l, s.graph)) <=>
              (s.graph # NoGraph => Nodes \subseteq s.pending \cup Executed(l.executed))
         /\ NodesKept(Snapshot(s, l, Live)) <=> Nodes \subseteq s.pending \cup Executed(l.executed)
<1>1. ASSUME NEW g, g # NoGraph => s.graph # NoGraph, s.graph # NoGraph => g # NoGraph
      PROVE  SnapshotSound(Snapshot(s, l, g)) <=> StateSound(s, l)
  <2> DEFINE t == Snapshot(s, l, g)
  <2>1. /\ t.graph = g /\ t.pending = s.pending /\ t.current = s.current
        /\ t.queues = s.queues /\ t.traversed = s.traversed /\ t.joined = s.joined
        /\ t.executed = l.executed /\ t.results = l.results
    BY SnapshotSays
  <2> HIDE DEF t
  <2>2. SnapshotSound(t) <=> StateSound(s, l)
    BY <1>1, <2>1 DEF SnapshotSound, StateSound, ListShaped
  <2> QED BY <2>2 DEF t
<1>2. StateSound(s, l) /\ s.graph # NoGraph => SnapshotSound(Snapshot(s, l, Live))
  BY <1>1, Placeholders
<1>3. /\ NodesKept(Snapshot(s, l, s.graph)) <=>
           (s.graph # NoGraph => Nodes \subseteq s.pending \cup Executed(l.executed))
      /\ NodesKept(Snapshot(s, l, Live)) <=> Nodes \subseteq s.pending \cup Executed(l.executed)
  BY SnapshotSays, Placeholders DEF NodesKept
<1> QED BY <1>1, <1>2, <1>3

\* The next node begins.
LEMMA BeginSound ==
  ASSUME NEW s, StateShaped(s), NEW l, StateSound(s, l), NEW x, NEW n \in Nodes
  PROVE  StateSound(Begin(s, x, n), l)
<1> DEFINE b == Begin(s, x, n)
<1>1. /\ b.graph = s.graph /\ b.pending = s.pending /\ b.current = {n}
      /\ b.queues = Drain(s.queues, n) /\ b.traversed = s.traversed /\ b.joined = s.joined
  BY BeginSays
<1>2. Counted(Drain(s.queues, n), s.traversed) /\ DOMAIN Drain(s.queues, n) = DOMAIN s.queues
  <2>1. Counted(s.queues, s.traversed)
    BY DEF StateSound
  <2> QED BY <2>1, DrainKeepsCount
<1> HIDE DEF b
<1>3. StateSound(b, l)
  BY <1>1, <1>2 DEF StateSound
<1> QED BY <1>3 DEF b

\* A node is settled: out of the pending ones and in the list.
LEMMA SettleSound ==
  ASSUME NEW s, StateShaped(s), NEW l, StateSound(s, l), NEW x, NEW n \in Nodes,
         NEW failed \in BOOLEAN, NEW status
  PROVE  StateSound(Settle(s, x, n, status), Appended(l, n, failed))
<1> DEFINE t == Settle(s, x, n, status)
           new == Appended(l, n, failed)
<1>1. /\ t.graph = s.graph /\ t.pending = s.pending \ {n} /\ t.current = {}
      /\ t.queues = s.queues /\ t.traversed = s.traversed /\ t.joined = s.joined
  BY SettleSays
<1>2. /\ ListShaped(new) /\ Executed(new.executed) = Executed(l.executed) \cup {n}
      /\ l.results \subseteq new.results
  <2>1. ListShaped(l)
    BY DEF StateSound
  <2> QED BY <2>1, AppendedSays
<1> HIDE DEF t, new
<1>3. \A m \in DOMAIN t.joined : Fed(m, t.joined[m], new.results)
  BY <1>1, <1>2 DEF StateSound, Fed
<1>4. StateSound(t, new)
  BY <1>1, <1>2, <1>3 DEF StateSound
<1> QED BY <1>4 DEF t, new

\* Any number of the outgoing edges are routed.
LEMMA TraverseSound ==
  ASSUME NEW s, StateShaped(s), NEW l, StateSound(s, l), s.graph # NoGraph,
         NEW x \in Executions, NEW n, NEW last
  PROVE  StateSound(Traverse(s, x, n, last), l)
<1> DEFINE t == Traverse(s, x, n, last)
           passed == {e \in Outgoing(n) : e <= last}
           queues == [e \in DOMAIN s.queues |->
                        IF e \in passed THEN Enqueue(s.queues[e], x) ELSE s.queues[e]]
           traversed == [e \in Edges |->
                           IF e \in passed THEN s.traversed[e] + 1 ELSE s.traversed[e]]
<1>1. /\ t.graph = s.graph /\ t.pending = s.pending /\ t.current = s.current /\ t.joined = s.joined
  BY TraverseKeeps
<1>2. t.queues = queues /\ t.traversed = traversed
  BY TraverseSays
<1>3. Counted(queues, traversed) /\ DOMAIN queues = DOMAIN s.queues
  <2>1. passed \in SUBSET Edges
    BY DEF Outgoing
  <2>2. Counted(s.queues, s.traversed) /\ Cyclic \subseteq DOMAIN s.queues
    BY DEF StateSound
  <2> HIDE DEF passed
  <2> QED BY <2>1, <2>2, TraversedCounts
<1> HIDE DEF t, queues, traversed
<1>4. StateSound(t, l)
  BY <1>1, <1>2, <1>3 DEF StateSound
<1> QED BY <1>4 DEF t

\* Routing leaves a sound state and sound snapshots, which lack no node that the
\* state does not lack.
LEMMA RouteSound ==
  ASSUME NEW s, StateShaped(s), NEW l, StateSound(s, l), s.graph # NoGraph,
         NEW x \in Executions, NEW n
  PROVE  LET r == Route(s, x, n, l)
         IN  /\ StateShaped(r) /\ StateSound(r, l)
             /\ r.graph = s.graph /\ r.pending = s.pending /\ r.current = s.current
             /\ r.history = s.history
             /\ \A c \in r.checkpoints \ s.checkpoints :
                  /\ c.snapshot.graph = Live /\ SnapshotSound(c.snapshot)
                  /\ Nodes \subseteq s.pending \cup Executed(l.executed) => NodesKept(c.snapshot)
<1> DEFINE r == Route(s, x, n, l)
           t(e) == Traverse(s, x, n, e)
<1>1. ASSUME NEW e
      PROVE  /\ StateShaped(t(e)) /\ StateSound(t(e), l)
             /\ t(e).graph = s.graph /\ t(e).pending = s.pending /\ t(e).current = s.current
             /\ t(e).history = s.history
  BY TraverseKeeps, TraverseSound
<1>2. LET u == t(Cardinality(Edges))
      IN  /\ StateShaped(r)
          /\ r.graph = u.graph /\ r.pending = u.pending /\ r.current = u.current
          /\ r.history = u.history /\ r.queues = u.queues /\ r.traversed = u.traversed
          /\ r.joined = u.joined
          /\ r.checkpoints = s.checkpoints \cup
               {[edge |-> e, snapshot |-> Snapshot(t(e), l, Live)] :
                  e \in Outgoing(n) \cap s.graph.checkpoint}
  BY RouteSays
<1>3. ASSUME NEW c \in r.checkpoints \ s.checkpoints
      PROVE  /\ c.snapshot.graph = Live /\ SnapshotSound(c.snapshot)
             /\ Nodes \subseteq s.pending \cup Executed(l.executed) => NodesKept(c.snapshot)
  <2>1. PICK e : c.snapshot = Snapshot(t(e), l, Live)
    BY <1>2
  <2>2. /\ StateSound(t(e), l) /\ t(e).graph # NoGraph /\ t(e).pending = s.pending
    BY <1>1
  <2> HIDE DEF t
  <2> QED BY <2>1, <2>2, StatesAndSnapshots, SnapshotSays
<1>4. StateSound(r, l)
  <2> DEFINE u == t(Cardinality(Edges))
  <2>1. StateSound(u, l)
    BY <1>1
  <2>2. /\ r.graph = u.graph /\ r.pending = u.pending /\ r.current = u.current
        /\ r.queues = u.queues /\ r.traversed = u.traversed /\ r.joined = u.joined
    BY <1>2
  <2> HIDE DEF u, r
  <2> QED BY <2>1, <2>2 DEF StateSound
<1> QED BY <1>1, <1>2, <1>3, <1>4

\* What a join takes when it is satisfied are outputs that have arrived, as many
\* as it asks for.
LEMMA JoinTakesArrived ==
  ASSUME NEW n \in Nodes, NEW config \in ConvergenceConfigs, NEW ordering \in DataOrderings,
         NEW results, n \in results, NEW before \in SUBSET results,
         JoinSatisfied(n, config, ordering, before)
  PROVE  Fed(n, [config |-> config, ordering |-> ordering,
                 inputs |-> JoinInputs(n, config, ordering, before)], results)
<1> DEFINE arrived == Arrived(n, before)
           r == Ordered(ordering, arrived)
           k == Required(n, config)
           inputs == JoinInputs(n, config, ordering, before)
           j == [config |-> config, ordering |-> ordering, inputs |-> inputs]
<1>0. j.config = config /\ j.ordering = ordering /\ j.inputs = inputs
  OBVIOUS
<1> HIDE DEF j
<1>1. /\ arrived \in SUBSET Incoming(n) /\ Incoming(n) \in SUBSET Edges
      /\ \A e \in arrived : From[e] \in before
  BY DEF Arrived, Incoming
<1>2. /\ inputs = IF AsksForEdges(config) THEN Without(r, Edges \ config.edges)
                  ELSE IF config.strategy = "count" THEN SubSeq(r, 1, k) ELSE r
      /\ IF AsksForEdges(config) THEN config.edges \subseteq arrived ELSE Len(r) >= k
  BY DEF JoinInputs, JoinSatisfied
<1>3. AsksForEdges(config) => config.strategy = "subset"
  BY DEF AsksForEdges
<1>4. IsFiniteSet(Incoming(n)) /\ Cardinality(Incoming(n)) \in Nat
  <2>1. IsFiniteSet(Incoming(n))
    BY <1>1, SomeEdges, FS_Subset
  <2> QED BY <2>1, FS_CardinalityType
<1>5. k \in Nat /\ (config.strategy # "count" => k = Cardinality(Incoming(n)))
  <2>1. config.strategy = "count" => config.count \in Nat
    BY DEF ConvergenceConfigs
  <2> QED BY <1>4, <2>1 DEF Required, ClampCount
<1> HIDE DEF arrived, k, inputs
<1>6. /\ r \in Seq(Edges) /\ ToSet(r) = arrived
      /\ ~ordering.repeat => IsInjective(r)
  <2>1. arrived \in SUBSET Edges
    BY <1>1
  <2> QED BY <2>1, OrderedSays
<1> HIDE DEF r
<1>7. ASSUME AsksForEdges(config) PROVE Fed(n, j, results)
  <2>1. /\ inputs \in Seq(Edges) /\ ToSet(inputs) = arrived \ (Edges \ config.edges)
        /\ ~ordering.repeat => IsInjective(inputs)
    BY <1>2, <1>6, <1>7, WithoutMembers
  <2>2. ToSet(inputs) = config.edges
    BY <1>1, <1>2, <1>7, <2>1
  <2> QED BY <1>0, <1>1, <1>2, <1>3, <1>7, <2>1, <2>2 DEF Fed
<1>8. ASSUME ~AsksForEdges(config), config.strategy = "count" PROVE Fed(n, j, results)
  <2>1. inputs = SubSeq(r, 1, k) /\ Len(r) >= k
    BY <1>2, <1>8
  <2>2. /\ Len(r) \in Nat /\ ToSet(r) = {r[i] : i \in 1..Len(r)}
        /\ \A i \in 1..Len(r) : r[i] \in Edges
        /\ IsInjective(r) => \A i, l \in 1..Len(r) : r[i] = r[l] => i = l
    BY <1>6, MembersOf
  <2>3. \A i \in 1..k : i \in 1..Len(r) /\ r[i] \in Edges
    BY <1>5, <2>1, <2>2
  <2>4. /\ inputs \in Seq(Edges) /\ Len(inputs) = k
        /\ \A i \in 1..k : inputs[i] = r[i]
    <3>1. /\ SubSeq(r, 1, k) \in Seq(Edges)
          /\ Len(SubSeq(r, 1, k)) = IF 1 <= k THEN k - 1 + 1 ELSE 0
          /\ \A i \in 1..(k - 1 + 1) : SubSeq(r, 1, k)[i] = r[1 + i - 1]
      <4>1. 1 \in Int /\ k \in Int
        BY <1>5
      <4> QED BY <2>3, <4>1, SubSeqProperties
    <3>2. k - 1 + 1 = k /\ (IF 1 <= k THEN k ELSE 0) = k /\ \A i \in 1..k : 1 + i - 1 = i
      BY <1>5
    <3> QED BY <2>1, <3>1, <3>2
  <2>5. ToSet(inputs) = {inputs[i] : i \in 1..k}
    BY <2>4, MembersOf
  <2>6. ToSet(inputs) \subseteq arrived
    BY <1>6, <2>2, <2>3, <2>4, <2>5
  <2>7. ~ordering.repeat => IsInjective(inputs)
    <3> SUFFICES ASSUME ~ordering.repeat PROVE IsInjective(inputs)
      OBVIOUS
    <3>1. \A i, l \in 1..k : inputs[i] = inputs[l] => i = l
      BY <1>6, <2>2, <2>3, <2>4
    <3> QED BY <2>4, <3>1, MembersOf
  <2>8. Len(inputs) >= k
    BY <1>5, <2>4
  <2>9. {n} \cup {From[e] : e \in ToSet(inputs)} \subseteq results
    BY <1>1, <2>6
  <2> QED BY <1>0, <1>8, <2>4, <2>7, <2>8, <2>9 DEF Fed, k
<1>9. ASSUME ~AsksForEdges(config), config.strategy # "count" PROVE Fed(n, j, results)
  <2>1. inputs = r /\ Len(r) >= k /\ k = Cardinality(Incoming(n))
    BY <1>2, <1>5, <1>9
  <2>2. ASSUME ~ordering.repeat PROVE arrived = Incoming(n)
    <3>1. Cardinality(arrived) = Len(r)
      BY <1>6, <2>2, InjectiveLists
    <3>2. /\ Cardinality(arrived) <= Cardinality(Incoming(n))
          /\ Cardinality(arrived) = Cardinality(Incoming(n)) => arrived = Incoming(n)
      BY <1>1, <1>4, FS_Subset
    <3>3. Len(r) \in Nat
      BY <1>6, LenProperties
    <3> QED BY <1>4, <2>1, <3>1, <3>2, <3>3
  <2>3. {n} \cup {From[e] : e \in ToSet(inputs)} \subseteq results
    BY <1>1, <1>6, <2>1
  <2> QED BY <1>0, <1>6, <1>9, <2>1, <2>2, <2>3 DEF Fed, k
<1> QED BY <1>7, <1>8, <1>9 DEF j, inputs

-----------------------------------------------------------------------------
LEMMA BeginOK ==
  ASSUME NEW s, NEW l, NEW kept, StateOK(s, l, kept), NEW x, NEW n \in Nodes
  PROVE  StateOK(Begin(s, x, n), l, kept)
<1> DEFINE b == Begin(s, x, n)
<1>1. /\ StateShaped(s) /\ StateSound(s, l)
  BY DEF StateOK
<1>2. /\ StateShaped(b) /\ b.graph = s.graph /\ b.pending = s.pending
      /\ b.checkpoints = s.checkpoints
  BY <1>1, BeginSays
<1>3. StateSound(b, l)
  BY <1>1, BeginSound
<1> HIDE DEF b
<1>4. StateOK(b, l, kept)
  BY <1>2, <1>3 DEF StateOK
<1> QED BY <1>4 DEF b

LEMMA SettleOK ==
  ASSUME NEW s, NEW l, NEW kept, StateOK(s, l, kept), NEW x, NEW n \in Nodes,
         NEW failed \in BOOLEAN, NEW status
  PROVE  StateOK(Settle(s, x, n, status), Appended(l, n, failed), kept)
<1> DEFINE t == Settle(s, x, n, status)
           new == Appended(l, n, failed)
<1>1. /\ StateShaped(s) /\ StateSound(s, l) /\ ListShaped(l)
  BY DEF StateOK, StateSound
<1>2. /\ StateShaped(t) /\ t.graph = s.graph /\ t.pending = s.pending \ {n}
      /\ t.checkpoints = s.checkpoints
  BY <1>1, SettleSays
<1>3. StateSound(t, new)
  BY <1>1, SettleSound
<1>4. Executed(new.executed) = Executed(l.executed) \cup {n}
  BY <1>1, AppendedSays
<1> HIDE DEF t, new
<1>5. StateOK(t, new, kept)
  BY <1>2, <1>3, <1>4 DEF StateOK
<1> QED BY <1>5 DEF t, new

LEMMA RouteOK ==
  ASSUME NEW s, NEW l, NEW kept, StateOK(s, l, kept), s.graph # NoGraph,
         NEW x \in Executions, NEW n
  PROVE  StateOK(Route(s, x, n, l), l, kept)
<1> DEFINE r == Route(s, x, n, l)
<1>1. /\ StateShaped(s) /\ StateSound(s, l)
  BY DEF StateOK
<1>2. /\ StateShaped(r) /\ StateSound(r, l)
      /\ r.graph = s.graph /\ r.pending = s.pending
      /\ \A c \in r.checkpoints \ s.checkpoints :
           /\ c.snapshot.graph = Live /\ SnapshotSound(c.snapshot)
           /\ Nodes \subseteq s.pending \cup Executed(l.executed) => NodesKept(c.snapshot)
  BY <1>1, RouteSound
<1> HIDE DEF r
<1>3. ASSUME NEW c \in r.checkpoints
      PROVE  c.snapshot.graph = Live /\ KeptSound(c.snapshot, kept)
  <2>1. CASE c \in s.checkpoints
    BY <2>1 DEF StateOK
  <2>2. CASE c \notin s.checkpoints
    BY <1>2, <2>2 DEF StateOK, KeptSound
  <2> QED BY <2>1, <2>2
<1>4. StateOK(r, l, kept)
  BY <1>2, <1>3 DEF StateOK
<1> QED BY <1>4 DEF r

\* A join leaves the record of what it took once it has a result.
LEMMA JoinedSound ==
  ASSUME NEW s, NEW l, NEW kept, StateOK(s, l, kept), NEW joined,
         \A m \in DOMAIN joined : Fed(m, joined[m], l.results)
  PROVE  StateOK([s EXCEPT !.joined = joined], l, kept)
<1> DEFINE t == [s EXCEPT !.joined = joined]
<1>1. StateShaped(s)
  BY DEF StateOK
<1>2. /\ StateShaped(t) /\ t.joined = joined
      /\ t.graph = s.graph /\ t.pending = s.pending /\ t.current = s.current
      /\ t.queues = s.queues /\ t.traversed = s.traversed /\ t.checkpoints = s.checkpoints
  BY <1>1 DEF StateShaped, Fields
<1> HIDE DEF t
<1>3. StateOK(t, l, kept)
  BY <1>2 DEF StateOK, StateSound
<1> QED BY <1>3 DEF t

\* Settling a node and recording what it took change different fields.
LEMMA JoinThenSettle ==
  ASSUME NEW s, StateShaped(s), NEW joined, NEW x, NEW n, NEW status
  PROVE  Settle([s EXCEPT !.joined = joined], x, n, status)
           = [Settle(s, x, n, status) EXCEPT !.joined = joined]
<1> DEFINE a == Settle([s EXCEPT !.joined = joined], x, n, status)
           b == [Settle(s, x, n, status) EXCEPT !.joined = joined]
<1>1. a = [f \in Fields |-> a[f]] /\ b = [f \in Fields |-> b[f]]
  BY DEF StateShaped, Settle, Fields
<1>2. \A f \in Fields : a[f] = b[f]
  BY DEF StateShaped, Settle, Fields
<1> HIDE DEF a, b
<1>3. a = b
  BY <1>1, <1>2
<1> QED BY <1>3 DEF a, b

-----------------------------------------------------------------------------
\* The record a join of node n adds to the ones of a state.
JoinedBy(s, n, results) ==
  [m \in DOMAIN s.joined \cup {n} |->
     IF m = n
       THEN [config |-> s.graph.join[n], ordering |-> s.graph.ordering[n],
             inputs |-> JoinInputs(n, s.graph.join[n], s.graph.ordering[n], results)]
     ELSE s.joined[m]]

\* The state of an execution whose node n has completed.
Passed(s, l, x, n) ==
  Route(Settle([s EXCEPT !.joined = IF n \in Joins THEN JoinedBy(s, n, l.results) ELSE s.joined],
               x, n, "completed"),
        x, n, Appended(l, n, FALSE))

LEMMA PassedOK ==
  ASSUME NEW s, NEW l, NEW kept, StateOK(s, l, kept), s.graph # NoGraph,
         NEW x \in Executions, NEW n \in Nodes,
         n \in Joins => JoinSatisfied(n, s.graph.join[n], s.graph.ordering[n], l.results)
  PROVE  /\ StateOK(Passed(s, l, x, n), Appended(l, n, FALSE), kept)
         /\ Passed(s, l, x, n).graph = s.graph
         /\ Passed(s, l, x, n).history = Settle(s, x, n, "completed").history
<1> DEFINE joined == IF n \in Joins THEN JoinedBy(s, n, l.results) ELSE s.joined
           new == Appended(l, n, FALSE)
           t == Settle(s, x, n, "completed")
           u == [t EXCEPT !.joined = joined]
<1>1. /\ StateShaped(s) /\ StateSound(s, l) /\ ListShaped(l) /\ s.graph \in Graphs
  BY DEF StateOK, StateSound
<1>2. StateOK(t, new, kept)
  BY SettleOK
<1>3. StateShaped(t) /\ t.graph = s.graph
  BY <1>1, SettleSays
<1>4. l.results \subseteq new.results /\ n \in new.results
  BY <1>1, AppendedSays
<1>5. ASSUME NEW m \in DOMAIN joined PROVE Fed(m, joined[m], new.results)
  <2>1. CASE n \in Joins /\ m = n
    <3> DEFINE config == s.graph.join[n]
               ordering == s.graph.ordering[n]
    <3>1. config \in ConvergenceConfigs /\ ordering \in DataOrderings
      BY <1>1, <2>1 DEF Graphs
    <3>2. joined[m] = [config |-> config, ordering |-> ordering,
                       inputs |-> JoinInputs(n, config, ordering, l.results)]
      BY <2>1 DEF JoinedBy
    <3>3. JoinSatisfied(n, config, ordering, l.results)
      BY <2>1
    <3> HIDE DEF config, ordering, joined, new
    <3> QED BY <1>4, <2>1, <3>1, <3>2, <3>3, JoinTakesArrived
  <2>2. CASE ~(n \in Joins /\ m = n)
    <3>1. m \in DOMAIN s.joined /\ joined[m] = s.joined[m]
      BY <2>2 DEF JoinedBy
    <3> HIDE DEF joined, new
    <3>2. Fed(m, s.joined[m], l.results)
      BY <1>1, <3>1 DEF StateSound
    <3> QED BY <1>4, <3>1, <3>2 DEF Fed
  <2> QED BY <2>1, <2>2
<1>6. Settle([s EXCEPT !.joined = joined], x, n, "completed") = u
  BY <1>1, JoinThenSettle
<1>7. Passed(s, l, x, n) = Route(u, x, n, new)
  BY <1>6 DEF Passed
<1> HIDE DEF joined, new, t
<1>8. StateOK(u, new, kept)
  BY <1>2, <1>5, JoinedSound
<1>9. StateShaped(u) /\ u.graph = s.graph /\ u.history = t.history
  BY <1>3 DEF StateShaped, Fields
<1>10. StateSound(u, new)
  BY <1>8 DEF StateOK
<1> HIDE DEF u
<1>11. StateOK(Route(u, x, n, new), new, kept)
  BY <1>8, <1>9, RouteOK
<1>12. Route(u, x, n, new).graph = s.graph /\ Route(u, x, n, new).history = t.history
  BY <1>9, <1>10, RouteSound
<1> QED BY <1>7, <1>11, <1>12 DEF t, new

-----------------------------------------------------------------------------
LEMMA NothingExecutedYet ==
  /\ ListShaped(NothingExecuted) /\ Executed(NothingExecuted.executed) = {}
  /\ NothingExecuted.executed = <<>> /\ Len(<<>>) = 0 /\ DOMAIN NothingExecuted.executed = {}
<1>1. NothingExecuted.executed = <<>> /\ NothingExecuted.results = {}
  BY DEF NothingExecuted
<1>2. <<>> \in Seq(Entries) /\ Len(<<>>) = 0 /\ DOMAIN <<>> = {}
  <2> DEFINE none == <<>>
  <2>1. none \in Seq(Entries) /\ Len(none) = 0
    BY EmptySeq
  <2>2. DOMAIN none = 1..Len(none)
    BY ONLY <2>1, LenProperties
  <2> QED BY <2>1, <2>2
<1> QED BY <1>1, <1>2 DEF ListShaped, Executed, Completed

\* A state with nothing executed, no join and no checkpoint.
LEMMA NewOK ==
  ASSUME NEW s, StateShaped(s), NEW kept,
         s.graph \in Graphs \cup {NoGraph}, s.pending \subseteq Nodes, s.current = {},
         Counted(s.queues, s.traversed), DOMAIN s.joined = {}, s.checkpoints = {},
         s.graph # NoGraph => s.pending = Nodes /\ Cyclic \subseteq DOMAIN s.queues
  PROVE  StateOK(s, NothingExecuted, kept)
<1>1. /\ ListShaped(NothingExecuted) /\ Executed(NothingExecuted.executed) = {}
  BY NothingExecutedYet
<1>2. StateSound(s, NothingExecuted)
  BY <1>1 DEF StateSound
<1> QED BY <1>1, <1>2 DEF StateOK

LEMMA EmptyOK ==
  ASSUME NEW kept
  PROVE  StateOK(EmptyState, NothingExecuted, kept)
<1> DEFINE s == EmptyState
<1>1. /\ s.graph = NoGraph /\ s.pending = {} /\ s.current = {} /\ s.queues = <<>>
      /\ s.traversed = [e \in Edges |-> 0] /\ s.joined = <<>> /\ s.checkpoints = {}
  BY DEF EmptyState
<1>2. StateShaped(s)
  BY DEF EmptyState, StateShaped, Fields
<1>3. DOMAIN <<>> = {}
  BY NothingExecutedYet
<1> HIDE DEF s
<1>4. Counted(s.queues, s.traversed)
  <2>1. Cyclic \subseteq Edges
    BY GraphAssumption
  <2> QED BY <1>1, <1>3, <2>1 DEF Counted
<1>5. StateOK(s, NothingExecuted, kept)
  BY <1>1, <1>2, <1>3, <1>4, NewOK
<1> QED BY <1>5 DEF s

LEMMA FreshOK ==
  ASSUME NEW kept
  PROVE  StateOK(FreshState, NothingExecuted, kept)
<1> DEFINE s == FreshState
<1>1. /\ s.graph = Declared /\ s.pending = Nodes /\ s.current = {} /\ s.queues = NewQueues(Declared)
      /\ s.traversed = [e \in Edges |-> 0] /\ s.joined = <<>> /\ s.checkpoints = {}
  BY DEF FreshState
<1>2. StateShaped(s)
  BY DEF FreshState, StateShaped, Fields
<1>3. DOMAIN <<>> = {}
  BY NothingExecutedYet
<1>4. /\ Counted(NewQueues(Declared), [e \in Edges |-> 0]) /\ Cyclic \subseteq DOMAIN NewQueues(Declared)
      /\ Declared \in Graphs
  BY NewQueuesCount, GraphAssumption
<1> HIDE DEF s
<1>5. StateOK(s, NothingExecuted, kept)
  BY <1>1, <1>2, <1>3, <1>4, NewOK
<1> QED BY <1>5 DEF s

\* The state a restore makes of a snapshot, and its arrays.
RestoredGraph(s, snapshot) ==
  IF snapshot.graph \in {Live, NoGraph} THEN s.graph ELSE snapshot.graph
RestoredState(graph, snapshot) ==
  [graph |-> graph, pending |-> snapshot.pending,
   current |-> snapshot.current, history |-> snapshot.history,
   queues |-> IF graph = NoGraph THEN snapshot.queues
              ELSE RestoreQueues(graph, snapshot.queues),
   traversed |-> snapshot.traversed, joined |-> snapshot.joined,
   checkpoints |-> {}]
RestoredArrays(snapshot) == [executed |-> snapshot.executed, results |-> snapshot.results]

\* Restoring a sound snapshot leaves a sound state.
LEMMA RestoreOK ==
  ASSUME NEW kept, NEW snapshot, KeptSound(snapshot, kept),
         snapshot.graph = NoGraph => ~AlwaysParsed(kept),
         NEW graph \in Graphs \cup {NoGraph}
  PROVE  StateOK(RestoredState(graph, snapshot), RestoredArrays(snapshot), kept)
<1> DEFINE t == RestoredState(graph, snapshot)
           l == RestoredArrays(snapshot)
<1>1. /\ StateShaped(t)
      /\ t.graph = graph /\ t.pending = snapshot.pending /\ t.current = snapshot.current
      /\ t.queues = IF graph = NoGraph THEN snapshot.queues
                    ELSE RestoreQueues(graph, snapshot.queues)
      /\ t.traversed = snapshot.traversed /\ t.joined = snapshot.joined /\ t.checkpoints = {}
  BY DEF RestoredState, StateShaped, Fields
<1>2. l.executed = snapshot.executed /\ l.results = snapshot.results
  BY DEF RestoredArrays
<1>3. /\ Counted(snapshot.queues, snapshot.traversed) /\ SnapshotSound(snapshot)
  BY DEF KeptSound, SnapshotSound
<1>4. Counted(t.queues, t.traversed) /\ (graph # NoGraph => Cyclic \subseteq DOMAIN t.queues)
  BY <1>1, <1>3, RestoredQueuesCount
<1> HIDE DEF t, l
<1>5. StateSound(t, l)
  BY <1>1, <1>2, <1>3, <1>4 DEF SnapshotSound, StateSound, ListShaped
<1>6. AlwaysParsed(kept) => Nodes \subseteq t.pending \cup Executed(l.executed)
  BY <1>1, <1>2 DEF KeptSound, NodesKept
<1>7. StateOK(t, l, kept)
  BY <1>1, <1>5, <1>6 DEF StateOK
<1> QED BY <1>7 DEF t, l

\* What an update changes: the graph object, the bounds of queues.
LEMMA UpdatedOK ==
  ASSUME NEW s, NEW l, NEW kept, StateOK(s, l, kept), s.graph # NoGraph, NEW t, StateShaped(t),
         t.graph \in Graphs, DOMAIN t.queues = DOMAIN s.queues, Counted(t.queues, s.traversed),
         t.pending = s.pending, t.current = s.current, t.traversed = s.traversed,
         t.joined = s.joined, t.checkpoints = s.checkpoints
  PROVE  StateOK(t, l, kept)
<1>1. StateSound(t, l)
  BY DEF StateOK, StateSound
<1> QED BY <1>1 DEF StateOK

\* One more saved state.
LEMMA PausedOK ==
  ASSUME NEW s, NEW l, NEW kept, StateOK(s, l, kept),
         Len(kept) \in Nat, kept = [i \in 1..Len(kept) |-> kept[i]],
         \A i \in 1..Len(kept) :
           kept[i].graph \in Graphs \cup {NoGraph} /\ KeptSound(kept[i], kept)
  PROVE  LET more == Append(kept, Snapshot(s, l, s.graph))
         IN  /\ StateOK(s, l, more)
             /\ Len(more) = Len(kept) + 1 /\ more = [i \in 1..Len(more) |-> more[i]]
             /\ \A i \in 1..Len(more) :
                  more[i].graph \in Graphs \cup {NoGraph} /\ KeptSound(more[i], more)
<1> DEFINE one == Snapshot(s, l, s.graph)
           more == Append(kept, one)
           All == {kept[i] : i \in 1..Len(kept)} \cup {one}
<1>1. kept \in Seq(All)
  BY SeqDef
<1>2. one \in All
  OBVIOUS
<1> HIDE DEF one, All
<1>3. /\ more \in Seq(All) /\ Len(more) = Len(kept) + 1
      /\ \A i \in 1..Len(kept) : more[i] = kept[i]
      /\ more[Len(kept) + 1] = one
  BY ONLY <1>1, <1>2, AppendProperties
<1>4. more = [i \in 1..Len(more) |-> more[i]] /\ DOMAIN more = 1..Len(more) /\ DOMAIN kept = 1..Len(kept)
  BY ONLY <1>1, <1>3, LenProperties
<1> HIDE DEF more
<1>5. AlwaysParsed(more) => AlwaysParsed(kept) /\ one.graph # NoGraph
  BY <1>3, <1>4 DEF AlwaysParsed
<1>6. StateOK(s, l, more)
  BY <1>5 DEF StateOK, KeptSound
<1>7. one.graph \in Graphs \cup {NoGraph} /\ KeptSound(one, more)
  <2>1. one.graph = s.graph
    BY SnapshotSays DEF one
  <2>2. SnapshotSound(one) /\ (AlwaysParsed(kept) => NodesKept(one))
    <3>1. StateSound(s, l) /\ (AlwaysParsed(kept) /\ s.graph # NoGraph
                                 => Nodes \subseteq s.pending \cup Executed(l.executed))
      BY DEF StateOK
    <3> QED BY <3>1, StatesAndSnapshots DEF one
  <2>3. s.graph \in Graphs \cup {NoGraph}
    BY DEF StateOK
  <2> QED BY <1>5, <2>1, <2>2, <2>3 DEF KeptSound
<1>8. \A i \in 1..Len(more) : more[i].graph \in Graphs \cup {NoGraph} /\ KeptSound(more[i], more)
  <2>1. ASSUME NEW i \in 1..Len(kept)
        PROVE  kept[i].graph \in Graphs \cup {NoGraph} /\ KeptSound(kept[i], more)
    BY <1>5 DEF KeptSound
  <2> QED BY <1>3, <1>7, <2>1
<1> QED BY <1>3, <1>4, <1>6, <1>8 DEF more, one

-----------------------------------------------------------------------------
\* A step that leaves the executions where they are and settles at most results.
LEMMA QuietBooks ==
  ASSUME Shaped, CallsInOrder, Books, UNCHANGED <<owner, lists, at, mixed>>,
         state'.current = state.current, state'.history = state.history,
         \A x \in Executions :
           \/ outcome'[x] = outcome[x]
           \/ outcome'[x] = "success" <=>
                \A i \in 1..Len(lists[x].executed) : ~lists[x].executed[i].failed
  PROVE  Books'
<1>1. Apart'
  BY DEF Books, Apart, InFlight, Others
<1>2. ASSUME NEW x \in Executions \ mixed' PROVE InStep(x)'
  <2>1. InStep(x) /\ mixed' = mixed
    BY DEF Books
  <2>2. InFlight(x)' = InFlight(x) /\ NodeOf(x)' = NodeOf(x)
    BY DEF InFlight, NodeOf
  <2>3. at'[x] = at[x] /\ lists'[x] = lists[x]
    OBVIOUS
  <2> QED BY <2>1, <2>2, <2>3 DEF InStep
<1>3. HistoryFollows'
  BY DEF Books, HistoryFollows, InFlight, NodeOf
<1> QED BY <1>1, <1>2, <1>3 DEF Books

\* The graph state and what is kept of it are left alone.
LEMMA QuietState ==
  ASSUME GraphInv, UNCHANGED <<state, owner, lists, saved>>
  PROVE  (StateOK(state, lists[owner], saved) /\ SavedSound)'
  BY DEF GraphInv, SavedSound

LEMMA OpenCallStep ==
  ASSUME GraphInv, NEW x \in Executions, OpenCall(x)
  PROVE  GraphInv'
<1>1. /\ call[x] = "idle" /\ call' = [call EXCEPT ![x] = "opened"]
      /\ UNCHANGED <<state, owner, lists, saved, at, attempt, backoff, outcome, mixed>>
  BY DEF OpenCall, execVars
<1>2. Shaped'
  BY <1>1 DEF GraphInv, Shaped
<1>3. CallsInOrder'
  BY <1>1 DEF GraphInv, Shaped, CallsInOrder, InFlight
<1>4. Books'
  BY <1>1, QuietBooks DEF GraphInv
<1> QED BY <1>1, <1>2, <1>3, <1>4, QuietState DEF GraphInv

LEMMA TimeOutStep ==
  ASSUME GraphInv, NEW x \in Executions, TimeOut(x)
  PROVE  GraphInv'
<1>1. /\ call' = [call EXCEPT ![x] = "failed"]
      /\ UNCHANGED <<state, owner, lists, saved, at, attempt, backoff, outcome, mixed>>
  BY DEF TimeOut, execVars
<1>2. Shaped'
  BY <1>1 DEF GraphInv, Shaped
<1>3. CallsInOrder'
  BY <1>1 DEF GraphInv, Shaped, CallsInOrder, InFlight
<1>4. Books'
  BY <1>1, QuietBooks DEF GraphInv
<1> QED BY <1>1, <1>2, <1>3, <1>4, QuietState DEF GraphInv

LEMMA BackoffStep ==
  ASSUME GraphInv, NEW x \in Executions, AwaitBackoff(x) \/ RetryNode(x)
  PROVE  GraphInv'
<1>1. /\ UNCHANGED <<state, owner, lists, saved, at, call, outcome, mixed>>
      /\ backoff' \subseteq backoff \cup {x}
      /\ attempt' \in [Executions -> 0..MaxRetries]
  <2>1. attempt \in [Executions -> 0..MaxRetries] /\ MaxRetries \in Nat
    BY GraphAssumption DEF GraphInv, Shaped
  <2>2. CASE AwaitBackoff(x)
    BY <2>1, <2>2 DEF AwaitBackoff, callVars
  <2>3. CASE RetryNode(x)
    BY <2>1, <2>3 DEF RetryNode, callVars
  <2> QED BY <2>2, <2>3
<1>2. Shaped'
  BY <1>1 DEF GraphInv, Shaped
<1>3. CallsInOrder'
  BY <1>1 DEF GraphInv, CallsInOrder, InFlight
<1>4. Books'
  BY <1>1, QuietBooks DEF GraphInv
<1> QED BY <1>1, <1>2, <1>3, <1>4, QuietState DEF GraphInv

LEMMA FinishStep ==
  ASSUME GraphInv, NEW x \in Executions, FinishExecution(x)
  PROVE  GraphInv'
<1> DEFINE own == lists[x].executed
           failed == {i \in DOMAIN own : own[i].failed}
           result == IF failed = {} THEN "success"
                     ELSE IF failed = DOMAIN own THEN "failed" ELSE "partial"
<1>1. /\ at[x] > Len(Order) /\ outcome' = [outcome EXCEPT ![x] = result]
      /\ call' = [call EXCEPT ![x] = "answered"] \/ call' = call
      /\ UNCHANGED <<state, owner, lists, saved, at, attempt, backoff, mixed>>
  BY DEF FinishExecution, execVars
<1>2. result = "success" <=> \A i \in 1..Len(own) : ~own[i].failed
  <2>1. ListShaped(lists[x])
    BY DEF GraphInv, Shaped, Owners
  <2>2. DOMAIN own = 1..Len(own)
    <3>1. own \in Seq(Entries)
      BY <2>1 DEF ListShaped
    <3> QED BY ONLY <3>1, LenProperties
  <2> QED BY <2>2
<1>3. result \in {"none", "success", "partial", "failed"}
  OBVIOUS
<1> HIDE DEF result
<1>4. Shaped'
  BY <1>1, <1>3 DEF GraphInv, Shaped
<1>5. CallsInOrder'
  <2>1. ASSUME NEW y \in Executions
        PROVE  (/\ call[y] \in {"idle", "opened"} => at[y] = 0
                /\ outcome[y] # "none" => at[y] > Len(Order)
                /\ InFlight(y) => state.graph # NoGraph)'
    <3>1. /\ call[y] \in {"idle", "opened"} => at[y] = 0
          /\ outcome[y] # "none" => at[y] > Len(Order)
          /\ InFlight(y) => state.graph # NoGraph
      BY DEF GraphInv, CallsInOrder
    <3>2. call \in [Executions -> {"idle", "opened", "running", "answered", "failed"}]
          /\ outcome \in [Executions -> {"none", "success", "partial", "failed"}]
      BY DEF GraphInv, Shaped
    <3> QED BY <1>1, <3>1, <3>2 DEF InFlight
  <2> QED BY <2>1 DEF CallsInOrder
<1>6. Books'
  <2>1. ASSUME NEW y \in Executions
        PROVE  \/ outcome'[y] = outcome[y]
               \/ outcome'[y] = "success" <=>
                    \A i \in 1..Len(lists[y].executed) : ~lists[y].executed[i].failed
    BY <1>1, <1>2 DEF GraphInv, Shaped
  <2> QED BY <1>1, <2>1, QuietBooks DEF GraphInv
<1> QED BY <1>1, <1>4, <1>5, <1>6, QuietState DEF GraphInv

-----------------------------------------------------------------------------
\* A request that changes the graph object or the saved states.
LEMMA RequestStep ==
  ASSUME GraphInv,
         UNCHANGED <<owner, lists, at, attempt, backoff, call, outcome, mixed>>,
         state'.current = state.current, state'.history = state.history,
         state.graph # NoGraph => state'.graph # NoGraph,
         StateOK(state', lists[owner], saved'), SavedSound',
         Len(saved') \in Nat, saved' = [i \in 1..Len(saved') |-> saved'[i]]
  PROVE  GraphInv'
<1>1. Shaped'
  BY DEF GraphInv, Shaped
<1>2. CallsInOrder'
  BY DEF GraphInv, CallsInOrder, InFlight
<1>3. Books'
  BY QuietBooks DEF GraphInv
<1> QED BY <1>1, <1>2, <1>3 DEF GraphInv

LEMMA PauseStep ==
  ASSUME GraphInv, PauseAgent
  PROVE  GraphInv'
<1> DEFINE l == lists[owner]
<1>1. /\ saved' = Append(saved, Snapshot(state, l, state.graph))
      /\ UNCHANGED <<state, owner, lists, at, attempt, backoff, call, outcome, mixed>>
  BY DEF PauseAgent, execVars, callVars, Current
<1>2. /\ StateOK(state, l, saved)
      /\ Len(saved) \in Nat /\ saved = [i \in 1..Len(saved) |-> saved[i]]
      /\ \A i \in 1..Len(saved) :
           saved[i].graph \in Graphs \cup {NoGraph} /\ KeptSound(saved[i], saved)
  BY DEF GraphInv, Shaped, SavedSound
<1> HIDE DEF l
<1>3. /\ StateOK(state, l, saved')
      /\ Len(saved') = Len(saved) + 1 /\ saved' = [i \in 1..Len(saved') |-> saved'[i]]
      /\ \A i \in 1..Len(saved') :
           saved'[i].graph \in Graphs \cup {NoGraph} /\ KeptSound(saved'[i], saved')
  BY <1>1, <1>2, PausedOK
<1>4. SavedSound'
  BY <1>3 DEF SavedSound
<1> QED BY <1>1, <1>2, <1>3, <1>4, RequestStep DEF l

\* An update of the graph object, and of the bounds of queues with it.
LEMMA UpdateStep ==
  ASSUME GraphInv, state.graph # NoGraph, StateShaped(state'), state'.graph \in Graphs,
         DOMAIN state'.queues = DOMAIN state.queues, Counted(state'.queues, state.traversed),
         state'.pending = state.pending, state'.current = state.current,
         state'.history = state.history, state'.traversed = state.traversed,
         state'.joined = state.joined, state'.checkpoints = state.checkpoints,
         UNCHANGED <<owner, lists, saved, at, attempt, backoff, call, outcome, mixed>>
  PROVE  GraphInv'
<1>1. StateOK(state, lists[owner], saved)
  BY DEF GraphInv
<1>2. StateOK(state', lists[owner], saved)
  BY <1>1, UpdatedOK
<1>3. state'.graph # NoGraph /\ SavedSound' /\ saved = [i \in 1..Len(saved) |-> saved[i]]
      /\ Len(saved) \in Nat
  BY Placeholders DEF GraphInv, SavedSound, Shaped
<1> QED BY <1>2, <1>3, RequestStep

\* Only the graph object changes.
LEMMA GraphUpdate ==
  ASSUME GraphInv, state.graph # NoGraph, NEW g \in Graphs, state' = [state EXCEPT !.graph = g],
         UNCHANGED <<owner, lists, saved, at, attempt, backoff, call, outcome, mixed>>
  PROVE  GraphInv'
<1>1. StateShaped(state) /\ Counted(state.queues, state.traversed)
  BY DEF GraphInv, StateOK, StateSound
<1>2. /\ StateShaped(state') /\ state'.graph = g /\ state'.queues = state.queues
      /\ state'.pending = state.pending /\ state'.current = state.current
      /\ state'.history = state.history /\ state'.traversed = state.traversed
      /\ state'.joined = state.joined /\ state'.checkpoints = state.checkpoints
  BY <1>1 DEF StateShaped, Fields
<1> QED BY <1>1, <1>2, UpdateStep

LEMMA OtherGraphs ==
  ASSUME NEW g \in Graphs
  PROVE  /\ \A depth \in [Edges -> Nat \ {0}] : [g EXCEPT !.depth = depth] \in Graphs
         /\ \A queued \in SUBSET Edges : [g EXCEPT !.queued = queued] \in Graphs
         /\ \A some \in SUBSET Edges : [g EXCEPT !.checkpoint = some] \in Graphs
         /\ \A n \in Joins, config \in ConvergenceConfigs : [g EXCEPT !.join[n] = config] \in Graphs
         /\ \A n \in Joins, ordering \in DataOrderings :
              [g EXCEPT !.ordering[n] = ordering] \in Graphs
<1>1. \A n \in Joins, config \in ConvergenceConfigs : [g EXCEPT !.join[n] = config] \in Graphs
  <2> HIDE DEF ConvergenceConfigs
  <2> QED BY DEF Graphs
<1>2. \A depth \in [Edges -> Nat \ {0}] : [g EXCEPT !.depth = depth] \in Graphs
  BY DEF Graphs
<1>3. /\ \A queued \in SUBSET Edges : [g EXCEPT !.queued = queued] \in Graphs
      /\ \A some \in SUBSET Edges : [g EXCEPT !.checkpoint = some] \in Graphs
  BY DEF Graphs
<1>4. \A n \in Joins, ordering \in DataOrderings : [g EXCEPT !.ordering[n] = ordering] \in Graphs
  <2> HIDE DEF DataOrderings
  <2> QED BY DEF Graphs
<1> QED BY <1>1, <1>2, <1>3, <1>4

LEMMA QueueDepthStep ==
  ASSUME GraphInv, NEW matched \in Filters, NEW depth \in Depths, UpdateQueueDepth(matched, depth)
  PROVE  GraphInv'
<1> DEFINE tooShort == {e \in DOMAIN state.queues : depth < Len(state.queues[e].items)}
           applied == Applied(matched, tooShort)
           depths == [e \in Edges |-> IF e \in applied THEN depth ELSE state.graph.depth[e]]
           g == [state.graph EXCEPT !.depth = depths]
           queues == [e \in DOMAIN state.queues |->
                        IF e \in applied THEN [state.queues[e] EXCEPT !.max = depth]
                        ELSE state.queues[e]]
<1>1. /\ state.graph # NoGraph
      /\ state' = [state EXCEPT !.graph = g, !.queues = queues]
      /\ UNCHANGED <<owner, lists, saved, at, attempt, backoff, call, outcome, mixed>>
  BY DEF UpdateQueueDepth, execVars, callVars
<1>2. /\ StateShaped(state) /\ Counted(state.queues, state.traversed)
      /\ state.graph \in Graphs
  BY <1>1 DEF GraphInv, StateOK, StateSound
<1>3. depth \in Nat \ {0}
  BY GraphAssumption
<1>4. g \in Graphs
  <2>1. state.graph.depth \in [Edges -> Nat \ {0}]
    BY <1>2 DEF Graphs
  <2>2. depths \in [Edges -> Nat \ {0}]
    BY <1>3, <2>1
  <2> HIDE DEF depths
  <2> QED BY <1>2, <2>2, OtherGraphs
<1> HIDE DEF applied, depths
<1>5. ASSUME NEW e \in DOMAIN state.queues
      PROVE  queues[e] \in Counters /\ Taken(queues[e]) = Taken(state.queues[e])
  <2>1. state.queues[e] \in Counters
    BY <1>2 DEF Counted
  <2>2. /\ [state.queues[e] EXCEPT !.max = depth] \in Counters
        /\ Taken([state.queues[e] EXCEPT !.max = depth]) = Taken(state.queues[e])
    BY <1>3, <2>1 DEF Counters, Taken
  <2> QED BY <2>1, <2>2
<1>6. DOMAIN queues = DOMAIN state.queues
  OBVIOUS
<1> HIDE DEF g, queues
<1>7. Counted(queues, state.traversed)
  BY <1>2, <1>5, <1>6 DEF Counted
<1>8. /\ StateShaped(state') /\ state'.graph = g /\ state'.queues = queues
      /\ state'.pending = state.pending /\ state'.current = state.current
      /\ state'.history = state.history /\ state'.traversed = state.traversed
      /\ state'.joined = state.joined /\ state'.checkpoints = state.checkpoints
  BY <1>1, <1>2 DEF StateShaped, Fields
<1> QED BY <1>1, <1>4, <1>6, <1>7, <1>8, UpdateStep

LEMMA UpdateSteps ==
  ASSUME GraphInv, Update
  PROVE  GraphInv'
<1> DEFINE Rest == UNCHANGED <<owner, lists, saved, at, attempt, backoff, call, outcome, mixed>>
<1>1. state.graph # NoGraph => state.graph \in Graphs
  BY DEF GraphInv, StateOK
<1>2. CASE \E matched \in Filters, d \in Depths : UpdateQueueDepth(matched, d)
  BY <1>2, QueueDepthStep
<1>3. CASE \E matched \in Filters, b \in BOOLEAN : UpdateQueueEnabled(matched, b)
  <2>1. PICK matched \in Filters, b \in BOOLEAN : UpdateQueueEnabled(matched, b)
    BY <1>3
  <2>2. PICK applied \in SUBSET matched :
          /\ state.graph # NoGraph /\ Rest
          /\ state' = [state EXCEPT !.graph.queued = IF b THEN @ \cup applied ELSE @ \ applied]
    BY <2>1 DEF UpdateQueueEnabled, Applied, execVars, callVars
  <2> DEFINE queued == IF b THEN state.graph.queued \cup applied ELSE state.graph.queued \ applied
             g == [state.graph EXCEPT !.queued = queued]
  <2>3. queued \in SUBSET Edges
    BY <1>1, <2>2, GraphAssumption DEF Graphs
  <2>4. state' = [state EXCEPT !.graph = g]
    BY <2>2
  <2> HIDE DEF queued
  <2>5. g \in Graphs
    BY <1>1, <2>2, <2>3, OtherGraphs
  <2> QED BY <2>2, <2>4, <2>5, GraphUpdate
<1>4. CASE \E matched \in Filters, b \in BOOLEAN : UpdateCheckpoints(matched, b)
  <2>1. PICK matched \in Filters, b \in BOOLEAN : UpdateCheckpoints(matched, b)
    BY <1>4
  <2>2. /\ state.graph # NoGraph /\ Rest
        /\ state' = [state EXCEPT !.graph.checkpoint = IF b THEN @ \cup matched ELSE @ \ matched]
    BY <2>1 DEF UpdateCheckpoints, execVars, callVars
  <2> DEFINE some == IF b THEN state.graph.checkpoint \cup matched
                     ELSE state.graph.checkpoint \ matched
             g == [state.graph EXCEPT !.checkpoint = some]
  <2>3. some \in SUBSET Edges
    BY <1>1, <2>2, GraphAssumption DEF Graphs
  <2>4. state' = [state EXCEPT !.graph = g]
    BY <2>2
  <2> HIDE DEF some
  <2>5. g \in Graphs
    BY <1>1, <2>2, <2>3, OtherGraphs
  <2> QED BY <2>2, <2>4, <2>5, GraphUpdate
<1>5. CASE \E n \in Joins, config \in JoinConfigs : UpdateConvergence(n, config)
  <2>1. PICK n \in Joins, config \in JoinConfigs : UpdateConvergence(n, config)
    BY <1>5
  <2> DEFINE g == [state.graph EXCEPT !.join[n] = config]
  <2>2. /\ state.graph # NoGraph /\ Rest
        /\ state' = [state EXCEPT !.graph = g]
    BY <2>1 DEF UpdateConvergence, execVars, callVars
  <2>3. g \in Graphs
    BY <1>1, <2>2, GraphAssumption, OtherGraphs
  <2> QED BY <2>2, <2>3, GraphUpdate
<1>6. CASE \E n \in Joins, ordering \in Orderings : UpdateOrdering(n, ordering)
  <2>1. PICK n \in Joins, ordering \in Orderings : UpdateOrdering(n, ordering)
    BY <1>6
  <2> DEFINE g == [state.graph EXCEPT !.ordering[n] = ordering]
  <2>2. /\ state.graph # NoGraph /\ Rest
        /\ state' = [state EXCEPT !.graph = g]
    BY <2>1 DEF UpdateOrdering, execVars, callVars
  <2>3. g \in Graphs
    BY <1>1, <2>2, GraphAssumption, OtherGraphs
  <2> QED BY <2>2, <2>3, GraphUpdate
<1> QED BY <1>2, <1>3, <1>4, <1>5, <1>6 DEF Update

-----------------------------------------------------------------------------
\* A sound snapshot is restored: whatever is in flight has lost its state.
LEMMA RestoreStep ==
  ASSUME GraphInv, NEW snapshot, KeptSound(snapshot, saved),
         snapshot.graph \in Graphs \cup {NoGraph, Live},
         snapshot.graph = NoGraph => ~AlwaysParsed(saved),
         Restore(snapshot), UNCHANGED <<saved, at, attempt, backoff, outcome>>,
         \/ call' = call
         \/ \E x \in Executions : call[x] = "idle" /\ call' = [call EXCEPT ![x] = "opened"]
  PROVE  GraphInv'
<1> DEFINE graph == RestoredGraph(state, snapshot)
           arrays == RestoredArrays(snapshot)
<1>1. /\ state' = RestoredState(graph, snapshot) /\ owner' = Restored
      /\ lists' = [lists EXCEPT ![Restored] = arrays]
      /\ mixed' = mixed \cup {x \in Executions : InFlight(x)}
  BY DEF Restore, RestoredGraph, RestoredState, RestoredArrays
<1>2. graph \in Graphs \cup {NoGraph} /\ (state.graph # NoGraph => graph # NoGraph)
  BY DEF GraphInv, StateOK, RestoredGraph
<1> HIDE DEF graph
<1>3. StateOK(state', arrays, saved) /\ state'.graph = graph
  BY <1>1, <1>2, RestoreOK DEF RestoredState
<1>4. ListShaped(arrays)
  BY <1>3 DEF StateOK, StateSound
<1> HIDE DEF arrays
<1>5. /\ lists'[Restored] = arrays
      /\ \A o \in Executions : lists'[o] = lists[o]
      /\ lists' = [o \in Owners |-> lists'[o]]
  BY <1>1, OwnersDiffer DEF GraphInv, Shaped, Owners
<1>6. Shaped'
  <2>1. \A o \in Owners : ListShaped(lists'[o])
    BY <1>4, <1>5 DEF GraphInv, Shaped, Owners
  <2>2. call' \in [Executions -> {"idle", "opened", "running", "answered", "failed"}]
    BY DEF GraphInv, Shaped
  <2> QED BY <1>1, <1>5, <2>1, <2>2 DEF GraphInv, Shaped, Owners
<1>7. CallsInOrder'
  <2>1. ASSUME NEW x \in Executions
        PROVE  call'[x] \in {"idle", "opened"} => at'[x] = 0
    BY DEF GraphInv, Shaped, CallsInOrder
  <2>2. ASSUME NEW x \in Executions
        PROVE  /\ outcome'[x] # "none" => at'[x] > Len(Order)
               /\ InFlight(x)' => state'.graph # NoGraph
    BY <1>2, <1>3 DEF GraphInv, CallsInOrder, InFlight
  <2> QED BY <2>1, <2>2 DEF CallsInOrder
<1>8. Books'
  <2>1. Apart' /\ HistoryFollows'
    BY <1>1, OwnersDiffer DEF Apart, HistoryFollows, InFlight
  <2>2. ASSUME NEW x \in Executions \ mixed' PROVE InStep(x)'
    <3>1. InStep(x) /\ ~InFlight(x)
      BY <1>1 DEF GraphInv, Books
    <3>2. ~InFlight(x)' /\ at'[x] = at[x] /\ lists'[x] = lists[x] /\ outcome'[x] = outcome[x]
      BY <1>5, <3>1 DEF InFlight
    <3> QED BY <3>1, <3>2 DEF InStep
  <2> QED BY <2>1, <2>2 DEF Books
<1>9. SavedSound' /\ StateOK(state, lists[owner], saved)'
  BY <1>1, <1>3, <1>5 DEF GraphInv, SavedSound
<1> QED BY <1>6, <1>7, <1>8, <1>9 DEF GraphInv

LEMMA ManageSteps ==
  ASSUME GraphInv, Manage
  PROVE  GraphInv'
<1>1. CASE \E c \in state.checkpoints : RestoreCheckpoint(c)
  <2>1. PICK c \in state.checkpoints : RestoreCheckpoint(c)
    BY <1>1
  <2>2. c.snapshot.graph = Live /\ KeptSound(c.snapshot, saved)
    BY DEF GraphInv, StateOK
  <2>3. Restore(c.snapshot) /\ UNCHANGED <<saved, at, attempt, backoff, outcome, call>>
    BY <2>1 DEF RestoreCheckpoint, execVars, callVars
  <2> HIDE DEF Restore
  <2> QED BY <2>2, <2>3, RestoreStep, Placeholders
<1>2. ASSUME NEW i \in DOMAIN saved
      PROVE  /\ saved[i].graph \in Graphs \cup {NoGraph, Live} /\ KeptSound(saved[i], saved)
             /\ saved[i].graph = NoGraph => ~AlwaysParsed(saved)
  <2>1. i \in 1..Len(saved)
    BY DEF GraphInv, Shaped
  <2> QED BY <2>1 DEF GraphInv, SavedSound, AlwaysParsed
<1>3. CASE \E i \in DOMAIN saved : ResumeAgent(i)
  <2>1. PICK i \in DOMAIN saved : ResumeAgent(i)
    BY <1>3
  <2>2. Restore(saved[i]) /\ UNCHANGED <<saved, at, attempt, backoff, outcome, call>>
    BY <2>1 DEF ResumeAgent, execVars, callVars
  <2> QED BY <1>2, <2>2, RestoreStep
<1>4. CASE \E x \in Executions, i \in DOMAIN saved : ContinueAgent(x, i)
  <2>1. PICK x \in Executions, i \in DOMAIN saved : ContinueAgent(x, i)
    BY <1>4
  <2>2. /\ Restore(saved[i]) /\ UNCHANGED <<saved, at, attempt, backoff, outcome>>
        /\ call[x] = "idle" /\ call' = [call EXCEPT ![x] = "opened"]
    BY <2>1 DEF ContinueAgent, execVars
  <2> QED BY <1>2, <2>2, RestoreStep
<1> QED BY <1>1, <1>3, <1>4, PauseStep DEF Manage

LEMMA BeginStep ==
  ASSUME GraphInv, NEW x \in Executions, BeginExecution(x)
  PROVE  GraphInv'
<1> DEFINE n == Order[1]
<1>1. /\ call[x] = "opened" /\ call' = [call EXCEPT ![x] = "running"]
      /\ state' = Begin(FreshState, x, n) /\ owner' = x
      /\ lists' = [lists EXCEPT ![x] = NothingExecuted]
      /\ at' = [at EXCEPT ![x] = 1]
      /\ mixed' = IF Others(x) = {} THEN mixed ELSE mixed \cup Others(x) \cup {x}
      /\ UNCHANGED <<saved, attempt, backoff, outcome>>
  BY DEF BeginExecution
<1>2. at[x] = 0 /\ ~InFlight(x) /\ outcome[x] = "none"
  <2>1. at[x] = 0 /\ (outcome[x] # "none" => at[x] > Len(Order))
    BY <1>1 DEF GraphInv, CallsInOrder
  <2> QED BY <2>1, SomeNodes DEF InFlight
<1>3. n \in Nodes /\ 1 \in DOMAIN Order /\ 1 \in 0..(Len(Order) + 1)
  BY SomeNodes
<1> HIDE DEF n
<1>4. StateOK(state', NothingExecuted, saved)
  BY <1>1, <1>3, FreshOK, BeginOK
<1>5. /\ state'.graph = Declared /\ state'.current = {n}
      /\ DOMAIN state'.history = {<<x, n>>}
      /\ state'.history[<<x, n>>] = [status |-> "running", held |-> TRUE]
  <2>1. /\ StateShaped(FreshState) /\ FreshState.graph = Declared /\ FreshState.history = <<>>
        /\ DOMAIN <<>> = {}
    BY FreshOK, NothingExecutedYet DEF StateOK, FreshState
  <2> HIDE DEF FreshState
  <2>2. Begin(FreshState, x, n).graph = Declared /\ Begin(FreshState, x, n).current = {n}
    BY <2>1, BeginSays
  <2>3. /\ DOMAIN Begin(FreshState, x, n).history = DOMAIN FreshState.history \cup {<<x, n>>}
        /\ Begin(FreshState, x, n).history[<<x, n>>] = [status |-> "running", held |-> TRUE]
    BY <2>1, BegunHistory
  <2> QED BY <1>1, <2>1, <2>2, <2>3
<1>6. /\ lists'[x] = NothingExecuted
      /\ \A o \in Owners \ {x} : lists'[o] = lists[o]
      /\ lists' = [o \in Owners |-> lists'[o]]
  BY <1>1 DEF GraphInv, Shaped, Owners
<1>7. at'[x] = 1 /\ \A y \in Executions \ {x} : at'[y] = at[y]
  BY <1>1 DEF GraphInv, Shaped
<1>8. InFlight(x)' /\ NodeOf(x)' = n
      /\ \A y \in Executions \ {x} : InFlight(y)' = InFlight(y)
  BY <1>3, <1>7 DEF InFlight, NodeOf, n
<1>9. Shaped'
  <2>1. \A o \in Owners : ListShaped(lists'[o])
    BY <1>6, NothingExecutedYet DEF GraphInv, Shaped
  <2>2. /\ call' \in [Executions -> {"idle", "opened", "running", "answered", "failed"}]
        /\ at' \in [Executions -> 0..(Len(Order) + 1)]
    BY <1>1, <1>3 DEF GraphInv, Shaped
  <2>3. mixed' \subseteq Executions
    BY <1>1 DEF GraphInv, Shaped, Others
  <2> QED BY <1>1, <1>6, <2>1, <2>2, <2>3 DEF GraphInv, Shaped, Owners
<1>10. CallsInOrder'
  <2>1. state'.graph # NoGraph
    BY <1>5, GraphAssumption, Placeholders
  <2>2. call'[x] = "running" /\ \A y \in Executions \ {x} : call'[y] = call[y]
    BY <1>1 DEF GraphInv, Shaped
  <2> QED BY <1>1, <1>2, <1>7, <2>1, <2>2 DEF GraphInv, CallsInOrder
<1>11. Books'
  <2>1. Apart'
    <3>1. Others(x)' = Others(x)
      BY <1>8 DEF Others
    <3> QED BY <1>1, <1>8, <3>1 DEF Apart, Others
  <2>2. HistoryFollows'
    BY <1>1, <1>5, <1>8 DEF HistoryFollows
  <2>3. ASSUME NEW y \in Executions \ mixed', y # x PROVE InStep(y)'
    <3>1. InStep(y) /\ ~InFlight(y)
      BY <1>1, <2>3 DEF GraphInv, Books, Others
    <3>2. ~InFlight(y)' /\ at'[y] = at[y] /\ lists'[y] = lists[y] /\ outcome'[y] = outcome[y]
      BY <1>1, <1>6, <1>7, <1>8, <2>3, <3>1 DEF Owners
    <3> QED BY <3>1, <3>2 DEF InStep
  <2>4. InStep(x)'
    <3>1. lists'[x].executed = <<>> /\ Len(<<>>) = 0 /\ Len(Order) \in Nat
      BY <1>6, NothingExecutedYet, SomeNodes
    <3>2. \A i \in 1..0 : FALSE
      OBVIOUS
    <3> QED BY <1>1, <1>2, <1>5, <1>7, <1>8, <3>1, <3>2 DEF InStep
  <2> QED BY <2>1, <2>2, <2>3, <2>4 DEF Books
<1>12. SavedSound' /\ StateOK(state, lists[owner], saved)'
  BY <1>1, <1>4, <1>6 DEF GraphInv, SavedSound
<1> QED BY <1>9, <1>10, <1>11, <1>12 DEF GraphInv

-----------------------------------------------------------------------------
\* The node of an execution is settled and the execution goes on with the next
\* one or is over.
LEMMA AdvanceStep ==
  ASSUME GraphInv, NEW x \in Executions, InFlight(x),
         NEW failed \in BOOLEAN, NEW stop \in BOOLEAN, stop => failed /\ ~AllowParallel,
         NEW status, status # "running", NEW s,
         StateOK(s, Appended(lists[owner], NodeOf(x), failed), saved), s.graph = state.graph,
         s.history = Settle(state, x, NodeOf(x), status).history,
         lists' = [lists EXCEPT ![owner] = Appended(lists[owner], NodeOf(x), failed)],
         Proceed(x, s, stop), UNCHANGED <<owner, saved, backoff, call, outcome, mixed>>
  PROVE  GraphInv'
<1> DEFINE n == NodeOf(x)
           new == Appended(lists[owner], n, failed)
           next == IF stop THEN Len(Order) + 1 ELSE at[x] + 1
<1>1. /\ at' = [at EXCEPT ![x] = next] /\ attempt' = [attempt EXCEPT ![x] = 0]
      /\ state' = IF next \in DOMAIN Order THEN Begin(s, x, Order[next]) ELSE s
  BY DEF Proceed
<1>2. /\ Len(Order) \in Nat \ {0} /\ DOMAIN Order = 1..Len(Order)
      /\ at[x] \in 1..Len(Order) /\ n \in Nodes /\ n = Order[at[x]]
      /\ next \in 1..(Len(Order) + 1)
      /\ next \in DOMAIN Order => next = at[x] + 1 /\ Order[next] \in Nodes
      /\ next \notin DOMAIN Order => stop \/ at[x] = Len(Order)
  BY SomeNodes DEF InFlight, NodeOf
<1>3. /\ outcome[x] = "none" /\ call[x] \notin {"idle", "opened"} /\ state.graph # NoGraph
  BY <1>2 DEF GraphInv, CallsInOrder
<1> HIDE DEF n, next
<1>4. StateShaped(s) /\ StateShaped(state)
  BY DEF GraphInv, StateOK
<1>5. /\ state'.graph = state.graph
      /\ next \in DOMAIN Order => state'.current = {Order[next]}
  BY <1>1, <1>4, BeginSays
<1>6. StateOK(state', new, saved)
  BY <1>1, <1>2, BeginOK DEF n
<1>7. /\ ListShaped(lists[owner]) /\ owner \in Owners
      /\ lists'[owner] = new /\ \A o \in Owners \ {owner} : lists'[o] = lists[o]
      /\ lists' = [o \in Owners |-> lists'[o]]
  BY DEF GraphInv, Shaped, n
<1>8. /\ ListShaped(new) /\ Len(lists[owner].executed) \in Nat
      /\ Len(new.executed) = Len(lists[owner].executed) + 1
      /\ \A i \in 1..Len(lists[owner].executed) :
           new.executed[i] = lists[owner].executed[i]
      /\ new.executed[Len(lists[owner].executed) + 1] = [node |-> n, failed |-> failed]
  BY <1>2, <1>7, AppendedSays
<1> HIDE DEF new
<1>9. at'[x] = next /\ \A y \in Executions \ {x} : at'[y] = at[y]
  BY <1>1 DEF GraphInv, Shaped
<1>10. /\ InFlight(x)' <=> next \in DOMAIN Order
       /\ NodeOf(x)' = Order[next]
       /\ \A y \in Executions \ {x} : InFlight(y)' = InFlight(y)
  BY <1>9 DEF InFlight, NodeOf
<1>11. Shaped'
  <2>1. \A o \in Owners : ListShaped(lists'[o])
    BY <1>7, <1>8 DEF GraphInv, Shaped
  <2>2. at' \in [Executions -> 0..(Len(Order) + 1)] /\ attempt' \in [Executions -> 0..MaxRetries]
    BY <1>1, <1>2, GraphAssumption DEF GraphInv, Shaped
  <2> QED BY <1>7, <2>1, <2>2 DEF GraphInv, Shaped
<1>12. CallsInOrder'
  <2>1. ASSUME NEW y \in Executions
        PROVE  (/\ call[y] \in {"idle", "opened"} => at[y] = 0
                /\ outcome[y] # "none" => at[y] > Len(Order)
                /\ InFlight(y) => state.graph # NoGraph)'
    <3>1. CASE y = x
      BY <1>3, <1>5, <3>1
    <3>2. CASE y # x
      BY <1>3, <1>5, <1>9, <3>2 DEF GraphInv, CallsInOrder
    <3> QED BY <3>1, <3>2
  <2> QED BY <2>1 DEF CallsInOrder
<1>13. ASSUME NEW y \in Executions \ mixed, y # x
       PROVE  ~InFlight(y) /\ owner # y
  <2>1. Apart
    BY DEF GraphInv, Books
  <2>2. x \in Others(y)
    BY <1>13 DEF Others
  <2> QED BY <2>1, <2>2 DEF Apart
<1>14. x \notin mixed => owner = x
  BY DEF GraphInv, Books, Apart
<1>15. Apart'
  <2>1. Apart
    BY DEF GraphInv, Books
  <2>2. Others(x)' = Others(x)
    BY <1>10 DEF Others
  <2> QED BY <1>10, <1>13, <1>14, <2>1, <2>2 DEF Apart
<1>16. HistoryFollows'
  <2> SUFFICES ASSUME owner \in Executions \ mixed
               PROVE  HistoryFollows'
    BY DEF HistoryFollows
  <2>1. owner = x
    BY <1>13
  <2> DEFINE h == state.history
             r == s.history
  <2>2. /\ \A id \in DOMAIN h : h[id].status = "running" => id = <<x, n>>
        /\ <<x, n>> \in DOMAIN h /\ h[<<x, n>>] = [status |-> "running", held |-> TRUE]
    BY <2>1 DEF GraphInv, Books, HistoryFollows, n
  <2>3. r = [id \in DOMAIN h |-> IF id = <<x, n>> /\ h[id].held
                                   THEN [h[id] EXCEPT !.status = status] ELSE h[id]]
    BY <1>4, SettledHistory DEF n
  <2> HIDE DEF h, r
  <2>4. \A id \in DOMAIN r : r[id].status # "running"
    <3> TAKE id \in DOMAIN r
    <3>1. CASE id = <<x, n>>
      <4>1. [h[id] EXCEPT !.status = status].status = status
        BY <2>2, <3>1
      <4> QED BY <2>2, <2>3, <3>1, <4>1
    <3>2. CASE id # <<x, n>>
      BY <2>2, <2>3, <3>2
    <3> QED BY <3>1, <3>2
  <2>5. CASE next \in DOMAIN Order
    <3> DEFINE m == Order[next]
    <3>1. /\ DOMAIN state'.history = DOMAIN r \cup {<<x, m>>}
          /\ state'.history[<<x, m>>] = [status |-> "running", held |-> TRUE]
          /\ \A id \in DOMAIN r : id # <<x, m>> => state'.history[id] = r[id]
      BY <1>1, <1>4, <2>5, BegunHistory DEF r
    <3> HIDE DEF m
    <3>2. /\ \A id \in DOMAIN state'.history : state'.history[id].status = "running" => id = <<x, m>>
          /\ <<x, m>> \in DOMAIN state'.history
          /\ state'.history[<<x, m>>] = [status |-> "running", held |-> TRUE]
      BY <2>4, <3>1
    <3> QED BY <1>10, <2>1, <2>5, <3>2 DEF HistoryFollows, m
  <2>6. CASE next \notin DOMAIN Order
    <3>1. state'.history = r
      BY <1>1, <2>6 DEF r
    <3> QED BY <1>10, <2>1, <2>4, <2>6, <3>1 DEF HistoryFollows
  <2> QED BY <2>5, <2>6
<1>17. ASSUME NEW y \in Executions \ mixed PROVE InStep(y)'
  <2>1. InStep(y)
    BY DEF GraphInv, Books
  <2>2. CASE y # x
    <3>1. ~InFlight(y) /\ ~InFlight(y)' /\ at'[y] = at[y] /\ lists'[y] = lists[y]
      BY <1>7, <1>9, <1>10, <1>13, <2>2 DEF Owners
    <3> QED BY <2>1, <3>1 DEF InStep
  <2>3. CASE y = x
    <3> DEFINE own == lists[x].executed
    <3>1. owner = x
      BY <1>14, <2>3
    <3>2. /\ Len(own) = at[x] - 1 /\ \A i \in 1..Len(own) : own[i].node = Order[i]
      BY <1>2, <2>1, <2>3 DEF InStep
    <3>3. /\ Len(new.executed) = at[x]
          /\ \A i \in 1..Len(own) : new.executed[i] = own[i]
          /\ new.executed[at[x]] = [node |-> n, failed |-> failed]
      BY <1>2, <1>8, <3>1, <3>2
    <3> HIDE DEF own
    <3>4. \A i \in 1..at[x] : new.executed[i].node = Order[i]
      BY <1>2, <3>2, <3>3
    <3>5. ASSUME ~InFlight(x)'
          PROVE  \/ Len(new.executed) = Len(Order)
                 \/ ~AllowParallel /\ \E i \in 1..Len(new.executed) : new.executed[i].failed
      <4>1. CASE stop
        <5>1. new.executed[at[x]].failed /\ ~AllowParallel
          BY <3>3, <4>1
        <5>2. at[x] \in 1..Len(new.executed)
          BY <1>2, <3>3
        <5> QED BY <5>1, <5>2
      <4>2. CASE ~stop
        BY <1>2, <1>10, <3>3, <3>5, <4>2
      <4> QED BY <4>1, <4>2
    <3>6. InFlight(x)' => Len(new.executed) = at'[x] - 1 /\ state'.current = {NodeOf(x)'}
      BY <1>2, <1>5, <1>9, <1>10, <3>3
    <3>7. lists'[x] = new /\ outcome'[x] = "none" /\ Len(new.executed) <= Len(Order)
      BY <1>2, <1>3, <1>7, <3>1, <3>3
    <3> QED BY <2>3, <3>3, <3>4, <3>5, <3>6, <3>7 DEF InStep
  <2> QED BY <2>2, <2>3
<1>18. Books'
  BY <1>15, <1>16, <1>17 DEF Books
<1>19. SavedSound' /\ StateOK(state, lists[owner], saved)'
  BY <1>6, <1>7 DEF GraphInv, SavedSound
<1> QED BY <1>11, <1>12, <1>18, <1>19 DEF GraphInv

LEMMA CompleteStep ==
  ASSUME GraphInv, NEW x \in Executions, CompleteNode(x)
  PROVE  GraphInv'
<1> DEFINE n == NodeOf(x)
           l == lists[owner]
           s == Passed(state, l, x, n)
<1>1. /\ InFlight(x)
      /\ n \in Joins => JoinSatisfied(n, state.graph.join[n], state.graph.ordering[n], l.results)
      /\ lists' = [lists EXCEPT ![owner] = Appended(l, n, FALSE)]
      /\ Proceed(x, s, FALSE) /\ UNCHANGED <<owner, saved, backoff, call, outcome, mixed>>
  BY DEF CompleteNode, callVars, Passed, JoinedBy
<1>2. /\ StateOK(state, l, saved) /\ state.graph # NoGraph /\ n \in Nodes
  BY <1>1, SomeNodes DEF GraphInv, CallsInOrder, InFlight, NodeOf
<1> HIDE DEF n, l, s
<1>3. /\ StateOK(s, Appended(l, n, FALSE), saved) /\ s.graph = state.graph
      /\ s.history = Settle(state, x, n, "completed").history
  BY <1>1, <1>2, PassedOK DEF s
<1> QED BY <1>1, <1>3, AdvanceStep DEF n, l

LEMMA FailStep ==
  ASSUME GraphInv, NEW x \in Executions, FailNode(x)
  PROVE  GraphInv'
<1> DEFINE n == NodeOf(x)
           l == lists[owner]
           s == Settle(state, x, n, "failed")
<1>1. /\ InFlight(x) /\ lists' = [lists EXCEPT ![owner] = Appended(l, n, TRUE)]
      /\ Proceed(x, s, ~AllowParallel) /\ UNCHANGED <<owner, saved, backoff, call, outcome, mixed>>
  BY DEF FailNode, MayFail, callVars
<1>2. /\ StateOK(state, l, saved) /\ StateShaped(state) /\ n \in Nodes
  BY <1>1, SomeNodes DEF GraphInv, StateOK, InFlight, NodeOf
<1>3. StateOK(s, Appended(l, n, TRUE), saved) /\ s.graph = state.graph
  <2> HIDE DEF n, l
  <2>1. StateOK(s, Appended(l, n, TRUE), saved)
    BY <1>2, SettleOK
  <2>2. s.graph = state.graph
    BY <1>2, SettleSays
  <2> QED BY <2>1, <2>2
<1>4. (~AllowParallel) \in BOOLEAN
  BY GraphAssumption
<1> HIDE DEF n, l
<1> QED BY <1>1, <1>3, <1>4, AdvanceStep DEF n, l

-----------------------------------------------------------------------------
LEMMA InitInv == Init => GraphInv
<1> SUFFICES ASSUME Init PROVE GraphInv
  OBVIOUS
<1>1. /\ state = EmptyState /\ owner = Restored /\ saved = <<>>
      /\ lists = [o \in Owners |-> NothingExecuted]
      /\ at = [x \in Executions |-> 0] /\ attempt = [x \in Executions |-> 0] /\ backoff = {}
      /\ call = [x \in Executions |-> "idle"] /\ outcome = [x \in Executions |-> "none"]
      /\ mixed = {}
  BY DEF Init, Owners
<1>2. ListShaped(NothingExecuted) /\ Len(<<>>) = 0 /\ DOMAIN <<>> = {}
  BY NothingExecutedYet
<1>3. Len(Order) \in Nat /\ DOMAIN Order = 1..Len(Order) /\ MaxRetries \in Nat
  BY SomeNodes, GraphAssumption
<1>4. \A x \in Executions : ~InFlight(x)
  BY <1>1, <1>3 DEF InFlight
<1>5. saved = [i \in 1..Len(saved) |-> saved[i]] /\ \A i \in 1..Len(saved) : FALSE
  <2>1. 1..0 = {}
    OBVIOUS
  <2>2. <<>> = [i \in {} |-> saved[i]]
    BY <1>2
  <2> QED BY <1>1, <1>2, <2>1, <2>2
<1>6. Shaped
  <2>1. /\ DOMAIN lists = Owners /\ \A o \in Owners : ListShaped(lists[o])
        /\ lists = [o \in Owners |-> lists[o]]
    BY <1>1, <1>2
  <2>2. owner \in Owners /\ mixed \subseteq Executions
    BY <1>1 DEF Owners
  <2> QED BY <1>1, <1>2, <1>3, <1>5, <2>1, <2>2 DEF Shaped
<1>7. StateOK(state, lists[owner], saved)
  BY <1>1, EmptyOK DEF Owners
<1>8. SavedSound
  BY <1>5 DEF SavedSound
<1>9. CallsInOrder
  BY <1>1, <1>4 DEF CallsInOrder
<1>10. Books
  <2>1. \A x \in Executions : InStep(x)
    BY <1>1 DEF InStep
  <2> QED BY <1>1, <1>4, <2>1, OwnersDiffer DEF Books, Apart, HistoryFollows
<1> QED BY <1>6, <1>7, <1>8, <1>9, <1>10 DEF GraphInv

LEMMA NextInv == GraphInv /\ [Next]_vars => GraphInv'
<1> SUFFICES ASSUME GraphInv, [Next]_vars PROVE GraphInv'
  OBVIOUS
<1>1. ASSUME NEW x \in Executions, Advance(x) PROVE GraphInv'
  BY <1>1, CompleteStep, BackoffStep, FailStep, FinishStep DEF Advance
<1>2. ASSUME NEW x \in Executions, Call(x) PROVE GraphInv'
  BY <1>2, OpenCallStep, BeginStep, TimeOutStep, BackoffStep DEF Call
<1>3. CASE UNCHANGED vars
  <2>1. UNCHANGED <<state, owner, lists, saved, at, attempt, backoff, call, outcome, mixed>>
    BY <1>3 DEF vars
  <2>2. Shaped' /\ CallsInOrder'
    BY <2>1 DEF GraphInv, Shaped, CallsInOrder, InFlight
  <2>3. Books'
    BY <2>1, QuietBooks DEF GraphInv
  <2> QED BY <2>1, <2>2, <2>3, QuietState DEF GraphInv
<1> QED BY <1>1, <1>2, <1>3, ManageSteps, UpdateSteps DEF Next

\* The inductive invariant: every step of every handler keeps the state, its
\* checkpoints and the saved states sound and the undisturbed executions in step.
THEOREM GraphInvHolds == Spec => []GraphInv
<1> QED BY InitInv, NextInv, PTL DEF Spec

-----------------------------------------------------------------------------
LEMMA SnapshotsAreSound ==
  ASSUME GraphInv, NEW s \in Snapshots
  PROVE  KeptSound(s, saved)
<1> DEFINE l == lists[owner]
<1>1. StateOK(state, l, saved) /\ \A c \in state.checkpoints : KeptSound(c.snapshot, saved)
  BY DEF GraphInv, StateOK
<1> HIDE DEF l
<1>2. KeptSound(Snapshot(state, l, state.graph), saved)
  BY <1>1, StatesAndSnapshots DEF StateOK, KeptSound
<1>3. \A i \in DOMAIN saved : KeptSound(saved[i], saved)
  <2>1. DOMAIN saved = 1..Len(saved)
    BY DEF GraphInv, Shaped
  <2> QED BY <2>1 DEF GraphInv, SavedSound
<1> QED BY <1>1, <1>2, <1>3 DEF Snapshots, Current, l

LEMMA TypesFollow == GraphInv => GraphTypeOK
<1> SUFFICES ASSUME GraphInv PROVE GraphTypeOK
  OBVIOUS
<1>1. \A s \in Snapshots :
        /\ s.pending \subseteq Nodes /\ s.current \subseteq Nodes
        /\ DOMAIN s.queues \subseteq Edges
        /\ \A e \in DOMAIN s.queues : s.queues[e] \in Counters
        /\ s.traversed \in [Edges -> Nat]
  BY SnapshotsAreSound DEF KeptSound, SnapshotSound, Counted
<1>2. state.graph \in Graphs \cup {NoGraph}
  BY DEF GraphInv, StateOK
<1> HIDE DEF Snapshots, Graphs, Counters
<1> QED BY <1>1, <1>2 DEF GraphInv, Shaped, Owners, GraphTypeOK

LEMMA AccountsFollow == GraphInv => NodesAccountedFor
<1> SUFFICES ASSUME GraphInv, NEW s \in Snapshots, s.graph # NoGraph
             PROVE  /\ s.pending \cap ExecutedNodes(s) = {}
                    /\ s.results = {n \in Nodes : \E i \in DOMAIN s.executed :
                                      s.executed[i].node = n /\ ~s.executed[i].failed}
                    /\ (\A i \in DOMAIN saved : saved[i].graph # NoGraph) =>
                         Nodes \subseteq s.pending \cup ExecutedNodes(s)
  BY TypesFollow DEF NodesAccountedFor
<1>1. SnapshotSound(s) /\ (AlwaysParsed(saved) => NodesKept(s))
  BY SnapshotsAreSound DEF KeptSound
<1>2. ExecutedNodes(s) = Executed(s.executed)
  BY DEF ExecutedNodes, Executed
<1> QED BY <1>1, <1>2 DEF SnapshotSound, Completed, AlwaysParsed, NodesKept

LEMMA CountsFollow == GraphInv => QueuesMatchHistory
<1> SUFFICES ASSUME GraphInv, NEW s \in Snapshots, NEW e \in DOMAIN s.queues
             PROVE  /\ Taken(s.queues[e]) <= s.traversed[e]
                    /\ e \in Cyclic => Taken(s.queues[e]) = s.traversed[e]
  BY DEF QueuesMatchHistory, Taken
<1> QED BY SnapshotsAreSound DEF KeptSound, SnapshotSound, Counted

LEMMA JoinsFollow == GraphInv => JoinsAreFed
<1> SUFFICES ASSUME GraphInv, NEW s \in Snapshots, NEW n \in DOMAIN s.joined
             PROVE  LET j == s.joined[n]
                    IN  /\ {n} \cup {From[e] : e \in ToSet(j.inputs)} \subseteq s.results
                        /\ IF AsksForEdges(j.config) THEN ToSet(j.inputs) = j.config.edges
                           ELSE Len(j.inputs) >= Required(n, j.config)
                        /\ j.config.strategy = "count" => Len(j.inputs) = Required(n, j.config)
                        /\ ~j.ordering.repeat =>
                             /\ IsInjective(j.inputs)
                             /\ j.config.strategy = "all" => ToSet(j.inputs) = Incoming(n)
  BY DEF JoinsAreFed
<1>1. Fed(n, s.joined[n], s.results)
  BY SnapshotsAreSound DEF KeptSound, SnapshotSound
<1> QED BY <1>1 DEF Fed

\* Every node has a result exactly when none of a full list failed.
LEMMA FullLists ==
  ASSUME NEW l, ListShaped(l), Len(l.executed) <= Len(Order),
         \A i \in 1..Len(l.executed) : l.executed[i].node = Order[i],
         \/ Len(l.executed) = Len(Order)
         \/ \E i \in 1..Len(l.executed) : l.executed[i].failed
  PROVE  l.results = Nodes <=> \A i \in 1..Len(l.executed) : ~l.executed[i].failed
<1> DEFINE own == l.executed
<1>1. own \in Seq(Entries) /\ l.results = Completed(own)
  BY DEF ListShaped
<1> HIDE DEF own
<1>2. Len(own) \in Nat /\ DOMAIN own = 1..Len(own)
  BY ONLY <1>1, LenProperties
<1>3. ASSUME \A i \in 1..Len(own) : ~own[i].failed PROVE Completed(own) = Nodes
  <2>1. Len(own) = Len(Order)
    BY <1>3 DEF own
  <2>2. ASSUME NEW n \in Nodes PROVE n \in Completed(own)
    <3>1. PICK i \in 1..Len(Order) : Order[i] = n
      BY SomeNodes
    <3> QED BY <1>2, <1>3, <2>1, <3>1 DEF Completed, own
  <2> QED BY <2>2 DEF Completed
<1>4. ASSUME Completed(own) = Nodes, NEW i \in 1..Len(own), own[i].failed PROVE FALSE
  <2>1. i \in 1..Len(Order) /\ own[i].node = Order[i] /\ Len(own) <= Len(Order)
    BY <1>2, SomeNodes DEF own
  <2>2. Order[i] \in Completed(own)
    BY <1>4, <2>1, SomeNodes
  <2>3. PICK j \in DOMAIN own : own[j].node = Order[i] /\ ~own[j].failed
    BY <2>2 DEF Completed
  <2>4. j \in 1..Len(Order) /\ Order[j] = Order[i]
    BY <1>2, <2>1, <2>3, SomeNodes DEF own
  <2>5. j = i
    BY <2>1, <2>4, SomeNodes
  <2> QED BY <1>4, <2>3, <2>5
<1> QED BY <1>1, <1>3, <1>4 DEF own

LEMMA UndisturbedFollow == GraphInv => UndisturbedExecutions
<1> SUFFICES ASSUME GraphInv, NEW x \in Executions \ mixed
             PROVE  /\ at[x] > 0 =>
                         LET own == lists[x].executed
                         IN  /\ Len(own) < Len(Order) + 1
                             /\ \A i \in DOMAIN own : own[i].node = Order[i]
                             /\ AllowParallel => Len(own) = at[x] - 1
                    /\ InFlight(x) => owner = x /\ state.current = {NodeOf(x)}
                    /\ outcome[x] # "none" =>
                         /\ (outcome[x] = "success") <=> (lists[x].results = Nodes)
                         /\ owner = x =>
                              \A id \in DOMAIN state.history : state.history[id].status # "running"
  BY DEF UndisturbedExecutions
<1> DEFINE own == lists[x].executed
<1>1. ListShaped(lists[x]) /\ at[x] \in 0..(Len(Order) + 1)
  BY DEF GraphInv, Shaped, Owners
<1>2. Len(own) \in Nat /\ DOMAIN own = 1..Len(own)
  <2>1. own \in Seq(Entries)
    BY <1>1 DEF ListShaped
  <2> QED BY ONLY <2>1, LenProperties
<1>3. /\ Len(Order) \in Nat \ {0}
      /\ InFlight(x) <=> at[x] \in 1..Len(Order)
  BY SomeNodes DEF InFlight
<1>4. /\ at[x] > 0 =>
           /\ Len(own) <= Len(Order) /\ \A i \in 1..Len(own) : own[i].node = Order[i]
           /\ InFlight(x) => Len(own) = at[x] - 1 /\ state.current = {NodeOf(x)}
           /\ ~InFlight(x) => \/ Len(own) = Len(Order)
                              \/ ~AllowParallel /\ \E i \in 1..Len(own) : own[i].failed
      /\ outcome[x] # "none" =>
           (outcome[x] = "success" <=> \A i \in 1..Len(own) : ~own[i].failed)
  BY DEF GraphInv, Books, InStep
<1>5. /\ InFlight(x) => owner = x /\ at[x] > 0
      /\ outcome[x] # "none" => at[x] > Len(Order)
  BY <1>3 DEF GraphInv, Books, Apart, CallsInOrder
<1>6. ASSUME outcome[x] # "none"
      PROVE  /\ (outcome[x] = "success") <=> (lists[x].results = Nodes)
             /\ owner = x => \A id \in DOMAIN state.history : state.history[id].status # "running"
  <2>1. at[x] > 0 /\ ~InFlight(x)
    BY <1>1, <1>3, <1>5, <1>6
  <2>2. lists[x].results = Nodes <=> \A i \in 1..Len(own) : ~own[i].failed
    BY <1>1, <1>4, <2>1, FullLists
  <2>3. owner = x => \A id \in DOMAIN state.history : state.history[id].status # "running"
    BY <2>1 DEF GraphInv, Books, HistoryFollows
  <2> QED BY <1>4, <1>6, <2>2, <2>3
<1>7. ASSUME at[x] > 0
      PROVE  /\ Len(own) < Len(Order) + 1
             /\ \A i \in DOMAIN own : own[i].node = Order[i]
             /\ AllowParallel => Len(own) = at[x] - 1
  <2> HIDE DEF own
  <2> QED BY <1>1, <1>2, <1>3, <1>4, <1>7
<1>8. InFlight(x) => owner = x /\ state.current = {NodeOf(x)}
  BY <1>4, <1>5
<1> QED BY <1>6, <1>7, <1>8

-----------------------------------------------------------------------------
\* Whatever calls, pauses, restores and updates overlap, the state, its runtime
\* checkpoints and the saved states say the same of every node in their pending
\* nodes, executed nodes and results (markNodeCompleted, markNodeFailed,
\* restoreGraphState).
THEOREM NodesAreAccountedFor == Spec => []NodesAccountedFor
<1> QED BY GraphInvHolds, AccountsFollow, PTL

\* No item of an edge queue is lost uncounted: what was put on an edge is queued,
\* drained or dropped (enqueueEdgeQueueItem, popEdgeQueueItem, restoreEdgeQueues).
THEOREM QueuesKeepCount == Spec => []QueuesMatchHistory
<1> QED BY GraphInvHolds, CountsFollow, PTL

\* A convergence record is only there with the results it was made from
\* (resolveConvergenceInputs).
THEOREM JoinsWaitForTheirInputs == Spec => []JoinsAreFed
<1> QED BY GraphInvHolds, JoinsFollow, PTL

\* An execution that had the state to itself ran the nodes in their order, and its
\* result says whether all of them completed (executeWorkflow).
THEOREM ExecutionsRunInOrder == Spec => []UndisturbedExecutions
<1> QED BY GraphInvHolds, UndisturbedFollow, PTL
=============================================================================
