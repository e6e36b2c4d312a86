-------------------------- MODULE AlgorithmsProofs ---------------------------
(***************************************************************************)
(* Proofs about the subjects of MCAlgorithms: the detection of deadlocks   *)
(* and the searches of workflows, for any graph of any size; the editing   *)
(* of a resume; and, with the plans of DayPlanningProofs, that every       *)
(* algorithm is right in every state the specification reaches.            *)
(***************************************************************************)
EXTENDS MCAlgorithms, DayPlanningProofs

-----------------------------------------------------------------------------
(***************************************************************************)
(* The detector of deadlocks, for any graph of any number of tasks.  The   *)
(* search is a recursive function; that it exists and satisfies its        *)
(* equation comes first.                                                   *)
(***************************************************************************)

DetectTypes ==
  /\ blockedBy \in [Tasks -> Seq(Tasks)]
  /\ blocked \in SUBSET Tasks
  /\ priority \in [Tasks -> Nat]

\* The answers of a loop over blockers, round by round.
ExploreRounds(v, detect, blockers, visited, path) ==
  /\ v \in [0..Len(blockers) -> Outcomes]
  /\ v[0] = [found |-> <<>>, visited |-> visited]
  /\ \A i \in 1..Len(blockers) :
       v[i] = IF v[i - 1].found # <<>> THEN v[i - 1]
              ELSE detect[<<blockers[i], v[i - 1].visited, path>>]

\* The loop has an answer after each round.
LEMMA ExploredInRounds ==
  ASSUME NEW detect \in [Searches -> Outcomes], NEW blockers \in Seq(Tasks),
         NEW visited \in SUBSET Tasks, NEW path \in Seq(Tasks)
  PROVE  \E v : /\ ExploreRounds(v, detect, blockers, visited, path)
                /\ Explored(detect, blockers, visited, path) = v[Len(blockers)]
<1> DEFINE n == Len(blockers)
           S == Outcomes
           base == [found |-> <<>>, visited |-> visited]
           Next1(r, i) == IF r.found # <<>> THEN r ELSE detect[<<blockers[i], r.visited, path>>]
           advance == [p \in S \X (1..n) |-> Next1(p[1], p[2])]
           Rounds(f) == [i \in 0..n |-> IF i = 0 THEN base
                                        ELSE IF f[i - 1].found # <<>> THEN f[i - 1]
                                        ELSE detect[<<blockers[i], f[i - 1].visited, path>>]]
           v == CHOOSE f : f = Rounds(f)
<1>1. n \in Nat /\ \A i \in 1..n : blockers[i] \in Tasks
  BY LenProperties, ElementOfSeq
<1>2. base \in S
  BY DEF Outcomes
<1>3. \A r \in S, i \in 1..n : Next1(r, i) \in S
  <2> SUFFICES ASSUME NEW r \in S, NEW i \in 1..n PROVE Next1(r, i) \in S
    OBVIOUS
  <2>1. r.visited \in SUBSET Tasks /\ blockers[i] \in Tasks
    BY <1>1 DEF Outcomes
  <2>2. <<blockers[i], r.visited, path>> \in Searches
    BY <2>1 DEF Searches
  <2> QED BY <2>2
<1>4. Explored(detect, blockers, visited, path) = v[n]
  BY DEF Explored
<1> HIDE DEF n, S, base, v
<1>5. PICK g : Iterates(g, S, base, n, advance)
  <2>1. advance \in [S \X (1..n) -> S]
    <3> HIDE DEF Next1
    <3> QED BY <1>3
  <2> HIDE DEF advance
  <2> QED BY <1>1, <1>2, <2>1, IteratesExists
<1>6. g = Rounds(g)
  <2>1. ASSUME NEW i \in 0..n
        PROVE  g[i] = IF i = 0 THEN base
                      ELSE IF g[i - 1].found # <<>> THEN g[i - 1]
                      ELSE detect[<<blockers[i], g[i - 1].visited, path>>]
    <3>1. CASE i = 0
      BY <3>1, <1>5 DEF Iterates
    <3>2. CASE i # 0
      <4>1. i \in 1..n /\ i - 1 \in 0..n
        BY <3>2, <1>1
      <4>2. g[i - 1] \in S /\ g[i] = advance[<<g[i - 1], i>>]
        BY <4>1, <1>5 DEF Iterates
      <4> QED BY <3>2, <4>1, <4>2
    <3> QED BY <3>1, <3>2
  <2> QED BY <1>5, <2>1 DEF Iterates
<1>7. v = Rounds(v)
  BY <1>6 DEF v
<1>8. v[0] = base /\ \A i \in 1..n : v[i] = Next1(v[i - 1], i)
  BY <1>1, <1>7
<1>9. v \in [0..n -> S]
  <2> DEFINE I == {k \in Nat : k <= n => v[k] \in S}
  <2>1. 0 \in I
    BY <1>2, <1>8
  <2>2. ASSUME NEW k \in I PROVE k + 1 \in I
    <3> SUFFICES ASSUME k + 1 <= n PROVE v[k + 1] \in S
      OBVIOUS
    <3>1. k \in Nat /\ v[k] \in S /\ k + 1 \in 1..n /\ (k + 1) - 1 = k
      BY <1>1
    <3>2. v[k + 1] = Next1(v[k], k + 1)
      BY <3>1, <1>8
    <3> HIDE DEF Next1
    <3> QED BY <3>1, <3>2, <1>3
  <2> HIDE DEF I
  <2>3. I = Nat
    <3>1. I \in SUBSET Nat
      BY DEF I
    <3> QED BY <2>1, <2>2, <3>1, InductOn
  <2>4. \A k \in 0..n : v[k] \in S
    BY <2>3, <1>1 DEF I
  <2>5. v = [k \in 0..n |-> v[k]]
    BY <1>7
  <2> QED BY <2>4, <2>5
<1>10. ExploreRounds(v, detect, blockers, visited, path)
  BY <1>8, <1>9 DEF ExploreRounds, n, S, base
<1> QED BY <1>4, <1>10 DEF n

\* The loop asks for searches on this path only; it makes no difference what g is
\* elsewhere.
LEMMA ExploredAlike ==
  ASSUME NEW f \in [Searches -> Outcomes], NEW g,
         NEW blockers \in Seq(Tasks), NEW visited \in SUBSET Tasks, NEW path \in Seq(Tasks),
         \A b \in Tasks, V \in SUBSET Tasks : f[<<b, V, path>>] = g[<<b, V, path>>]
  PROVE  Explored(f, blockers, visited, path) = Explored(g, blockers, visited, path)
<1>1. PICK u : /\ ExploreRounds(u, f, blockers, visited, path)
               /\ Explored(f, blockers, visited, path) = u[Len(blockers)]
  BY ExploredInRounds
<1> DEFINE n == Len(blockers)
           base == [found |-> <<>>, visited |-> visited]
           Rounds(h) == [i \in 0..n |-> IF i = 0 THEN base
                                        ELSE IF h[i - 1].found # <<>> THEN h[i - 1]
                                        ELSE g[<<blockers[i], h[i - 1].visited, path>>]]
           v == CHOOSE h : h = Rounds(h)
           I == {k \in Nat : k <= n => u[k] = v[k]}
<1>2. Explored(g, blockers, visited, path) = v[n]
  BY DEF Explored
<1>3. n \in Nat /\ \A i \in 1..n : blockers[i] \in Tasks
  BY LenProperties, ElementOfSeq
<1>4. u \in [0..n -> Outcomes] /\ u[0] = base
  BY <1>1 DEF ExploreRounds
<1> HIDE DEF n, base, v
<1>5. ASSUME NEW i \in 1..n
      PROVE  u[i] = IF u[i - 1].found # <<>> THEN u[i - 1]
                    ELSE g[<<blockers[i], u[i - 1].visited, path>>]
  <2>1. i - 1 \in 0..n /\ u[i - 1] \in Outcomes
    BY <1>3, <1>4
  <2>2. u[i - 1].visited \in SUBSET Tasks /\ blockers[i] \in Tasks
    BY <2>1, <1>3 DEF Outcomes
  <2>3. u[i] = IF u[i - 1].found # <<>> THEN u[i - 1]
               ELSE f[<<blockers[i], u[i - 1].visited, path>>]
    BY <1>1 DEF ExploreRounds, n
  <2> QED BY <2>2, <2>3
<1>6. u = Rounds(u)
  <2>1. ASSUME NEW i \in 0..n
        PROVE  u[i] = IF i = 0 THEN base
                      ELSE IF u[i - 1].found # <<>> THEN u[i - 1]
                      ELSE g[<<blockers[i], u[i - 1].visited, path>>]
    <3>1. CASE i = 0
      BY <3>1, <1>4
    <3>2. CASE i # 0
      <4>1. i \in 1..n
        BY <3>2, <1>3
      <4> QED BY <3>2, <4>1, <1>5
    <3> QED BY <3>1, <3>2
  <2> QED BY <1>4, <2>1
<1>7. v = Rounds(v)
  BY <1>6 DEF v
<1>8. 0 \in I
  BY <1>3, <1>4, <1>7
<1>9. ASSUME NEW k \in I PROVE k + 1 \in I
  <2> SUFFICES ASSUME k + 1 <= n PROVE u[k + 1] = v[k + 1]
    OBVIOUS
  <2>1. u[k] = v[k] /\ k + 1 \in 1..n /\ k + 1 \in 0..n /\ (k + 1) - 1 = k /\ k + 1 # 0
    BY <1>3
  <2>2. v[k + 1] = IF v[k].found # <<>> THEN v[k] ELSE g[<<blockers[k + 1], v[k].visited, path>>]
    BY <1>7, <2>1
  <2>3. u[k + 1] = IF u[k].found # <<>> THEN u[k] ELSE g[<<blockers[k + 1], u[k].visited, path>>]
    BY <1>5, <2>1
  <2> QED BY <2>1, <2>2, <2>3
<1> HIDE DEF I
<1>10. I = Nat
  <2>1. I \in SUBSET Nat
    BY DEF I
  <2> QED BY <1>8, <1>9, <2>1, InductOn
<1>11. u[n] = v[n]
  BY <1>3, <1>10 DEF I
<1> QED BY <1>1, <1>2, <1>11 DEF n

\* The search as a function.
Detect == CHOOSE f : f = [q \in Searches |-> Detected(f, q[1], q[2], q[3])]

\* A call that enters a task asks for searches with that task on the path.
LEMMA DetectExists ==
  ASSUME DetectTypes
  PROVE  /\ Detect \in [Searches -> Outcomes]
         /\ \A t \in Tasks, V \in SUBSET Tasks, path \in Seq(Tasks) :
              Detect[<<t, V, path>>] = Detected(Detect, t, V, path)
<1> DEFINE S == [Searches -> Outcomes]
           N == Cardinality(Tasks)
           measure == [q \in Searches |-> Cardinality(Tasks \ ToSet(q[3]))]
           body == [f \in S |-> [q \in Searches |-> Detected(f, q[1], q[2], q[3])]]
           base == [q \in Searches |-> [found |-> <<>>, visited |-> {}]]
<1>0. IsFiniteSet(Tasks) /\ N \in Nat
  BY DetectionAssumption, FS_CardinalityType
<1>1. \A q \in Searches : q[1] \in Tasks /\ q[2] \in SUBSET Tasks /\ q[3] \in Seq(Tasks)
                          /\ q = <<q[1], q[2], q[3]>>
  BY DEF Searches
<1>2. \A path \in Seq(Tasks) : ToSet(path) \in SUBSET Tasks
  BY MembersOf
<1>3. measure \in [Searches -> 0..N]
  <2>1. ASSUME NEW q \in Searches PROVE Cardinality(Tasks \ ToSet(q[3])) \in 0..N
    <3>1. Tasks \ ToSet(q[3]) \in SUBSET Tasks
      OBVIOUS
    <3>2. IsFiniteSet(Tasks \ ToSet(q[3])) /\ Cardinality(Tasks \ ToSet(q[3])) <= N
      BY <1>0, <3>1, FS_Subset
    <3> QED BY <1>0, <3>2, FS_CardinalityType
  <2> QED BY <2>1
<1>4. base \in S
  BY DEF Outcomes
<1>5. ASSUME NEW f \in S, NEW t \in Tasks, NEW V \in SUBSET Tasks, NEW path \in Seq(Tasks)
      PROVE  Detected(f, t, V, path) \in Outcomes
  <2>1. CASE t \in ToSet(path)
    <3>1. PathFrom(path, t) \in Seq(Tasks)
      <4>1. PICK i \in 1..Len(path) : path[i] = t
        BY <2>1, MembersOf
      <4>2. DOMAIN path = 1..Len(path) /\ Len(path) \in Nat
        BY LenProperties
      <4> DEFINE j == CHOOSE k \in DOMAIN path : path[k] = t
      <4>3. j \in 1..Len(path)
        BY <4>1, <4>2
      <4> HIDE DEF j
      <4>4. SubSeq(path, j, Len(path)) \in Seq(Tasks)
        BY <4>2, <4>3, SubSeqProperties
      <4> QED BY <4>4 DEF j, PathFrom
    <3> QED BY <2>1, <3>1 DEF Detected, Outcomes
  <2>2. CASE t \notin ToSet(path) /\ t \in V
    BY <2>2 DEF Detected, Outcomes
  <2>3. CASE t \notin ToSet(path) /\ t \notin V
    <3>1. blockedBy[t] \in Seq(Tasks) /\ V \cup {t} \in SUBSET Tasks /\ Append(path, t) \in Seq(Tasks)
      BY DEF DetectTypes
    <3>2. PICK v : /\ ExploreRounds(v, f, blockedBy[t], V \cup {t}, Append(path, t))
                   /\ Explored(f, blockedBy[t], V \cup {t}, Append(path, t)) = v[Len(blockedBy[t])]
      BY <3>1, ExploredInRounds
    <3>3. Len(blockedBy[t]) \in 0..Len(blockedBy[t])
      BY <3>1
    <3>4. v[Len(blockedBy[t])] \in Outcomes
      BY <3>2, <3>3 DEF ExploreRounds
    <3> QED BY <2>3, <3>2, <3>4 DEF Detected
  <2> QED BY <2>1, <2>2, <2>3
<1>6. body \in [S -> S]
  <2>1. ASSUME NEW f \in S PROVE [q \in Searches |-> Detected(f, q[1], q[2], q[3])] \in S
    <3>1. ASSUME NEW q \in Searches PROVE Detected(f, q[1], q[2], q[3]) \in Outcomes
      BY <1>1, <1>5
    <3> QED BY <3>1
  <2> QED BY <2>1
<1>7. ASSUME NEW f \in S, NEW g, NEW q \in Searches,
             \A p \in Searches : measure[p] < measure[q] => f[p] = g[p]
      PROVE  Detected(f, q[1], q[2], q[3]) = Detected(g, q[1], q[2], q[3])
  <2> DEFINE t == q[1]  V == q[2]  path == q[3]
  <2>1. t \in Tasks /\ V \in SUBSET Tasks /\ path \in Seq(Tasks)
    BY <1>1
  <2>2. measure[q] = Cardinality(Tasks \ ToSet(path))
    OBVIOUS
  <2> SUFFICES Detected(f, t, V, path) = Detected(g, t, V, path)
    OBVIOUS
  <2> HIDE DEF t, V, path
  <2>4. CASE t \notin ToSet(path) /\ t \notin V
    <3>1. blockedBy[t] \in Seq(Tasks) /\ V \cup {t} \in SUBSET Tasks /\ Append(path, t) \in Seq(Tasks)
      BY <2>1 DEF DetectTypes
    <3>2. ToSet(Append(path, t)) = ToSet(path) \cup {t}
      BY <2>1, AppendMembers
    <3>3. Cardinality(Tasks \ ToSet(Append(path, t))) < Cardinality(Tasks \ ToSet(path))
      <4>1. IsFiniteSet(Tasks \ ToSet(path)) /\ t \in Tasks \ ToSet(path)
        BY <1>0, <2>1, <2>4, FS_Subset
      <4>2. (Tasks \ ToSet(path)) \ {t} = Tasks \ ToSet(Append(path, t))
        BY <3>2
      <4>3. Cardinality((Tasks \ ToSet(path)) \ {t}) = Cardinality(Tasks \ ToSet(path)) - 1
        BY <4>1, FS_RemoveElement
      <4>4. Cardinality(Tasks \ ToSet(path)) \in Nat
        BY <4>1, FS_CardinalityType
      <4> DEFINE a == Cardinality(Tasks \ ToSet(path))
                 b == Cardinality(Tasks \ ToSet(Append(path, t)))
      <4>5. a \in Nat /\ b = a - 1
        BY <4>2, <4>3, <4>4
      <4> HIDE DEF a, b
      <4>6. b < a
        BY <4>5
      <4> QED BY <4>6 DEF a, b
    <3>4. ASSUME NEW b \in Tasks, NEW W \in SUBSET Tasks
          PROVE  f[<<b, W, Append(path, t)>>] = g[<<b, W, Append(path, t)>>]
      <4>1. <<b, W, Append(path, t)>> \in Searches
        BY <3>1 DEF Searches
      <4>2. measure[<<b, W, Append(path, t)>>] = Cardinality(Tasks \ ToSet(Append(path, t)))
        BY <4>1
      <4> HIDE DEF measure
      <4> QED BY <4>1, <4>2, <3>3, <2>2, <1>7
    <3>5. Explored(f, blockedBy[t], V \cup {t}, Append(path, t))
            = Explored(g, blockedBy[t], V \cup {t}, Append(path, t))
      BY <3>1, <3>4, ExploredAlike
    <3> QED BY <2>4, <3>5 DEF Detected
  <2>5. CASE t \in ToSet(path) \/ t \in V
    BY <2>5 DEF Detected
  <2> QED BY <2>4, <2>5
<1>8. S \in SUBSET [Searches -> Outcomes]
  OBVIOUS
<1>9. PICK f \in S : body[f] = f
  <2>1. ASSUME NEW h \in S, NEW g \in S, NEW q \in Searches,
               \A p \in Searches : measure[p] < measure[q] => h[p] = g[p]
        PROVE  body[h][q] = body[g][q]
    <3>1. Detected(h, q[1], q[2], q[3]) = Detected(g, q[1], q[2], q[3])
      <4> HIDE DEF measure, S
      <4> QED BY <2>1, <1>7
    <3> QED BY <3>1
  <2>2. \A h, g \in S, q \in Searches :
          (\A p \in Searches : measure[p] < measure[q] => h[p] = g[p]) => body[h][q] = body[g][q]
    <3> HIDE DEF S, N, measure, body, base
    <3> QED BY <2>1
  <2>3. Descends(body, measure, S, Searches)
    <3> HIDE DEF S, N, measure, body, base
    <3> QED BY <2>2 DEF Descends
  <2>4. Recursion(Searches, Outcomes, S, base, N, measure, body)
    <3> HIDE DEF S, N, measure, body, base
    <3> QED BY <1>0, <1>3, <1>4, <1>6, <1>8, <2>3 DEF Recursion
  <2>5. \E f : Solves(f, S, body)
    <3> HIDE DEF S, N, measure, body, base
    <3> QED BY <2>4, RecursionExists
  <2> QED BY <2>5 DEF Solves
<1>10. f = [q \in Searches |-> Detected(f, q[1], q[2], q[3])]
  BY <1>9
<1>11. Detect = [q \in Searches |-> Detected(Detect, q[1], q[2], q[3])]
  BY <1>10 DEF Detect
<1>12. Detect = f
  <2> DEFINE I == {n \in Nat : \A q \in Searches : measure[q] < n => f[q] = Detect[q]}
  <2>0. \A q \in Searches : measure[q] \in Nat /\ measure[q] <= N
    BY <1>3, <1>0
  <2>1. 0 \in I
    <3> HIDE DEF measure, N
    <3> QED BY <2>0
  <2>2. ASSUME NEW n \in I PROVE n + 1 \in I
    <3> HIDE DEF measure, N
    <3> SUFFICES ASSUME NEW q \in Searches, measure[q] < n + 1 PROVE f[q] = Detect[q]
      OBVIOUS
    <3>1. \A p \in Searches : measure[p] < measure[q] => f[p] = Detect[p]
      BY <2>0
    <3>2. Detected(f, q[1], q[2], q[3]) = Detected(Detect, q[1], q[2], q[3])
      BY <3>1, <1>7
    <3> QED BY <3>2, <1>10, <1>11
  <2> HIDE DEF measure, N, I
  <2>3. I = Nat
    <3>1. I \in SUBSET Nat
      BY DEF I
    <3> QED BY <2>1, <2>2, <3>1, InductOn
  <2>4. N + 1 \in I /\ \A q \in Searches : measure[q] < N + 1
    BY <2>0, <2>3, <1>0
  <2>5. \A q \in Searches : f[q] = Detect[q]
    BY <2>4 DEF I
  <2> QED BY <2>5, <1>10, <1>11
<1>13. ASSUME NEW t \in Tasks, NEW V \in SUBSET Tasks, NEW path \in Seq(Tasks)
       PROVE  Detect[<<t, V, path>>] = Detected(Detect, t, V, path)
  <2>1. <<t, V, path>> \in Searches
    BY DEF Searches
  <2> QED BY <1>11, <2>1
<1> QED BY <1>12, <1>13

\* A list of tasks each of which is blocked by the next one and the last by the first.
IsCycle(c) ==
  /\ c \in Seq(Tasks) /\ Len(c) > 0 /\ IsInjective(c)
  /\ \A i \in DOMAIN c : c[IF i = Len(c) THEN 1 ELSE i + 1] \in Blockers(c[i])

\* Tasks that are done with: they wait for one another only, and none for itself.
Finished(B) == B \in SUBSET Tasks /\ \A t \in B : Blockers(t) \subseteq B /\ ~OnCycle(t)

ClosedSet(S) == S \in SUBSET Tasks /\ \A t \in S : Blockers(t) \subseteq S

\* A path of waiting tasks that ends at a task waiting for t; what is visited and
\* off the path is finished.
GoodSearch(t, visited, path) ==
  /\ IsInjective(path)
  /\ \A i \in DOMAIN path :
       (IF i = Len(path) THEN t ELSE path[i + 1]) \in Blockers(path[i])
  /\ ToSet(path) \subseteq visited
  /\ Finished(visited \ ToSet(path))

\* What the search may answer: a cycle behind t, or t is finished as well.
GoodOutcome(r, t, visited, path) ==
  IF r.found # <<>>
    THEN /\ IsCycle(r.found)
         /\ \A S : ClosedSet(S) /\ t \in S /\ ToSet(path) \subseteq S => ToSet(r.found) \subseteq S
  ELSE /\ visited \cup {t} \subseteq r.visited
       /\ t \notin ToSet(path)
       /\ Finished(r.visited \ ToSet(path))

\* The tasks that block a task are tasks.
LEMMA BlockersAreTasks ==
  ASSUME DetectTypes, NEW t \in Tasks
  PROVE  /\ Blockers(t) \in SUBSET Tasks
         /\ \A b : b \in Blockers(t) <=> \E i \in 1..Len(blockedBy[t]) : blockedBy[t][i] = b
<1>1. blockedBy[t] \in Seq(Tasks)
  BY DEF DetectTypes
<1> QED BY <1>1, MembersOf DEF Blockers

\* The path from the place where t is on it is a cycle.
LEMMA RepetitionIsCycle ==
  ASSUME DetectTypes, NEW t \in Tasks, NEW visited \in SUBSET Tasks, NEW path \in Seq(Tasks),
         GoodSearch(t, visited, path), t \in ToSet(path)
  PROVE  /\ IsCycle(PathFrom(path, t)) /\ PathFrom(path, t) # <<>>
         /\ ToSet(PathFrom(path, t)) \subseteq ToSet(path)
<1> DEFINE n == Len(path)
           j == CHOOSE i \in DOMAIN path : path[i] = t
           c == SubSeq(path, j, n)
<1>1. n \in Nat /\ DOMAIN path = 1..n /\ \A i \in 1..n : path[i] \in Tasks
  BY LenProperties, ElementOfSeq
<1>2. j \in 1..n /\ path[j] = t
  <2>1. \E i \in DOMAIN path : path[i] = t
    BY MembersOf, <1>1
  <2> QED BY <2>1, <1>1
<1>3. c = PathFrom(path, t)
  BY DEF PathFrom
<1> HIDE DEF n, j
<1>4. c \in Seq(Tasks) /\ Len(c) = n - j + 1 /\ \A i \in 1..(n - j + 1) : c[i] = path[j + i - 1]
  BY <1>1, <1>2, SubSeqProperties DEF n
<1> HIDE DEF c
<1> DEFINE m == n - j + 1
<1>5. m \in Nat /\ m > 0 /\ DOMAIN c = 1..m /\ Len(c) = m
  BY <1>1, <1>2, <1>4, LenProperties
<1>6. \A i \in 1..m : j + i - 1 \in 1..n
  BY <1>1, <1>2
<1>7. \A i, k \in 1..n : path[i] = path[k] => i = k
  BY <1>1 DEF GoodSearch, IsInjective
<1>8. IsInjective(c)
  <2> SUFFICES ASSUME NEW i \in 1..m, NEW k \in 1..m, c[i] = c[k] PROVE i = k
    BY <1>5 DEF IsInjective
  <2>1. path[j + i - 1] = path[j + k - 1]
    BY <1>4
  <2>2. j + i - 1 = j + k - 1
    BY <2>1, <1>6, <1>7
  <2> QED BY <2>2, <1>1, <1>2
<1>9. ASSUME NEW i \in 1..m PROVE c[IF i = m THEN 1 ELSE i + 1] \in Blockers(c[i])
  <2>1. (IF j + i - 1 = n THEN t ELSE path[(j + i - 1) + 1]) \in Blockers(path[j + i - 1])
    BY <1>1, <1>6 DEF GoodSearch, n
  <2>2. c[i] = path[j + i - 1]
    BY <1>4
  <2>3. CASE i = m
    <3>1. j + i - 1 = n /\ c[1] = t
      <4>1. 1 \in 1..m /\ j + 1 - 1 = j /\ j + i - 1 = n
        BY <2>3, <1>1, <1>2, <1>5
      <4> QED BY <4>1, <1>2, <1>4
    <3> QED BY <2>1, <2>2, <2>3, <3>1
  <2>4. CASE i # m
    <3>1. i + 1 \in 1..m /\ j + i - 1 # n /\ (j + i - 1) + 1 = j + (i + 1) - 1
      BY <2>4, <1>1, <1>2, <1>5
    <3>2. c[i + 1] = path[j + (i + 1) - 1]
      BY <3>1, <1>4
    <3> QED BY <2>1, <2>2, <2>4, <3>1, <3>2
  <2> QED BY <2>3, <2>4
<1>10. IsCycle(c)
  BY <1>4, <1>5, <1>8, <1>9 DEF IsCycle
<1>11. ToSet(c) \subseteq ToSet(path)
  <2> SUFFICES ASSUME NEW u \in ToSet(c) PROVE u \in ToSet(path)
    OBVIOUS
  <2>1. PICK i \in 1..m : c[i] = u
    BY <1>4, <1>5, MembersOf
  <2>2. u = path[j + i - 1] /\ j + i - 1 \in 1..n
    BY <2>1, <1>4, <1>6
  <2> QED BY <2>2, MembersOf DEF n
<1>12. c # <<>>
  BY <1>5
<1> QED BY <1>3, <1>10, <1>11, <1>12

\* Once all its blockers are finished and none leads back to it, a task is.
LEMMA LastIsFinished ==
  ASSUME DetectTypes, NEW t \in Tasks, NEW B, Finished(B), Blockers(t) \subseteq B, t \notin B
  PROVE  Finished(B \cup {t})
<1>1. ~OnCycle(t)
  <2> SUFFICES ASSUME t \in Reach(t) PROVE FALSE
    BY DEF OnCycle
  <2>1. Blockers(t) \subseteq B => t \in B
    BY DEF Reach, Finished
  <2> QED BY <2>1
<1> QED BY <1>1 DEF Finished

\* After each round of the loop over its blockers, the task on top of the path is on
\* the way to be finished, if there is no cycle.
LEMMA ExploredIsGood ==
  ASSUME DetectTypes, NEW detect \in [Searches -> Outcomes],
         NEW t \in Tasks, NEW visited \in SUBSET Tasks, NEW path \in Seq(Tasks),
         GoodSearch(t, visited, path), t \notin visited,
         \A b \in Tasks, V \in SUBSET Tasks :
           GoodSearch(b, V, Append(path, t)) =>
             GoodOutcome(detect[<<b, V, Append(path, t)>>], b, V, Append(path, t))
  PROVE  GoodOutcome(Explored(detect, blockedBy[t], visited \cup {t}, Append(path, t)),
                     t, visited, path)
<1> DEFINE list == blockedBy[t]
           n == Len(list)
           W == visited \cup {t}
           here == Append(path, t)
<1>0. list \in Seq(Tasks) /\ W \in SUBSET Tasks /\ here \in Seq(Tasks)
  BY DEF DetectTypes
<1>1. PICK v : ExploreRounds(v, detect, list, W, here) /\ Explored(detect, list, W, here) = v[n]
  BY <1>0, ExploredInRounds
<1>2. n \in Nat /\ \A i \in 1..n : list[i] \in Tasks /\ list[i] \in Blockers(t)
  <2>1. n \in Nat /\ \A i \in 1..n : list[i] \in Tasks
    BY <1>0, LenProperties, ElementOfSeq
  <2> QED BY <2>1, BlockersAreTasks
<1>3. /\ ToSet(here) = ToSet(path) \cup {t} /\ t \notin ToSet(path)
      /\ IsInjective(here) /\ Len(here) = Len(path) + 1 /\ here[Len(path) + 1] = t
      /\ \A i \in 1..Len(path) : here[i] = path[i]
      /\ DOMAIN here = 1..(Len(path) + 1) /\ DOMAIN path = 1..Len(path) /\ Len(path) \in Nat
  <2>1. t \notin ToSet(path) /\ IsInjective(path)
    BY DEF GoodSearch
  <2> QED BY <2>1, <1>0, AppendMembers, AppendProperties, LenProperties
<1>4. \A b \in Blockers(t), i \in DOMAIN here :
        (IF i = Len(here) THEN b ELSE here[i + 1]) \in Blockers(here[i])
  <2> SUFFICES ASSUME NEW b \in Blockers(t), NEW i \in DOMAIN here
               PROVE  (IF i = Len(here) THEN b ELSE here[i + 1]) \in Blockers(here[i])
    OBVIOUS
  <2>1. CASE i = Len(here)
    BY <2>1, <1>3
  <2>2. CASE i # Len(here)
    <3>1. i \in 1..Len(path) /\ here[i] = path[i]
      BY <2>2, <1>3
    <3>2. (IF i = Len(path) THEN t ELSE path[i + 1]) \in Blockers(path[i])
      BY <3>1, <1>3 DEF GoodSearch
    <3>3. here[i + 1] = IF i = Len(path) THEN t ELSE path[i + 1]
      BY <3>1, <1>3
    <3> QED BY <2>2, <3>1, <3>2, <3>3
  <2> QED BY <2>1, <2>2
<1> DEFINE Good(r, k) ==
      IF r.found # <<>>
        THEN /\ IsCycle(r.found)
             /\ \A S : ClosedSet(S) /\ ToSet(here) \subseteq S => ToSet(r.found) \subseteq S
      ELSE /\ W \subseteq r.visited /\ Finished(r.visited \ ToSet(here))
           /\ \A i \in 1..k : list[i] \in r.visited \ ToSet(here)
           I == {k \in Nat : k <= n => Good(v[k], k)}
<1> HIDE DEF n, list, here
<1>5. 0 \in I
  <2>1. v[0].found = <<>> /\ v[0].visited = W
    BY <1>1 DEF ExploreRounds
  <2>2. W \ ToSet(here) = visited \ ToSet(path)
    BY <1>3
  <2>3. Finished(W \ ToSet(here))
    BY <2>2 DEF GoodSearch
  <2>4. Finished(v[0].visited \ ToSet(here)) /\ \A i \in 1..0 : FALSE
    BY <2>1, <2>3
  <2>5. Good(v[0], 0)
    BY <2>1, <2>4
  <2> QED BY <2>5
<1>6. ASSUME NEW k \in I PROVE k + 1 \in I
  <2> SUFFICES ASSUME k + 1 <= n PROVE Good(v[k + 1], k + 1)
    OBVIOUS
  <2>1. k \in 0..n /\ k + 1 \in 1..n /\ (k + 1) - 1 = k /\ Good(v[k], k)
    BY <1>2
  <2>2. v[k] \in Outcomes /\ v[k + 1] = IF v[k].found # <<>> THEN v[k]
                                        ELSE detect[<<list[k + 1], v[k].visited, here>>]
    BY <1>1, <2>1 DEF ExploreRounds, n
  <2>3. CASE v[k].found # <<>>
    BY <2>1, <2>2, <2>3
  <2>4. CASE v[k].found = <<>>
    <3> DEFINE b == list[k + 1]  V == v[k].visited
    <3>1. b \in Tasks /\ b \in Blockers(t) /\ V \in SUBSET Tasks
      BY <1>2, <2>1, <2>2 DEF Outcomes
    <3>2. /\ W \subseteq V /\ Finished(V \ ToSet(here))
          /\ \A i \in 1..k : list[i] \in V \ ToSet(here)
      BY <2>1, <2>4
    <3>3. v[k + 1] = detect[<<b, V, here>>]
      BY <2>2, <2>4
    <3> HIDE DEF b, V
    <3>4. GoodSearch(b, V, here)
      <4>1. ToSet(here) \subseteq V
        BY <1>3, <3>2 DEF GoodSearch
      <4> QED BY <4>1, <1>3, <1>4, <3>1, <3>2 DEF GoodSearch
    <3>5. GoodOutcome(v[k + 1], b, V, here)
      BY <3>1, <3>3, <3>4 DEF here
    <3>6. CASE v[k + 1].found # <<>>
      <4>1. \A S : ClosedSet(S) /\ ToSet(here) \subseteq S => b \in S
        BY <1>3, <3>1 DEF ClosedSet
      <4> QED BY <3>5, <3>6, <4>1 DEF GoodOutcome
    <3>7. CASE v[k + 1].found = <<>>
      <4>1. /\ V \cup {b} \subseteq v[k + 1].visited /\ b \notin ToSet(here)
            /\ Finished(v[k + 1].visited \ ToSet(here))
        BY <3>5, <3>7 DEF GoodOutcome
      <4>2. \A i \in 1..(k + 1) : list[i] \in v[k + 1].visited \ ToSet(here)
        <5>1. \A i \in 1..(k + 1) : i \in 1..k \/ i = k + 1
          BY <2>1
        <5> QED BY <5>1, <4>1, <3>2 DEF b
      <4> QED BY <4>1, <4>2, <3>2, <3>7
    <3> QED BY <3>6, <3>7
  <2> QED BY <2>3, <2>4
<1> HIDE DEF I
<1>7. I = Nat
  <2>1. I \in SUBSET Nat
    BY DEF I
  <2> QED BY <1>5, <1>6, <2>1, InductOn
<1> DEFINE r == v[n]
<1>8. Good(r, n) /\ r \in Outcomes
  <2>1. n \in 0..n
    BY <1>2
  <2>2. Good(r, n)
    <3> HIDE DEF Good
    <3>1. n \in I /\ n <= n
      BY <1>2, <1>7
    <3> QED BY <3>1 DEF I
  <2> QED BY <1>1, <2>1, <2>2 DEF ExploreRounds, n
<1> HIDE DEF r
<1>9. GoodOutcome(r, t, visited, path)
  <2>1. CASE r.found # <<>>
    BY <2>1, <1>3, <1>8 DEF GoodOutcome
  <2>2. CASE r.found = <<>>
    <3> DEFINE B == r.visited \ ToSet(here)
    <3>1. W \subseteq r.visited /\ Finished(B) /\ \A i \in 1..n : list[i] \in B
      BY <1>8, <2>2
    <3>2. Blockers(t) \subseteq B
      BY <3>1, BlockersAreTasks DEF n, list
    <3>3. t \notin B /\ r.visited \ ToSet(path) = B \cup {t}
      BY <1>3, <3>1
    <3> HIDE DEF B
    <3>4. Finished(B \cup {t})
      BY <3>1, <3>2, <3>3, LastIsFinished
    <3> QED BY <1>3, <2>2, <3>1, <3>3, <3>4 DEF GoodOutcome
  <2> QED BY <2>1, <2>2
<1> QED BY <1>1, <1>9 DEF r, list, here

\* Every search answers as it should.
LEMMA SearchesAreGood ==
  ASSUME DetectTypes, NEW t0 \in Tasks, NEW V0 \in SUBSET Tasks, NEW path0 \in Seq(Tasks),
         GoodSearch(t0, V0, path0)
  PROVE  GoodOutcome(Detect[<<t0, V0, path0>>], t0, V0, path0)
<1> DEFINE Left(path) == Cardinality(Tasks \ ToSet(path))
           I == {n \in Nat : \A t \in Tasks, V \in SUBSET Tasks, path \in Seq(Tasks) :
                   Left(path) < n /\ GoodSearch(t, V, path)
                     => GoodOutcome(Detect[<<t, V, path>>], t, V, path)}
<1>1. IsFiniteSet(Tasks) /\ \A path \in Seq(Tasks) : Left(path) \in Nat
  <2>1. IsFiniteSet(Tasks)
    BY DetectionAssumption
  <2>2. \A path \in Seq(Tasks) : IsFiniteSet(Tasks \ ToSet(path))
    BY <2>1, FS_Subset
  <2> QED BY <2>1, <2>2, FS_CardinalityType
<1>2. 0 \in I
  BY <1>1
<1>3. ASSUME NEW n \in I PROVE n + 1 \in I
  <2> SUFFICES ASSUME NEW t \in Tasks, NEW V \in SUBSET Tasks, NEW path \in Seq(Tasks),
                      Left(path) < n + 1, GoodSearch(t, V, path)
               PROVE  GoodOutcome(Detect[<<t, V, path>>], t, V, path)
    OBVIOUS
  <2>1. Detect[<<t, V, path>>] = Detected(Detect, t, V, path)
    BY DetectExists
  <2>2. CASE t \in ToSet(path)
    <3>1. Detect[<<t, V, path>>].found = PathFrom(path, t)
      BY <2>1, <2>2 DEF Detected
    <3>2. IsCycle(PathFrom(path, t)) /\ PathFrom(path, t) # <<>>
            /\ ToSet(PathFrom(path, t)) \subseteq ToSet(path)
      BY <2>2, RepetitionIsCycle
    <3> QED BY <3>1, <3>2 DEF GoodOutcome
  <2>3. CASE t \notin ToSet(path) /\ t \in V
    <3>1. Detect[<<t, V, path>>].found = <<>> /\ Detect[<<t, V, path>>].visited = V
      BY <2>1, <2>3 DEF Detected
    <3>2. Finished(V \ ToSet(path))
      BY DEF GoodSearch
    <3> QED BY <2>3, <3>1, <3>2 DEF GoodOutcome
  <2>4. CASE t \notin ToSet(path) /\ t \notin V
    <3>1. Append(path, t) \in Seq(Tasks) /\ ToSet(Append(path, t)) = ToSet(path) \cup {t}
      BY AppendMembers
    <3>2. Left(Append(path, t)) < n
      <4>1. IsFiniteSet(Tasks \ ToSet(path)) /\ t \in Tasks \ ToSet(path)
        BY <1>1, <2>4, FS_Subset
      <4>2. (Tasks \ ToSet(path)) \ {t} = Tasks \ ToSet(Append(path, t))
        BY <3>1
      <4>3. Cardinality((Tasks \ ToSet(path)) \ {t}) = Cardinality(Tasks \ ToSet(path)) - 1
        BY <4>1, FS_RemoveElement
      <4>4. Left(Append(path, t)) = Left(path) - 1 /\ Left(path) \in Nat /\ n \in Nat
        BY <1>1, <4>2, <4>3
      <4> HIDE DEF Left
      <4> QED BY <4>4
    <3>3. \A b \in Tasks, U \in SUBSET Tasks :
            GoodSearch(b, U, Append(path, t)) =>
              GoodOutcome(Detect[<<b, U, Append(path, t)>>], b, U, Append(path, t))
      BY <3>1, <3>2
    <3>4. Detect \in [Searches -> Outcomes]
      BY DetectExists
    <3>5. GoodOutcome(Explored(Detect, blockedBy[t], V \cup {t}, Append(path, t)), t, V, path)
      BY <2>4, <3>3, <3>4, ExploredIsGood
    <3>6. Detect[<<t, V, path>>] = Explored(Detect, blockedBy[t], V \cup {t}, Append(path, t))
      BY <2>1, <2>4 DEF Detected
    <3> QED BY <3>5, <3>6
  <2> QED BY <2>2, <2>3, <2>4
<1> HIDE DEF I, Left
<1>4. I = Nat
  <2>1. I \in SUBSET Nat
    BY DEF I
  <2> QED BY <1>2, <1>3, <2>1, InductOn
<1>5. Left(path0) + 1 \in I /\ Left(path0) < Left(path0) + 1
  BY <1>1, <1>4
<1> QED BY <1>5 DEF I

\* What a task reaches is closed, and so is what it reaches with the task itself.
LEMMA ReachIsClosed ==
  ASSUME DetectTypes, NEW t \in Tasks
  PROVE  ClosedSet(Reach(t) \cup {t})
<1>1. Blockers(t) \subseteq Reach(t)
  BY BlockersAreTasks DEF Reach
<1>2. ASSUME NEW u \in Reach(t), NEW b \in Blockers(u) PROVE b \in Reach(t)
  <2>1. u \in Tasks /\ b \in Tasks
    BY BlockersAreTasks DEF Reach
  <2> SUFFICES ASSUME NEW S \in SUBSET Tasks, Blockers(t) \subseteq S, \A v \in S : Blockers(v) \subseteq S
               PROVE  b \in S
    BY <2>1 DEF Reach
  <2>2. u \in S
    BY DEF Reach
  <2> QED BY <2>2
<1>3. Reach(t) \in SUBSET Tasks
  BY DEF Reach
<1> QED BY <1>1, <1>2, <1>3 DEF ClosedSet

\* A search from t finds a cycle behind t, or there is none.
LEMMA CycleFromFinds ==
  ASSUME DetectTypes, NEW t \in Tasks
  PROVE  /\ CycleFrom(t) \in Seq(Tasks)
         /\ CycleFrom(t) # <<>> => IsCycle(CycleFrom(t)) /\ ToSet(CycleFrom(t)) \subseteq Reach(t) \cup {t}
         /\ CycleFrom(t) = <<>> => \A u \in Reach(t) : ~OnCycle(u)
<1> DEFINE r == Detect[<<t, {}, <<>>>>]
<1>1. CycleFrom(t) = r.found
  BY DEF CycleFrom, Detect
<1>2. {} \in SUBSET Tasks /\ <<>> \in Seq(Tasks) /\ <<t, {}, <<>>>> \in Searches
  <2>1. {} \in SUBSET Tasks /\ <<>> \in Seq(Tasks)
    BY EmptySeq
  <2> QED BY <2>1, Zenon DEF Searches
<1>3. GoodSearch(t, {}, <<>>)
  <2>1. DOMAIN <<>> = {} /\ ToSet(<<>>) = {} /\ IsInjective(<<>>)
    BY MembersOfNone
  <2>2. Finished({} \ ToSet(<<>>))
    BY <2>1 DEF Finished
  <2> QED BY <2>1, <2>2 DEF GoodSearch
<1>4. r \in Outcomes
  BY <1>2, DetectExists
<1>5. GoodOutcome(r, t, {}, <<>>)
  BY <1>2, <1>3, SearchesAreGood
<1> HIDE DEF r
<1>6. ASSUME r.found # <<>> PROVE IsCycle(r.found) /\ ToSet(r.found) \subseteq Reach(t) \cup {t}
  <2>1. ToSet(<<>>) \subseteq Reach(t) \cup {t} /\ t \in Reach(t) \cup {t}
    BY MembersOfNone
  <2> QED BY <1>5, <1>6, <2>1, ReachIsClosed DEF GoodOutcome
<1>7. ASSUME r.found = <<>>, NEW u \in Reach(t) PROVE ~OnCycle(u)
  <2>1. t \in r.visited \ ToSet(<<>>) /\ Finished(r.visited \ ToSet(<<>>))
    BY <1>5, <1>7, MembersOfNone DEF GoodOutcome
  <2> DEFINE B == r.visited \ ToSet(<<>>)
  <2>2. B \in SUBSET Tasks /\ Blockers(t) \subseteq B /\ \A v \in B : Blockers(v) \subseteq B /\ ~OnCycle(v)
    BY <2>1 DEF Finished
  <2> HIDE DEF B
  <2>3. u \in B
    BY <2>2 DEF Reach
  <2> QED BY <2>2, <2>3
<1> QED BY <1>1, <1>4, <1>6, <1>7 DEF Outcomes

\* The lists of cycles, and what one round adds to them.
Reports == Seq([cycle : Seq(Tasks), severity : {"high", "medium", "low"}])
ReportOf(t) == [cycle |-> CycleFrom(t), severity |-> Severity(CycleFrom(t))]
Reported(r, t) ==
  IF t \notin blocked \/ t \in r.seen \/ CycleFrom(t) = <<>> THEN r
  ELSE [deadlocks |-> Append(r.deadlocks, ReportOf(t)), seen |-> r.seen \cup ToSet(CycleFrom(t))]

\* A report has a cycle and a severity.
LEMMA ReportIsTyped ==
  ASSUME DetectTypes, NEW t \in Tasks
  PROVE  ReportOf(t) \in [cycle : Seq(Tasks), severity : {"high", "medium", "low"}]
BY CycleFromFinds DEF ReportOf, Severity

\* The rounds of detectDeadlocks follow from one another.
LEMMA DetectRoundsFollow ==
  ASSUME DetectTypes
  PROVE  LET v == DetectRounds
             n == Cardinality(Tasks)
         IN  /\ n \in Nat /\ Tasks = 1..n
             /\ v \in [0..n -> [deadlocks : Reports, seen : SUBSET Tasks]]
             /\ v[0] = [deadlocks |-> <<>>, seen |-> {}]
             /\ \A i \in 1..n : v[i] = Reported(v[i - 1], i)
<1> DEFINE n == Cardinality(Tasks)
           S == [deadlocks : Reports, seen : SUBSET Tasks]
           base == [deadlocks |-> <<>>, seen |-> {}]
           advance == [p \in S \X (1..n) |-> Reported(p[1], p[2])]
           Rounds(f) == [i \in 0..n |-> IF i = 0 THEN base ELSE Reported(f[i - 1], i)]
           v == DetectRounds
<1>1. n \in Nat /\ Tasks = 1..n
  BY DetectionAssumption, FS_CardinalityType
<1>2. base \in S
  BY DEF Reports
<1>3. \A r \in S, t \in Tasks : Reported(r, t) \in S
  <2> SUFFICES ASSUME NEW r \in S, NEW t \in Tasks PROVE Reported(r, t) \in S
    OBVIOUS
  <2>1. r.deadlocks \in Reports /\ r.seen \in SUBSET Tasks
    OBVIOUS
  <2>2. Append(r.deadlocks, ReportOf(t)) \in Reports
    BY <2>1, ReportIsTyped, AppendProperties DEF Reports
  <2>3. ToSet(CycleFrom(t)) \in SUBSET Tasks
    BY CycleFromFinds, MembersOf
  <2> QED BY <2>1, <2>2, <2>3 DEF Reported
<1>4. v = CHOOSE f : f = Rounds(f)
  BY DEF DetectRounds, Reported, ReportOf
<1> HIDE DEF n, S, base, v
<1>5. PICK g : Iterates(g, S, base, n, advance)
  <2>1. advance \in [S \X (1..n) -> S]
    BY <1>1, <1>3
  <2> HIDE DEF advance
  <2> QED BY <1>1, <1>2, <2>1, IteratesExists
<1>6. g = Rounds(g)
  <2>1. ASSUME NEW i \in 0..n PROVE g[i] = IF i = 0 THEN base ELSE Reported(g[i - 1], i)
    <3>1. CASE i = 0
      BY <3>1, <1>5 DEF Iterates
    <3>2. CASE i # 0
      <4>1. i \in 1..n /\ i - 1 \in 0..n
        BY <3>2, <1>1
      <4>2. g[i - 1] \in S /\ g[i] = advance[<<g[i - 1], i>>]
        BY <4>1, <1>5 DEF Iterates
      <4> QED BY <3>2, <4>1, <4>2
    <3> QED BY <3>1, <3>2
  <2> QED BY <1>5, <2>1 DEF Iterates
<1>7. v = Rounds(v)
  BY <1>4, <1>6
<1>8. v[0] = base /\ \A i \in 1..n : v[i] = Reported(v[i - 1], i)
  BY <1>1, <1>7
<1>9. v \in [0..n -> S]
  <2> DEFINE I == {k \in Nat : k <= n => v[k] \in S}
  <2>1. 0 \in I
    BY <1>2, <1>8
  <2>2. ASSUME NEW k \in I PROVE k + 1 \in I
    <3> SUFFICES ASSUME k + 1 <= n PROVE v[k + 1] \in S
      OBVIOUS
    <3>1. k \in Nat /\ v[k] \in S /\ k + 1 \in 1..n /\ (k + 1) - 1 = k
      BY <1>1
    <3> QED BY <3>1, <1>1, <1>3, <1>8
  <2> HIDE DEF I
  <2>3. I = Nat
    <3>1. I \in SUBSET Nat
      BY DEF I
    <3> QED BY <2>1, <2>2, <3>1, InductOn
  <2>4. \A k \in 0..n : v[k] \in S
    BY <2>3, <1>1 DEF I
  <2>5. v = [k \in 0..n |-> v[k]]
    BY <1>7
  <2> QED BY <2>4, <2>5
<1> QED BY <1>1, <1>8, <1>9 DEF v, n, S, base

\* After each round: what is reported comes from searches, seen is what is in a
\* reported cycle, and no blocked task before is left out that a search leads from
\* to a cycle.
RightSoFar(r, i) ==
  /\ \A k \in DOMAIN r.deadlocks : \E t \in Tasks :
       CycleFrom(t) # <<>> /\ r.deadlocks[k] = ReportOf(t)
  /\ \A t \in r.seen : \E k \in DOMAIN r.deadlocks : t \in ToSet(r.deadlocks[k].cycle)
  /\ \A t \in blocked \cap 1..i :
       \/ t \in r.seen \/ CycleFrom(t) = <<>>
       \/ \E k \in DOMAIN r.deadlocks : r.deadlocks[k] = ReportOf(t)

\* What has been reported is right after every round.
LEMMA RoundsAreRight ==
  ASSUME DetectTypes
  PROVE  RightSoFar(DetectRounds[Cardinality(Tasks)], Cardinality(Tasks))
<1> DEFINE v == DetectRounds
           n == Cardinality(Tasks)
           I == {k \in Nat : k <= n => RightSoFar(v[k], k)}
<1>1. /\ n \in Nat /\ Tasks = 1..n
      /\ v \in [0..n -> [deadlocks : Reports, seen : SUBSET Tasks]]
      /\ v[0] = [deadlocks |-> <<>>, seen |-> {}]
      /\ \A i \in 1..n : v[i] = Reported(v[i - 1], i)
  BY DetectRoundsFollow
<1> HIDE DEF v, n
<1>2. 0 \in I
  <2>1. v[0].deadlocks = <<>> /\ v[0].seen = {} /\ 1..0 = {} /\ DOMAIN <<>> = {}
    BY <1>1
  <2> QED BY <2>1 DEF RightSoFar
<1>3. ASSUME NEW k \in I PROVE k + 1 \in I
  <2> SUFFICES ASSUME k + 1 <= n PROVE RightSoFar(v[k + 1], k + 1)
    OBVIOUS
  <2> DEFINE r == v[k]  t == k + 1
  <2>1. /\ k \in Nat /\ t \in 1..n /\ r \in [deadlocks : Reports, seen : SUBSET Tasks]
        /\ v[k + 1] = Reported(r, t) /\ RightSoFar(r, k) /\ t \in Tasks
    <3>1. k \in 0..n /\ t \in 1..n /\ t - 1 = k
      BY <1>1
    <3> QED BY <3>1, <1>1
  <2>2. \A u \in 1..t : u \in 1..k \/ u = t
    BY <2>1
  <2> HIDE DEF r, t
  <2>3. CASE t \notin blocked \/ t \in r.seen \/ CycleFrom(t) = <<>>
    <3>1. v[k + 1] = r
      BY <2>1, <2>3 DEF Reported
    <3> QED BY <3>1, <2>1, <2>2, <2>3 DEF RightSoFar, t
  <2>4. CASE ~(t \notin blocked \/ t \in r.seen \/ CycleFrom(t) = <<>>)
    <3> DEFINE old == r.deadlocks  new == Append(old, ReportOf(t))
    <3>1. v[k + 1] = [deadlocks |-> new, seen |-> r.seen \cup ToSet(CycleFrom(t))]
      BY <2>1, <2>4 DEF Reported
    <3>2. /\ DOMAIN old = 1..Len(old) /\ Len(old) \in Nat
          /\ DOMAIN new = 1..(Len(old) + 1)
          /\ \A i \in 1..Len(old) : new[i] = old[i]
          /\ new[Len(old) + 1] = ReportOf(t)
      <4>1. old \in Seq([cycle : Seq(Tasks), severity : {"high", "medium", "low"}])
        BY <2>1 DEF Reports
      <4> QED BY <4>1, <2>1, ReportIsTyped, AppendProperties, LenProperties
    <3> HIDE DEF old, new
    <3>3. \A i \in DOMAIN new : (i \in DOMAIN old /\ new[i] = old[i]) \/ new[i] = ReportOf(t)
      BY <3>2
    <3>4. \A i \in DOMAIN old : i \in DOMAIN new /\ new[i] = old[i]
      BY <3>2
    <3>5. \E i \in DOMAIN new : new[i] = ReportOf(t)
      BY <3>2
    <3>6. ReportOf(t).cycle = CycleFrom(t)
      BY DEF ReportOf
    <3>7. /\ \A i \in DOMAIN old : \E u \in Tasks : CycleFrom(u) # <<>> /\ old[i] = ReportOf(u)
          /\ \A u \in r.seen : \E i \in DOMAIN old : u \in ToSet(old[i].cycle)
          /\ \A u \in blocked \cap 1..k :
               \/ u \in r.seen \/ CycleFrom(u) = <<>>
               \/ \E i \in DOMAIN old : old[i] = ReportOf(u)
      BY <2>1 DEF RightSoFar, old
    <3>8. \A i \in DOMAIN new : \E u \in Tasks : CycleFrom(u) # <<>> /\ new[i] = ReportOf(u)
      BY <2>1, <2>4, <3>3, <3>7
    <3>9. \A u \in r.seen \cup ToSet(CycleFrom(t)) : \E i \in DOMAIN new : u \in ToSet(new[i].cycle)
      BY <3>4, <3>5, <3>6, <3>7
    <3>10. \A u \in blocked \cap 1..t :
             \/ u \in r.seen \cup ToSet(CycleFrom(t)) \/ CycleFrom(u) = <<>>
             \/ \E i \in DOMAIN new : new[i] = ReportOf(u)
      BY <2>2, <3>4, <3>5, <3>7
    <3> QED BY <3>1, <3>8, <3>9, <3>10 DEF RightSoFar, t
  <2> QED BY <2>3, <2>4
<1> HIDE DEF I
<1>4. I = Nat
  <2>1. I \in SUBSET Nat
    BY DEF I
  <2> QED BY <1>2, <1>3, <2>1, InductOn
<1>5. RightSoFar(v[n], n)
  <2>1. n \in I /\ n <= n
    BY <1>1, <1>4
  <2> QED BY <2>1 DEF I
<1> QED BY <1>5 DEF v, n

\* The graph is as it was read, and the list is none or the one of its last round.
DetectInv ==
  /\ DetectTypes
  /\ deadlocks \in {"none", DetectRounds[Cardinality(Tasks)].deadlocks}

\* Then the report is right: the three parts of DeadlockReportsAreRight follow from the
\* last round.
LEMMA DetectInvIsRight == DetectInv => DeadlockReportsAreRight
<1> SUFFICES ASSUME DetectInv, Done PROVE DeadlockReportsAreRight
  BY DEF DeadlockReportsAreRight, ReportsAreCycles, StuckTasksLeadToReport, CriticalCyclesEscalate
<1> DEFINE n == Cardinality(Tasks)  r == DetectRounds[n]
<1>1. deadlocks = r.deadlocks /\ DetectTypes
  BY DEF DetectInv, Done
<1>2. n \in Nat /\ Tasks = 1..n /\ r \in [deadlocks : Reports, seen : SUBSET Tasks]
  <2>1. n \in Nat => n \in 0..n
    OBVIOUS
  <2> QED BY <1>1, <2>1, DetectRoundsFollow
<1>3. RightSoFar(r, n)
  BY <1>1, RoundsAreRight
<1> HIDE DEF n, r
<1>4. \A k \in DOMAIN deadlocks : \E t \in Tasks : CycleFrom(t) # <<>> /\ deadlocks[k] = ReportOf(t)
  BY <1>1, <1>3 DEF RightSoFar
<1>5. ReportsAreCycles
  <2> SUFFICES ASSUME NEW k \in DOMAIN deadlocks PROVE IsCycle(deadlocks[k].cycle)
    BY DEF ReportsAreCycles, Cycles, IsCycle
  <2>1. PICK t \in Tasks : CycleFrom(t) # <<>> /\ deadlocks[k] = ReportOf(t)
    BY <1>4
  <2> QED BY <1>1, <2>1, CycleFromFinds DEF ReportOf
<1>6. StuckTasksLeadToReport
  <2> SUFFICES ASSUME NEW t \in blocked, NEW u \in Reach(t), OnCycle(u)
               PROVE  \E k \in DOMAIN deadlocks : ToSet(deadlocks[k].cycle) \cap (Reach(t) \cup {t}) # {}
    BY DEF StuckTasksLeadToReport, Cycles
  <2>1. t \in Tasks /\ t \in blocked \cap 1..n
    BY <1>1, <1>2 DEF DetectTypes
  <2>2. CycleFrom(t) # <<>>
    BY <1>1, <2>1, CycleFromFinds
  <2>3. CASE t \in r.seen
    BY <1>1, <1>3, <2>3 DEF RightSoFar
  <2>4. CASE t \notin r.seen
    <3>1. PICK k \in DOMAIN deadlocks : deadlocks[k] = ReportOf(t)
      BY <1>1, <1>3, <2>1, <2>2, <2>4 DEF RightSoFar
    <3>2. deadlocks[k].cycle = CycleFrom(t)
      BY <3>1 DEF ReportOf
    <3>3. CycleFrom(t) \in Seq(Tasks) /\ Len(CycleFrom(t)) > 0
            /\ ToSet(CycleFrom(t)) \subseteq Reach(t) \cup {t}
      BY <1>1, <2>1, <2>2, CycleFromFinds DEF IsCycle
    <3>4. CycleFrom(t)[1] \in ToSet(CycleFrom(t))
      BY <3>3, MembersOf
    <3> QED BY <3>2, <3>3, <3>4
  <2> QED BY <2>3, <2>4
<1>7. CriticalCyclesEscalate
  <2> SUFFICES ASSUME NEW k \in DOMAIN deadlocks
               PROVE  (\E t \in ToSet(deadlocks[k].cycle) : priority[t] >= 80)
                        <=> deadlocks[k].severity = "high"
    BY DEF CriticalCyclesEscalate
  <2>1. PICK t \in Tasks : CycleFrom(t) # <<>> /\ deadlocks[k] = ReportOf(t)
    BY <1>4
  <2> DEFINE c == CycleFrom(t)
  <2>2. deadlocks[k].cycle = c /\ deadlocks[k].severity = Severity(c)
    BY <2>1 DEF ReportOf
  <2>3. c \in Seq(Tasks)
    BY <1>1, <2>1, CycleFromFinds
  <2> HIDE DEF c
  <2>4. (\E u \in ToSet(c) : priority[u] >= 80) <=> (\E i \in DOMAIN c : priority[c[i]] >= 80)
    <3>1. DOMAIN c = 1..Len(c) /\ ToSet(c) = {c[i] : i \in 1..Len(c)}
      BY <2>3, MembersOf
    <3> QED BY <3>1
  <2>5. (\E i \in DOMAIN c : priority[c[i]] >= 80) <=> Severity(c) = "high"
    BY DEF Severity
  <2> QED BY <2>2, <2>4, <2>5
<1> QED BY <1>5, <1>6, <1>7 DEF DeadlockReportsAreRight

\* There is no report at first.
LEMMA DetectInvHoldsFirst == DetectInit => DetectInv
<1> SUFFICES ASSUME DetectInit PROVE DetectInv
  OBVIOUS
<1>1. BlockerLists \subseteq Seq(Tasks)
  <2> SUFFICES ASSUME NEW k \in 0..MaxBlockers, NEW s \in [1..k -> Tasks] PROVE s \in Seq(Tasks)
    BY DEF BlockerLists
  <2>1. k \in Nat
    BY DetectionAssumption
  <2> QED BY <2>1, FunctionIsList
<1>2. blockedBy \in [Tasks -> Seq(Tasks)]
  BY <1>1 DEF DetectInit
<1>3. priority \in [Tasks -> Nat]
  <2>1. Priorities \subseteq Nat
    BY DetectionAssumption
  <2> QED BY <2>1 DEF DetectInit
<1> QED BY <1>2, <1>3 DEF DetectInit, DetectInv, DetectTypes

\* A run of the detector reports what its last round has found.
LEMMA DetectInvIsKept == DetectInv /\ [DetectDeadlocks]_detectVars => DetectInv'
<1> SUFFICES ASSUME DetectInv, [DetectDeadlocks]_detectVars PROVE DetectInv'
  OBVIOUS
<1>0. /\ blockedBy' = blockedBy /\ blocked' = blocked /\ priority' = priority
      /\ deadlocks' \in {deadlocks, DetectRounds[Cardinality(Tasks)].deadlocks}
  BY DEF DetectDeadlocks, detectVars
<1>1. DetectTypes'
  BY <1>0 DEF DetectInv, DetectTypes
<1>2. DetectRounds' = DetectRounds
  <2>0. \A f, t, V, path : Detected(f, t, V, path)' = Detected(f, t, V, path)
    BY <1>0, Zenon DEF Detected
  <2>1. \A t : CycleFrom(t)' = CycleFrom(t)
    BY <2>0, Zenon DEF CycleFrom
  <2>2. \A c : Severity(c)' = Severity(c)
    BY <1>0, Zenon DEF Severity
  <2> QED BY <1>0, <2>1, <2>2, Zenon DEF DetectRounds
<1> QED BY <1>0, <1>1, <1>2 DEF DetectInv

\* For any number of tasks waiting for one another in any way: what the detector
\* reports are cycles, every BLOCKED task that is stuck for good is stuck behind one
\* of them, and the cycles with a critical task are the ones rated high
\* (detectDeadlocks, detectCycle, determineSeverity).
THEOREM DeadlockReportsAreAlwaysRight ==
  DetectInit /\ [][DetectDeadlocks]_detectVars => []DeadlockReportsAreRight
<1> QED BY DetectInvHoldsFirst, DetectInvIsKept, DetectInvIsRight, PTL

-----------------------------------------------------------------------------
(***************************************************************************)
(* The searches of workflows, for any workflow.                            *)
(***************************************************************************)

IsWorkflow(w) ==
  /\ w.nodes \in Seq(NodesOf(w))
  /\ w.edges \in Seq([from : NodesOf(w), to : NodesOf(w)])
  /\ w.start \in NodesOf(w)

\* The neighbors of a node are the ends of its edges.
LEMMA NeighborsOf ==
  ASSUME NEW w, IsWorkflow(w), NEW n \in NodesOf(w)
  PROVE  /\ Neighbors(w, n) \in Seq(NodesOf(w))
         /\ \A m : m \in ToSet(Neighbors(w, n)) <=> \E e \in ToSet(w.edges) : e.from = n /\ e.to = m
<1> DEFINE T == [from : NodesOf(w), to : NodesOf(w)]
           E == w.edges
           J == {i \in DOMAIN E : E[i].from = n}
           out == EntriesAt(E, J)
           list == [i \in DOMAIN out |-> out[i].to]
<1>1. /\ E \in Seq(T) /\ Len(E) \in Nat /\ DOMAIN E = 1..Len(E)
      /\ \A i \in 1..Len(E) : E[i] \in T
      /\ ToSet(E) = {E[i] : i \in 1..Len(E)}
  <2>1. E \in Seq(T)
    BY DEF IsWorkflow
  <2> HIDE DEF T, E
  <2> QED BY <2>1, MembersOf
<1>2. J \in SUBSET (1..Len(E)) /\ \A i \in 1..Len(E) : i \in J <=> E[i].from = n
  BY <1>1
<1> HIDE DEF J, E, T
<1>3. out \in Seq(T)
  BY <1>1, <1>2, EntriesAtProperties
<1>4. PICK g \in [1..Len(out) -> J] :
        /\ \A k \in 1..Len(out) : out[k] = E[g[k]]
        /\ \A i \in J : \E k \in 1..Len(out) : g[k] = i
  BY <1>1, <1>2, EntriesAtProperties
<1>5. Len(out) \in Nat /\ DOMAIN out = 1..Len(out) /\ \A k \in 1..Len(out) : out[k] \in T
  BY <1>3, LenProperties, ElementOfSeq
<1> HIDE DEF out
<1>6. list \in [1..Len(out) -> NodesOf(w)] /\ \A k \in 1..Len(out) : list[k] = out[k].to
  BY <1>5 DEF T
<1> HIDE DEF list
<1>7. list \in Seq(NodesOf(w)) /\ Len(list) = Len(out)
  BY <1>5, <1>6, FunctionIsList
<1>8. ToSet(list) = {list[k] : k \in 1..Len(out)}
  BY <1>7, MembersOf
<1>9. ASSUME NEW m, m \in ToSet(list) PROVE \E e \in ToSet(E) : e.from = n /\ e.to = m
  <2>1. PICK k \in 1..Len(out) : list[k] = m
    BY <1>8, <1>9
  <2>2. g[k] \in J /\ g[k] \in 1..Len(E) /\ out[k] = E[g[k]] /\ E[g[k]].from = n
    BY <1>2, <1>4
  <2>3. E[g[k]].to = m
    BY <2>1, <2>2, <1>6
  <2> QED BY <2>2, <2>3, <1>1
<1>10. ASSUME NEW e \in ToSet(E), e.from = n PROVE e.to \in ToSet(list)
  <2>1. PICK i \in 1..Len(E) : E[i] = e
    BY <1>1
  <2>2. i \in J
    BY <2>1, <1>2, <1>10
  <2>3. PICK k \in 1..Len(out) : g[k] = i
    BY <2>2, <1>4
  <2>4. list[k] = e.to
    BY <2>1, <2>3, <1>4, <1>6
  <2> QED BY <2>4, <1>8
<1>11. Neighbors(w, n) = list
  BY DEF Neighbors, list, out, J, E
<1> QED BY <1>7, <1>9, <1>10, <1>11 DEF E

\* A workflow has finitely many nodes.
LEMMA NodesAreFinite ==
  ASSUME NEW w, IsWorkflow(w)
  PROVE  IsFiniteSet(NodesOf(w)) /\ Cardinality(NodesOf(w)) \in Nat
<1>1. w.nodes \in Seq(NodesOf(w))
  BY DEF IsWorkflow
<1>2. IsFiniteSet(ToSet(w.nodes))
  <2>1. ToSet(w.nodes) = {w.nodes[i] : i \in 1..Len(w.nodes)} /\ Len(w.nodes) \in Nat
    BY <1>1, MembersOf
  <2>2. IsFiniteSet(1..Len(w.nodes))
    <3>1. 1 \in Int /\ Len(w.nodes) \in Int
      BY <2>1
    <3> QED BY <3>1, FS_Interval
  <2> DEFINE h == [i \in 1..Len(w.nodes) |-> w.nodes[i]]
  <2>3. h \in Surjection(1..Len(w.nodes), ToSet(w.nodes))
    <3>1. h \in [1..Len(w.nodes) -> ToSet(w.nodes)] /\ \A x \in ToSet(w.nodes) : \E i \in 1..Len(w.nodes) : h[i] = x
      BY <2>1
    <3> HIDE DEF h
    <3> QED BY <3>1, Fun_IsSurj
  <2> HIDE DEF h
  <2> QED BY <2>2, <2>3, FS_Surjection
<1> QED BY <1>2, FS_CardinalityType DEF NodesOf

(***************************************************************************)
(* What is reached by edges of E.                                          *)
(***************************************************************************)
Edges(w) == [from : NodesOf(w), to : NodesOf(w)]

\* An edge reaches its end,
LEMMA EdgeReaches ==
  ASSUME NEW w, NEW E \in SUBSET Edges(w), NEW e \in E
  PROVE  Reaches(w, E, e.from, e.to)
BY DEF Reaches

\* an edge more reaches on,
LEMMA ReachesOn ==
  ASSUME NEW w, NEW E \in SUBSET Edges(w), NEW e \in E, NEW n \in NodesOf(w), Reaches(w, E, n, e.from)
  PROVE  Reaches(w, E, n, e.to)
BY DEF Reaches, ClosedUnder

\* and what its end reaches, its start reaches.
LEMMA ReachesThrough ==
  ASSUME NEW w, NEW E \in SUBSET Edges(w), NEW e \in E, NEW n, Reaches(w, E, e.to, n)
  PROVE  Reaches(w, E, e.from, n)
<1> SUFFICES ASSUME NEW S \in SUBSET NodesOf(w),
                    {d.to : d \in {d \in E : d.from = e.from}} \subseteq S, ClosedUnder(S, E)
             PROVE  n \in S
  BY DEF Reaches
<1>1. e.to \in S
  OBVIOUS
<1>2. {d.to : d \in {d \in E : d.from = e.to}} \subseteq S
  BY <1>1 DEF ClosedUnder
<1> QED BY <1>2 DEF Reaches

\* The edges of a workflow, as a list and as a set.
LEMMA EdgesOf ==
  ASSUME NEW w, IsWorkflow(w)
  PROVE  ToSet(w.edges) \in SUBSET Edges(w)
<1>1. w.edges \in Seq(Edges(w))
  BY DEF IsWorkflow, Edges
<1> QED BY <1>1, MembersOf

(***************************************************************************)
(* topologicalSort.                                                        *)
(***************************************************************************)
Visits(w) == NodesOf(w) \X Orders(w)
VisitFunctions(w) ==
  {f \in [Visits(w) -> Orders(w)] : \A q \in Visits(w) : q[2].visited \subseteq f[q].visited}

VisitRounds(v, visit, list, acc, w) ==
  /\ v \in [0..Len(list) -> Orders(w)]
  /\ v[0] = acc
  /\ \A i \in 1..Len(list) : v[i] = visit[<<list[i], v[i - 1]>>]
  /\ \A i \in 0..Len(list) : acc.visited \subseteq v[i].visited

AnswerAlike(f, g, acc, w) ==
  \A m \in NodesOf(w), a \in Orders(w) : acc.visited \subseteq a.visited => f[<<m, a>>] = g[<<m, a>>]

\* The loop over a list, round by round; g gives the same rounds when it answers
\* alike where at least as much is visited.
LEMMA EachVisitedInRounds ==
  ASSUME NEW w, NEW f \in VisitFunctions(w), NEW g,
         NEW list \in Seq(NodesOf(w)), NEW acc \in Orders(w),
         AnswerAlike(f, g, acc, w)
  PROVE  \E v : VisitRounds(v, f, list, acc, w) /\ EachVisited(g, list, acc) = v[Len(list)]
<1> DEFINE n == Len(list)
           S == {a \in Orders(w) : acc.visited \subseteq a.visited}
           advance == [p \in S \X (1..n) |-> f[<<list[p[2]], p[1]>>]]
           Rounds(h) == [i \in 0..n |-> IF i = 0 THEN acc ELSE g[<<list[i], h[i - 1]>>]]
           v == CHOOSE h : h = Rounds(h)
<1>1. n \in Nat /\ \A i \in 1..n : list[i] \in NodesOf(w)
  BY LenProperties, ElementOfSeq
<1>2. acc \in S
  OBVIOUS
<1>3. \A a \in S, i \in 1..n : f[<<list[i], a>>] \in S /\ f[<<list[i], a>>] = g[<<list[i], a>>]
  <2> SUFFICES ASSUME NEW a \in S, NEW i \in 1..n
               PROVE  f[<<list[i], a>>] \in S /\ f[<<list[i], a>>] = g[<<list[i], a>>]
    OBVIOUS
  <2>1. <<list[i], a>> \in Visits(w) /\ a \in Orders(w) /\ list[i] \in NodesOf(w)
    BY <1>1 DEF Visits
  <2>2. f[<<list[i], a>>] \in Orders(w) /\ a.visited \subseteq f[<<list[i], a>>].visited
    BY <2>1 DEF VisitFunctions
  <2> QED BY <2>1, <2>2 DEF AnswerAlike
<1>4. EachVisited(g, list, acc) = v[n]
  BY DEF EachVisited
<1> HIDE DEF n, S, v
<1>5. PICK u : Iterates(u, S, acc, n, advance)
  <2>1. advance \in [S \X (1..n) -> S]
    BY <1>3
  <2> HIDE DEF advance
  <2> QED BY <1>1, <1>2, <2>1, IteratesExists
<1>6. u \in [0..n -> S] /\ u[0] = acc
  BY <1>5 DEF Iterates
<1>7. ASSUME NEW i \in 1..n
      PROVE  u[i - 1] \in S /\ u[i] = f[<<list[i], u[i - 1]>>] /\ u[i] = g[<<list[i], u[i - 1]>>]
  <2>1. u[i - 1] \in S
    BY <1>1, <1>6
  <2>2. u[i] = advance[<<u[i - 1], i>>]
    <3> HIDE DEF advance
    <3> QED BY <1>5 DEF Iterates
  <2> QED BY <2>1, <2>2, <1>3
<1> HIDE DEF advance
<1>8. u = Rounds(u)
  <2>1. ASSUME NEW i \in 0..n PROVE u[i] = IF i = 0 THEN acc ELSE g[<<list[i], u[i - 1]>>]
    BY <1>1, <1>6, <1>7
  <2> QED BY <2>1, <1>6
<1>9. v = Rounds(v)
  BY <1>8 DEF v
<1> DEFINE I == {k \in Nat : k <= n => u[k] = v[k]}
<1>10. 0 \in I
  BY <1>1, <1>6, <1>9
<1>11. ASSUME NEW k \in I PROVE k + 1 \in I
  <2> SUFFICES ASSUME k + 1 <= n PROVE u[k + 1] = v[k + 1]
    OBVIOUS
  <2>1. u[k] = v[k] /\ k + 1 \in 1..n /\ k + 1 \in 0..n /\ (k + 1) - 1 = k /\ k + 1 # 0
    BY <1>1
  <2>2. v[k + 1] = g[<<list[k + 1], v[k]>>]
    BY <1>9, <2>1
  <2>3. u[k + 1] = g[<<list[k + 1], u[k]>>]
    BY <1>7, <2>1
  <2> QED BY <2>1, <2>2, <2>3
<1> HIDE DEF I
<1>12. I = Nat
  <2>1. I \in SUBSET Nat
    BY DEF I
  <2> QED BY <1>10, <1>11, <2>1, InductOn
<1>13. u[n] = v[n]
  BY <1>1, <1>12 DEF I
<1>14. VisitRounds(u, f, list, acc, w)
  <2>1. \A i \in 0..n : u[i] \in Orders(w) /\ acc.visited \subseteq u[i].visited
    BY <1>6 DEF S
  <2>2. u \in [0..n -> Orders(w)]
    BY <1>6, <2>1
  <2> QED BY <1>6, <1>7, <2>1, <2>2 DEF VisitRounds, n
<1> QED BY <1>4, <1>13, <1>14 DEF n

\* The visit as a function.
Visit(w) == CHOOSE f : f = [q \in NodesOf(w) \X Orders(w) |-> Visited(f, w, q[1], q[2])]

\* The recursive visit of topologicalSort exists and satisfies its equation.
LEMMA VisitExists ==
  ASSUME NEW w, IsWorkflow(w)
  PROVE  /\ Visit(w) \in VisitFunctions(w)
         /\ \A n \in NodesOf(w), acc \in Orders(w) : Visit(w)[<<n, acc>>] = Visited(Visit(w), w, n, acc)
<1> DEFINE D == NodesOf(w) \X Orders(w)
           S == VisitFunctions(w)
           N == Cardinality(NodesOf(w))
           measure == [q \in D |-> Cardinality(NodesOf(w) \ q[2].visited)]
           body == [f \in S |-> [q \in D |-> Visited(f, w, q[1], q[2])]]
           base == [q \in D |-> q[2]]
<1>0. IsFiniteSet(NodesOf(w)) /\ N \in Nat
  BY NodesAreFinite
<1>1. \A q \in D : q[1] \in NodesOf(w) /\ q[2] \in Orders(w) /\ q = <<q[1], q[2]>>
  OBVIOUS
<1>2. \A a \in Orders(w) : a.visited \in SUBSET NodesOf(w) /\ a.order \in Seq(NodesOf(w))
  BY DEF Orders
<1>3. measure \in [D -> 0..N]
  <2>1. ASSUME NEW q \in D PROVE Cardinality(NodesOf(w) \ q[2].visited) \in 0..N
    <3>1. NodesOf(w) \ q[2].visited \in SUBSET NodesOf(w)
      OBVIOUS
    <3>2. /\ IsFiniteSet(NodesOf(w) \ q[2].visited)
          /\ Cardinality(NodesOf(w) \ q[2].visited) <= N
      BY <1>0, <3>1, FS_Subset
    <3> QED BY <1>0, <3>2, FS_CardinalityType
  <2> QED BY <2>1
<1>4. base \in S
  BY DEF VisitFunctions, Visits
<1>4a. ASSUME NEW acc \in Orders(w), NEW n \in NodesOf(w)
       PROVE  /\ [acc EXCEPT !.visited = @ \cup {n}] \in Orders(w)
              /\ [acc EXCEPT !.visited = @ \cup {n}].visited = acc.visited \cup {n}
              /\ [acc EXCEPT !.order = <<n>> \o @] \in Orders(w)
              /\ [acc EXCEPT !.order = <<n>> \o @].visited = acc.visited
  <2>1. <<n>> \in Seq(NodesOf(w)) /\ acc.order \in Seq(NodesOf(w))
    BY <1>2
  <2>2. <<n>> \o acc.order \in Seq(NodesOf(w))
    BY <2>1, ConcatProperties
  <2> QED BY <2>2 DEF Orders
<1>5. ASSUME NEW f \in S, NEW n \in NodesOf(w), NEW acc \in Orders(w)
      PROVE  Visited(f, w, n, acc) \in Orders(w) /\ acc.visited \subseteq Visited(f, w, n, acc).visited
  <2>1. CASE n \in acc.visited
    BY <2>1 DEF Visited
  <2>2. CASE n \notin acc.visited
    <3> DEFINE acc1 == [acc EXCEPT !.visited = @ \cup {n}]
               list == Neighbors(w, n)
               below == EachVisited(f, list, acc1)
    <3>1. acc1 \in Orders(w) /\ acc1.visited = acc.visited \cup {n} /\ list \in Seq(NodesOf(w))
      BY <1>4a, NeighborsOf
    <3>2. Visited(f, w, n, acc) = [below EXCEPT !.order = <<n>> \o @]
      BY <2>2 DEF Visited
    <3> HIDE DEF acc1, list
    <3>3. PICK v : VisitRounds(v, f, list, acc1, w) /\ below = v[Len(list)]
      BY <3>1, EachVisitedInRounds DEF AnswerAlike
    <3>4. Len(list) \in 0..Len(list)
      BY <3>1, LenProperties
    <3>5. below \in Orders(w) /\ acc1.visited \subseteq below.visited
      BY <3>3, <3>4 DEF VisitRounds
    <3> HIDE DEF below
    <3> QED BY <3>1, <3>2, <3>5, <1>4a
  <2> QED BY <2>1, <2>2
<1>6. body \in [S -> S]
  <2>1. ASSUME NEW f \in S PROVE [q \in D |-> Visited(f, w, q[1], q[2])] \in S
    <3>1. ASSUME NEW q \in D
          PROVE  Visited(f, w, q[1], q[2]) \in Orders(w) /\ q[2].visited \subseteq Visited(f, w, q[1], q[2]).visited
      BY <1>1, <1>5
    <3> QED BY <3>1 DEF VisitFunctions, Visits
  <2> QED BY <2>1
<1>7. ASSUME NEW f \in S, NEW g, NEW q \in D,
             \A p \in D : measure[p] < measure[q] => f[p] = g[p]
      PROVE  Visited(f, w, q[1], q[2]) = Visited(g, w, q[1], q[2])
  <2> DEFINE n == q[1]  acc == q[2]
  <2>1. n \in NodesOf(w) /\ acc \in Orders(w)
    BY <1>1
  <2>2. measure[q] = Cardinality(NodesOf(w) \ acc.visited)
    OBVIOUS
  <2> SUFFICES Visited(f, w, n, acc) = Visited(g, w, n, acc)
    OBVIOUS
  <2> HIDE DEF n, acc
  <2>3. CASE n \in acc.visited
    BY <2>3 DEF Visited
  <2>4. CASE n \notin acc.visited
    <3> DEFINE acc1 == [acc EXCEPT !.visited = @ \cup {n}]
               list == Neighbors(w, n)
    <3>1. acc1 \in Orders(w) /\ acc1.visited = acc.visited \cup {n} /\ list \in Seq(NodesOf(w))
      BY <2>1, <1>4a, NeighborsOf
    <3> HIDE DEF acc1, list
    <3>2. ASSUME NEW m \in NodesOf(w), NEW a \in Orders(w), acc1.visited \subseteq a.visited
          PROVE  f[<<m, a>>] = g[<<m, a>>]
      <4>1. <<m, a>> \in D /\ measure[<<m, a>>] = Cardinality(NodesOf(w) \ a.visited)
        OBVIOUS
      <4> DEFINE U == NodesOf(w) \ acc.visited
                 W == NodesOf(w) \ a.visited
      <4>2. W \subseteq U \ {n} /\ n \in U /\ U \in SUBSET NodesOf(w)
        BY <2>1, <2>4, <3>1, <3>2
      <4> HIDE DEF U, W
      <4>3. IsFiniteSet(U) /\ Cardinality(U) \in Nat
        BY <4>2, <1>0, FS_Subset, FS_CardinalityType
      <4>4. IsFiniteSet(U \ {n}) /\ Cardinality(U \ {n}) = Cardinality(U) - 1
        BY <4>2, <4>3, FS_RemoveElement
      <4>5. IsFiniteSet(W) /\ Cardinality(W) <= Cardinality(U \ {n}) /\ Cardinality(W) \in Nat
        BY <4>2, <4>4, FS_Subset, FS_CardinalityType
      <4>6. Cardinality(W) < Cardinality(U)
        BY <4>3, <4>4, <4>5
      <4>7. measure[<<m, a>>] < measure[q]
        BY <4>1, <4>6, <2>2 DEF U, W
      <4> HIDE DEF measure, D
      <4> QED BY <4>1, <4>7, <1>7
    <3>3. PICK v : VisitRounds(v, f, list, acc1, w) /\ EachVisited(g, list, acc1) = v[Len(list)]
      <4>1. AnswerAlike(f, g, acc1, w)
        BY <3>2 DEF AnswerAlike
      <4> QED BY <3>1, <4>1, EachVisitedInRounds
    <3>4. PICK u : VisitRounds(u, f, list, acc1, w) /\ EachVisited(f, list, acc1) = u[Len(list)]
      BY <3>1, EachVisitedInRounds DEF AnswerAlike
    <3>5. EachVisited(f, list, acc1) = EachVisited(g, list, acc1)
      <4> DEFINE I == {k \in Nat : k <= Len(list) => u[k] = v[k]}
      <4>0. Len(list) \in Nat
        BY <3>1, LenProperties
      <4>1. 0 \in I
        BY <3>3, <3>4 DEF VisitRounds
      <4>2. ASSUME NEW k \in I PROVE k + 1 \in I
        <5> SUFFICES ASSUME k + 1 <= Len(list) PROVE u[k + 1] = v[k + 1]
          OBVIOUS
        <5>1. u[k] = v[k] /\ k + 1 \in 1..Len(list) /\ (k + 1) - 1 = k
          BY <4>0
        <5> QED BY <5>1, <3>3, <3>4 DEF VisitRounds
      <4> HIDE DEF I
      <4>3. I = Nat
        <5>1. I \in SUBSET Nat
          BY DEF I
        <5> QED BY <4>1, <4>2, <5>1, InductOn
      <4>4. u[Len(list)] = v[Len(list)]
        BY <4>0, <4>3 DEF I
      <4> QED BY <4>4, <3>3, <3>4
    <3> QED BY <2>4, <3>5 DEF Visited, acc1, list
  <2> QED BY <2>3, <2>4
<1>8. S \in SUBSET [D -> Orders(w)]
  BY DEF VisitFunctions, Visits
<1>9. PICK f \in S : body[f] = f
  <2>1. ASSUME NEW h \in S, NEW g \in S, NEW q \in D,
               \A p \in D : measure[p] < measure[q] => h[p] = g[p]
        PROVE  body[h][q] = body[g][q]
    <3>1. Visited(h, w, q[1], q[2]) = Visited(g, w, q[1], q[2])
      <4> HIDE DEF measure, S, D
      <4> QED BY <2>1, <1>7
    <3> QED BY <3>1
  <2>2. \A h, g \in S, q \in D :
          (\A p \in D : measure[p] < measure[q] => h[p] = g[p]) => body[h][q] = body[g][q]
    <3> HIDE DEF D, S, N, measure, body, base
    <3> QED BY <2>1
  <2>3. Descends(body, measure, S, D)
    <3> HIDE DEF D, S, N, measure, body, base
    <3> QED BY <2>2 DEF Descends
  <2>4. Recursion(D, Orders(w), S, base, N, measure, body)
    <3> HIDE DEF D, S, N, measure, body, base
    <3> QED BY <1>0, <1>3, <1>4, <1>6, <1>8, <2>3 DEF Recursion
  <2>5. \E f : Solves(f, S, body)
    <3> HIDE DEF D, S, N, measure, body, base
    <3> QED BY <2>4, RecursionExists
  <2> QED BY <2>5 DEF Solves
<1>10. f = [q \in D |-> Visited(f, w, q[1], q[2])]
  BY <1>9
<1>11. Visit(w) = [q \in D |-> Visited(Visit(w), w, q[1], q[2])]
  BY <1>10 DEF Visit
<1>12. Visit(w) = f
  <2> DEFINE I == {n \in Nat : \A q \in D : measure[q] < n => f[q] = Visit(w)[q]}
  <2>0. \A q \in D : measure[q] \in Nat /\ measure[q] <= N
    BY <1>3, <1>0
  <2>1. 0 \in I
    <3> HIDE DEF measure, N, D
    <3> QED BY <2>0
  <2>2. ASSUME NEW n \in I PROVE n + 1 \in I
    <3> HIDE DEF measure, N, D
    <3> SUFFICES ASSUME NEW q \in D, measure[q] < n + 1 PROVE f[q] = Visit(w)[q]
      OBVIOUS
    <3>1. \A p \in D : measure[p] < measure[q] => f[p] = Visit(w)[p]
      BY <2>0
    <3>2. Visited(f, w, q[1], q[2]) = Visited(Visit(w), w, q[1], q[2])
      BY <3>1, <1>7
    <3> QED BY <3>2, <1>10, <1>11
  <2> HIDE DEF measure, N, I, D
  <2>3. I = Nat
    <3>1. I \in SUBSET Nat
      BY DEF I
    <3> QED BY <2>1, <2>2, <3>1, InductOn
  <2>4. N + 1 \in I /\ \A q \in D : measure[q] < N + 1
    BY <2>0, <2>3, <1>0
  <2>5. \A q \in D : f[q] = Visit(w)[q]
    BY <2>4 DEF I
  <2> QED BY <2>5, <1>10, <1>11
<1>13. ASSUME NEW n \in NodesOf(w), NEW acc \in Orders(w)
       PROVE  Visit(w)[<<n, acc>>] = Visited(Visit(w), w, n, acc)
  BY <1>11
<1> QED BY <1>12, <1>13

\* Nodes of the order are followed by the nodes their edges lead to.
Ordered(w, order) ==
  \A e \in ToSet(w.edges), i \in DOMAIN order :
    order[i] = e.from => \E j \in DOMAIN order : j > i /\ order[j] = e.to

\* The order holds the nodes that are visited, but for the open ones, once.
GoodAcc(w, acc, open) ==
  /\ acc \in Orders(w) /\ IsInjective(acc.order)
  /\ ToSet(acc.order) = acc.visited \ open /\ open \subseteq acc.visited
  /\ Acyclic(w, ToSet(w.edges)) => Ordered(w, acc.order)

\* In a workflow without cycles, the open nodes are ancestors of n.
AreAbove(w, open, n) ==
  Acyclic(w, ToSet(w.edges)) => \A g \in open : Reaches(w, ToSet(w.edges), g, n)

GoodVisit(w, r, n, acc, open) == GoodAcc(w, r, open) /\ acc.visited \cup {n} \subseteq r.visited

VisitsWell(w, f, n, acc, open) ==
  \A a \in Orders(w) :
    acc.visited \subseteq a.visited /\ GoodAcc(w, a, open) => GoodVisit(w, f[<<n, a>>], n, a, open)

\* A loop visits all of its list, and keeps what is good.
LEMMA EachVisitedIsGood ==
  ASSUME NEW w, NEW f \in VisitFunctions(w), NEW list \in Seq(NodesOf(w)), NEW acc \in Orders(w),
         NEW open, GoodAcc(w, acc, open),
         \A n \in ToSet(list) : VisitsWell(w, f, n, acc, open)
  PROVE  LET r == EachVisited(f, list, acc)
         IN  GoodAcc(w, r, open) /\ acc.visited \cup ToSet(list) \subseteq r.visited
<1>1. PICK v : VisitRounds(v, f, list, acc, w) /\ EachVisited(f, list, acc) = v[Len(list)]
  BY EachVisitedInRounds DEF AnswerAlike
<1> DEFINE n == Len(list)
           I == {k \in Nat : k <= n => /\ GoodAcc(w, v[k], open)
                                       /\ \A i \in 1..k : list[i] \in v[k].visited}
<1>2. n \in Nat /\ \A i \in 1..n : list[i] \in NodesOf(w) /\ list[i] \in ToSet(list)
  BY MembersOf
<1>3. /\ v \in [0..n -> Orders(w)] /\ v[0] = acc
      /\ \A i \in 1..n : v[i] = f[<<list[i], v[i - 1]>>]
      /\ \A i \in 0..n : acc.visited \subseteq v[i].visited
  BY <1>1 DEF VisitRounds
<1> HIDE DEF n
<1>4. 0 \in I
  BY <1>3
<1>5. ASSUME NEW k \in I PROVE k + 1 \in I
  <2> SUFFICES ASSUME k + 1 <= n
               PROVE  /\ GoodAcc(w, v[k + 1], open)
                      /\ \A i \in 1..(k + 1) : list[i] \in v[k + 1].visited
    OBVIOUS
  <2>1. /\ GoodAcc(w, v[k], open) /\ \A i \in 1..k : list[i] \in v[k].visited
        /\ k \in 0..n /\ k + 1 \in 1..n /\ (k + 1) - 1 = k
    BY <1>2
  <2>2. v[k] \in Orders(w) /\ acc.visited \subseteq v[k].visited /\ v[k + 1] = f[<<list[k + 1], v[k]>>]
    BY <2>1, <1>3
  <2>3. GoodVisit(w, v[k + 1], list[k + 1], v[k], open)
    BY <2>1, <2>2, <1>2 DEF VisitsWell
  <2>4. \A i \in 1..(k + 1) : i \in 1..k \/ i = k + 1
    BY <2>1
  <2> QED BY <2>1, <2>3, <2>4 DEF GoodVisit
<1> HIDE DEF I
<1>6. I = Nat
  <2>1. I \in SUBSET Nat
    BY DEF I
  <2> QED BY <1>4, <1>5, <2>1, InductOn
<1>7. GoodAcc(w, v[n], open) /\ \A i \in 1..n : list[i] \in v[n].visited
  BY <1>2, <1>6 DEF I
<1>8. acc.visited \subseteq v[n].visited
  BY <1>2, <1>3
<1>9. ToSet(list) = {list[i] : i \in 1..n}
  BY MembersOf DEF n
<1> QED BY <1>1, <1>7, <1>8, <1>9 DEF n

\* A node in front of an order that holds all its neighbors.
LEMMA InFront ==
  ASSUME NEW w, IsWorkflow(w), NEW n \in NodesOf(w), NEW order \in Seq(NodesOf(w)), IsInjective(order),
         n \notin ToSet(order)
  PROVE  /\ <<n>> \o order \in Seq(NodesOf(w)) /\ IsInjective(<<n>> \o order)
         /\ ToSet(<<n>> \o order) = ToSet(order) \cup {n}
         /\ Ordered(w, order) /\ ToSet(Neighbors(w, n)) \subseteq ToSet(order) =>
              Ordered(w, <<n>> \o order)
<1> DEFINE k == Len(order)  new == <<n>> \o order
<1>1. k \in Nat /\ DOMAIN order = 1..k /\ \A i \in 1..k : order[i] \in NodesOf(w)
  BY LenProperties, ElementOfSeq
<1>2. <<n>> \in Seq(NodesOf(w)) /\ Len(<<n>>) = 1 /\ <<n>>[1] = n
  OBVIOUS
<1>3. /\ new \in Seq(NodesOf(w)) /\ Len(new) = k + 1
      /\ \A i \in 1..(k + 1) : new[i] = IF i <= 1 THEN <<n>>[i] ELSE order[i - 1]
  BY <1>1, <1>2, ConcatProperties
<1> HIDE DEF k, new
<1>4. new[1] = n /\ \A i \in 1..k : new[i + 1] = order[i]
  BY <1>1, <1>2, <1>3
<1>5. DOMAIN new = 1..(k + 1) /\ \A i \in 1..(k + 1) : i = 1 \/ (i - 1 \in 1..k /\ new[i] = order[i - 1])
  BY <1>1, <1>3, LenProperties
<1>6. ToSet(order) = {order[i] : i \in 1..k} /\ \A i, j \in 1..k : order[i] = order[j] => i = j
  BY MembersOf DEF k
<1>7. ToSet(new) = {new[i] : i \in 1..(k + 1)}
  BY <1>3, MembersOf
<1>8. ToSet(new) = ToSet(order) \cup {n}
  <2>1. \A i \in 1..k : i + 1 \in 1..(k + 1)
    BY <1>1
  <2>2. 1 \in 1..(k + 1)
    BY <1>1
  <2> QED BY <1>4, <1>5, <1>6, <1>7, <2>1, <2>2
<1>9. IsInjective(new)
  <2> SUFFICES ASSUME NEW i \in 1..(k + 1), NEW j \in 1..(k + 1), new[i] = new[j] PROVE i = j
    BY <1>5 DEF IsInjective
  <2>1. \A l \in 1..k : order[l] # n
    BY <1>6
  <2>2. CASE i = 1 /\ j # 1
    BY <2>1, <2>2, <1>4, <1>5
  <2>3. CASE j = 1 /\ i # 1
    BY <2>1, <2>3, <1>4, <1>5
  <2>4. CASE i # 1 /\ j # 1
    <3>1. i - 1 = j - 1
      BY <2>4, <1>5, <1>6
    <3> QED BY <3>1
  <2> QED BY <2>2, <2>3, <2>4
<1>10. ASSUME Ordered(w, order), ToSet(Neighbors(w, n)) \subseteq ToSet(order) PROVE Ordered(w, new)
  <2> SUFFICES ASSUME NEW e \in ToSet(w.edges), NEW i \in 1..(k + 1), new[i] = e.from
               PROVE  \E j \in 1..(k + 1) : j > i /\ new[j] = e.to
    BY <1>5 DEF Ordered
  <2>1. CASE i = 1
    <3>1. e.to \in ToSet(order)
      BY <2>1, <1>4, <1>10, NeighborsOf
    <3>2. PICK j \in 1..k : order[j] = e.to
      BY <3>1, <1>6
    <3>3. j + 1 \in 1..(k + 1) /\ j + 1 > 1 /\ new[j + 1] = e.to
      BY <3>2, <1>1, <1>4
    <3> QED BY <2>1, <3>3
  <2>2. CASE i # 1
    <3>1. i - 1 \in 1..k /\ order[i - 1] = e.from
      BY <2>2, <1>5
    <3>2. PICK j \in 1..k : j > i - 1 /\ order[j] = e.to
      BY <3>1, <1>1, <1>10 DEF Ordered
    <3>3. j + 1 \in 1..(k + 1) /\ j + 1 > i /\ new[j + 1] = e.to
      BY <3>2, <1>1, <1>4
    <3> QED BY <3>3
  <2> QED BY <2>1, <2>2
<1> QED BY <1>3, <1>8, <1>9, <1>10 DEF new

\* A visit of a node below the open ones is good.
LEMMA VisitIsGood ==
  ASSUME NEW w, IsWorkflow(w), NEW n0 \in NodesOf(w), NEW acc0 \in Orders(w), NEW open0,
         GoodAcc(w, acc0, open0), AreAbove(w, open0, n0)
  PROVE  GoodVisit(w, Visit(w)[<<n0, acc0>>], n0, acc0, open0)
<1> DEFINE N == NodesOf(w)
           E == ToSet(w.edges)
           Left(acc) == Cardinality(N \ acc.visited)
           I == {k \in Nat : \A n \in N, acc \in Orders(w), open \in SUBSET N :
                   Left(acc) < k /\ GoodAcc(w, acc, open) /\ AreAbove(w, open, n)
                     => GoodVisit(w, Visit(w)[<<n, acc>>], n, acc, open)}
<1>1. IsFiniteSet(N) /\ \A acc \in Orders(w) : IsFiniteSet(N \ acc.visited) /\ Left(acc) \in Nat
  <2>1. IsFiniteSet(N)
    BY NodesAreFinite
  <2>2. \A acc \in Orders(w) : IsFiniteSet(N \ acc.visited)
    BY <2>1, FS_Subset
  <2> QED BY <2>1, <2>2, FS_CardinalityType
<1>2. 0 \in I
  BY <1>1
<1>3. ASSUME NEW k \in I PROVE k + 1 \in I
  <2> SUFFICES ASSUME NEW n \in N, NEW acc \in Orders(w), NEW open \in SUBSET N,
                      Left(acc) < k + 1, GoodAcc(w, acc, open), AreAbove(w, open, n)
               PROVE  GoodVisit(w, Visit(w)[<<n, acc>>], n, acc, open)
    OBVIOUS
  <2>1. Visit(w) \in VisitFunctions(w) /\ Visit(w)[<<n, acc>>] = Visited(Visit(w), w, n, acc)
    BY VisitExists
  <2>2. CASE n \in acc.visited
    BY <2>1, <2>2 DEF Visited, GoodVisit
  <2>3. CASE n \notin acc.visited
    <3> DEFINE acc1 == [acc EXCEPT !.visited = @ \cup {n}]
               list == Neighbors(w, n)
               below == EachVisited(Visit(w), list, acc1)
               open1 == open \cup {n}
    <3>0. Visit(w)[<<n, acc>>] = [below EXCEPT !.order = <<n>> \o @]
      BY <2>1, <2>3 DEF Visited
    <3>1. /\ acc1 \in Orders(w) /\ acc1.visited = acc.visited \cup {n} /\ acc1.order = acc.order
          /\ list \in Seq(N) /\ open1 \in SUBSET N
      BY NeighborsOf DEF Orders
    <3> HIDE DEF acc1, list
    <3>2. GoodAcc(w, acc1, open1)
      BY <2>3, <3>1 DEF GoodAcc
    <3>3. ASSUME NEW m \in ToSet(list) PROVE VisitsWell(w, Visit(w), m, acc1, open1)
      <4>1. m \in N
        BY <3>1, MembersOf
      <4>2. AreAbove(w, open1, m)
        <5> SUFFICES ASSUME Acyclic(w, E), NEW g \in open1 PROVE Reaches(w, E, g, m)
          BY DEF AreAbove
        <5>1. PICK e \in E : e.from = n /\ e.to = m
          BY NeighborsOf DEF list
        <5>2. E \in SUBSET Edges(w)
          BY EdgesOf
        <5>3. CASE g = n
          BY <5>1, <5>2, <5>3, EdgeReaches
        <5>4. CASE g # n
          <6>1. g \in N /\ Reaches(w, E, g, n)
            BY <5>4 DEF AreAbove
          <6> HIDE DEF E, N
          <6> QED BY <6>1, <5>1, <5>2, ReachesOn DEF N
        <5> QED BY <5>3, <5>4
      <4> SUFFICES ASSUME NEW a \in Orders(w), acc1.visited \subseteq a.visited, GoodAcc(w, a, open1)
                   PROVE  GoodVisit(w, Visit(w)[<<m, a>>], m, a, open1)
        BY DEF VisitsWell
      <4>3. Left(a) < k
        <5> DEFINE U == N \ acc.visited
                   W == N \ a.visited
        <5>1. W \subseteq U \ {n} /\ n \in U /\ U \in SUBSET N
          BY <2>3, <3>1
        <5>2. IsFiniteSet(U) /\ Cardinality(U) \in Nat /\ Cardinality(U) < k + 1 /\ k \in Nat
          BY <1>1
        <5> HIDE DEF U, W
        <5>3. IsFiniteSet(U \ {n}) /\ Cardinality(U \ {n}) = Cardinality(U) - 1
          BY <5>1, <5>2, FS_RemoveElement
        <5>4. IsFiniteSet(W) /\ Cardinality(W) <= Cardinality(U \ {n}) /\ Cardinality(W) \in Nat
          BY <5>1, <5>3, FS_Subset, FS_CardinalityType
        <5>5. Cardinality(W) < k
          BY <5>2, <5>3, <5>4
        <5> QED BY <5>5 DEF W
      <4> HIDE DEF Left, open1
      <4> QED BY <3>1, <4>1, <4>2, <4>3
    <3>4. GoodAcc(w, below, open1) /\ acc1.visited \cup ToSet(list) \subseteq below.visited
      BY <2>1, <3>1, <3>2, <3>3, EachVisitedIsGood
    <3> HIDE DEF below
    <3>5. n \notin ToSet(below.order) /\ below.order \in Seq(N) /\ IsInjective(below.order)
          /\ below.visited \in SUBSET N
      BY <3>4 DEF GoodAcc, Orders
    <3>6. ASSUME Acyclic(w, E), NEW m \in ToSet(list) PROVE m \in ToSet(below.order)
      <4>1. PICK e \in E : e.from = n /\ e.to = m
        BY NeighborsOf DEF list
      <4>2. E \in SUBSET Edges(w) /\ m \in N
        BY <3>1, EdgesOf, MembersOf
      <4>3. m \notin open1
        <5> SUFFICES ASSUME m \in open1 PROVE Reaches(w, E, m, m)
          BY <3>6, <4>2 DEF Acyclic
        <5>1. CASE m = n
          BY <4>1, <4>2, <5>1, EdgeReaches
        <5>2. CASE m # n
          <6>1. Reaches(w, E, m, n)
            BY <3>6, <5>2 DEF AreAbove
          <6> HIDE DEF E, N
          <6> QED BY <4>1, <4>2, <6>1, ReachesOn DEF N
        <5> QED BY <5>1, <5>2
      <4> QED BY <4>3, <3>4 DEF GoodAcc
    <3> DEFINE new == <<n>> \o below.order
               r == [below EXCEPT !.order = new]
    <3>7. /\ new \in Seq(N) /\ IsInjective(new) /\ ToSet(new) = ToSet(below.order) \cup {n}
          /\ Acyclic(w, E) => Ordered(w, new)
      <4>1. Acyclic(w, E) => Ordered(w, below.order) /\ ToSet(Neighbors(w, n)) \subseteq ToSet(below.order)
        BY <3>4, <3>6 DEF GoodAcc, list
      <4> QED BY <4>1, <3>5, InFront
    <3> HIDE DEF new
    <3>8. r \in Orders(w) /\ r.visited = below.visited /\ r.order = new
      BY <3>4, <3>7 DEF GoodAcc, Orders
    <3> HIDE DEF r
    <3>9. n \notin open
      BY <2>3 DEF GoodAcc
    <3>10. GoodAcc(w, r, open)
      BY <3>1, <3>4, <3>7, <3>8, <3>9 DEF GoodAcc
    <3>11. acc.visited \cup {n} \subseteq r.visited
      BY <3>1, <3>4, <3>8
    <3> QED BY <3>0, <3>10, <3>11 DEF GoodVisit, r, new
  <2> QED BY <2>2, <2>3
<1> HIDE DEF I, Left
<1>4. I = Nat
  <2>1. I \in SUBSET Nat
    BY DEF I
  <2> QED BY <1>2, <1>3, <2>1, InductOn
<1>5. Left(acc0) + 1 \in I /\ Left(acc0) < Left(acc0) + 1
  <2>1. Left(acc0) \in Nat
    BY <1>1
  <2> QED BY <2>1, <1>4
<1>6. open0 \in SUBSET N
  BY DEF GoodAcc, Orders
<1> QED BY <1>5, <1>6 DEF I

\* Whatever workflow it is, from whatever node: the order holds every node once,
\* and in a workflow without cycles every node after its predecessors
\* (topologicalSort).
THEOREM OrdersAreTopological ==
  ASSUME NEW w, IsWorkflow(w)
  PROVE  OrderIsTopological(w)
<1> DEFINE N == NodesOf(w)
           E == ToSet(w.edges)
           acc == [visited |-> {}, order |-> <<>>]
           list == <<w.start>> \o w.nodes
           r == EachVisited(Visit(w), list, acc)
<1>1. TopologicalSort(w) = r.order
  BY DEF TopologicalSort, Visit
<1>2. list \in Seq(N) /\ ToSet(list) = N
  <2>1. w.start \in N /\ w.nodes \in Seq(N) /\ ToSet(w.nodes) = N
    BY DEF IsWorkflow, NodesOf
  <2>2. list \in Seq(N)
    BY <2>1, ConcatProperties
  <2>3. ToSet(list) \subseteq N
    BY <2>2, MembersOf
  <2>4. \A i \in 1..Len(w.nodes) : i + 1 \in 1..Len(list) /\ list[i + 1] = w.nodes[i]
    <3>1. <<w.start>> \in Seq(N) /\ Len(<<w.start>>) = 1 /\ Len(w.nodes) \in Nat
      BY <2>1
    <3> QED BY <3>1, <2>1, ConcatProperties
  <2>5. N \subseteq ToSet(list)
    <3> HIDE DEF list, N
    <3>1. ToSet(w.nodes) = {w.nodes[i] : i \in 1..Len(w.nodes)} /\ ToSet(list) = {list[i] : i \in 1..Len(list)}
      BY <2>1, <2>2, MembersOf
    <3> QED BY <3>1, <2>1, <2>4
  <2> QED BY <2>2, <2>3, <2>5
<1>3. acc \in Orders(w)
  BY EmptySeq DEF Orders
<1>4. GoodAcc(w, acc, {})
  <2>1. acc.order = <<>> /\ acc.visited = {} /\ DOMAIN <<>> = {}
    OBVIOUS
  <2>2. Ordered(w, acc.order)
    BY <2>1 DEF Ordered
  <2> QED BY <1>3, <2>1, <2>2, MembersOfNone DEF GoodAcc
<1> HIDE DEF acc, list
<1>5. Visit(w) \in VisitFunctions(w)
  BY VisitExists
<1>6. \A n \in ToSet(list) : VisitsWell(w, Visit(w), n, acc, {})
  <2> SUFFICES ASSUME NEW n \in N, NEW a \in Orders(w), GoodAcc(w, a, {})
               PROVE  GoodVisit(w, Visit(w)[<<n, a>>], n, a, {})
    BY <1>2 DEF VisitsWell
  <2>1. AreAbove(w, {}, n)
    BY DEF AreAbove
  <2> QED BY <2>1, VisitIsGood
<1>7. GoodAcc(w, r, {}) /\ ToSet(list) \subseteq r.visited
  BY <1>2, <1>3, <1>4, <1>5, <1>6, EachVisitedIsGood
<1> HIDE DEF r
<1> DEFINE order == r.order
<1>8. order \in Seq(N) /\ IsInjective(order) /\ ToSet(order) = N
  BY <1>2, <1>7 DEF GoodAcc, Orders
<1>9. Acyclic(w, E) => Ordered(w, order)
  BY <1>7 DEF GoodAcc
<1> HIDE DEF order
<1>10. ASSUME Acyclic(w, E), NEW e \in E
       PROVE  (CHOOSE i \in DOMAIN order : order[i] = e.from) < (CHOOSE i \in DOMAIN order : order[i] = e.to)
  <2>1. e \in Edges(w)
    BY EdgesOf
  <2>2. e.from \in N /\ e.to \in N
    BY <2>1 DEF Edges
  <2>3. DOMAIN order = 1..Len(order) /\ ToSet(order) = {order[i] : i \in 1..Len(order)}
        /\ \A i, j \in 1..Len(order) : order[i] = order[j] => i = j
    BY <1>8, MembersOf
  <2> DEFINE a == CHOOSE i \in DOMAIN order : order[i] = e.from
             b == CHOOSE i \in DOMAIN order : order[i] = e.to
  <2>4. a \in DOMAIN order /\ order[a] = e.from /\ b \in DOMAIN order /\ order[b] = e.to
    <3>1. (\E i \in DOMAIN order : order[i] = e.from) /\ (\E i \in DOMAIN order : order[i] = e.to)
      BY <1>8, <2>2, <2>3
    <3> QED BY <3>1
  <2> HIDE DEF a, b
  <2>5. PICK j \in DOMAIN order : j > a /\ order[j] = e.to
    BY <1>9, <1>10, <2>4 DEF Ordered
  <2>6. j = b
    BY <2>3, <2>4, <2>5
  <2>7. a < b
    BY <2>3, <2>4, <2>5, <2>6
  <2> QED BY <2>7 DEF a, b
<1> QED BY <1>1, <1>8, <1>10 DEF OrderIsTopological, order

(***************************************************************************)
(* findCyclicEdges.                                                        *)
(***************************************************************************)
Reached(w) == [reach : SUBSET NodesOf(w), cache : Caches(w)]

\* What one neighbor adds.
Entered(f, a, m, stack) ==
  IF m \in stack THEN [a EXCEPT !.reach = @ \cup {m}]
  ELSE [reach |-> a.reach \cup {m} \cup f[<<m, stack \cup {m}, a.cache>>].reach,
        cache |-> f[<<m, stack \cup {m}, a.cache>>].cache]

ReachRounds(v, f, list, stack, cache, w) ==
  /\ v \in [0..Len(list) -> Reached(w)]
  /\ v[0] = [reach |-> {}, cache |-> cache]
  /\ \A i \in 1..Len(list) : v[i] = Entered(f, v[i - 1], list[i], stack)

AnswerAlikeAbove(f, g, stack, w) ==
  \A m \in NodesOf(w) \ stack, c \in Caches(w) :
    f[<<m, stack \cup {m}, c>>] = g[<<m, stack \cup {m}, c>>]

\* The loop over a list, round by round; g gives the same rounds when it answers
\* alike with more on the stack.
LEMMA EachReachedInRounds ==
  ASSUME NEW w, NEW f \in [Descents(w) -> Reached(w)], NEW g,
         NEW list \in Seq(NodesOf(w)), NEW stack \in SUBSET NodesOf(w), NEW cache \in Caches(w),
         AnswerAlikeAbove(f, g, stack, w)
  PROVE  \E v : /\ ReachRounds(v, f, list, stack, cache, w)
                /\ EachReached(g, list, stack, cache) = v[Len(list)]
<1> DEFINE n == Len(list)
           S == Reached(w)
           base == [reach |-> {}, cache |-> cache]
           advance == [p \in S \X (1..n) |-> Entered(f, p[1], list[p[2]], stack)]
           Rounds(h) == [i \in 0..n |-> IF i = 0 THEN base ELSE Entered(g, h[i - 1], list[i], stack)]
           v == CHOOSE h : h = Rounds(h)
<1>1. n \in Nat /\ \A i \in 1..n : list[i] \in NodesOf(w)
  BY LenProperties, ElementOfSeq
<1>2. base \in S
  BY DEF Reached
<1>3. ASSUME NEW a \in S, NEW m \in NodesOf(w)
      PROVE  Entered(f, a, m, stack) \in S /\ Entered(f, a, m, stack) = Entered(g, a, m, stack)
  <2>1. a.reach \in SUBSET NodesOf(w) /\ a.cache \in Caches(w)
    BY DEF Reached
  <2>2. CASE m \in stack
    <3>1. [a EXCEPT !.reach = @ \cup {m}] \in S
      BY <2>1 DEF Reached
    <3> QED BY <2>2, <3>1 DEF Entered
  <2>3. CASE m \notin stack
    <3> DEFINE q == <<m, stack \cup {m}, a.cache>>
    <3>1. q \in Descents(w) /\ f[q] = g[q]
      BY <2>1, <2>3 DEF Descents, AnswerAlikeAbove
    <3>2. f[q] \in S
      BY <3>1
    <3> HIDE DEF q
    <3>3. f[q].reach \in SUBSET NodesOf(w) /\ f[q].cache \in Caches(w)
      BY <3>2 DEF Reached
    <3>4. [reach |-> a.reach \cup {m} \cup f[q].reach, cache |-> f[q].cache] \in S
      BY <2>1, <3>3 DEF Reached
    <3> QED BY <2>3, <3>1, <3>4 DEF Entered, q
  <2> QED BY <2>2, <2>3
<1>4. EachReached(g, list, stack, cache) = v[n]
  BY DEF EachReached, Entered
<1> HIDE DEF n, S, v, base
<1>5. PICK u : Iterates(u, S, base, n, advance)
  <2>1. advance \in [S \X (1..n) -> S]
    BY <1>1, <1>3
  <2> HIDE DEF advance
  <2> QED BY <1>1, <1>2, <2>1, IteratesExists
<1>6. u \in [0..n -> S] /\ u[0] = base
  BY <1>5 DEF Iterates
<1>7. ASSUME NEW i \in 1..n
      PROVE  /\ u[i - 1] \in S
             /\ u[i] = Entered(f, u[i - 1], list[i], stack)
             /\ u[i] = Entered(g, u[i - 1], list[i], stack)
  <2>1. u[i - 1] \in S
    BY <1>1, <1>6
  <2>2. u[i] = advance[<<u[i - 1], i>>]
    <3> HIDE DEF advance
    <3> QED BY <1>5 DEF Iterates
  <2>3. u[i] = Entered(f, u[i - 1], list[i], stack)
    BY <2>1, <2>2
  <2> QED BY <2>1, <2>3, <1>1, <1>3
<1> HIDE DEF advance
<1>8. u = Rounds(u)
  <2>1. ASSUME NEW i \in 0..n PROVE u[i] = IF i = 0 THEN base ELSE Entered(g, u[i - 1], list[i], stack)
    BY <1>1, <1>6, <1>7
  <2> QED BY <2>1, <1>6
<1>9. v = Rounds(v)
  BY <1>8 DEF v
<1> DEFINE I == {k \in Nat : k <= n => u[k] = v[k]}
<1>10. 0 \in I
  BY <1>1, <1>6, <1>9
<1>11. ASSUME NEW k \in I PROVE k + 1 \in I
  <2> SUFFICES ASSUME k + 1 <= n PROVE u[k + 1] = v[k + 1]
    OBVIOUS
  <2>1. u[k] = v[k] /\ k + 1 \in 1..n /\ k + 1 \in 0..n /\ (k + 1) - 1 = k /\ k + 1 # 0
    BY <1>1
  <2>2. v[k + 1] = Entered(g, v[k], list[k + 1], stack)
    BY <1>9, <2>1
  <2>3. u[k + 1] = Entered(g, u[k], list[k + 1], stack)
    BY <1>7, <2>1
  <2> QED BY <2>1, <2>2, <2>3
<1> HIDE DEF I
<1>12. I = Nat
  <2>1. I \in SUBSET Nat
    BY DEF I
  <2> QED BY <1>10, <1>11, <2>1, InductOn
<1>13. u[n] = v[n]
  BY <1>1, <1>12 DEF I
<1>14. ReachRounds(u, f, list, stack, cache, w)
  BY <1>6, <1>7 DEF ReachRounds, n, S, base
<1> QED BY <1>4, <1>13, <1>14 DEF n

\* Two loops that are given alike answers end alike.
LEMMA EachReachedAlike ==
  ASSUME NEW w, NEW f \in [Descents(w) -> Reached(w)], NEW g,
         NEW list \in Seq(NodesOf(w)), NEW stack \in SUBSET NodesOf(w), NEW cache \in Caches(w),
         AnswerAlikeAbove(f, g, stack, w)
  PROVE  EachReached(f, list, stack, cache) = EachReached(g, list, stack, cache)
<1>0. AnswerAlikeAbove(f, f, stack, w)
  BY DEF AnswerAlikeAbove
<1>1. PICK u : /\ ReachRounds(u, f, list, stack, cache, w)
               /\ EachReached(f, list, stack, cache) = u[Len(list)]
  BY <1>0, EachReachedInRounds
<1>2. PICK v : /\ ReachRounds(v, f, list, stack, cache, w)
               /\ EachReached(g, list, stack, cache) = v[Len(list)]
  BY EachReachedInRounds
<1> DEFINE I == {k \in Nat : k <= Len(list) => u[k] = v[k]}
<1>3. Len(list) \in Nat
  BY LenProperties
<1>4. 0 \in I
  BY <1>1, <1>2 DEF ReachRounds
<1>5. ASSUME NEW k \in I PROVE k + 1 \in I
  <2> SUFFICES ASSUME k + 1 <= Len(list) PROVE u[k + 1] = v[k + 1]
    OBVIOUS
  <2>1. u[k] = v[k] /\ k + 1 \in 1..Len(list) /\ (k + 1) - 1 = k
    BY <1>3
  <2> QED BY <2>1, <1>1, <1>2 DEF ReachRounds
<1> HIDE DEF I
<1>6. I = Nat
  <2>1. I \in SUBSET Nat
    BY DEF I
  <2> QED BY <1>4, <1>5, <2>1, InductOn
<1>7. u[Len(list)] = v[Len(list)]
  BY <1>3, <1>6 DEF I
<1> QED BY <1>1, <1>2, <1>7

\* The search as a function.
Descend(w) == CHOOSE f : f = [q \in Descents(w) |-> ReachableFrom(f, w, q[1], q[2], q[3])]

\* The recursive search of computeReachability exists and satisfies its equation.
LEMMA DescendExists ==
  ASSUME NEW w, IsWorkflow(w)
  PROVE  /\ Descend(w) \in [Descents(w) -> Reached(w)]
         /\ \A n \in NodesOf(w), stack \in SUBSET NodesOf(w), cache \in Caches(w) :
              Descend(w)[<<n, stack, cache>>] = ReachableFrom(Descend(w), w, n, stack, cache)
<1> DEFINE M == NodesOf(w)
           D == Descents(w)
           S == [D -> Reached(w)]
           N == Cardinality(M)
           measure == [q \in D |-> Cardinality(M \ q[2])]
           body == [f \in S |-> [q \in D |-> ReachableFrom(f, w, q[1], q[2], q[3])]]
           base == [q \in D |-> [reach |-> {}, cache |-> q[3]]]
<1>0. IsFiniteSet(M) /\ N \in Nat
  BY NodesAreFinite
<1>1. \A q \in D : q[1] \in M /\ q[2] \in SUBSET M /\ q[3] \in Caches(w)
  BY DEF Descents
<1>1a. \A n \in M, stack \in SUBSET M, c \in Caches(w) : <<n, stack, c>> \in D
  BY DEF Descents
<1>2. \A c \in Caches(w) : c.known \in SUBSET M /\ c.reach \in [M -> SUBSET M]
  BY DEF Caches
<1>3. measure \in [D -> 0..N]
  <2>1. ASSUME NEW q \in D PROVE Cardinality(M \ q[2]) \in 0..N
    <3>1. M \ q[2] \in SUBSET M
      OBVIOUS
    <3>2. IsFiniteSet(M \ q[2]) /\ Cardinality(M \ q[2]) <= N
      BY <1>0, <3>1, FS_Subset
    <3> QED BY <1>0, <3>2, FS_CardinalityType
  <2> QED BY <2>1
<1>4. base \in S
  BY <1>1 DEF Reached
<1>5. ASSUME NEW f \in S, NEW n \in M, NEW stack \in SUBSET M, NEW cache \in Caches(w)
      PROVE  ReachableFrom(f, w, n, stack, cache) \in Reached(w)
  <2>1. CASE n \in cache.known
    BY <1>2, <2>1 DEF ReachableFrom, Reached
  <2>2. CASE n \notin cache.known
    <3> DEFINE list == Neighbors(w, n)
               found == EachReached(f, list, stack, cache)
               c1 == [known |-> found.cache.known \cup {n},
                      reach |-> [found.cache.reach EXCEPT ![n] = found.reach]]
    <3>1. list \in Seq(M)
      BY NeighborsOf
    <3>2. ReachableFrom(f, w, n, stack, cache) = [found EXCEPT !.cache = c1]
      BY <2>2 DEF ReachableFrom
    <3> HIDE DEF list
    <3>3. PICK v : ReachRounds(v, f, list, stack, cache, w) /\ found = v[Len(list)]
      <4>1. AnswerAlikeAbove(f, f, stack, w)
        BY DEF AnswerAlikeAbove
      <4> QED BY <3>1, <4>1, EachReachedInRounds
    <3>4. Len(list) \in 0..Len(list)
      BY <3>1, LenProperties
    <3>5. found \in Reached(w)
      BY <3>3, <3>4 DEF ReachRounds
    <3> HIDE DEF found
    <3>6. found.reach \in SUBSET M /\ found.cache.known \in SUBSET M /\ found.cache.reach \in [M -> SUBSET M]
      BY <3>5, <1>2 DEF Reached
    <3>7. c1 \in Caches(w)
      BY <3>6 DEF Caches
    <3> HIDE DEF c1
    <3> QED BY <3>2, <3>5, <3>7 DEF Reached
  <2> QED BY <2>1, <2>2
<1>6. body \in [S -> S]
  <2>1. ASSUME NEW f \in S PROVE [q \in D |-> ReachableFrom(f, w, q[1], q[2], q[3])] \in S
    <3>1. ASSUME NEW q \in D PROVE ReachableFrom(f, w, q[1], q[2], q[3]) \in Reached(w)
      BY <1>1, <1>5
    <3> QED BY <3>1
  <2> QED BY <2>1
<1>7. ASSUME NEW f \in S, NEW g, NEW q \in D,
             \A p \in D : measure[p] < measure[q] => f[p] = g[p]
      PROVE  ReachableFrom(f, w, q[1], q[2], q[3]) = ReachableFrom(g, w, q[1], q[2], q[3])
  <2> DEFINE n == q[1]  stack == q[2]  cache == q[3]
  <2>1. n \in M /\ stack \in SUBSET M /\ cache \in Caches(w)
    BY <1>1
  <2>2. measure[q] = Cardinality(M \ stack)
    OBVIOUS
  <2> SUFFICES ReachableFrom(f, w, n, stack, cache) = ReachableFrom(g, w, n, stack, cache)
    OBVIOUS
  <2> HIDE DEF n, stack, cache
  <2>3. AnswerAlikeAbove(f, g, stack, w)
    <3> SUFFICES ASSUME NEW m \in M \ stack, NEW c \in Caches(w)
                 PROVE  f[<<m, stack \cup {m}, c>>] = g[<<m, stack \cup {m}, c>>]
      BY DEF AnswerAlikeAbove
    <3> DEFINE p == <<m, stack \cup {m}, c>>
    <3>1. p \in D
      BY <1>1a, <2>1
    <3>2. measure[p] = Cardinality(M \ (stack \cup {m}))
      BY <3>1
    <3>3. Cardinality(M \ (stack \cup {m})) < Cardinality(M \ stack)
      <4> DEFINE U == M \ stack
      <4>1. M \ (stack \cup {m}) = U \ {m} /\ m \in U /\ U \in SUBSET M
        OBVIOUS
      <4> HIDE DEF U
      <4>2. IsFiniteSet(U) /\ Cardinality(U) \in Nat
        BY <4>1, <1>0, FS_Subset, FS_CardinalityType
      <4>3. Cardinality(U \ {m}) = Cardinality(U) - 1
        BY <4>1, <4>2, FS_RemoveElement
      <4>4. Cardinality(U \ {m}) < Cardinality(U)
        BY <4>2, <4>3
      <4> QED BY <4>1, <4>4 DEF U
    <3>4. measure[p] < measure[q]
      BY <3>2, <3>3, <2>2
    <3> HIDE DEF measure, D, p
    <3>5. f[p] = g[p]
      BY <3>1, <3>4, <1>7
    <3> QED BY <3>5 DEF p
  <2>4. EachReached(f, Neighbors(w, n), stack, cache) = EachReached(g, Neighbors(w, n), stack, cache)
    BY <2>1, <2>3, NeighborsOf, EachReachedAlike
  <2> QED BY <2>4 DEF ReachableFrom
<1>8. S \in SUBSET [D -> Reached(w)]
  OBVIOUS
<1>9. PICK f \in S : body[f] = f
  <2>1. ASSUME NEW h \in S, NEW g \in S, NEW q \in D,
               \A p \in D : measure[p] < measure[q] => h[p] = g[p]
        PROVE  body[h][q] = body[g][q]
    <3>1. ReachableFrom(h, w, q[1], q[2], q[3]) = ReachableFrom(g, w, q[1], q[2], q[3])
      <4> HIDE DEF measure, S, D
      <4> QED BY <2>1, <1>7
    <3> QED BY <3>1
  <2>2. \A h, g \in S, q \in D :
          (\A p \in D : measure[p] < measure[q] => h[p] = g[p]) => body[h][q] = body[g][q]
    <3> HIDE DEF D, S, N, measure, body, base
    <3> QED BY <2>1
  <2>3. Descends(body, measure, S, D)
    <3> HIDE DEF D, S, N, measure, body, base
    <3> QED BY <2>2 DEF Descends
  <2>4. Recursion(D, Reached(w), S, base, N, measure, body)
    <3> HIDE DEF D, S, N, measure, body, base
    <3> QED BY <1>0, <1>3, <1>4, <1>6, <1>8, <2>3 DEF Recursion
  <2>5. \E f : Solves(f, S, body)
    <3> HIDE DEF D, S, N, measure, body, base
    <3> QED BY <2>4, RecursionExists
  <2> QED BY <2>5 DEF Solves
<1>10. f = [q \in D |-> ReachableFrom(f, w, q[1], q[2], q[3])]
  BY <1>9
<1>11. Descend(w) = [q \in D |-> ReachableFrom(Descend(w), w, q[1], q[2], q[3])]
  BY <1>10 DEF Descend
<1>12. Descend(w) = f
  <2> DEFINE I == {n \in Nat : \A q \in D : measure[q] < n => f[q] = Descend(w)[q]}
  <2>0. \A q \in D : measure[q] \in Nat /\ measure[q] <= N
    BY <1>3, <1>0
  <2>1. 0 \in I
    <3> HIDE DEF measure, N, D
    <3> QED BY <2>0
  <2>2. ASSUME NEW n \in I PROVE n + 1 \in I
    <3> HIDE DEF measure, N, D
    <3> SUFFICES ASSUME NEW q \in D, measure[q] < n + 1 PROVE f[q] = Descend(w)[q]
      OBVIOUS
    <3>1. \A p \in D : measure[p] < measure[q] => f[p] = Descend(w)[p]
      BY <2>0
    <3>2. ReachableFrom(f, w, q[1], q[2], q[3]) = ReachableFrom(Descend(w), w, q[1], q[2], q[3])
      BY <3>1, <1>7
    <3> QED BY <3>2, <1>10, <1>11
  <2> HIDE DEF measure, N, I, D
  <2>3. I = Nat
    <3>1. I \in SUBSET Nat
      BY DEF I
    <3> QED BY <2>1, <2>2, <3>1, InductOn
  <2>4. N + 1 \in I /\ \A q \in D : measure[q] < N + 1
    BY <2>0, <2>3, <1>0
  <2>5. \A q \in D : f[q] = Descend(w)[q]
    BY <2>4 DEF I
  <2> QED BY <2>5, <1>10, <1>11
<1>13. ASSUME NEW n \in M, NEW stack \in SUBSET M, NEW cache \in Caches(w)
       PROVE  Descend(w)[<<n, stack, cache>>] = ReachableFrom(Descend(w), w, n, stack, cache)
  BY <1>1a, <1>11
<1> QED BY <1>12, <1>13

\* What is cached for a node is reached from it.
SoundCache(w, c) ==
  \A m \in c.known : \A x \in c.reach[m] : Reaches(w, ToSet(w.edges), m, x)

\* An edge leads down in the ranks, has a queue for what is cached, or leads to the
\* open nodes.
EdgeIsDown(c, rank, open, e) ==
  \/ e.to \in c.known /\ (rank[e.to] < rank[e.from] \/ e.from \in c.reach[e.to])
  \/ e.to \in open

Ranked(w, c, rank, bound, open) ==
  /\ bound \in Nat /\ rank \in [c.known -> 0..bound]
  /\ \A e \in ToSet(w.edges) : e.from \in c.known => EdgeIsDown(c, rank, open, e)

\* The nodes cached can be ranked, in the order in which they were.
CanBeRanked(w, c, open) == \E bound, rank : Ranked(w, c, rank, bound, open)

GoodCache(w, c, open) == c \in Caches(w) /\ SoundCache(w, c) /\ CanBeRanked(w, c, open)

\* c grows to d: what was there stays, and what is new is in S and not on the stack.
GrowsTo(c, d, S, stack) ==
  /\ c.known \subseteq d.known /\ \A m \in c.known : d.reach[m] = c.reach[m]
  /\ d.known \ c.known \subseteq S \ stack

\* The answer of a search from n, which is on the stack.
GoodDescent(w, r, n, stack, cache) ==
  /\ GoodCache(w, r.cache, stack \ {n})
  /\ n \in r.cache.known /\ r.reach = r.cache.reach[n]
  /\ GrowsTo(cache, r.cache, r.reach \cup {n}, stack \ {n})

DescendsWell(w, f, stack) ==
  \A m \in NodesOf(w) \ stack, c \in Caches(w) :
    GoodCache(w, c, stack) => GoodDescent(w, f[<<m, stack \cup {m}, c>>], m, stack \cup {m}, c)

\* The loop in a search from n, with its first k neighbors done: every node cached
\* that has an edge to n is in what n reaches.
GoodRound(w, a, n, stack, cache, list, k) ==
  /\ GoodCache(w, a.cache, stack) /\ GrowsTo(cache, a.cache, a.reach, stack)
  /\ \A x \in a.reach : Reaches(w, ToSet(w.edges), n, x)
  /\ \A e \in ToSet(w.edges) : e.from \in a.cache.known /\ e.to = n => e.from \in a.reach
  /\ \A i \in 1..k : list[i] \in a.cache.known \/ (list[i] \in stack /\ list[i] \in a.reach)

\* One neighbor m of n more.
LEMMA EnteredIsGood ==
  ASSUME NEW w, IsWorkflow(w), NEW n \in NodesOf(w), NEW stack \in SUBSET NodesOf(w), n \in stack,
         NEW f \in [Descents(w) -> Reached(w)], DescendsWell(w, f, stack),
         NEW cache \in Caches(w), NEW list \in Seq(NodesOf(w)), NEW k \in Nat, k + 1 \in 1..Len(list),
         NEW a \in Reached(w), GoodRound(w, a, n, stack, cache, list, k),
         \E e \in ToSet(w.edges) : e.from = n /\ e.to = list[k + 1]
  PROVE  GoodRound(w, Entered(f, a, list[k + 1], stack), n, stack, cache, list, k + 1)
<1> DEFINE m == list[k + 1]
           E == ToSet(w.edges)
           b == Entered(f, a, m, stack)
<1>1. PICK e \in E : e.from = n /\ e.to = m
  OBVIOUS
<1>2. E \in SUBSET Edges(w) /\ m \in NodesOf(w)
  BY EdgesOf, ElementOfSeq
<1>3. \A i \in 1..(k + 1) : i \in 1..k \/ i = k + 1
  OBVIOUS
<1>4. Reaches(w, E, n, m)
  <2> HIDE DEF E
  <2> QED BY <1>1, <1>2, EdgeReaches
<1>5. CASE m \in stack
  <2>1. b = [a EXCEPT !.reach = @ \cup {m}]
    BY <1>5 DEF Entered
  <2>2. b.cache = a.cache /\ b.reach = a.reach \cup {m}
    BY <2>1 DEF Reached
  <2> HIDE DEF b, E
  <2>3. GrowsTo(cache, b.cache, b.reach, stack)
    BY <2>2 DEF GoodRound, GrowsTo
  <2>4. \A i \in 1..(k + 1) : list[i] \in b.cache.known \/ (list[i] \in stack /\ list[i] \in b.reach)
    BY <1>3, <1>5, <2>2 DEF GoodRound
  <2> QED BY <1>4, <2>2, <2>3, <2>4 DEF GoodRound, E, b
<1>6. CASE m \notin stack
  <2> DEFINE r == f[<<m, stack \cup {m}, a.cache>>]
  <2>1. b = [reach |-> a.reach \cup {m} \cup r.reach, cache |-> r.cache]
    BY <1>6 DEF Entered
  <2>2. b.cache = r.cache /\ b.reach = a.reach \cup {m} \cup r.reach
    BY <2>1
  <2>3. GoodCache(w, a.cache, stack) /\ a.cache \in Caches(w)
    BY DEF GoodRound, Reached
  <2>4. GoodDescent(w, r, m, stack \cup {m}, a.cache)
    BY <1>2, <1>6, <2>3 DEF DescendsWell
  <2>5. (stack \cup {m}) \ {m} = stack
    BY <1>6
  <2> HIDE DEF b, r, E
  <2>6. /\ GoodCache(w, r.cache, stack) /\ m \in r.cache.known /\ r.reach = r.cache.reach[m]
        /\ GrowsTo(a.cache, r.cache, r.reach \cup {m}, stack)
    BY <2>4, <2>5 DEF GoodDescent
  <2>7. GrowsTo(cache, b.cache, b.reach, stack)
    BY <2>2, <2>6 DEF GoodRound, GrowsTo
  <2>8. \A x \in b.reach : Reaches(w, E, n, x)
    <3>1. \A x \in r.reach : Reaches(w, E, m, x)
      BY <2>6 DEF GoodCache, SoundCache, E
    <3>2. \A x \in r.reach : Reaches(w, E, n, x)
      BY <1>1, <1>2, <3>1, ReachesThrough
    <3> QED BY <1>4, <2>2, <3>2 DEF GoodRound, E
  <2>9. ASSUME NEW d \in E, d.from \in b.cache.known, d.to = n PROVE d.from \in b.reach
    <3>1. CASE d.from \in a.cache.known
      BY <2>2, <2>9, <3>1 DEF GoodRound, E
    <3>2. CASE d.from \notin a.cache.known
      BY <2>2, <2>6, <2>9, <3>2 DEF GrowsTo
    <3> QED BY <3>1, <3>2
  <2>10. ASSUME NEW i \in 1..(k + 1)
         PROVE  list[i] \in b.cache.known \/ (list[i] \in stack /\ list[i] \in b.reach)
    <3>1. CASE i = k + 1
      BY <2>2, <2>6, <3>1
    <3>2. CASE i \in 1..k
      <4>1. list[i] \in a.cache.known \/ (list[i] \in stack /\ list[i] \in a.reach)
        BY <3>2 DEF GoodRound
      <4>2. a.cache.known \subseteq b.cache.known
        BY <2>2, <2>6 DEF GrowsTo
      <4> QED BY <4>1, <4>2, <2>2
    <3> QED BY <1>3, <3>1, <3>2
  <2> QED BY <2>2, <2>6, <2>7, <2>8, <2>9, <2>10 DEF GoodRound, E, b
<1> QED BY <1>5, <1>6

\* With all neighbors of n done, n has its set and takes the highest rank.
LEMMA CachedIsGood ==
  ASSUME NEW w, IsWorkflow(w), NEW n \in NodesOf(w), NEW stack \in SUBSET NodesOf(w), n \in stack,
         NEW cache \in Caches(w), n \notin cache.known,
         NEW a \in Reached(w), GoodRound(w, a, n, stack, cache, Neighbors(w, n), Len(Neighbors(w, n))),
         NEW r, r = [a EXCEPT !.cache = [known |-> a.cache.known \cup {n},
                                         reach |-> [a.cache.reach EXCEPT ![n] = a.reach]]]
  PROVE  GoodDescent(w, r, n, stack, cache)
<1> DEFINE E == ToSet(w.edges)
           list == Neighbors(w, n)
           c == a.cache
           d == r.cache
           N == NodesOf(w)
<1>1. c \in Caches(w) /\ a.reach \in SUBSET N /\ c.known \in SUBSET N /\ c.reach \in [N -> SUBSET N]
  BY DEF Reached, Caches
<1>2. /\ r.reach = a.reach /\ d.known = c.known \cup {n} /\ d.reach = [c.reach EXCEPT ![n] = a.reach]
      /\ d \in Caches(w)
  BY <1>1 DEF Reached, Caches
<1>3. d.reach[n] = a.reach /\ \A m \in N \ {n} : d.reach[m] = c.reach[m]
  BY <1>1, <1>2
<1>4. /\ GoodCache(w, c, stack) /\ GrowsTo(cache, c, a.reach, stack)
      /\ \A x \in a.reach : Reaches(w, E, n, x)
      /\ \A e \in E : e.from \in c.known /\ e.to = n => e.from \in a.reach
      /\ \A i \in 1..Len(list) : list[i] \in c.known \/ (list[i] \in stack /\ list[i] \in a.reach)
  BY DEF GoodRound
<1> HIDE DEF c, d, E
<1>5. n \notin c.known
  BY <1>4 DEF GrowsTo
<1>6. SoundCache(w, d)
  BY <1>1, <1>2, <1>3, <1>4, <1>5 DEF SoundCache, GoodCache, E
<1>7. CanBeRanked(w, d, stack \ {n})
  <2>1. PICK bound, rank : Ranked(w, c, rank, bound, stack)
    BY <1>4 DEF GoodCache, CanBeRanked
  <2>2. bound \in Nat /\ rank \in [c.known -> 0..bound] /\ \A e \in E : e.from \in c.known => EdgeIsDown(c, rank, stack, e)
    BY <2>1 DEF Ranked, E
  <2> DEFINE rank1 == [m \in d.known |-> IF m = n THEN bound + 1 ELSE rank[m]]
  <2>3. rank1 \in [d.known -> 0..(bound + 1)] /\ bound + 1 \in Nat
    BY <1>2, <2>2
  <2>4. rank1[n] = bound + 1 /\ \A m \in c.known : rank1[m] = rank[m] /\ rank[m] \in 0..bound
    BY <1>2, <1>5, <2>2
  <2> HIDE DEF rank1
  <2>5. ASSUME NEW e \in E, e.from \in d.known PROVE EdgeIsDown(d, rank1, stack \ {n}, e)
    <3>0. e \in Edges(w)
      BY EdgesOf DEF E
    <3>0a. e.from \in N /\ e.to \in N
      BY <3>0 DEF Edges
    <3>1. CASE e.from = n
      <4>1. e.to \in ToSet(list)
        BY <3>1, NeighborsOf DEF E
      <4>2. list \in Seq(N)
        BY NeighborsOf
      <4> HIDE DEF list
      <4>3. PICK i \in 1..Len(list) : list[i] = e.to
        BY <4>1, <4>2, MembersOf
      <4>4. e.to \in c.known \/ (e.to \in stack /\ e.to \in a.reach)
        BY <4>3, <1>4
      <4>5. CASE e.to \in c.known
        <5>1. rank1[e.to] < rank1[e.from]
          BY <3>1, <4>5, <2>2, <2>4
        <5> QED BY <4>5, <5>1, <1>2 DEF EdgeIsDown
      <4>6. CASE e.to \notin c.known /\ e.to # n
        BY <4>4, <4>6 DEF EdgeIsDown
      <4>7. CASE e.to \notin c.known /\ e.to = n
        BY <3>1, <4>4, <4>7, <1>2, <1>3 DEF EdgeIsDown
      <4> QED BY <4>5, <4>6, <4>7
    <3>2. CASE e.from # n
      <4>1. e.from \in c.known
        BY <3>2, <2>5, <1>2
      <4>2. EdgeIsDown(c, rank, stack, e)
        BY <4>1, <2>2
      <4>3. CASE e.to = n
        BY <4>1, <4>3, <1>2, <1>3, <1>4 DEF EdgeIsDown
      <4>4. CASE e.to # n /\ e.to \in stack
        BY <4>4 DEF EdgeIsDown
      <4>5. CASE e.to # n /\ e.to \notin stack
        <5>1. e.to \in c.known /\ (rank[e.to] < rank[e.from] \/ e.from \in c.reach[e.to])
          BY <4>2, <4>5 DEF EdgeIsDown
        <5>2. rank1[e.to] = rank[e.to] /\ rank1[e.from] = rank[e.from] /\ d.reach[e.to] = c.reach[e.to]
          BY <4>1, <4>5, <5>1, <2>4, <1>3, <3>0a
        <5> QED BY <5>1, <5>2, <1>2 DEF EdgeIsDown
      <4> QED BY <4>3, <4>4, <4>5
    <3> QED BY <3>1, <3>2
  <2>6. Ranked(w, d, rank1, bound + 1, stack \ {n})
    BY <2>3, <2>5 DEF Ranked, E
  <2> QED BY <2>6 DEF CanBeRanked
<1>8. GrowsTo(cache, d, r.reach \cup {n}, stack \ {n})
  <2>1. \A m \in cache.known : m # n /\ m \in N /\ d.reach[m] = cache.reach[m]
    BY <1>1, <1>3, <1>4 DEF GrowsTo
  <2>2. cache.known \subseteq d.known /\ d.known \ cache.known \subseteq (r.reach \cup {n}) \ (stack \ {n})
    BY <1>2, <1>4 DEF GrowsTo
  <2> QED BY <2>1, <2>2 DEF GrowsTo
<1> QED BY <1>2, <1>3, <1>6, <1>7, <1>8 DEF GoodDescent, GoodCache, d

\* Every search is good.
LEMMA DescendIsGood ==
  ASSUME NEW w, IsWorkflow(w), NEW n0 \in NodesOf(w), NEW stack0 \in SUBSET NodesOf(w), n0 \in stack0,
         NEW cache0 \in Caches(w), GoodCache(w, cache0, stack0 \ {n0})
  PROVE  GoodDescent(w, Descend(w)[<<n0, stack0, cache0>>], n0, stack0, cache0)
<1> DEFINE N == NodesOf(w)
           Left(stack) == Cardinality(N \ stack)
           I == {k \in Nat : \A n \in N, stack \in SUBSET N, cache \in Caches(w) :
                   Left(stack) < k /\ n \in stack /\ GoodCache(w, cache, stack \ {n})
                     => GoodDescent(w, Descend(w)[<<n, stack, cache>>], n, stack, cache)}
<1>1. IsFiniteSet(N) /\ \A stack \in SUBSET N : IsFiniteSet(N \ stack) /\ Left(stack) \in Nat
  <2>1. IsFiniteSet(N)
    BY NodesAreFinite
  <2>2. \A stack \in SUBSET N : IsFiniteSet(N \ stack)
    BY <2>1, FS_Subset
  <2> QED BY <2>1, <2>2, FS_CardinalityType
<1>2. 0 \in I
  BY <1>1
<1>3. ASSUME NEW k \in I PROVE k + 1 \in I
  <2> SUFFICES ASSUME NEW n \in N, NEW stack \in SUBSET N, NEW cache \in Caches(w),
                      Left(stack) < k + 1, n \in stack, GoodCache(w, cache, stack \ {n})
               PROVE  GoodDescent(w, Descend(w)[<<n, stack, cache>>], n, stack, cache)
    OBVIOUS
  <2> DEFINE f == Descend(w)  r == f[<<n, stack, cache>>]
  <2>1. f \in [Descents(w) -> Reached(w)] /\ r = ReachableFrom(f, w, n, stack, cache)
    BY DescendExists
  <2> HIDE DEF r
  <2>2. CASE n \in cache.known
    <3>1. r = [reach |-> cache.reach[n], cache |-> cache]
      BY <2>1, <2>2 DEF ReachableFrom
    <3>2. r.reach = cache.reach[n] /\ r.cache = cache
      BY <3>1
    <3> QED BY <2>2, <3>2 DEF GoodDescent, GrowsTo, r
  <2>3. CASE n \notin cache.known
    <3> DEFINE list == Neighbors(w, n)
               found == EachReached(f, list, stack, cache)
               start == [reach |-> {}, cache |-> cache]
    <3>1. list \in Seq(N) /\ Len(list) \in Nat
      BY NeighborsOf, LenProperties
    <3>2. r = [found EXCEPT !.cache = [known |-> @.known \cup {n},
                                       reach |-> [@.reach EXCEPT ![n] = found.reach]]]
      BY <2>1, <2>3 DEF ReachableFrom
    <3>3. DescendsWell(w, f, stack)
      <4> SUFFICES ASSUME NEW m \in N \ stack, NEW c \in Caches(w), GoodCache(w, c, stack)
                   PROVE  GoodDescent(w, f[<<m, stack \cup {m}, c>>], m, stack \cup {m}, c)
        BY DEF DescendsWell
      <4>1. Left(stack \cup {m}) < k
        <5> DEFINE U == N \ stack
        <5>1. N \ (stack \cup {m}) = U \ {m} /\ m \in U
          OBVIOUS
        <5>2. IsFiniteSet(U) /\ Cardinality(U) \in Nat /\ Cardinality(U) < k + 1 /\ k \in Nat
          BY <1>1
        <5> HIDE DEF U
        <5>3. Cardinality(U \ {m}) = Cardinality(U) - 1
          BY <5>1, <5>2, FS_RemoveElement
        <5>4. Cardinality(U \ {m}) < k
          BY <5>2, <5>3
        <5> QED BY <5>1, <5>4
      <4>2. (stack \cup {m}) \ {m} = stack /\ m \in stack \cup {m} /\ stack \cup {m} \in SUBSET N
        OBVIOUS
      <4> HIDE DEF Left, f
      <4> QED BY <4>1, <4>2 DEF f
    <3> HIDE DEF f, list
    <3>4. PICK v : ReachRounds(v, f, list, stack, cache, w) /\ found = v[Len(list)]
      <4>1. AnswerAlikeAbove(f, f, stack, w)
        BY DEF AnswerAlikeAbove
      <4>2. /\ f \in [Descents(w) -> Reached(w)] /\ list \in Seq(NodesOf(w))
            /\ stack \in SUBSET NodesOf(w) /\ cache \in Caches(w)
        BY <2>1, <3>1
      <4> HIDE DEF N, I, Left
      <4>3. \E v : ReachRounds(v, f, list, stack, cache, w) /\ EachReached(f, list, stack, cache) = v[Len(list)]
        BY <4>1, <4>2, EachReachedInRounds
      <4> QED BY <4>3
    <3> DEFINE J == {i \in Nat : i <= Len(list) => GoodRound(w, v[i], n, stack, cache, list, i)}
    <3>5. 0 \in J
      <4>1. v[0] = start /\ start.reach = {} /\ start.cache = cache
        BY <3>4 DEF ReachRounds
      <4>2. PICK bound, rank : Ranked(w, cache, rank, bound, stack \ {n})
        BY DEF GoodCache, CanBeRanked
      <4>3. Ranked(w, cache, rank, bound, stack)
        BY <4>2 DEF Ranked, EdgeIsDown
      <4>4. GoodCache(w, cache, stack)
        BY <4>3 DEF GoodCache, CanBeRanked
      <4>5. \A e \in ToSet(w.edges) : ~(e.from \in cache.known /\ e.to = n)
        BY <2>3, <4>2 DEF Ranked, EdgeIsDown
      <4>6. GrowsTo(cache, cache, {}, stack)
        BY DEF GrowsTo
      <4>7. GoodRound(w, start, n, stack, cache, list, 0)
        BY <4>4, <4>5, <4>6 DEF GoodRound
      <4> QED BY <4>1, <4>7
    <3>6. ASSUME NEW i \in J PROVE i + 1 \in J
      <4> SUFFICES ASSUME i + 1 <= Len(list)
                   PROVE  GoodRound(w, v[i + 1], n, stack, cache, list, i + 1)
        OBVIOUS
      <4>1. /\ GoodRound(w, v[i], n, stack, cache, list, i)
            /\ i \in 0..Len(list) /\ i + 1 \in 1..Len(list) /\ (i + 1) - 1 = i /\ i \in Nat
        BY <3>1
      <4>2. v[i] \in Reached(w) /\ v[i + 1] = Entered(f, v[i], list[i + 1], stack)
        BY <3>4, <4>1 DEF ReachRounds
      <4>3. \E e \in ToSet(w.edges) : e.from = n /\ e.to = list[i + 1]
        <5>1. list[i + 1] \in ToSet(list)
          BY <3>1, <4>1, MembersOf
        <5> QED BY <5>1, NeighborsOf DEF list
      <4> QED BY <2>1, <3>1, <3>3, <4>1, <4>2, <4>3, EnteredIsGood
    <3> HIDE DEF J
    <3>7. J = Nat
      <4>1. J \in SUBSET Nat
        BY DEF J
      <4> QED BY <3>5, <3>6, <4>1, InductOn
    <3>8. GoodRound(w, found, n, stack, cache, list, Len(list)) /\ found \in Reached(w)
      <4>1. Len(list) \in J /\ Len(list) \in 0..Len(list)
        BY <3>1, <3>7
      <4> QED BY <3>4, <4>1 DEF J, ReachRounds
    <3> HIDE DEF found
    <3>9. GoodDescent(w, r, n, stack, cache)
      BY <2>3, <3>2, <3>8, CachedIsGood DEF list
    <3> QED BY <3>9 DEF r, f
  <2> QED BY <2>2, <2>3
<1> HIDE DEF I, Left
<1>4. I = Nat
  <2>1. I \in SUBSET Nat
    BY DEF I
  <2> QED BY <1>2, <1>3, <2>1, InductOn
<1>5. Left(stack0) + 1 \in I /\ Left(stack0) < Left(stack0) + 1
  <2>1. Left(stack0) \in Nat
    BY <1>1
  <2> QED BY <2>1, <1>4
<1> QED BY <1>5 DEF I

\* The loop over all nodes ends with a set for every node.
LEMMA ReachabilityIsGood ==
  ASSUME NEW w, IsWorkflow(w)
  PROVE  \E c \in Caches(w) : /\ ComputeReachability(w) = c.reach /\ c.known = NodesOf(w)
                              /\ GoodCache(w, c, {})
<1> DEFINE n == Len(w.nodes)
           S == {c \in Caches(w) : GoodCache(w, c, {})}
           base == [known |-> {}, reach |-> [m \in NodesOf(w) |-> {}]]
           f == Descend(w)
           advance == [p \in S \X (1..n) |-> f[<<w.nodes[p[2]], {w.nodes[p[2]]}, p[1]>>].cache]
           Rounds(h) == [i \in 0..n |-> IF i = 0 THEN base ELSE f[<<w.nodes[i], {w.nodes[i]}, h[i - 1]>>].cache]
           v == CHOOSE h : h = Rounds(h)
<1>1. w.nodes \in Seq(NodesOf(w))
  BY DEF IsWorkflow
<1>2. n \in Nat /\ \A i \in 1..n : w.nodes[i] \in NodesOf(w)
  BY <1>1, LenProperties, ElementOfSeq
<1>3. base \in S
  <2>1. base \in Caches(w)
    BY DEF Caches
  <2>2. SoundCache(w, base)
    BY DEF SoundCache
  <2>3. Ranked(w, base, [m \in {} |-> 0], 0, {})
    BY DEF Ranked
  <2> QED BY <2>1, <2>2, <2>3 DEF GoodCache, CanBeRanked
<1>4. ASSUME NEW c \in S, NEW i \in 1..n
      PROVE  /\ f[<<w.nodes[i], {w.nodes[i]}, c>>].cache \in S
             /\ w.nodes[i] \in f[<<w.nodes[i], {w.nodes[i]}, c>>].cache.known
             /\ c.known \subseteq f[<<w.nodes[i], {w.nodes[i]}, c>>].cache.known
  <2> DEFINE m == w.nodes[i]
             r == f[<<m, {m}, c>>]
  <2>1. m \in NodesOf(w) /\ {m} \in SUBSET NodesOf(w) /\ m \in {m} /\ {m} \ {m} = {}
    BY <1>2
  <2>2. c \in Caches(w) /\ GoodCache(w, c, {})
    OBVIOUS
  <2> HIDE DEF m
  <2>3. GoodDescent(w, r, m, {m}, c)
    BY <2>1, <2>2, DescendIsGood
  <2> HIDE DEF r
  <2>4. GoodCache(w, r.cache, {}) /\ m \in r.cache.known /\ c.known \subseteq r.cache.known
    BY <2>1, <2>3 DEF GoodDescent, GrowsTo
  <2>5. r.cache \in Caches(w)
    BY <2>4 DEF GoodCache
  <2> QED BY <2>4, <2>5 DEF r, m
<1>5. ComputeReachability(w) = v[n].reach
  BY DEF ComputeReachability, Descend
<1> HIDE DEF n, S, v, base, f
<1>6. PICK u : Iterates(u, S, base, n, advance)
  <2>1. advance \in [S \X (1..n) -> S]
    BY <1>4
  <2> HIDE DEF advance
  <2> QED BY <1>2, <1>3, <2>1, IteratesExists
<1>7. u \in [0..n -> S] /\ u[0] = base
  BY <1>6 DEF Iterates
<1>8. ASSUME NEW i \in 1..n
      PROVE  /\ u[i] = f[<<w.nodes[i], {w.nodes[i]}, u[i - 1]>>].cache
             /\ w.nodes[i] \in u[i].known /\ u[i - 1].known \subseteq u[i].known
  <2>1. u[i - 1] \in S
    BY <1>2, <1>7
  <2>2. u[i] = advance[<<u[i - 1], i>>]
    <3> HIDE DEF advance
    <3> QED BY <1>6 DEF Iterates
  <2>3. u[i] = f[<<w.nodes[i], {w.nodes[i]}, u[i - 1]>>].cache
    BY <2>1, <2>2
  <2> QED BY <2>1, <2>3, <1>4
<1> HIDE DEF advance
<1>9. u = Rounds(u)
  <2>1. ASSUME NEW i \in 0..n
        PROVE  u[i] = IF i = 0 THEN base ELSE f[<<w.nodes[i], {w.nodes[i]}, u[i - 1]>>].cache
    BY <1>2, <1>7, <1>8
  <2> QED BY <2>1, <1>7
<1>10. v = Rounds(v)
  BY <1>9 DEF v
<1> DEFINE I == {k \in Nat : k <= n => u[k] = v[k] /\ \A i \in 1..k : w.nodes[i] \in u[k].known}
<1>11. 0 \in I
  BY <1>2, <1>7, <1>10
<1>12. ASSUME NEW k \in I PROVE k + 1 \in I
  <2> SUFFICES ASSUME k + 1 <= n
               PROVE  u[k + 1] = v[k + 1] /\ \A i \in 1..(k + 1) : w.nodes[i] \in u[k + 1].known
    OBVIOUS
  <2>1. /\ u[k] = v[k] /\ k + 1 \in 1..n /\ k + 1 \in 0..n /\ (k + 1) - 1 = k /\ k + 1 # 0
        /\ \A i \in 1..k : w.nodes[i] \in u[k].known
        /\ \A i \in 1..(k + 1) : i \in 1..k \/ i = k + 1
    BY <1>2
  <2>2. v[k + 1] = f[<<w.nodes[k + 1], {w.nodes[k + 1]}, v[k]>>].cache
    BY <1>10, <2>1
  <2>3. /\ u[k + 1] = f[<<w.nodes[k + 1], {w.nodes[k + 1]}, u[k]>>].cache
        /\ w.nodes[k + 1] \in u[k + 1].known /\ u[k].known \subseteq u[k + 1].known
    BY <1>8, <2>1
  <2> QED BY <2>1, <2>2, <2>3
<1> HIDE DEF I
<1>13. I = Nat
  <2>1. I \in SUBSET Nat
    BY DEF I
  <2> QED BY <1>11, <1>12, <2>1, InductOn
<1>14. u[n] = v[n] /\ u[n] \in S /\ \A i \in 1..n : w.nodes[i] \in u[n].known
  BY <1>2, <1>7, <1>13 DEF I
<1>15. u[n] \in Caches(w) /\ GoodCache(w, u[n], {})
  BY <1>14 DEF S
<1>16. u[n].known = NodesOf(w)
  <2>1. u[n].known \subseteq NodesOf(w)
    BY <1>15 DEF Caches
  <2>2. NodesOf(w) = {w.nodes[i] : i \in 1..n}
    BY <1>1, MembersOf DEF NodesOf, n
  <2> QED BY <1>14, <2>1, <2>2
<1> QED BY <1>5, <1>14, <1>15, <1>16

\* findCyclicEdges, for every workflow: an edge it names lies on a cycle, and no cycle
\* is left without one, although the cache of computeReachability hides what a search
\* that was cut short did not see.
THEOREM CyclicEdgesAreQueued ==
  ASSUME NEW w, IsWorkflow(w)
  PROVE  CyclesAreQueued(w)
<1> DEFINE E == w.edges
           cyclic == FindCyclicEdges(w)
           rest == {E[i] : i \in DOMAIN E \ cyclic}
<1>1. PICK c \in Caches(w) : /\ ComputeReachability(w) = c.reach /\ c.known = NodesOf(w)
                             /\ GoodCache(w, c, {})
  BY ReachabilityIsGood
<1>2. cyclic = {i \in DOMAIN E : E[i].from \in c.reach[E[i].to]}
  BY <1>1 DEF FindCyclicEdges
<1>3. E \in Seq(Edges(w)) /\ ToSet(E) = {E[i] : i \in 1..Len(E)} /\ DOMAIN E = 1..Len(E)
  <2>1. E \in Seq(Edges(w))
    BY DEF IsWorkflow, Edges
  <2> HIDE DEF E
  <2> QED BY <2>1, MembersOf
<1> HIDE DEF E, cyclic
<1>4. \A i \in DOMAIN E : E[i] \in ToSet(E) /\ E[i].from \in NodesOf(w) /\ E[i].to \in NodesOf(w)
  <2>1. \A i \in 1..Len(E) : E[i] \in Edges(w)
    BY <1>3, ElementOfSeq
  <2> QED BY <2>1, <1>3 DEF Edges
<1>5. ASSUME NEW i \in cyclic PROVE Reaches(w, ToSet(E), E[i].to, E[i].from)
  <2>1. E[i].to \in c.known /\ E[i].from \in c.reach[E[i].to]
    BY <1>1, <1>2, <1>4
  <2> QED BY <2>1, <1>1 DEF GoodCache, SoundCache, E
<1>6. PICK bound, rank : Ranked(w, c, rank, bound, {})
  BY <1>1 DEF GoodCache, CanBeRanked
<1>7. \A m \in NodesOf(w) : rank[m] \in Nat
  BY <1>1, <1>6 DEF Ranked
<1>8. \A e \in rest : e.from \in NodesOf(w) /\ e.to \in NodesOf(w) /\ rank[e.to] < rank[e.from]
  <2> SUFFICES ASSUME NEW i \in DOMAIN E \ cyclic
               PROVE  E[i].from \in NodesOf(w) /\ E[i].to \in NodesOf(w) /\ rank[E[i].to] < rank[E[i].from]
    OBVIOUS
  <2>1. E[i] \in ToSet(E) /\ E[i].from \in c.known /\ E[i].from \in NodesOf(w) /\ E[i].to \in NodesOf(w)
    BY <1>1, <1>4
  <2>2. EdgeIsDown(c, rank, {}, E[i])
    BY <2>1, <1>6 DEF Ranked, E
  <2>3. E[i].from \notin c.reach[E[i].to]
    BY <1>2
  <2> QED BY <2>1, <2>2, <2>3 DEF EdgeIsDown
<1> HIDE DEF rest
<1>9. ASSUME NEW m \in NodesOf(w), Reaches(w, rest, m, m) PROVE FALSE
  <2> DEFINE S == {x \in NodesOf(w) : rank[x] < rank[m]}
  <2>1. {e.to : e \in {d \in rest : d.from = m}} \subseteq S
    BY <1>8
  <2>2. ClosedUnder(S, rest)
    <3>1. ASSUME NEW e \in rest, e.from \in S PROVE e.to \in S
      BY <1>7, <1>8, <3>1
    <3> QED BY <3>1 DEF ClosedUnder
  <2>3. S \in SUBSET NodesOf(w) /\ m \notin S
    BY <1>7
  <2> HIDE DEF S
  <2> QED BY <2>1, <2>2, <2>3, <1>9 DEF Reaches
<1>10. Acyclic(w, rest)
  BY <1>9 DEF Acyclic
<1> QED BY <1>5, <1>10 DEF CyclesAreQueued, rest, cyclic, E

-----------------------------------------------------------------------------
(***************************************************************************)
(* Every algorithm, in every state: the searches go right while a workflow *)
(* grows and tasks are blocked, and so does the plan of a day.             *)
(***************************************************************************)

\* The detector has followed its graph, and what has been grown is a workflow.
SearchesInv ==
  /\ DetectInv
  /\ edges \in Seq([from : ToSet(MCNodes), to : ToSet(MCNodes)])

\* The theorems about workflows are about every workflow that is grown.
LEMMA GrownIsWorkflow ==
  ASSUME SearchesInv, NEW n \in ToSet(MCNodes)
  PROVE  IsWorkflow(Workflow(n))
<1>1. /\ Workflow(n).nodes = MCNodes /\ Workflow(n).edges = edges /\ Workflow(n).start = n
      /\ NodesOf(Workflow(n)) = ToSet(MCNodes)
  BY DEF Workflow, NodesOf
<1>2. MCNodes \in Seq(ToSet(MCNodes))
  <2>1. MCNodes \in Seq(Nat)
    BY DEF MCNodes
  <2>2. /\ MCNodes \in [1..Len(MCNodes) -> Nat] /\ Len(MCNodes) \in Nat
        /\ ToSet(MCNodes) = {MCNodes[i] : i \in 1..Len(MCNodes)}
    BY <2>1, MembersOf, SeqDef, LenProperties
  <2> HIDE DEF MCNodes
  <2>3. MCNodes \in [1..Len(MCNodes) -> ToSet(MCNodes)]
    BY <2>2
  <2> QED BY <2>2, <2>3, FunctionIsList
<1> QED BY <1>1, <1>2 DEF IsWorkflow, SearchesInv

\* Then the searches go right.
LEMMA SearchesInvIsRight == SearchesInv => SearchesAreRight
<1> SUFFICES ASSUME SearchesInv PROVE SearchesAreRight
  OBVIOUS
<1>1. DeadlockReportsAreRight
  BY DetectInvIsRight DEF SearchesInv
<1>2. \A n \in ToSet(MCNodes) : OrderIsTopological(Workflow(n))
  BY GrownIsWorkflow, OrdersAreTopological
<1>3. CyclesAreQueued(Workflow(1))
  <2>1. 1 \in ToSet(MCNodes)
    <3>1. MCNodes \in Seq(Nat) /\ MCNodes[1] = 1 /\ 1 \in 1..Len(MCNodes)
      BY DEF MCNodes
    <3> HIDE DEF MCNodes
    <3> QED BY <3>1, MembersOf
  <2> QED BY <2>1, GrownIsWorkflow, CyclicEdgesAreQueued
<1> QED BY <1>1, <1>2, <1>3 DEF SearchesAreRight, WorkflowSearchesAreRight

\* No task waits at first, and a workflow has no edges.
LEMMA SearchesInvHoldsFirst == AlgorithmsInit => SearchesInv
<1> SUFFICES ASSUME AlgorithmsInit PROVE SearchesInv
  OBVIOUS
<1>1. <<>> \in Seq([from : ToSet(MCNodes), to : ToSet(MCNodes)])
  BY EmptySeq
<1> QED BY <1>1, DetectInvHoldsFirst DEF AlgorithmsInit, SearchesInv

\* A run of the detector, or an edge more, keeps it so.
LEMMA SearchesInvIsKept == SearchesInv /\ [AlgorithmsNext]_algorithmsVars => SearchesInv'
<1> SUFFICES ASSUME SearchesInv, [AlgorithmsNext]_algorithmsVars PROVE SearchesInv'
  OBVIOUS
<1> DEFINE E == [from : ToSet(MCNodes), to : ToSet(MCNodes)]
<1>1. [DetectDeadlocks]_detectVars
  BY DEF AlgorithmsNext, algorithmsVars
<1>2. DetectInv'
  BY <1>1, DetectInvIsKept DEF SearchesInv
<1>3. edges \in Seq(E)
  BY DEF SearchesInv
<1>4. \/ edges' = edges
      \/ \E n, m \in ToSet(MCNodes) : edges' = Append(edges, [from |-> n, to |-> m])
  BY DEF AlgorithmsNext, algorithmsVars, AddEdge
<1>5. edges' \in Seq(E)
  <2>1. ASSUME NEW n \in ToSet(MCNodes), NEW m \in ToSet(MCNodes),
               edges' = Append(edges, [from |-> n, to |-> m])
        PROVE  edges' \in Seq(E)
    <3>1. [from |-> n, to |-> m] \in E
      OBVIOUS
    <3> HIDE DEF E
    <3> QED BY <1>3, <2>1, <3>1, AppendProperties
  <2> HIDE DEF E
  <2> QED BY <1>3, <1>4, <2>1
<1> QED BY <1>2, <1>5 DEF SearchesInv

\* In every state: the deadlocks reported are cycles of tasks that block each other, a
\* blocked task that waits for a cycle leads to one of them, and one with a critical task
\* is escalated (detectDeadlocks); a workflow of any edges is put in an order that fits
\* them (topologicalSort), and the edges that get a queue lie on cycles and break them all
\* (findCyclicEdges).
THEOREM SearchesAreAlwaysRight == AlgorithmsSpec => []SearchesAreRight
<1> QED BY SearchesInvHoldsFirst, SearchesInvIsKept, SearchesInvIsRight, PTL DEF AlgorithmsSpec

\* The inductive invariant of all the algorithms: a day holds finitely many events, and
\* each of them takes time.
AlgorithmsInv == SearchesInv /\ IsFiniteSet(busy) /\ busy \in SUBSET Spans

\* It holds at first,
LEMMA AlgorithmsInvHoldsFirst == AlgorithmsInit => AlgorithmsInv
<1> SUFFICES ASSUME AlgorithmsInit PROVE AlgorithmsInv
  OBVIOUS
<1>1. busy = {} /\ IsFiniteSet({})
  BY FS_EmptySet DEF AlgorithmsInit
<1> QED BY <1>1, SearchesInvHoldsFirst DEF AlgorithmsInv

\* every step keeps it, since the subjects share no state,
LEMMA AlgorithmsInvIsKept == AlgorithmsInv /\ [AlgorithmsNext]_algorithmsVars => AlgorithmsInv'
<1> SUFFICES ASSUME AlgorithmsInv, [AlgorithmsNext]_algorithmsVars PROVE AlgorithmsInv'
  OBVIOUS
<1>1. SearchesInv'
  BY SearchesInvIsKept DEF AlgorithmsInv
<1>2. AddEvent \/ busy' = busy
  BY DEF AlgorithmsNext, algorithmsVars
<1>3. CASE AddEvent
  <2>1. PICK t \in (WorkStart - 1)..(WorkEnd - 1), n \in {1, 3, 6} : busy' = busy \cup {Slot(t, t + n)}
    BY <1>3 DEF AddEvent
  <2>2. t \in Int /\ t + n \in Int /\ t < t + n
    BY SlotsAssumption
  <2>3. Slot(t, t + n) \in Spans
    BY <2>2 DEF Slot, Spans, Slots
  <2>4. IsFiniteSet(busy')
    BY <2>1, FS_AddElement DEF AlgorithmsInv
  <2>5. busy' \in SUBSET Spans
    BY <2>1, <2>3 DEF AlgorithmsInv
  <2> QED BY <1>1, <2>4, <2>5 DEF AlgorithmsInv, Spans, Slots
<1>4. CASE busy' = busy
  BY <1>1, <1>4 DEF AlgorithmsInv, Spans, Slots
<1> QED BY <1>2, <1>3, <1>4

\* and it says what is to be proved.
LEMMA AlgorithmsInvIsRight == AlgorithmsInv => AlgorithmsAreRight
<1> SUFFICES ASSUME AlgorithmsInv PROVE AlgorithmsAreRight
  OBVIOUS
<1>1. SearchesAreRight
  BY SearchesInvIsRight DEF AlgorithmsInv
<1>2. PlansAreRight
  <2>1. busy \in SUBSET Spans /\ IsFiniteSet(busy)
    BY DEF AlgorithmsInv
  <2>2. ASSUME NEW tasks \in SUBSET DayTasks, NEW order \in SetToSeqs(tasks)
        PROVE  PlanIsRight(busy, order, PlanOfDay(SetToSeq(busy), order))
    BY <2>1, PlansOfTasksAreRight
  <2> QED BY <2>2 DEF PlansAreRight
<1> QED BY <1>1, <1>2 DEF AlgorithmsAreRight

\* Whatever tasks are blocked, edges and events are added: the detector, the searches of
\* workflows and the plan of a day are right in every state.
THEOREM AlgorithmsAreAlwaysRight == AlgorithmsSpec => []AlgorithmsAreRight
<1> QED
  BY AlgorithmsInvHoldsFirst, AlgorithmsInvIsKept, AlgorithmsInvIsRight, PTL DEF AlgorithmsSpec

-----------------------------------------------------------------------------
(***************************************************************************)
(* Proofs about the editing of a resume, for any number of editors, any    *)
(* texts and any limit of the stacks.  While the calls come one after the  *)
(* other, the document and its stacks are a walk along the timeline of the *)
(* texts: the undo stack holds what is before the position, the redo stack *)
(* what is behind it.  A call that has applied its change and not saved it *)
(* yet walks the timeline as its save will record it.                      *)
(***************************************************************************)

\* The document and its stacks as a walk along a timeline: the text x is at
\* position c, U holds what is before it, R the u texts behind it, the next on top.
Walk(T, c, u, x, U, R) ==
  /\ T \in Seq(Contents) /\ c \in 1..Len(T) /\ u \in 0..(Len(T) - c)
  /\ c + u <= StackLimit + 1
  /\ x = T[c]
  /\ U \in Seq(Contents) /\ Len(U) = c - 1 /\ \A i \in 1..(c - 1) : U[i] = T[i]
  /\ R \in Seq(Contents) /\ Len(R) = u /\ \A i \in 1..u : R[i] = T[c + u + 1 - i]

WalkOf(h, x, U, R) == Walk(h.timeline, h.cursor, h.undone, x, U, R)

Texts == Contents \cup {Absent}
CallRecords ==
  [kind : Kinds \cup {"none"}, stage : {"none", "asked", "loaded", "versioning", "saving"},
   held : Nat, read : Texts, write : Texts, number : Nat]
Histories == [timeline : Seq(Contents), cursor : Nat, undone : Nat, serial : BOOLEAN]
VersionRecords == [number : Nat \ {0}, content : Contents]

EditingTypeOK ==
  /\ latexContent \in Contents /\ currentVersion \in Nat \ {0}
  /\ versions \in Seq(VersionRecords)
  /\ undoStack \in Seq(Texts) /\ redoStacks \in Seq(Seq(Texts)) /\ redoStacks # <<>>
  /\ editing \in [Editors -> CallRecords]
  /\ history \in Histories

\* Which stages a call of a kind has, and what it knows there.
InOrder(p) ==
  /\ editing[p].stage = "none" <=> editing[p].kind = "none"
  /\ editing[p].stage = "asked" => editing[p].kind \in {"undo", "redo"}
  /\ editing[p].stage = "loaded" => editing[p].kind \in {"edit", "versionedEdit", "undo", "redo"}
  /\ editing[p].stage = "versioning" => editing[p].kind \in {"versionedEdit", "rollback"}
  /\ editing[p].kind = "redo" => editing[p].held \in 1..Len(redoStacks)
  /\ editing[p].stage # "saving" => editing[p].number = 0

Numbers == {versions[i].number : i \in 1..Len(versions)}

\* The number a call has for its version is one above one that there is.
NumberFollows(p) == editing[p].number > 1 => editing[p].number - 1 \in Numbers

Numbered ==
  /\ currentVersion \in Numbers
  /\ \A n \in Numbers : n > 1 => n - 1 \in Numbers
  /\ history.serial => \A i \in 1..Len(versions) : versions[i].number = i
  /\ history.serial => currentVersion = Len(versions)

Applied(p) == editing[p].stage \in {"versioning", "saving"}
Versioned(p) == editing[p].kind \in {"versionedEdit", "rollback"}

\* The stacks are those of the timeline as it is, or as it will be when the call
\* that has applied its change has saved the text.
Turn(p) ==
  /\ IF Applied(p)
     THEN WalkOf(Recorded(history, editing[p]), editing[p].write, undoStack, redoStack)
     ELSE WalkOf(history, latexContent, undoStack, redoStack)
  /\ editing[p].stage \in {"loaded", "saving"} => editing[p].read = latexContent
  /\ ~Applied(p) /\ editing[p].kind = "undo" => undoStack # <<>>
  /\ ~Applied(p) /\ editing[p].kind = "redo" =>
       redoStack # <<>> /\ editing[p].held = Len(redoStacks)
  /\ editing[p].stage = "saving" =>
       editing[p].number = IF Versioned(p) THEN currentVersion + 1 ELSE 0

\* One call after the other.
InTurn ==
  /\ \A p, q \in Editors : ~Idle(p) /\ ~Idle(q) => p = q
  /\ AllIdle => WalkOf(history, latexContent, undoStack, redoStack)
  /\ \A p \in Editors : ~Idle(p) => Turn(p)

EditingInv ==
  /\ EditingTypeOK
  /\ \A p \in Editors : InOrder(p) /\ NumberFollows(p)
  /\ Numbered
  /\ history.serial => InTurn

LEMMA WalkFinds ==
  ASSUME NEW T, NEW c, NEW u, NEW x, NEW U, NEW R, Walk(T, c, u, x, U, R)
  PROVE  /\ T \in Seq(Contents) /\ Len(T) \in Nat /\ c \in 1..Len(T) /\ c \in Nat
         /\ u \in 0..(Len(T) - c) /\ u \in Nat /\ c + u <= StackLimit + 1
         /\ U \in Seq(Contents) /\ Len(U) = c - 1 /\ x \in Contents /\ x = T[c]
         /\ \A i \in 1..(c - 1) : U[i] = T[i]
         /\ R \in Seq(Contents) /\ Len(R) = u /\ \A i \in 1..u : R[i] = T[c + u + 1 - i]
         /\ StackLimit \in Nat
<1>1. /\ T \in Seq(Contents) /\ c \in 1..Len(T) /\ u \in 0..(Len(T) - c)
      /\ c + u <= StackLimit + 1 /\ x = T[c]
      /\ U \in Seq(Contents) /\ Len(U) = c - 1 /\ \A i \in 1..(c - 1) : U[i] = T[i]
      /\ R \in Seq(Contents) /\ Len(R) = u /\ \A i \in 1..u : R[i] = T[c + u + 1 - i]
  BY DEF Walk
<1>2. Len(T) \in Nat /\ T[c] \in Contents
  BY ONLY <1>1, LenProperties, ElementOfSeq
<1>3. StackLimit \in Nat
  BY EditingAssumption
<1>4. c \in Nat /\ u \in Nat
  BY ONLY <1>1, <1>2
<1> QED BY ONLY <1>1, <1>2, <1>3, <1>4

\* The timeline up to position c, of which StackLimit texts before it are kept.
Grown(T, c) == IF c > StackLimit THEN Tail(SubSeq(T, 1, c)) ELSE SubSeq(T, 1, c)

\* The text goes on top of the undo stack: what is dropped there is what the
\* timeline drops.
LEMMA GrownIsPushed ==
  ASSUME NEW T, NEW c, NEW u, NEW x, NEW U, NEW R, Walk(T, c, u, x, U, R)
  PROVE  /\ Newest(Append(U, x)) = Grown(T, c)
         /\ Grown(T, c) \in Seq(Contents)
         /\ Len(Grown(T, c)) \in Nat /\ Len(Grown(T, c)) <= StackLimit
<1>1. /\ T \in Seq(Contents) /\ Len(T) \in Nat /\ c \in 1..Len(T) /\ c \in Nat
      /\ U \in Seq(Contents) /\ Len(U) = c - 1 /\ x \in Contents /\ x = T[c]
      /\ \A i \in 1..(c - 1) : U[i] = T[i]
      /\ c <= StackLimit + 1 /\ StackLimit \in Nat
  BY WalkFinds
<1> DEFINE past == SubSeq(T, 1, c)
           pushed == Append(U, x)
<1>2. /\ past \in Seq(Contents) /\ Len(past) = c
      /\ \A i \in 1..c : past[i] = T[i]
  <2>1. \A i \in 1..c : T[i] \in Contents
    BY <1>1, ElementOfSeq
  <2> QED BY <1>1, <2>1, SubSeqProperties
<1>3. /\ pushed \in Seq(Contents) /\ Len(pushed) = c
      /\ \A i \in 1..(c - 1) : pushed[i] = T[i]
      /\ pushed[c] = T[c]
  BY <1>1, AppendProperties
<1>4. past = pushed
  <2> HIDE DEF past, pushed
  <2>1. \A i \in 1..Len(past) : past[i] = pushed[i]
    BY <1>1, <1>2, <1>3
  <2> QED BY <1>2, <1>3, <2>1, SeqEqual
<1>5. Newest(pushed) = Grown(T, c)
  BY <1>2, <1>3, <1>4 DEF Newest, Grown
<1>6. past # <<>> => Tail(past) \in Seq(Contents) /\ Len(Tail(past)) = c - 1
  <2> HIDE DEF past
  <2> QED BY <1>2, HeadTailProperties
<1>7. past # <<>>
  <2> HIDE DEF past
  <2> QED BY <1>1, <1>2, EmptySeq
<1>8. Grown(T, c) = IF c > StackLimit THEN Tail(past) ELSE past
  BY DEF Grown
<1> HIDE DEF past, pushed
<1> QED BY <1>1, <1>2, <1>5, <1>6, <1>7, <1>8 DEF pushed

\* An edit goes on from where the text stands.
LEMMA WalkEdit ==
  ASSUME NEW T, NEW c, NEW u, NEW x, NEW U, NEW R, Walk(T, c, u, x, U, R), NEW w \in Contents
  PROVE  Walk(Append(Grown(T, c), w), Len(Grown(T, c)) + 1, 0, w, Newest(Append(U, x)), <<>>)
<1> DEFINE G == Grown(T, c)
<1>1. Newest(Append(U, x)) = G /\ G \in Seq(Contents) /\ Len(G) \in Nat /\ Len(G) <= StackLimit
  BY GrownIsPushed
<1>2. StackLimit \in Nat
  BY EditingAssumption
<1> HIDE DEF G
<1>3. /\ Append(G, w) \in Seq(Contents) /\ Len(Append(G, w)) = Len(G) + 1
      /\ Append(G, w)[Len(G) + 1] = w
      /\ \A i \in 1..Len(G) : Append(G, w)[i] = G[i]
  BY <1>1, AppendProperties
<1>4. <<>> \in Seq(Contents) /\ Len(<<>>) = 0
  BY EmptySeq
<1>5. Walk(Append(G, w), Len(G) + 1, 0, w, G, <<>>)
  BY <1>1, <1>2, <1>3, <1>4 DEF Walk
<1> QED BY <1>1, <1>5 DEF G

\* undo takes a step back, and is remembered.
LEMMA WalkUndo ==
  ASSUME NEW T, NEW c, NEW u, NEW x, NEW U, NEW R, Walk(T, c, u, x, U, R), U # <<>>
  PROVE  Walk(T, c - 1, u + 1, Top(U), Popped(U), Newest(Append(R, x)))
<1>1. /\ T \in Seq(Contents) /\ Len(T) \in Nat /\ c \in 1..Len(T) /\ c \in Nat
      /\ u \in 0..(Len(T) - c) /\ u \in Nat /\ c + u <= StackLimit + 1
      /\ U \in Seq(Contents) /\ Len(U) = c - 1 /\ x \in Contents /\ x = T[c]
      /\ \A i \in 1..(c - 1) : U[i] = T[i]
      /\ R \in Seq(Contents) /\ Len(R) = u /\ \A i \in 1..u : R[i] = T[c + u + 1 - i]
      /\ StackLimit \in Nat
  BY WalkFinds
<1>2. c > 1
  BY <1>1, EmptySeq
<1>3. /\ Top(U) = T[c - 1]
      /\ Popped(U) = SubSeq(U, 1, c - 2)
  BY <1>1, <1>2 DEF Top, Popped
<1>4. /\ Popped(U) \in Seq(Contents) /\ Len(Popped(U)) = c - 2
      /\ \A i \in 1..(c - 2) : Popped(U)[i] = T[i]
  <2>1. \A i \in 1..(c - 2) : U[i] \in Contents
    BY <1>1, ElementOfSeq
  <2>2. /\ SubSeq(U, 1, c - 2) \in Seq(Contents)
        /\ Len(SubSeq(U, 1, c - 2)) = IF 1 <= c - 2 THEN c - 2 - 1 + 1 ELSE 0
        /\ \A i \in 1..(c - 2 - 1 + 1) : SubSeq(U, 1, c - 2)[i] = U[1 + i - 1]
    <3>1. 1 \in Int /\ c - 2 \in Int
      BY <1>1
    <3> QED BY ONLY <2>1, <3>1, SubSeqProperties
  <2> QED BY <1>1, <1>2, <1>3, <2>2
<1>5. /\ Append(R, x) \in Seq(Contents) /\ Len(Append(R, x)) = u + 1
      /\ \A i \in 1..u : Append(R, x)[i] = R[i]
      /\ Append(R, x)[u + 1] = x
  BY <1>1, AppendProperties
<1>6. Newest(Append(R, x)) = Append(R, x)
  BY <1>1, <1>2, <1>5 DEF Newest
<1>7. \A i \in 1..(u + 1) : Append(R, x)[i] = T[(c - 1) + (u + 1) + 1 - i]
  <2> TAKE i \in 1..(u + 1)
  <2>1. CASE i = u + 1
    <3>1. c \in Int /\ u \in Int
      BY <1>1
    <3>2. (c - 1) + (u + 1) + 1 - i = c
      BY ONLY <2>1, <3>1
    <3> QED BY <1>1, <1>5, <2>1, <3>2
  <2>2. CASE i # u + 1
    <3>1. c \in Int /\ u \in Int /\ i \in 1..(u + 1)
      BY <1>1
    <3>2. i \in 1..u /\ (c - 1) + (u + 1) + 1 - i = c + u + 1 - i
      BY ONLY <2>2, <3>1
    <3> QED BY <1>1, <1>5, <3>2
  <2> QED BY <2>1, <2>2
<1>8. /\ c - 1 \in 1..Len(T) /\ u + 1 \in 0..(Len(T) - (c - 1))
      /\ (c - 1) + (u + 1) <= StackLimit + 1 /\ (c - 1) - 1 = c - 2
  BY <1>1, <1>2
<1> QED BY <1>1, <1>3, <1>4, <1>5, <1>6, <1>7, <1>8 DEF Walk

\* redo takes a step forward, and forgets the others that could be redone.
LEMMA WalkRedo ==
  ASSUME NEW T, NEW c, NEW u, NEW x, NEW U, NEW R, Walk(T, c, u, x, U, R), R # <<>>
  PROVE  Walk(Grown(T, c) \o SubSeq(T, c + 1, Len(T)), Len(Grown(T, c)) + 1, 0, Top(R),
              Newest(Append(U, x)), <<>>)
<1> DEFINE G == Grown(T, c)
           F == SubSeq(T, c + 1, Len(T))
<1>1. Newest(Append(U, x)) = G /\ G \in Seq(Contents) /\ Len(G) \in Nat /\ Len(G) <= StackLimit
  BY GrownIsPushed
<1>2. /\ T \in Seq(Contents) /\ Len(T) \in Nat /\ c \in 1..Len(T) /\ c \in Nat
      /\ u \in 0..(Len(T) - c) /\ u \in Nat
      /\ R \in Seq(Contents) /\ Len(R) = u /\ \A i \in 1..u : R[i] = T[c + u + 1 - i]
      /\ StackLimit \in Nat
  BY EditingAssumption, LenProperties DEF Walk
<1>3. u > 0 /\ Top(R) = T[c + 1]
  <2>1. u > 0
    BY <1>2, EmptySeq
  <2>2. Top(R) = R[u] /\ c + u + 1 - u = c + 1
    BY <1>2 DEF Top
  <2>3. R[u] = T[c + u + 1 - u]
    BY <1>2, <2>1
  <2> QED BY <2>1, <2>2, <2>3
<1>4. /\ F \in Seq(Contents) /\ Len(F) = Len(T) - c /\ F[1] = T[c + 1]
  <2>1. \A i \in (c + 1)..Len(T) : T[i] \in Contents
    BY <1>2, ElementOfSeq
  <2>2. c + 1 \in Int /\ Len(T) \in Int
    BY <1>2
  <2>3. /\ F \in Seq(Contents)
        /\ Len(F) = IF c + 1 <= Len(T) THEN Len(T) - (c + 1) + 1 ELSE 0
        /\ \A i \in 1..(Len(T) - (c + 1) + 1) : F[i] = T[c + 1 + i - 1]
    BY ONLY <2>1, <2>2, SubSeqProperties
  <2>4. 1 \in 1..(Len(T) - (c + 1) + 1) /\ c + 1 + 1 - 1 = c + 1
    BY <1>2, <1>3
  <2> HIDE DEF F
  <2> QED BY <1>2, <1>3, <2>3, <2>4
<1> HIDE DEF G, F
<1>5. /\ G \o F \in Seq(Contents) /\ Len(G \o F) = Len(G) + Len(F)
      /\ \A i \in 1..(Len(G) + Len(F)) :
           (G \o F)[i] = IF i <= Len(G) THEN G[i] ELSE F[i - Len(G)]
  BY <1>1, <1>4, ConcatProperties
<1>6. /\ Len(G) + 1 \in 1..Len(G \o F) /\ 0 \in 0..(Len(G \o F) - (Len(G) + 1))
      /\ (G \o F)[Len(G) + 1] = T[c + 1]
      /\ \A i \in 1..Len(G) : (G \o F)[i] = G[i]
  <2>1. Len(F) \in Nat /\ Len(F) > 0 /\ Len(G) + 1 - Len(G) = 1
    BY <1>1, <1>2, <1>3, <1>4
  <2> QED BY <1>1, <1>4, <1>5, <2>1
<1>7. <<>> \in Seq(Contents) /\ Len(<<>>) = 0
  BY EmptySeq
<1>8. Walk(G \o F, Len(G) + 1, 0, Top(R), G, <<>>)
  BY <1>1, <1>2, <1>3, <1>5, <1>6, <1>7 DEF Walk
<1> QED BY <1>1, <1>8 DEF G, F

\* The other calls rewrite the text where it stands.
LEMMA WalkRewrite ==
  ASSUME NEW T, NEW c, NEW u, NEW x, NEW U, NEW R, Walk(T, c, u, x, U, R), NEW w \in Contents
  PROVE  Walk([T EXCEPT ![c] = w], c, u, w, U, R)
<1> DEFINE N == [T EXCEPT ![c] = w]
<1>1. T \in Seq(Contents) /\ Len(T) \in Nat /\ c \in 1..Len(T) /\ u \in 0..(Len(T) - c)
  BY LenProperties DEF Walk
<1>2. /\ N \in Seq(Contents) /\ Len(N) = Len(T) /\ N[c] = w
      /\ \A i \in 1..Len(T) : i # c => N[i] = T[i]
  BY <1>1, ExceptSeq
<1> HIDE DEF N
<1>3. \A i \in 1..(c - 1) : U[i] = N[i]
  <2> TAKE i \in 1..(c - 1)
  <2>1. i \in 1..Len(T) /\ i # c
    BY <1>1
  <2> QED BY <1>2, <2>1 DEF Walk
<1>4. \A i \in 1..u : R[i] = N[c + u + 1 - i]
  <2> TAKE i \in 1..u
  <2>1. c + u + 1 - i \in 1..Len(T) /\ c + u + 1 - i # c
    BY <1>1
  <2> QED BY <1>2, <2>1 DEF Walk
<1>5. Walk(N, c, u, w, U, R)
  BY <1>1, <1>2, <1>3, <1>4 DEF Walk
<1> QED BY <1>5 DEF N

LEMMA RecordedFields ==
  ASSUME NEW h \in Histories, NEW call
  PROVE  LET T == h.timeline
             c == h.cursor
             u == h.undone
             r == Recorded(h, call)
         IN /\ r = [timeline |-> r.timeline, cursor |-> r.cursor, undone |-> r.undone,
                    serial |-> h.serial]
            /\ call.kind \in {"edit", "versionedEdit"} =>
                 /\ r.timeline = Append(Grown(T, c), call.write)
                 /\ r.cursor = Len(Grown(T, c)) + 1 /\ r.undone = 0
            /\ call.kind = "undo" => r.timeline = T /\ r.cursor = c - 1 /\ r.undone = u + 1
            /\ call.kind = "redo" =>
                 /\ r.timeline = Grown(T, c) \o SubSeq(T, c + 1, Len(T))
                 /\ r.cursor = Len(Grown(T, c)) + 1 /\ r.undone = 0
            /\ call.kind \in {"rollback", "restyle"} =>
                 r.timeline = [T EXCEPT ![c] = call.write] /\ r.cursor = c /\ r.undone = u
<1> DEFINE T == h.timeline
           c == h.cursor
           u == h.undone
           F == SubSeq(T, c + 1, Len(T))
           G == Grown(T, c)
           r == Recorded(h, call)
<1>1. h = [timeline |-> T, cursor |-> c, undone |-> u, serial |-> h.serial]
  BY DEF Histories
<1>2. CASE call.kind \in {"edit", "versionedEdit"}
  <2>1. r = [h EXCEPT !.timeline = Append(G, call.write), !.cursor = Len(G) + 1, !.undone = 0]
    BY <1>2 DEF Recorded, Grown
  <2> HIDE DEF G, r
  <2>2. r = [timeline |-> Append(G, call.write), cursor |-> Len(G) + 1, undone |-> 0, serial |-> h.serial]
    BY <1>1, <2>1
  <2> QED BY <1>2, <2>2 DEF G, r
<1>3. CASE call.kind = "undo"
  <2>1. r = [h EXCEPT !.cursor = @ - 1, !.undone = @ + 1]
    BY <1>3 DEF Recorded
  <2> HIDE DEF r
  <2>2. r = [timeline |-> T, cursor |-> c - 1, undone |-> u + 1, serial |-> h.serial]
    BY <1>1, <2>1
  <2> QED BY <1>3, <2>2 DEF r
<1>4. CASE call.kind = "redo"
  <2>1. r = [h EXCEPT !.timeline = G \o F, !.cursor = Len(G) + 1, !.undone = 0]
    BY <1>4 DEF Recorded, Grown
  <2> HIDE DEF G, F, r
  <2>2. r = [timeline |-> G \o F, cursor |-> Len(G) + 1, undone |-> 0, serial |-> h.serial]
    BY <1>1, <2>1
  <2>3. /\ r = [timeline |-> r.timeline, cursor |-> r.cursor, undone |-> r.undone, serial |-> h.serial]
        /\ r.timeline = G \o F /\ r.cursor = Len(G) + 1 /\ r.undone = 0
    BY <2>2
  <2> QED BY ONLY <1>4, <2>3, Zenon DEF G, F, r
<1>5. CASE call.kind \notin {"edit", "versionedEdit", "undo", "redo"}
  <2>1. r = [h EXCEPT !.timeline[h.cursor] = call.write]
    BY <1>5 DEF Recorded
  <2> HIDE DEF r
  <2>2. r = [timeline |-> [T EXCEPT ![c] = call.write], cursor |-> c, undone |-> u, serial |-> h.serial]
    BY <1>1, <2>1
  <2> QED BY <1>5, <2>2 DEF r
<1> QED BY <1>2, <1>3, <1>4, <1>5

\* What a call does to the stacks is what it does to the timeline.
LEMMA WalkGoesOn ==
  ASSUME NEW h \in Histories, NEW call, NEW x, NEW U, NEW R, WalkOf(h, x, U, R)
  PROVE  /\ call.kind \in {"edit", "versionedEdit"} /\ call.write \in Contents =>
              WalkOf(Recorded(h, call), call.write, Newest(Append(U, x)), <<>>)
         /\ call.kind = "undo" /\ U # <<>> /\ call.write = Top(U) =>
              WalkOf(Recorded(h, call), call.write, Popped(U), Newest(Append(R, x)))
         /\ call.kind = "redo" /\ R # <<>> /\ call.write = Top(R) =>
              WalkOf(Recorded(h, call), call.write, Newest(Append(U, x)), <<>>)
         /\ call.kind \in {"rollback", "restyle"} /\ call.write \in Contents =>
              WalkOf(Recorded(h, call), call.write, U, R)
<1> DEFINE T == h.timeline
           c == h.cursor
           u == h.undone
           r == Recorded(h, call)
<1>1. Walk(T, c, u, x, U, R)
  BY DEF WalkOf
<1>2. CASE call.kind \in {"edit", "versionedEdit"} /\ call.write \in Contents
  <2>1. r.timeline = Append(Grown(T, c), call.write) /\ r.cursor = Len(Grown(T, c)) + 1 /\ r.undone = 0
    BY <1>2, RecordedFields
  <2> QED BY <1>1, <1>2, <2>1, WalkEdit DEF WalkOf
<1>3. CASE call.kind = "undo" /\ U # <<>> /\ call.write = Top(U)
  <2>1. r.timeline = T /\ r.cursor = c - 1 /\ r.undone = u + 1
    BY <1>3, RecordedFields
  <2> QED BY <1>1, <1>3, <2>1, WalkUndo DEF WalkOf
<1>4. CASE call.kind = "redo" /\ R # <<>> /\ call.write = Top(R)
  <2>1. /\ r.timeline = Grown(T, c) \o SubSeq(T, c + 1, Len(T))
        /\ r.cursor = Len(Grown(T, c)) + 1 /\ r.undone = 0
    BY <1>4, RecordedFields
  <2> QED BY <1>1, <1>4, <2>1, WalkRedo DEF WalkOf
<1>5. CASE call.kind \in {"rollback", "restyle"} /\ call.write \in Contents
  <2>1. r.timeline = [T EXCEPT ![c] = call.write] /\ r.cursor = c /\ r.undone = u
    BY <1>5, RecordedFields
  <2> QED BY <1>1, <1>5, <2>1, WalkRewrite DEF WalkOf
<1> QED BY <1>2, <1>3, <1>4, <1>5

LEMMA PushTyped ==
  ASSUME NEW s \in Seq(Texts), NEW t \in Texts
  PROVE  Newest(Append(s, t)) \in Seq(Texts)
<1> DEFINE a == Append(s, t)
<1>1. a \in Seq(Texts) /\ Len(a) = Len(s) + 1 /\ Len(s) \in Nat
  BY AppendProperties, LenProperties
<1> HIDE DEF a
<1>2. a # <<>>
  BY <1>1, EmptySeq
<1>3. Tail(a) \in Seq(Texts)
  BY <1>1, <1>2, HeadTailProperties
<1> QED BY <1>1, <1>3 DEF Newest, a

LEMMA PopTyped ==
  ASSUME NEW s \in Seq(Texts)
  PROVE  Popped(s) \in Seq(Texts) /\ Top(s) \in Texts
<1>1. Len(s) \in Nat /\ \A i \in 1..Len(s) : s[i] \in Texts
  BY LenProperties, ElementOfSeq
<1>2. CASE s = <<>>
  BY <1>2 DEF Popped, Top, Texts
<1>3. CASE s # <<>>
  <2>1. Len(s) \in 1..Len(s)
    BY <1>1, <1>3, EmptySeq
  <2>2. \A i \in 1..(Len(s) - 1) : s[i] \in Texts
    BY <1>1
  <2>3. SubSeq(s, 1, Len(s) - 1) \in Seq(Texts)
    <3>1. 1 \in Int /\ Len(s) - 1 \in Int
      BY <1>1
    <3> QED BY ONLY <2>2, <3>1, SubSeqProperties
  <2> QED BY <1>1, <1>3, <2>1, <2>3 DEF Popped, Top
<1> QED BY <1>2, <1>3

LEMMA SameCallIsRecordedAlike ==
  ASSUME NEW h, NEW call, NEW other, call.kind = other.kind, call.write = other.write
  PROVE  Recorded(h, call) = Recorded(h, other)
BY DEF Recorded

\* A step of one call, which leaves the document alone.
LEMMA StepOfOne ==
  ASSUME EditingInv, NEW p \in Editors, UNCHANGED <<latexContent, currentVersion, versions>>,
         editing' \in [Editors -> CallRecords],
         \A q \in Editors : q # p => editing'[q] = editing[q],
         undoStack' \in Seq(Texts), redoStacks' \in Seq(Seq(Texts)),
         Len(redoStacks') >= Len(redoStacks),
         history' \in Histories, InOrder(p)', NumberFollows(p)',
         history'.serial => /\ history.serial /\ Turn(p)' /\ ~Idle(p)'
                            /\ \A q \in Editors : q # p => Idle(q)
  PROVE  EditingInv'
<1>1. Len(redoStacks) \in Nat /\ Len(redoStacks) # 0 /\ Len(redoStacks') \in Nat
  BY LenProperties, EmptySeq DEF EditingInv, EditingTypeOK
<1>2. redoStacks' # <<>>
  BY <1>1, EmptySeq
<1>3. EditingTypeOK'
  BY <1>2 DEF EditingInv, EditingTypeOK
<1>4. Numbers' = Numbers
  BY DEF Numbers
<1>5. \A q \in Editors : InOrder(q)' /\ NumberFollows(q)'
  <2> SUFFICES ASSUME NEW q \in Editors, q # p PROVE InOrder(q)' /\ NumberFollows(q)'
    OBVIOUS
  <2>1. InOrder(q) /\ NumberFollows(q) /\ editing'[q] = editing[q]
    BY DEF EditingInv
  <2>2. editing[q].held \in 1..Len(redoStacks) => editing[q].held \in 1..Len(redoStacks')
    BY <1>1
  <2> QED BY <1>4, <2>1, <2>2 DEF InOrder, NumberFollows
<1>6. Numbered'
  BY <1>4 DEF EditingInv, Numbered
<1>7. history'.serial => InTurn'
  BY DEF InTurn, Idle, AllIdle
<1> QED BY <1>3, <1>5, <1>6, <1>7 DEF EditingInv

\* What the call under way finds, when calls follow one another.
LEMMA InTurnFor ==
  ASSUME EditingInv, NEW p \in Editors, ~Idle(p), history.serial
  PROVE  Turn(p) /\ \A q \in Editors : q # p => Idle(q)
BY DEF EditingInv, InTurn

LEMMA TypesOf ==
  ASSUME EditingInv, NEW p \in Editors
  PROVE  /\ editing \in [Editors -> CallRecords] /\ editing[p] \in CallRecords
         /\ history \in Histories /\ latexContent \in Contents /\ latexContent \in Texts
         /\ undoStack \in Seq(Texts)
         /\ redoStacks \in Seq(Seq(Texts)) /\ Len(redoStacks) \in 1..Len(redoStacks)
         /\ Len(redoStacks) \in Nat
         /\ redoStack \in Seq(Texts)
         /\ InOrder(p) /\ NumberFollows(p)
<1>1. redoStacks \in Seq(Seq(Texts)) /\ Len(redoStacks) \in Nat /\ Len(redoStacks) # 0
  BY LenProperties, EmptySeq DEF EditingInv, EditingTypeOK
<1>2. Len(redoStacks) \in 1..Len(redoStacks)
  BY <1>1
<1>3. redoStack \in Seq(Texts)
  BY <1>1, <1>2, ElementOfSeq DEF redoStack
<1> QED BY <1>1, <1>2, <1>3 DEF EditingInv, EditingTypeOK, Texts

\* A call that starts finds the document where the timeline has it.
LEMMA StartFinds ==
  ASSUME EditingInv, NEW p \in Editors, NEW call \in CallRecords, Starts(p, call),
         UNCHANGED <<latexContent, undoStack, redoStacks>>
  PROVE  /\ editing' \in [Editors -> CallRecords] /\ editing'[p] = call
         /\ \A q \in Editors : q # p => editing'[q] = editing[q]
         /\ history' \in Histories /\ redoStack' = redoStack
         /\ history'.serial => /\ history.serial
                               /\ \A q \in Editors : q # p => Idle(q)
                               /\ WalkOf(history', latexContent, undoStack, redoStack)
<1>1. /\ editing' = [editing EXCEPT ![p] = call]
      /\ history' = [history EXCEPT !.serial = @ /\ AllIdle]
  BY DEF Starts
<1>2. history \in Histories /\ editing \in [Editors -> CallRecords]
  BY TypesOf
<1>3. /\ history'.timeline = history.timeline /\ history'.cursor = history.cursor
      /\ history'.undone = history.undone
      /\ history'.serial => history.serial /\ AllIdle
      /\ history' \in Histories
  <2> DEFINE still == history.serial /\ AllIdle
  <2>1. still \in BOOLEAN /\ history' = [history EXCEPT !.serial = still]
    BY <1>1, <1>2 DEF Histories
  <2>2. still => history.serial /\ AllIdle
    OBVIOUS
  <2> HIDE DEF still
  <2> QED BY <1>2, <2>1, <2>2 DEF Histories
<1>4. history'.serial => WalkOf(history, latexContent, undoStack, redoStack)
  BY <1>3 DEF EditingInv, InTurn
<1>5. redoStack' = redoStack
  BY DEF redoStack
<1> QED BY <1>1, <1>2, <1>3, <1>4, <1>5 DEF WalkOf, AllIdle

LEMMA StartInv ==
  ASSUME EditingInv, NEW p \in Editors, NEW call \in CallRecords, Starts(p, call),
         UNCHANGED <<latexContent, currentVersion, versions, undoStack, redoStacks>>,
         InOrder(p)', NumberFollows(p)', ~Idle(p)', history'.serial => Turn(p)'
  PROVE  EditingInv'
<1>1. /\ editing' \in [Editors -> CallRecords] /\ history' \in Histories
      /\ \A q \in Editors : q # p => editing'[q] = editing[q]
      /\ history'.serial => history.serial /\ \A q \in Editors : q # p => Idle(q)
  BY StartFinds
<1>2. /\ undoStack' \in Seq(Texts) /\ redoStacks' \in Seq(Seq(Texts))
      /\ Len(redoStacks') >= Len(redoStacks)
  BY TypesOf
<1> QED BY <1>1, <1>2, StepOfOne

LEMMA ReadForEditInv ==
  ASSUME EditingInv, NEW p \in Editors, NEW versioned \in BOOLEAN, ReadForEdit(p, versioned)
  PROVE  EditingInv'
<1> DEFINE change == IF versioned THEN "versionedEdit" ELSE "edit"
           call == Call(change, "loaded", latexContent, Absent)
<1>1. change \in {"edit", "versionedEdit"}
  OBVIOUS
<1>2. call \in CallRecords
  BY <1>1, TypesOf DEF CallRecords, Kinds, Texts, Call
<1>3. Starts(p, call) /\ UNCHANGED <<latexContent, currentVersion, versions, undoStack, redoStacks>>
  BY DEF ReadForEdit
<1>4. /\ call.kind = change /\ call.stage = "loaded" /\ call.read = latexContent /\ call.number = 0
  BY DEF Call
<1> HIDE DEF change, call
<1>5. InOrder(p)' /\ NumberFollows(p)' /\ ~Idle(p)'
  BY <1>1, <1>2, <1>3, <1>4, StartFinds DEF InOrder, NumberFollows, Idle
<1>6. history'.serial => Turn(p)'
  BY <1>1, <1>2, <1>3, <1>4, StartFinds DEF Turn, Applied
<1> QED BY <1>2, <1>3, <1>5, <1>6, StartInv

LEMMA StartUndoInv ==
  ASSUME EditingInv, NEW p \in Editors, StartUndo(p)
  PROVE  EditingInv'
<1> DEFINE call == Call("undo", "asked", Absent, Absent)
<1>1. call \in CallRecords
  BY DEF CallRecords, Kinds, Texts, Call
<1>2. /\ Starts(p, call) /\ undoStack # <<>>
      /\ UNCHANGED <<latexContent, currentVersion, versions, undoStack, redoStacks>>
  BY DEF StartUndo
<1>3. call.kind = "undo" /\ call.stage = "asked" /\ call.number = 0
  BY DEF Call
<1> HIDE DEF call
<1>4. InOrder(p)' /\ NumberFollows(p)' /\ ~Idle(p)'
  BY <1>1, <1>2, <1>3, StartFinds DEF InOrder, NumberFollows, Idle
<1>5. history'.serial => Turn(p)'
  BY <1>1, <1>2, <1>3, StartFinds DEF Turn, Applied
<1> QED BY <1>1, <1>2, <1>4, <1>5, StartInv

LEMMA StartRedoInv ==
  ASSUME EditingInv, NEW p \in Editors, StartRedo(p)
  PROVE  EditingInv'
<1> DEFINE call == [Call("redo", "asked", Absent, Absent) EXCEPT !.held = Len(redoStacks)]
<1>1. call \in CallRecords
  BY TypesOf DEF CallRecords, Kinds, Texts, Call
<1>2. /\ Starts(p, call) /\ redoStack # <<>>
      /\ UNCHANGED <<latexContent, currentVersion, versions, undoStack, redoStacks>>
  BY DEF StartRedo
<1>3. call.kind = "redo" /\ call.stage = "asked" /\ call.number = 0 /\ call.held = Len(redoStacks)
  BY DEF Call
<1> HIDE DEF call
<1>4. InOrder(p)' /\ NumberFollows(p)' /\ ~Idle(p)'
  BY <1>1, <1>2, <1>3, StartFinds, TypesOf DEF InOrder, NumberFollows, Idle
<1>5. history'.serial => Turn(p)'
  BY <1>1, <1>2, <1>3, StartFinds DEF Turn, Applied
<1> QED BY <1>1, <1>2, <1>4, <1>5, StartInv

LEMMA RestyleInv ==
  ASSUME EditingInv, NEW p \in Editors, Restyle(p)
  PROVE  EditingInv'
<1>1. PICK w \in Contents : /\ Starts(p, Call("restyle", "saving", latexContent, w))
                            /\ UNCHANGED <<latexContent, currentVersion, versions, undoStack, redoStacks>>
  BY DEF Restyle
<1> DEFINE call == Call("restyle", "saving", latexContent, w)
<1>2. call \in CallRecords
  BY TypesOf DEF CallRecords, Kinds, Texts, Call
<1>3. Starts(p, call)
  BY <1>1
<1>4. /\ call.kind = "restyle" /\ call.stage = "saving" /\ call.read = latexContent
      /\ call.write = w /\ call.number = 0
  BY DEF Call
<1> HIDE DEF call
<1>5. InOrder(p)' /\ NumberFollows(p)' /\ ~Idle(p)'
  BY <1>1, <1>2, <1>3, <1>4, StartFinds DEF InOrder, NumberFollows, Idle
<1>6. ASSUME history'.serial PROVE Turn(p)'
  <2>1. WalkOf(history', latexContent, undoStack, redoStack) /\ history' \in Histories
    BY <1>1, <1>2, <1>3, <1>6, StartFinds
  <2>2. WalkOf(Recorded(history', call), w, undoStack, redoStack)
    BY <1>4, <2>1, WalkGoesOn
  <2> QED BY <1>1, <1>2, <1>3, <1>4, <2>2, StartFinds DEF Turn, Applied, Versioned
<1> QED BY <1>1, <1>2, <1>3, <1>5, <1>6, StartInv

LEMMA VersionContentIsText ==
  ASSUME EditingInv, NEW n \in Numbers
  PROVE  VersionContent(n) \in Contents
<1> DEFINE S == {i \in 1..Len(versions) : versions[i].number = n}
           First(i) == versions[i].number = n /\ \A j \in 1..(i - 1) : versions[j].number # n
           first == CHOOSE i \in DOMAIN versions : First(i)
<1>1. /\ versions \in Seq(VersionRecords) /\ Len(versions) \in Nat
      /\ DOMAIN versions = 1..Len(versions)
  BY LenProperties DEF EditingInv, EditingTypeOK
<1>2. S # {} /\ S \in SUBSET Nat
  BY <1>1 DEF Numbers
<1>3. PICK i \in S : \A j \in S : i <= j
  <2> HIDE DEF S
  <2> QED BY <1>2, LeastNat
<1>4. i \in DOMAIN versions /\ First(i)
  BY <1>1, <1>3
<1>5. first \in DOMAIN versions
  BY <1>4
<1>6. VersionContent(n) = versions[first].content
  BY DEF VersionContent
<1> HIDE DEF first
<1>7. versions[first] \in VersionRecords
  BY <1>1, <1>5, ElementOfSeq
<1> QED BY <1>6, <1>7 DEF VersionRecords

LEMMA ReadForRollbackInv ==
  ASSUME EditingInv, NEW p \in Editors, ReadForRollback(p)
  PROVE  EditingInv'
<1>1. PICK n \in {versions[i].number : i \in DOMAIN versions} :
        Starts(p, Call("rollback", "versioning", Absent, VersionContent(n)))
  BY DEF ReadForRollback
<1>2. UNCHANGED <<latexContent, currentVersion, versions, undoStack, redoStacks>>
  BY DEF ReadForRollback
<1>3. VersionContent(n) \in Contents
  <2>1. DOMAIN versions = 1..Len(versions)
    BY LenProperties DEF EditingInv, EditingTypeOK
  <2>2. n \in Numbers
    BY <2>1 DEF Numbers
  <2> QED BY <2>2, VersionContentIsText
<1> DEFINE w == VersionContent(n)
           call == Call("rollback", "versioning", Absent, w)
<1>4. Starts(p, call)
  BY <1>1
<1> HIDE DEF w
<1>5. call \in CallRecords /\ w \in Contents
  BY <1>3 DEF CallRecords, Kinds, Texts, w, Call
<1>6. /\ call.kind = "rollback" /\ call.stage = "versioning" /\ call.write = w /\ call.number = 0
  BY DEF Call
<1> HIDE DEF call
<1>7. InOrder(p)' /\ NumberFollows(p)' /\ ~Idle(p)'
  BY <1>2, <1>4, <1>5, <1>6, StartFinds DEF InOrder, NumberFollows, Idle
<1>8. ASSUME history'.serial PROVE Turn(p)'
  <2>1. WalkOf(history', latexContent, undoStack, redoStack) /\ history' \in Histories
    BY <1>2, <1>4, <1>5, <1>8, StartFinds
  <2>2. WalkOf(Recorded(history', call), w, undoStack, redoStack)
    BY <1>5, <1>6, <2>1, WalkGoesOn
  <2> QED BY <1>2, <1>4, <1>5, <1>6, <2>2, StartFinds DEF Turn, Applied, Versioned
<1> QED BY <1>2, <1>4, <1>5, <1>7, <1>8, StartInv

\* Only p goes on, and remains the call it is.
OnlyGoesOn(p) ==
  /\ editing' \in [Editors -> CallRecords]
  /\ editing'[p].kind = editing[p].kind /\ editing'[p].held = editing[p].held
  /\ \A q \in Editors : q # p => editing'[q] = editing[q]

LEMMA GoesOnWriting ==
  ASSUME EditingInv, NEW p \in Editors, NEW x \in Texts, NEW s \in {"loaded", "versioning", "saving"},
         editing' = [editing EXCEPT ![p] = [@ EXCEPT !.write = x, !.stage = s]]
  PROVE  /\ OnlyGoesOn(p)
         /\ editing'[p].write = x /\ editing'[p].stage = s
         /\ editing'[p].read = editing[p].read /\ editing'[p].number = editing[p].number
<1> DEFINE c == editing[p]
           d == [c EXCEPT !.write = x, !.stage = s]
<1>1. c \in CallRecords /\ editing \in [Editors -> CallRecords]
  BY TypesOf
<1>2. /\ d \in CallRecords /\ d.kind = c.kind /\ d.held = c.held /\ d.write = x /\ d.stage = s
      /\ d.read = c.read /\ d.number = c.number
  <2> HIDE DEF c
  <2> QED BY <1>1 DEF CallRecords
<1>3. editing' = [editing EXCEPT ![p] = d]
  OBVIOUS
<1> HIDE DEF d
<1>4. editing'[p] = d /\ editing' \in [Editors -> CallRecords]
      /\ \A q \in Editors : q # p => editing'[q] = editing[q]
  BY <1>1, <1>2, <1>3
<1> QED BY <1>2, <1>4 DEF OnlyGoesOn

LEMMA GoesOnReading ==
  ASSUME EditingInv, NEW p \in Editors, NEW x \in Texts, NEW s \in {"loaded", "versioning", "saving"},
         editing' = [editing EXCEPT ![p] = [@ EXCEPT !.read = x, !.stage = s]]
  PROVE  /\ OnlyGoesOn(p)
         /\ editing'[p].read = x /\ editing'[p].stage = s
         /\ editing'[p].write = editing[p].write /\ editing'[p].number = editing[p].number
<1> DEFINE c == editing[p]
           d == [c EXCEPT !.read = x, !.stage = s]
<1>1. c \in CallRecords /\ editing \in [Editors -> CallRecords]
  BY TypesOf
<1>2. /\ d \in CallRecords /\ d.kind = c.kind /\ d.held = c.held /\ d.read = x /\ d.stage = s
      /\ d.write = c.write /\ d.number = c.number
  <2> HIDE DEF c
  <2> QED BY <1>1 DEF CallRecords
<1>3. editing' = [editing EXCEPT ![p] = d]
  OBVIOUS
<1> HIDE DEF d
<1>4. editing'[p] = d /\ editing' \in [Editors -> CallRecords]
      /\ \A q \in Editors : q # p => editing'[q] = editing[q]
  BY <1>1, <1>2, <1>3
<1> QED BY <1>2, <1>4 DEF OnlyGoesOn

LEMMA GoesOnNumbered ==
  ASSUME EditingInv, NEW p \in Editors, NEW x \in Texts, NEW n \in Nat, NEW s \in {"loaded", "versioning", "saving"},
         editing' = [editing EXCEPT ![p] = [@ EXCEPT !.read = x, !.stage = s, !.number = n]]
  PROVE  /\ OnlyGoesOn(p)
         /\ editing'[p].read = x /\ editing'[p].stage = s
         /\ editing'[p].write = editing[p].write /\ editing'[p].number = n
<1> DEFINE c == editing[p]
           d == [c EXCEPT !.read = x, !.stage = s, !.number = n]
<1>1. c \in CallRecords /\ editing \in [Editors -> CallRecords]
  BY TypesOf
<1>2. /\ d \in CallRecords /\ d.kind = c.kind /\ d.held = c.held /\ d.read = x
      /\ d.stage = s /\ d.write = c.write /\ d.number = n
  <2> HIDE DEF c
  <2> QED BY <1>1 DEF CallRecords
<1>3. editing' = [editing EXCEPT ![p] = d]
  OBVIOUS
<1> HIDE DEF d
<1>4. editing'[p] = d /\ editing' \in [Editors -> CallRecords]
      /\ \A q \in Editors : q # p => editing'[q] = editing[q]
  BY <1>1, <1>2, <1>3
<1> QED BY <1>2, <1>4 DEF OnlyGoesOn

\* StepOfOne for a call that is under way.
LEMMA UnderwayStep ==
  ASSUME EditingInv, NEW p \in Editors, UNCHANGED <<latexContent, currentVersion, versions, history>>,
         OnlyGoesOn(p), editing[p].stage # "none", editing'[p].stage # "none",
         undoStack' \in Seq(Texts), redoStacks' \in Seq(Seq(Texts)),
         Len(redoStacks') >= Len(redoStacks),
         InOrder(p)', NumberFollows(p)', history.serial /\ Turn(p) => Turn(p)'
  PROVE  EditingInv'
<1>1. ~Idle(p)
  BY TypesOf DEF InOrder, Idle
<1>2. ~Idle(p)'
  BY <1>1 DEF OnlyGoesOn, Idle
<1>3. history' \in Histories
  BY TypesOf
<1>4. history'.serial => history.serial /\ Turn(p)' /\ \A q \in Editors : q # p => Idle(q)
  BY <1>1, InTurnFor
<1> QED BY <1>2, <1>3, <1>4, StepOfOne DEF OnlyGoesOn

\* A call that fails leaves the stacks as they are by then.
LEMMA FailsInv ==
  ASSUME EditingInv, NEW p \in Editors, UNCHANGED <<latexContent, currentVersion, versions>>,
         Fails(p), undoStack' \in Seq(Texts), redoStacks' \in Seq(Seq(Texts)),
         Len(redoStacks') >= Len(redoStacks)
  PROVE  EditingInv'
<1>1. /\ editing \in [Editors -> CallRecords] /\ history \in Histories
      /\ editing' = [editing EXCEPT ![p] = NoEdit]
      /\ history' = [history EXCEPT !.serial = FALSE]
  BY TypesOf DEF Fails
<1>2. NoEdit \in CallRecords /\ NoEdit.kind = "none" /\ NoEdit.stage = "none" /\ NoEdit.number = 0
  BY DEF NoEdit, Call, CallRecords, Texts
<1>3. /\ editing'[p] = NoEdit /\ editing' \in [Editors -> CallRecords]
      /\ \A q \in Editors : q # p => editing'[q] = editing[q]
  BY <1>1, <1>2
<1>4. history' \in Histories /\ ~history'.serial
  BY <1>1 DEF Histories
<1>5. InOrder(p)' /\ NumberFollows(p)'
  BY <1>2, <1>3 DEF InOrder, NumberFollows
<1> QED BY <1>3, <1>4, <1>5, StepOfOne

LEMMA LoadInv == ASSUME EditingInv, NEW p \in Editors, Load(p) PROVE EditingInv'
<1>1. /\ editing[p].stage = "asked"
      /\ editing' = [editing EXCEPT ![p] = [@ EXCEPT !.read = latexContent, !.stage = "loaded"]]
      /\ UNCHANGED <<latexContent, currentVersion, versions, undoStack, redoStacks, history>>
  BY DEF Load
<1>2. /\ OnlyGoesOn(p) /\ editing'[p].read = latexContent /\ editing'[p].stage = "loaded"
      /\ editing'[p].number = editing[p].number
  BY <1>1, GoesOnReading, TypesOf
<1>3. InOrder(p)' /\ NumberFollows(p)'
  BY <1>1, <1>2, TypesOf DEF InOrder, NumberFollows, OnlyGoesOn
<1>4. Turn(p) => Turn(p)'
  <2>1. redoStack' = redoStack
    BY <1>1 DEF redoStack
  <2> QED BY <1>1, <1>2, <2>1 DEF Turn, Applied, OnlyGoesOn
<1>5. /\ undoStack' \in Seq(Texts) /\ redoStacks' \in Seq(Seq(Texts))
      /\ Len(redoStacks') >= Len(redoStacks)
  BY <1>1, TypesOf
<1> QED BY <1>1, <1>2, <1>3, <1>4, <1>5, UnderwayStep

\* Another array is the redo stack.
LEMMA FreshRedoStack ==
  ASSUME NEW a \in Seq(Seq(Texts)), redoStacks' = Append(a, <<>>)
  PROVE  /\ redoStacks' \in Seq(Seq(Texts)) /\ Len(redoStacks') = Len(a) + 1
         /\ redoStack' = <<>>
<1>1. <<>> \in Seq(Texts)
  OBVIOUS
<1> QED BY <1>1, AppendProperties DEF redoStack

LEMMA ApplyEditInv == ASSUME EditingInv, NEW p \in Editors, ApplyEdit(p) PROVE EditingInv'
<1>1. /\ editing[p].stage = "loaded" /\ editing[p].kind \in {"edit", "versionedEdit"}
      /\ undoStack' = Newest(Append(undoStack, editing[p].read))
      /\ redoStacks' = Append(redoStacks, <<>>)
      /\ UNCHANGED <<latexContent, currentVersion, versions>>
  BY DEF ApplyEdit, PushToUndoStack
<1>2. /\ undoStack' \in Seq(Texts) /\ redoStacks' \in Seq(Seq(Texts))
      /\ Len(redoStacks') >= Len(redoStacks) /\ redoStack' = <<>>
  <2>1. editing[p].read \in Texts
    BY TypesOf DEF CallRecords
  <2>2. undoStack' \in Seq(Texts)
    BY <1>1, <2>1, TypesOf, PushTyped
  <2>3. redoStacks \in Seq(Seq(Texts)) /\ Len(redoStacks) \in Nat
    BY TypesOf
  <2>4. /\ redoStacks' \in Seq(Seq(Texts)) /\ Len(redoStacks') = Len(redoStacks) + 1
        /\ redoStack' = <<>>
    BY <1>1, <2>3, FreshRedoStack
  <2> QED BY <2>2, <2>3, <2>4
<1>3. CASE Fails(p)
  BY <1>1, <1>2, <1>3, FailsInv
<1>4. ASSUME NEW w \in Contents, NEW s \in {"versioning", "saving"}, UNCHANGED history,
             s = IF editing[p].kind = "versionedEdit" THEN "versioning" ELSE "saving",
             editing' = [editing EXCEPT ![p] = [@ EXCEPT !.write = w, !.stage = s]]
      PROVE  EditingInv'
  <2>1. /\ OnlyGoesOn(p) /\ editing'[p].write = w /\ editing'[p].stage = s
        /\ editing'[p].read = editing[p].read /\ editing'[p].number = 0
    <3>1. w \in Texts /\ editing[p].number = 0
      BY <1>1, TypesOf DEF Texts, InOrder
    <3> QED BY <1>4, <3>1, GoesOnWriting
  <2>2. InOrder(p)' /\ NumberFollows(p)'
    BY <1>1, <1>4, <2>1 DEF InOrder, NumberFollows, OnlyGoesOn
  <2>3. ASSUME Turn(p) PROVE Turn(p)'
    <3>1. WalkOf(history, latexContent, undoStack, redoStack) /\ editing[p].read = latexContent
      BY <1>1, <2>3 DEF Turn, Applied
    <3> DEFINE call == editing'[p]
    <3>2. call.kind \in {"edit", "versionedEdit"} /\ call.write = w
      BY <1>1, <2>1 DEF OnlyGoesOn
    <3> HIDE DEF call
    <3>3. WalkOf(Recorded(history, call), w, undoStack', <<>>)
      BY <1>1, <3>1, <3>2, TypesOf, WalkGoesOn
    <3>4. WalkOf(Recorded(history', editing'[p]), editing'[p].write, undoStack', redoStack')
      BY <1>2, <1>4, <2>1, <3>3 DEF call
    <3> QED BY <1>1, <1>4, <2>1, <3>1, <3>4 DEF Turn, Applied, Versioned, OnlyGoesOn
  <2> QED BY <1>1, <1>2, <1>4, <2>1, <2>2, <2>3, UnderwayStep
<1>5. Fails(p) \/ \E w \in Contents, s \in {"versioning", "saving"} :
        /\ UNCHANGED history
        /\ s = IF editing[p].kind = "versionedEdit" THEN "versioning" ELSE "saving"
        /\ editing' = [editing EXCEPT ![p] = [@ EXCEPT !.write = w, !.stage = s]]
  BY DEF ApplyEdit
<1> QED BY <1>3, <1>4, <1>5

LEMMA ReadForVersionInv ==
  ASSUME EditingInv, NEW p \in Editors, ReadForVersion(p)
  PROVE  EditingInv'
<1> DEFINE n == currentVersion + 1
<1>1. /\ editing[p].stage = "versioning"
      /\ editing' = [editing EXCEPT ![p] = [@ EXCEPT !.read = latexContent, !.stage = "saving", !.number = n]]
      /\ UNCHANGED <<latexContent, currentVersion, versions, undoStack, redoStacks, history>>
  BY DEF ReadForVersion
<1>2. currentVersion \in Nat /\ currentVersion \in Numbers /\ n \in Nat
  BY DEF EditingInv, EditingTypeOK, Numbered
<1>3. /\ OnlyGoesOn(p) /\ editing'[p].read = latexContent /\ editing'[p].stage = "saving"
      /\ editing'[p].number = n /\ editing'[p].write = editing[p].write
  <2> HIDE DEF n
  <2>1. latexContent \in Texts
    BY TypesOf
  <2> QED BY <1>1, <1>2, <2>1, GoesOnNumbered
<1>4. InOrder(p)' /\ editing[p].kind \in {"versionedEdit", "rollback"}
  BY <1>1, <1>3, TypesOf DEF InOrder, OnlyGoesOn
<1>5. NumberFollows(p)'
  <2>1. Numbers' = Numbers
    BY <1>1 DEF Numbers
  <2> QED BY <1>2, <1>3, <2>1 DEF NumberFollows
<1>6. Turn(p) => Turn(p)'
  <2>1. redoStack' = redoStack
    BY <1>1 DEF redoStack
  <2>2. Recorded(history, editing'[p]) = Recorded(history, editing[p])
    BY <1>3, SameCallIsRecordedAlike DEF OnlyGoesOn
  <2> QED BY <1>1, <1>3, <1>4, <2>1, <2>2 DEF Turn, Applied, Versioned, OnlyGoesOn
<1>7. /\ undoStack' \in Seq(Texts) /\ redoStacks' \in Seq(Seq(Texts))
      /\ Len(redoStacks') >= Len(redoStacks)
  BY <1>1, TypesOf
<1> QED BY <1>1, <1>3, <1>4, <1>5, <1>6, <1>7, UnderwayStep

LEMMA UndoInv == ASSUME EditingInv, NEW p \in Editors, Undo(p) PROVE EditingInv'
<1> DEFINE last == Len(redoStacks)
           pushed == Newest(Append(redoStack, editing[p].read))
           top == Top(undoStack)
<1>1. /\ editing[p].stage = "loaded" /\ editing[p].kind = "undo"
      /\ redoStacks' = [redoStacks EXCEPT ![last] = Newest(Append(@, editing[p].read))]
      /\ undoStack' = Popped(undoStack)
      /\ editing' = [editing EXCEPT ![p] = [@ EXCEPT !.write = top, !.stage = "saving"]]
      /\ UNCHANGED <<latexContent, currentVersion, versions, history>>
  BY DEF Undo
<1>2. undoStack' \in Seq(Texts) /\ top \in Texts
  BY <1>1, TypesOf, PopTyped
<1>3. pushed \in Seq(Texts)
  <2>1. editing[p].read \in Texts
    BY TypesOf DEF CallRecords
  <2> QED BY <2>1, TypesOf, PushTyped
<1>4. /\ redoStacks' \in Seq(Seq(Texts)) /\ Len(redoStacks') = Len(redoStacks)
      /\ redoStack' = pushed
  <2>1. redoStacks' = [redoStacks EXCEPT ![last] = pushed]
    BY <1>1 DEF redoStack
  <2>2. redoStacks \in Seq(Seq(Texts)) /\ last \in 1..Len(redoStacks)
    BY TypesOf
  <2> HIDE DEF pushed
  <2>3. /\ redoStacks' \in Seq(Seq(Texts)) /\ Len(redoStacks') = Len(redoStacks)
        /\ redoStacks'[last] = pushed
    BY <1>3, <2>1, <2>2, ExceptSeq
  <2> QED BY <2>3 DEF redoStack
<1> HIDE DEF pushed, top
<1>5. /\ OnlyGoesOn(p) /\ editing'[p].write = top /\ editing'[p].stage = "saving"
      /\ editing'[p].read = editing[p].read /\ editing'[p].number = 0
  <2>1. editing[p].number = 0
    BY <1>1, TypesOf DEF InOrder
  <2> QED BY <1>1, <1>2, <2>1, GoesOnWriting
<1>6. InOrder(p)' /\ NumberFollows(p)'
  BY <1>1, <1>5 DEF InOrder, NumberFollows, OnlyGoesOn
<1>7. ASSUME Turn(p) PROVE Turn(p)'
  <2>1. /\ WalkOf(history, latexContent, undoStack, redoStack) /\ editing[p].read = latexContent
        /\ undoStack # <<>>
    BY <1>1, <1>7 DEF Turn, Applied
  <2> DEFINE call == editing'[p]
  <2>2. call.kind = "undo" /\ call.write = Top(undoStack)
    BY <1>1, <1>5 DEF OnlyGoesOn, top
  <2> HIDE DEF call
  <2>3. WalkOf(Recorded(history, call), call.write, Popped(undoStack), Newest(Append(redoStack, latexContent)))
    BY <2>1, <2>2, TypesOf, WalkGoesOn
  <2>4. WalkOf(Recorded(history', editing'[p]), editing'[p].write, undoStack', redoStack')
    BY <1>1, <1>4, <2>1, <2>3 DEF call, pushed
  <2> QED BY <1>1, <1>5, <2>1, <2>4 DEF Turn, Applied, Versioned, OnlyGoesOn
<1>8. Len(redoStacks') >= Len(redoStacks)
  BY <1>4, TypesOf
<1> QED BY <1>1, <1>2, <1>4, <1>5, <1>6, <1>7, <1>8, UnderwayStep

LEMMA RedoInv == ASSUME EditingInv, NEW p \in Editors, Redo(p) PROVE EditingInv'
<1> DEFINE h == editing[p].held
           popped == Popped(redoStacks[h])
           left == [redoStacks EXCEPT ![h] = popped]
           top == Top(redoStacks[h])
<1>1. /\ editing[p].stage = "loaded" /\ editing[p].kind = "redo"
      /\ undoStack' = Newest(Append(undoStack, editing[p].read))
      /\ redoStacks' = Append(left, <<>>)
      /\ editing' = [editing EXCEPT ![p] = [@ EXCEPT !.write = top, !.stage = "saving"]]
      /\ UNCHANGED <<latexContent, currentVersion, versions, history>>
  BY DEF Redo
<1>2. /\ redoStacks \in Seq(Seq(Texts)) /\ h \in 1..Len(redoStacks) /\ Len(redoStacks) \in Nat
      /\ redoStacks[h] \in Seq(Texts)
  BY <1>1, TypesOf, ElementOfSeq DEF InOrder
<1>3. popped \in Seq(Texts) /\ top \in Texts
  BY <1>2, PopTyped
<1>4. left \in Seq(Seq(Texts)) /\ Len(left) = Len(redoStacks)
  <2> HIDE DEF popped, h
  <2> QED BY <1>2, <1>3, ExceptSeq
<1> HIDE DEF popped, top, left
<1>5. /\ redoStacks' \in Seq(Seq(Texts)) /\ Len(redoStacks') = Len(redoStacks) + 1
      /\ redoStack' = <<>>
  BY <1>1, <1>4, FreshRedoStack
<1>6. undoStack' \in Seq(Texts)
  <2>1. editing[p].read \in Texts
    BY TypesOf DEF CallRecords
  <2> QED BY <1>1, <2>1, TypesOf, PushTyped
<1>7. /\ OnlyGoesOn(p) /\ editing'[p].write = top /\ editing'[p].stage = "saving"
      /\ editing'[p].read = editing[p].read /\ editing'[p].number = 0
  <2>1. editing[p].number = 0
    BY <1>1, TypesOf DEF InOrder
  <2> QED BY <1>1, <1>3, <2>1, GoesOnWriting
<1>8. InOrder(p)' /\ NumberFollows(p)'
  BY <1>1, <1>2, <1>5, <1>7 DEF InOrder, NumberFollows, OnlyGoesOn
<1>9. ASSUME Turn(p) PROVE Turn(p)'
  <2>1. /\ WalkOf(history, latexContent, undoStack, redoStack) /\ editing[p].read = latexContent
        /\ redoStack # <<>> /\ h = Len(redoStacks)
    BY <1>1, <1>9 DEF Turn, Applied
  <2> DEFINE call == editing'[p]
  <2>2. call.kind = "redo" /\ call.write = Top(redoStack)
    BY <1>1, <1>7, <2>1 DEF OnlyGoesOn, top, redoStack
  <2> HIDE DEF call
  <2>3. WalkOf(Recorded(history, call), call.write, Newest(Append(undoStack, latexContent)), <<>>)
    BY <2>1, <2>2, TypesOf, WalkGoesOn
  <2>4. WalkOf(Recorded(history', editing'[p]), editing'[p].write, undoStack', redoStack')
    BY <1>1, <1>5, <2>1, <2>3 DEF call
  <2> QED BY <1>1, <1>7, <2>1, <2>4 DEF Turn, Applied, Versioned, OnlyGoesOn
<1>10. Len(redoStacks') >= Len(redoStacks)
  BY <1>2, <1>5
<1> QED BY <1>1, <1>5, <1>6, <1>7, <1>8, <1>9, <1>10, UnderwayStep

LEMMA SaveResumeFailsInv == ASSUME EditingInv, NEW p \in Editors, SaveResumeFails(p) PROVE EditingInv'
<1>1. /\ Fails(p)
      /\ UNCHANGED <<latexContent, currentVersion, versions, undoStack, redoStacks>>
  BY DEF SaveResumeFails
<1>2. /\ undoStack' \in Seq(Texts) /\ redoStacks' \in Seq(Seq(Texts))
      /\ Len(redoStacks') >= Len(redoStacks)
  BY <1>1, TypesOf
<1> QED BY <1>1, <1>2, FailsInv

\* A text is saved, with a version or without one.
LEMMA SaveResumeInv == ASSUME EditingInv, NEW p \in Editors, SaveResume(p) PROVE EditingInv'
<1> DEFINE call == editing[p]
           added == [number |-> call.number, content |-> call.write]
<1>1. /\ call.stage = "saving" /\ call.write # Absent
      /\ latexContent' = IF call.write # call.read THEN call.write ELSE latexContent
      /\ currentVersion' = IF call.number > 0 THEN call.number ELSE currentVersion
      /\ versions' = IF call.number > 0 THEN Append(versions, added) ELSE versions
      /\ editing' = [editing EXCEPT ![p] = NoEdit]
      /\ history' = IF history.serial THEN Recorded(history, call) ELSE history
      /\ UNCHANGED <<undoStack, redoStacks>>
  BY DEF SaveResume
<1>2. /\ call \in CallRecords /\ editing \in [Editors -> CallRecords] /\ history \in Histories
      /\ call.write \in Contents /\ latexContent' \in Contents /\ call.number \in Nat
  BY <1>1, TypesOf DEF CallRecords, Texts
<1>3. NoEdit \in CallRecords /\ NoEdit.kind = "none" /\ NoEdit.stage = "none" /\ NoEdit.number = 0
  BY DEF NoEdit, Call, CallRecords, Texts
<1>4. /\ editing'[p] = NoEdit /\ editing' \in [Editors -> CallRecords]
      /\ \A q \in Editors : q # p => editing'[q] = editing[q]
  BY <1>1, <1>2, <1>3
<1>5. history.serial =>
        /\ Turn(p) /\ (\A q \in Editors : q # p => Idle(q))
        /\ WalkOf(history', call.write, undoStack, redoStack)
        /\ call.read = latexContent
        /\ call.number = IF Versioned(p) THEN currentVersion + 1 ELSE 0
  <2>1. ~Idle(p)
    BY <1>1, TypesOf DEF InOrder, Idle
  <2> QED BY <1>1, <2>1, InTurnFor DEF Turn, Applied
<1>6. history' \in Histories /\ (history'.serial = history.serial)
  <2>1. CASE ~history.serial
    BY <1>1, <1>2, <2>1
  <2>2. CASE history.serial
    <3>1. /\ history'.timeline \in Seq(Contents) /\ history'.cursor \in Nat /\ history'.undone \in Nat
      BY <1>5, <2>2, LenProperties DEF WalkOf, Walk
    <3>2. history' = [timeline |-> history'.timeline, cursor |-> history'.cursor,
                      undone |-> history'.undone, serial |-> history.serial]
      <4> HIDE DEF call
      <4>1. history' = Recorded(history, call)
        BY <1>1, <2>2
      <4> QED BY <1>2, <4>1, RecordedFields
    <3>3. history.serial \in BOOLEAN
      BY <1>2 DEF Histories
    <3> QED BY <3>1, <3>2, <3>3 DEF Histories
  <2> QED BY <2>1, <2>2
<1>7. /\ versions \in Seq(VersionRecords) /\ Len(versions) \in Nat /\ currentVersion \in Nat \ {0}
  BY LenProperties DEF EditingInv, EditingTypeOK
<1>8. CASE call.number = 0
  <2>1. UNCHANGED <<versions, currentVersion>>
    BY <1>1, <1>8
  <2>2. Numbers' = Numbers
    BY <2>1 DEF Numbers
  <2>3. EditingTypeOK'
    BY <1>1, <1>2, <1>4, <1>6, <2>1 DEF EditingInv, EditingTypeOK
  <2>4. Numbered'
    BY <1>6, <2>1, <2>2 DEF EditingInv, Numbered
  <2>5. \A q \in Editors : InOrder(q)' /\ NumberFollows(q)'
    BY <1>1, <1>3, <1>4, <2>2 DEF EditingInv, InOrder, NumberFollows
  <2>6. history'.serial => InTurn'
    BY <1>1, <1>3, <1>4, <1>5, <1>6 DEF InTurn, Idle, AllIdle, redoStack
  <2> QED BY <2>3, <2>4, <2>5, <2>6 DEF EditingInv
<1>9. CASE call.number # 0
  <2>1. versions' = Append(versions, added) /\ currentVersion' = call.number
    BY <1>1, <1>2, <1>9
  <2>2. added \in VersionRecords /\ added.number = call.number
    BY <1>2, <1>9 DEF VersionRecords
  <2> HIDE DEF added
  <2>3. /\ versions' \in Seq(VersionRecords) /\ Len(versions') = Len(versions) + 1
        /\ \A i \in 1..Len(versions) : versions'[i] = versions[i]
        /\ versions'[Len(versions) + 1] = added
    BY <1>7, <2>1, <2>2, AppendProperties
  <2>4. Numbers' = Numbers \cup {call.number}
    <3>1. \A i \in 1..Len(versions') : i \in 1..Len(versions) \/ i = Len(versions) + 1
      BY <1>7, <2>3
    <3>2. Len(versions) + 1 \in 1..Len(versions') /\ \A i \in 1..Len(versions) : i \in 1..Len(versions')
      BY <1>7, <2>3
    <3> QED BY <2>2, <2>3, <3>1, <3>2 DEF Numbers
  <2>5. EditingTypeOK'
    BY <1>1, <1>2, <1>4, <1>6, <1>9, <2>1, <2>3 DEF EditingInv, EditingTypeOK
  <2>6. \A q \in Editors : InOrder(q)' /\ NumberFollows(q)'
    BY <1>1, <1>3, <1>4, <2>4 DEF EditingInv, InOrder, NumberFollows
  <2>7. currentVersion' \in Numbers' /\ \A n \in Numbers' : n > 1 => n - 1 \in Numbers'
    BY <2>1, <2>4 DEF EditingInv, Numbered, NumberFollows
  <2>8. history'.serial => /\ \A i \in 1..Len(versions') : versions'[i].number = i
                           /\ currentVersion' = Len(versions')
    <3> SUFFICES ASSUME history.serial
                 PROVE  /\ \A i \in 1..Len(versions') : versions'[i].number = i
                        /\ currentVersion' = Len(versions')
      BY <1>6
    <3>1. /\ call.number = Len(versions) + 1
          /\ \A i \in 1..Len(versions) : versions[i].number = i
      BY <1>5, <1>7, <1>9 DEF EditingInv, Numbered
    <3>2. \A i \in 1..Len(versions') : i \in 1..Len(versions) \/ i = Len(versions) + 1
      BY <1>7, <2>3
    <3> QED BY <2>1, <2>2, <2>3, <3>1, <3>2
  <2>9. history'.serial => InTurn'
    BY <1>1, <1>3, <1>4, <1>5, <1>6 DEF InTurn, Idle, AllIdle, redoStack
  <2> QED BY <2>5, <2>6, <2>7, <2>8, <2>9 DEF EditingInv, Numbered
<1> QED BY <1>8, <1>9

LEMMA EditingBegins == EditingInit => EditingInv
<1> SUFFICES ASSUME EditingInit PROVE EditingInv
  OBVIOUS
<1> DEFINE first == [number |-> 1, content |-> FirstContent]
<1>1. FirstContent \in Contents /\ StackLimit \in Nat /\ first \in VersionRecords
  BY EditingAssumption DEF VersionRecords
<1>2. /\ versions = <<first>> /\ first.number = 1 /\ currentVersion = 1
      /\ latexContent = FirstContent /\ undoStack = <<>> /\ redoStacks = << <<>> >>
      /\ editing = [p \in Editors |-> NoEdit]
      /\ history = [timeline |-> <<FirstContent>>, cursor |-> 1, undone |-> 0, serial |-> TRUE]
  BY DEF EditingInit
<1> HIDE DEF first
<1>3. /\ versions \in Seq(VersionRecords) /\ Len(versions) = 1 /\ versions[1] = first
      /\ redoStacks \in Seq(Seq(Texts)) /\ Len(redoStacks) = 1 /\ redoStack = <<>>
      /\ <<FirstContent>> \in Seq(Contents) /\ Len(<<FirstContent>>) = 1
      /\ <<FirstContent>>[1] = FirstContent
  BY <1>1, <1>2 DEF redoStack
<1>4. NoEdit \in CallRecords /\ NoEdit.kind = "none" /\ NoEdit.stage = "none" /\ NoEdit.number = 0
  BY DEF NoEdit, Call, CallRecords, Texts
<1>5. EditingTypeOK
  <2>1. history \in Histories
    BY <1>2, <1>3 DEF Histories
  <2>2. redoStacks # <<>>
    BY <1>3, EmptySeq
  <2> QED BY <1>1, <1>2, <1>3, <1>4, <2>1, <2>2 DEF EditingTypeOK
<1>6. \A p \in Editors : InOrder(p) /\ NumberFollows(p)
  <2> TAKE p \in Editors
  <2>1. editing[p] = NoEdit
    BY <1>2
  <2> QED BY <1>4, <2>1 DEF InOrder, NumberFollows
<1>7. Numbered
  <2>1. Numbers = {1}
    BY <1>2, <1>3 DEF Numbers
  <2>2. \A i \in 1..Len(versions) : versions[i].number = i
    BY <1>2, <1>3
  <2> QED BY <1>2, <1>3, <2>1, <2>2 DEF Numbered
<1>8. InTurn
  <2>1. Walk(<<FirstContent>>, 1, 0, FirstContent, <<>>, <<>>)
    BY <1>1, <1>3, EmptySeq DEF Walk
  <2>2. WalkOf(history, latexContent, undoStack, redoStack)
    BY <1>2, <1>3, <2>1 DEF WalkOf
  <2> QED BY <1>2, <1>4, <2>2 DEF InTurn, Idle
<1> QED BY <1>5, <1>6, <1>7, <1>8 DEF EditingInv

LEMMA EditingNextInv == EditingInv /\ [EditingNext]_editingVars => EditingInv'
<1> SUFFICES ASSUME EditingInv, [EditingNext]_editingVars PROVE EditingInv'
  OBVIOUS
<1>1. CASE UNCHANGED editingVars
  BY <1>1 DEF editingVars, EditingInv, EditingTypeOK, InOrder, NumberFollows, Numbers, Numbered,
              InTurn, Turn, Applied, Versioned, Idle, AllIdle, redoStack
<1>2. CASE EditingNext
  BY <1>2, ReadForEditInv, ApplyEditInv, ReadForVersionInv, StartUndoInv, StartRedoInv, LoadInv,
     UndoInv, RedoInv, ReadForRollbackInv, RestyleInv, SaveResumeInv, SaveResumeFailsInv
     DEF EditingNext
<1> QED BY <1>1, <1>2

\* The walk says of the stacks what TimelineIsKept says.
LEMMA WalkIsTimeline ==
  ASSUME WalkOf(history, latexContent, undoStack, redoStack)
  PROVE  /\ latexContent = history.timeline[history.cursor]
         /\ undoStack = SubSeq(history.timeline, 1, history.cursor - 1)
         /\ redoStack = Reversed(SubSeq(history.timeline, history.cursor + 1,
                                        history.cursor + history.undone))
<1> DEFINE T == history.timeline
           c == history.cursor
           u == history.undone
           before == SubSeq(T, 1, c - 1)
           behind == SubSeq(T, c + 1, c + u)
<1>1. /\ T \in Seq(Contents) /\ Len(T) \in Nat /\ c \in 1..Len(T) /\ c \in Nat
      /\ u \in 0..(Len(T) - c) /\ u \in Nat
      /\ latexContent = T[c]
      /\ undoStack \in Seq(Contents) /\ Len(undoStack) = c - 1
      /\ \A i \in 1..(c - 1) : undoStack[i] = T[i]
      /\ redoStack \in Seq(Contents) /\ Len(redoStack) = u
      /\ \A i \in 1..u : redoStack[i] = T[c + u + 1 - i]
  BY LenProperties DEF WalkOf, Walk
<1> HIDE DEF T, c, u
<1>2. /\ before \in Seq(Contents) /\ Len(before) = c - 1
      /\ \A i \in 1..(c - 1) : before[i] = T[i]
  <2>1. 1 \in Int /\ c - 1 \in Int /\ \A i \in 1..(c - 1) : T[i] \in Contents
    BY <1>1, ElementOfSeq
  <2>2. /\ before \in Seq(Contents)
        /\ Len(before) = IF 1 <= c - 1 THEN c - 1 - 1 + 1 ELSE 0
        /\ \A i \in 1..(c - 1 - 1 + 1) : before[i] = T[1 + i - 1]
    BY ONLY <2>1, SubSeqProperties
  <2> HIDE DEF before
  <2> QED BY <1>1, <2>2
<1>3. /\ behind \in Seq(Contents) /\ Len(behind) = u
      /\ \A i \in 1..u : behind[i] = T[c + i]
  <2> DEFINE m == c + 1
             n == c + u
  <2>1. m \in Int /\ n \in Int /\ \A i \in m..n : T[i] \in Contents
    BY <1>1, ElementOfSeq
  <2>2. behind = SubSeq(T, m, n)
    OBVIOUS
  <2> HIDE DEF behind, m, n
  <2>3. /\ behind \in Seq(Contents)
        /\ Len(behind) = IF m <= n THEN n - m + 1 ELSE 0
        /\ \A i \in 1..(n - m + 1) : behind[i] = T[m + i - 1]
    BY ONLY <2>1, <2>2, SubSeqProperties
  <2>4. n - m + 1 = u /\ (m <= n <=> u > 0) /\ \A i \in 1..u : m + i - 1 = c + i
    BY <1>1 DEF m, n
  <2>5. Len(behind) = u
    BY <1>1, <2>1, <2>3, <2>4
  <2>6. \A i \in 1..u : behind[i] = T[c + i]
    <3> TAKE i \in 1..u
    <3>1. i \in 1..(n - m + 1) /\ m + i - 1 = c + i
      BY <2>4
    <3> QED BY <2>3, <3>1
  <2> QED BY <2>3, <2>5, <2>6
<1>4. undoStack = before
  <2> HIDE DEF before
  <2> QED BY <1>1, <1>2, SeqEqual
<1>5. redoStack = Reversed(behind)
  <2> HIDE DEF behind
  <2>1. /\ Reversed(behind) = [i \in 1..u |-> behind[u + 1 - i]]
        /\ redoStack = [i \in 1..u |-> redoStack[i]]
    BY <1>1, <1>3 DEF Reversed
  <2>2. \A i \in 1..u : redoStack[i] = behind[u + 1 - i]
    <3> TAKE i \in 1..u
    <3>1. u + 1 - i \in 1..u /\ c + (u + 1 - i) = c + u + 1 - i
      BY <1>1
    <3> QED BY <1>1, <1>3, <3>1
  <2> QED BY <2>1, <2>2
<1> QED BY <1>1, <1>4, <1>5 DEF T, c, u

\* Whatever calls overlap and fail, the versions of a resume are numbered without
\* gaps (createVersion, rollbackToVersion); calls that follow one another keep the
\* text, the undo stack and the redo stack a walk along one timeline
\* (pushToUndoStack, undo, redo), whatever the limit of the stacks.
THEOREM ResumeIsAlwaysConsistent == EditingSpec => []ResumeIsConsistent
<1>1. ASSUME EditingInv PROVE ResumeIsConsistent
  <2>1. DOMAIN versions = 1..Len(versions)
    BY <1>1 DEF EditingInv, EditingTypeOK
  <2>2. VersionsAreNumbered
    BY <1>1, <2>1 DEF EditingInv, Numbered, Numbers, VersionsAreNumbered
  <2>3. TimelineIsKept
    BY <1>1, WalkIsTimeline DEF EditingInv, InTurn, TimelineIsKept
  <2> QED BY <2>2, <2>3 DEF ResumeIsConsistent
<1> QED BY <1>1, EditingBegins, EditingNextInv, PTL DEF EditingSpec

==============================================================================
