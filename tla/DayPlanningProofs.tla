-------------------------- MODULE DayPlanningProofs --------------------------
(***************************************************************************)
(* Proofs about the planning of days: the arithmetic of slots, what a plan *)
(* takes, how far the requests to commit are in their plans and the two    *)
(* calendars, what a plan leaves out, and that every plan is right.        *)
(***************************************************************************)
EXTENDS DayPlanning, SubsequenceProofs

-----------------------------------------------------------------------------
(***************************************************************************)
(* What a plan of a day takes, for any events and any tasks: first what    *)
(* sorting returns.                                                        *)
(***************************************************************************)

\* A strict order in which what is not apart is alike.
IsWeakOrder(before, n) ==
  \A i, j, k \in 1..n :
    /\ ~(<<i, j>> \in before /\ <<j, i>> \in before)
    /\ <<i, k>> \in before => <<i, j>> \in before \/ <<j, k>> \in before

\* Sorted rearranges a list, and in its result nothing comes before what stands
\* earlier.
LEMMA SortedProperties ==
  ASSUME NEW T, NEW s \in Seq(T), NEW before, IsWeakOrder(before, Len(s))
  PROVE  LET r == Sorted(s, before)
         IN  /\ r \in Seq(T) /\ Len(r) = Len(s)
             /\ \E g \in [1..Len(s) -> 1..Len(s)] :
                  /\ \A k \in 1..Len(s) : r[k] = s[g[k]]
                  /\ \A i \in 1..Len(s) : \E k \in 1..Len(s) : g[k] = i
                  /\ \A k, l \in 1..Len(s) : k < l => <<g[l], g[k]>> \notin before
<1> DEFINE n == Len(s)
           P(i) == {j \in DOMAIN s : <<j, i>> \in before \/ (j <= i /\ <<i, j>> \notin before)}
           place == [i \in 1..n |-> Cardinality(P(i))]
           r == Sorted(s, before)
           g == [k \in 1..n |-> CHOOSE i \in DOMAIN s : Cardinality(P(i)) = k]
<1>1. n \in Nat /\ DOMAIN s = 1..n /\ \A i \in 1..n : s[i] \in T
  BY LenProperties, ElementOfSeq
<1>2. r = [k \in DOMAIN s |-> s[CHOOSE i \in DOMAIN s : Cardinality(P(i)) = k]]
  BY DEF Sorted
<1>3. \A i, j, k \in 1..n :
        /\ ~(<<i, j>> \in before /\ <<j, i>> \in before)
        /\ <<i, k>> \in before => <<i, j>> \in before \/ <<j, k>> \in before
  BY DEF IsWeakOrder
<1> HIDE DEF n, r
<1>3a. \A i \in 1..n : /\ P(i) \in SUBSET (1..n)
                       /\ \A j \in 1..n : j \in P(i) <=>
                            <<j, i>> \in before \/ (j <= i /\ <<i, j>> \notin before)
  BY <1>1
<1> HIDE DEF P
<1>4. \A i \in 1..n : /\ IsFiniteSet(P(i)) /\ Cardinality(P(i)) \in 1..n /\ i \in P(i)
  <2> SUFFICES ASSUME NEW i \in 1..n
               PROVE  IsFiniteSet(P(i)) /\ Cardinality(P(i)) \in 1..n /\ i \in P(i)
    OBVIOUS
  <2>1. P(i) \in SUBSET (1..n) /\ i \in P(i)
    <3>1. <<i, i>> \notin before /\ i <= i
      BY <1>1, <1>3
    <3> QED BY <3>1, <1>3a
  <2>2. IsFiniteSet(1..n) /\ Cardinality(1..n) = n
    BY <1>1, FS_Interval
  <2>3. IsFiniteSet(P(i)) /\ Cardinality(P(i)) <= n /\ Cardinality(P(i)) \in Nat
    BY <2>1, <2>2, FS_Subset, FS_CardinalityType
  <2>4. Cardinality(P(i)) # 0
    BY <2>1, <2>3, FS_EmptySet
  <2> QED BY <2>1, <2>3, <2>4, <1>1
<1>5. ASSUME NEW i \in 1..n, NEW j \in 1..n,
             <<i, j>> \in before \/ (i < j /\ <<j, i>> \notin before)
      PROVE  Cardinality(P(i)) < Cardinality(P(j))
  <2>1. j \notin P(i)
    <3>1. ~(<<i, j>> \in before /\ <<j, i>> \in before)
      BY <1>3
    <3> QED BY <3>1, <1>1, <1>3a, <1>5
  <2>2. P(i) \in SUBSET P(j)
    <3> SUFFICES ASSUME NEW k \in P(i) PROVE k \in P(j)
      OBVIOUS
    <3>1. k \in 1..n /\ (<<k, i>> \in before \/ (k <= i /\ <<i, k>> \notin before))
      BY <1>3a
    <3>2. <<k, j>> \in before \/ (k <= j /\ <<j, k>> \notin before)
      <4>1. CASE <<i, j>> \in before
        <5>1. <<i, k>> \in before \/ <<k, j>> \in before
          BY <4>1, <3>1, <1>3
        <5>2. <<k, i>> \in before => <<k, j>> \in before
          BY <5>1, <3>1, <1>3
        <5> QED BY <5>1, <5>2, <3>1
      <4>2. CASE <<i, j>> \notin before
        <5>1. i < j /\ <<j, i>> \notin before
          BY <4>2, <1>5
        <5>2. CASE <<k, i>> \in before
          BY <5>1, <5>2, <3>1, <1>3
        <5>3. CASE k <= i /\ <<i, k>> \notin before
          <6>1. k <= j
            BY <5>1, <5>3, <3>1, <1>1
          <6>2. <<j, k>> \notin before
            BY <5>1, <5>3, <3>1, <1>3
          <6> QED BY <6>1, <6>2
        <5> QED BY <5>2, <5>3, <3>1
      <4> QED BY <4>1, <4>2
    <3> QED BY <3>1, <3>2, <1>3a
  <2>3. /\ Cardinality(P(i)) <= Cardinality(P(j))
        /\ Cardinality(P(i)) = Cardinality(P(j)) => P(i) = P(j)
    BY <1>4, <2>2, FS_Subset
  <2>4. P(i) # P(j)
    BY <2>1, <1>4
  <2>5. Cardinality(P(i)) \in Int /\ Cardinality(P(j)) \in Int
    BY <1>4
  <2> QED BY <2>3, <2>4, <2>5
<1>6. place \in Injection(1..n, 1..n)
  <2>1. place \in [1..n -> 1..n]
    BY <1>4
  <2>2. \A i, j \in 1..n : place[i] = place[j] => i = j
    <3> SUFFICES ASSUME NEW i \in 1..n, NEW j \in 1..n, place[i] = place[j], i # j PROVE FALSE
      OBVIOUS
    <3>1. Cardinality(P(i)) = Cardinality(P(j)) /\ Cardinality(P(i)) \in Nat
      BY <1>4
    <3>2. \/ <<i, j>> \in before \/ (i < j /\ <<j, i>> \notin before)
          \/ <<j, i>> \in before \/ (j < i /\ <<i, j>> \notin before)
      BY <1>1
    <3>3. Cardinality(P(i)) < Cardinality(P(j)) \/ Cardinality(P(j)) < Cardinality(P(i))
      BY <3>2, <1>5
    <3> QED BY <3>1, <3>3
  <2> HIDE DEF place
  <2> QED BY <2>1, <2>2, Fun_IsInj
<1>7. \A k \in 1..n : \E i \in 1..n : place[i] = k
  <2>1. IsFiniteSet(1..n) /\ Cardinality(1..n) = n
    BY <1>1, FS_Interval
  <2>2. place \in Surjection(1..n, 1..n)
    <3> HIDE DEF place
    <3> QED BY <1>6, <2>1, FS_Injection
  <2> HIDE DEF place
  <2> QED BY <2>2, Fun_SurjectionProperties
<1>8. \A k \in 1..n : g[k] \in 1..n /\ Cardinality(P(g[k])) = k
  <2> SUFFICES ASSUME NEW k \in 1..n PROVE g[k] \in 1..n /\ Cardinality(P(g[k])) = k
    OBVIOUS
  <2>1. PICK j \in 1..n : Cardinality(P(j)) = k
    BY <1>7
  <2>2. g[k] = CHOOSE i \in DOMAIN s : Cardinality(P(i)) = k
    OBVIOUS
  <2> HIDE DEF g
  <2> QED BY <2>1, <2>2, <1>1
<1>9. r = [k \in 1..n |-> s[g[k]]]
  BY <1>1, <1>2
<1>10. g \in [1..n -> 1..n]
  <2>1. DOMAIN g = 1..n /\ g = [k \in DOMAIN g |-> g[k]]
    OBVIOUS
  <2> HIDE DEF g
  <2> QED BY <1>8, <2>1
<1>11. \A i \in 1..n : \E k \in 1..n : g[k] = i
  <2> SUFFICES ASSUME NEW i \in 1..n PROVE \E k \in 1..n : g[k] = i
    OBVIOUS
  <2> DEFINE k == Cardinality(P(i))
  <2>1. k \in 1..n
    BY <1>4
  <2>2. g[k] \in 1..n /\ Cardinality(P(g[k])) = Cardinality(P(i))
    BY <1>8, <2>1
  <2>3. g[k] = i
    <3>1. place[g[k]] = place[i]
      BY <2>2
    <3> HIDE DEF place, g, k
    <3> QED BY <1>6, <2>2, <3>1, Fun_IsInj DEF Injection, IsInjective
  <2> QED BY <2>1, <2>3
<1>12. \A k, l \in 1..n : k < l => <<g[l], g[k]>> \notin before
  <2> SUFFICES ASSUME NEW k \in 1..n, NEW l \in 1..n, k < l, <<g[l], g[k]>> \in before PROVE FALSE
    OBVIOUS
  <2>1. Cardinality(P(g[l])) < Cardinality(P(g[k]))
    BY <1>5, <1>8
  <2>2. Cardinality(P(g[l])) = l /\ Cardinality(P(g[k])) = k
    BY <1>8
  <2> HIDE DEF g
  <2> QED BY <2>1, <2>2, <1>1
<1>13. r \in Seq(T) /\ Len(r) = n
  <2>1. r \in [1..n -> T]
    <3> HIDE DEF g
    <3> QED BY <1>1, <1>9, <1>10
  <2> QED BY <2>1, <1>1, FunctionIsList
<1>14. \A k \in 1..n : r[k] = s[g[k]]
  BY <1>9
<1> HIDE DEF g
<1> QED BY <1>10, <1>11, <1>12, <1>13, <1>14 DEF n, r

(***************************************************************************)
(* Slots, and what is left of them when one is used.                       *)
(***************************************************************************)
Slots == [start : Int, end : Int]
Within(a, b) == b.start <= a.start /\ a.end <= b.end

\* Whatever lies in a slot of F is in F too.
IsClosed(F) == F \in SUBSET Slots /\ \A a \in Slots, b \in F : Within(a, b) => a \in F

FreeOf(F, used) == {t \in F : ~Overlap(t, used)}

\* What is free beside a slot is closed too.
LEMMA FreeIsClosed ==
  ASSUME NEW F, IsClosed(F), NEW used \in Slots
  PROVE  IsClosed(FreeOf(F, used)) /\ FreeOf(F, used) \in SUBSET F
BY DEF IsClosed, FreeOf, Within, Overlap, Slots

\* What Split leaves of a slot lies in it and beside what is used.
LEMMA SplitKeepsWithin ==
  ASSUME NEW F, IsClosed(F), NEW slot \in F, NEW used \in Slots
  PROVE  Split(slot, used) \in Seq(FreeOf(F, used))
<1> DEFINE a == Slot(slot.start, Earlier(used.start, slot.end))
           b == Slot(Later(used.end, slot.start), slot.end)
           T == FreeOf(F, used)
<1>1. slot \in Slots
  BY DEF IsClosed
<1>2. a \in Slots /\ Within(a, slot) /\ ~Overlap(a, used)
  BY <1>1 DEF Slots, Within, Overlap, Slot, Earlier
<1>3. b \in Slots /\ Within(b, slot) /\ ~Overlap(b, used)
  BY <1>1 DEF Slots, Within, Overlap, Slot, Later
<1> DEFINE front == IF slot.start < used.start THEN <<a>> ELSE <<>>
           back == IF slot.end > used.end THEN <<b>> ELSE <<>>
<1>4. Split(slot, used) = front \o back
  BY DEF Split
<1> HIDE DEF a, b
<1>5. a \in T /\ b \in T
  BY <1>2, <1>3 DEF FreeOf, IsClosed
<1> HIDE DEF T
<1>6. front \in Seq(T) /\ back \in Seq(T)
  <2>1. <<>> \in Seq(T) /\ <<a>> \in Seq(T) /\ <<b>> \in Seq(T)
    BY <1>5
  <2> QED BY <2>1
<1> HIDE DEF front, back
<1> QED BY <1>4, <1>6, ConcatProperties DEF T

\* So does what SlotsWithout leaves of a list.
LEMMA SlotsWithoutKeepsWithin ==
  ASSUME NEW F, IsClosed(F), NEW slots \in Seq(F), NEW used \in Slots
  PROVE  SlotsWithout(slots, used) \in Seq(FreeOf(F, used))
<1> DEFINE T == FreeOf(F, used)
           ss == [i \in DOMAIN slots |->
                    IF Overlap(slots[i], used) THEN Split(slots[i], used) ELSE <<slots[i]>>]
<1>1. DOMAIN slots = 1..Len(slots) /\ Len(slots) \in Nat /\ \A i \in 1..Len(slots) : slots[i] \in F
  BY LenProperties, ElementOfSeq
<1>2. \A i \in 1..Len(slots) : ss[i] \in Seq(T)
  <2> SUFFICES ASSUME NEW i \in 1..Len(slots) PROVE ss[i] \in Seq(T)
    OBVIOUS
  <2>1. CASE Overlap(slots[i], used)
    <3>1. Split(slots[i], used) \in Seq(T)
      BY <1>1, SplitKeepsWithin
    <3> QED BY <2>1, <3>1, <1>1
  <2>2. CASE ~Overlap(slots[i], used)
    <3>1. slots[i] \in T
      BY <2>2, <1>1 DEF FreeOf
    <3>2. <<slots[i]>> \in Seq(T)
      BY <3>1
    <3> QED BY <2>2, <3>2, <1>1
  <2> QED BY <2>1, <2>2
<1>3. ss \in Seq(Seq(T))
  <2>1. ss = [i \in 1..Len(slots) |-> ss[i]]
    BY <1>1
  <2> HIDE DEF ss, T
  <2>2. ss \in [1..Len(slots) -> Seq(T)]
    BY <1>2, <2>1
  <2> QED BY <1>1, <2>2, FunctionIsList
<1>4. SlotsWithout(slots, used) = FlattenSeq(ss)
  BY DEF SlotsWithout
<1> HIDE DEF ss
<1> QED BY <1>3, <1>4, FlattenedIsList

(***************************************************************************)
(* mergeBusySlots loses no busy time.                                      *)
(***************************************************************************)
\* A slot is inside one of the merged ones.
Covered(s, merged) == \E m \in 1..Len(merged) : Within(s, merged[m])

\* A slot that starts behind the starts of all others is merged without losing any.
LEMMA MergedCovers ==
  ASSUME NEW M \in Seq(Slots), NEW s \in Slots, \A m \in 1..Len(M) : M[m].start <= s.start
  PROVE  /\ Merged(M, s) \in Seq(Slots)
         /\ \A m \in 1..Len(Merged(M, s)) : Merged(M, s)[m].start <= s.start
         /\ Covered(s, Merged(M, s))
         /\ \A t \in Slots : Covered(t, M) => Covered(t, Merged(M, s))
<1> DEFINE n == Len(M)
           R == Merged(M, s)
<1>1. n \in Nat /\ DOMAIN M = 1..n /\ \A m \in 1..n : M[m] \in Slots
  BY LenProperties, ElementOfSeq
<1>2. CASE M # <<>> /\ s.start <= Last(M).end
  <2> DEFINE x == Slot(M[n].start, Later(M[n].end, s.end))
  <2>1. n \in 1..n
    BY <1>1, <1>2, EmptySeq
  <2>2. R = [M EXCEPT ![n] = x]
    BY <1>2 DEF Merged
  <2>3. x \in Slots /\ Within(M[n], x) /\ Within(s, x) /\ x.start = M[n].start
    <3>1. M[n] \in Slots /\ M[n].start <= s.start
      BY <1>1, <2>1
    <3> HIDE DEF n
    <3> QED BY <3>1 DEF Slots, Within, Slot, Later
  <2> HIDE DEF n, x, R
  <2>4. /\ R \in [1..n -> Slots] /\ R[n] = x
        /\ \A m \in 1..n : m # n => R[m] = M[m]
    <3>1. M \in [1..n -> Slots]
      BY <1>1 DEF n
    <3> QED BY <2>1, <2>2, <2>3, <3>1
  <2>5. R \in Seq(Slots) /\ Len(R) = n
    BY <1>1, <2>4, FunctionIsList
  <2>6. \A m \in 1..n : Within(M[m], R[m])
    <3>1. \A t \in Slots : Within(t, t)
      BY DEF Within, Slots
    <3> QED BY <1>1, <2>3, <2>4, <3>1
  <2>7. \A m \in 1..n : R[m].start <= s.start
    BY <2>1, <2>3, <2>4 DEF n
  <2>8. Covered(s, R)
    BY <2>1, <2>3, <2>4, <2>5 DEF Covered
  <2>9. ASSUME NEW t \in Slots, Covered(t, M) PROVE Covered(t, R)
    <3>1. PICK m \in 1..n : Within(t, M[m])
      BY <2>9 DEF Covered, n
    <3>2. Within(t, R[m])
      BY <1>1, <2>4, <2>6, <3>1 DEF Within, Slots
    <3> QED BY <2>5, <3>2 DEF Covered
  <2> QED BY <2>5, <2>7, <2>8, <2>9 DEF R
<1>3. CASE ~(M # <<>> /\ s.start <= Last(M).end)
  <2>1. R = Append(M, s)
    BY <1>3 DEF Merged
  <2>2. /\ R \in Seq(Slots) /\ Len(R) = n + 1 /\ R[n + 1] = s
        /\ \A m \in 1..n : R[m] = M[m]
    BY <2>1, <1>1, AppendProperties
  <2> HIDE DEF R
  <2>3. \A m \in 1..n + 1 : R[m] = s \/ (m \in 1..n /\ R[m] = M[m])
    BY <1>1, <2>2
  <2>4. \A m \in 1..n + 1 : R[m].start <= s.start
    BY <2>3 DEF Slots
  <2>5. Covered(s, R)
    <3>1. n + 1 \in 1..Len(R) /\ Within(s, R[n + 1])
      BY <1>1, <2>2 DEF Within, Slots
    <3> QED BY <3>1 DEF Covered
  <2>6. ASSUME NEW t \in Slots, Covered(t, M) PROVE Covered(t, R)
    <3>1. PICK m \in 1..n : Within(t, M[m])
      BY <2>6 DEF Covered
    <3>2. m \in 1..Len(R) /\ R[m] = M[m]
      BY <1>1, <2>2
    <3> QED BY <3>1, <3>2 DEF Covered
  <2> QED BY <2>2, <2>4, <2>5, <2>6 DEF R
<1> QED BY <1>2, <1>3

\* The function of the rounds exists, and each round follows from the one before.
LEMMA MergeRoundsFollow ==
  ASSUME NEW slots \in Seq(Slots)
  PROVE  LET v == MergeRounds(slots)
         IN  /\ v[0] = <<>>
             /\ \A i \in 1..Len(slots) : v[i] = Merged(v[i - 1], slots[i])
<1> DEFINE n == Len(slots)
           S == Seq(Slots)
           base == <<>>
           advance == [p \in S \X (1..n) |-> Merged(p[1], slots[p[2]])]
           Rounds(f) == [i \in 0..n |-> IF i = 0 THEN <<>> ELSE Merged(f[i - 1], slots[i])]
           v == MergeRounds(slots)
<1>1. n \in Nat /\ \A i \in 1..n : slots[i] \in Slots
  BY LenProperties, ElementOfSeq
<1>2. base \in S /\ base = <<>>
  OBVIOUS
<1>3. \A q \in S, s \in Slots : Merged(q, s) \in S
  <2> SUFFICES ASSUME NEW q \in S, NEW s \in Slots PROVE Merged(q, s) \in S
    OBVIOUS
  <2>1. Append(q, s) \in S
    OBVIOUS
  <2>2. ASSUME q # <<>> PROVE [q EXCEPT ![Len(q)] = Slot(@.start, Later(@.end, s.end))] \in S
    <3>1. Len(q) \in Nat /\ q \in [1..Len(q) -> Slots] /\ Len(q) \in 1..Len(q)
      <4>1. Len(q) \in Nat \ {0}
        BY <2>2, EmptySeq
      <4>2. DOMAIN q = 1..Len(q) /\ \A i \in 1..Len(q) : q[i] \in Slots
        BY LenProperties, ElementOfSeq
      <4> QED BY <4>1, <4>2
    <3> DEFINE x == Slot(q[Len(q)].start, Later(q[Len(q)].end, s.end))
    <3>2. x \in Slots
      <4>1. q[Len(q)] \in Slots
        BY <3>1
      <4> QED BY <4>1 DEF Slots, Slot, Later
    <3> HIDE DEF x
    <3>3. [q EXCEPT ![Len(q)] = x] \in [1..Len(q) -> Slots]
      BY <3>1, <3>2
    <3>4. [q EXCEPT ![Len(q)] = x] \in Seq(Slots)
      BY <3>1, <3>3, FunctionIsList
    <3> QED BY <3>4 DEF x
  <2> QED BY <2>1, <2>2 DEF Merged
<1>4. v = CHOOSE f : f = Rounds(f)
  BY DEF MergeRounds
<1> HIDE DEF n, S, base, v
<1>5. PICK g : Iterates(g, S, base, n, advance)
  <2>1. advance \in [S \X (1..n) -> S]
    BY <1>1, <1>3
  <2> HIDE DEF advance
  <2> QED BY <1>1, <1>2, <2>1, IteratesExists
<1>6. g = Rounds(g)
  <2>1. ASSUME NEW i \in 0..n PROVE g[i] = IF i = 0 THEN <<>> ELSE Merged(g[i - 1], slots[i])
    <3>1. CASE i = 0
      BY <3>1, <1>2, <1>5 DEF Iterates
    <3>2. CASE i # 0
      <4>1. i \in 1..n /\ i - 1 \in 0..n
        BY <3>2, <1>1
      <4>2. g[i - 1] \in S /\ g[i] = advance[<<g[i - 1], i>>]
        BY <4>1, <1>5 DEF Iterates
      <4> QED BY <3>2, <4>1, <4>2
    <3> QED BY <3>1, <3>2
  <2> QED BY <1>5, <2>1 DEF Iterates
<1>7. v = Rounds(v)
  BY <1>4, <1>6
<1>8. v[0] = <<>> /\ \A i \in 1..n : v[i] = Merged(v[i - 1], slots[i])
  BY <1>1, <1>7
<1> QED BY <1>8 DEF v, n

\* Every slot is inside one of the merged slots.
LEMMA MergeCovers ==
  ASSUME NEW slots \in Seq(Slots)
  PROVE  /\ MergeBusySlots(slots) \in Seq(Slots)
         /\ \A i \in 1..Len(slots) : Covered(slots[i], MergeBusySlots(slots))
<1> DEFINE n == Len(slots)
           before == {p \in Places(slots) : slots[p[1]].start < slots[p[2]].start}
           s == ByStart(slots)
           v == MergeRounds(s)
<1>1. n \in Nat /\ DOMAIN slots = 1..n /\ \A i \in 1..n : slots[i] \in Slots
  BY LenProperties, ElementOfSeq
<1>2. \A i, j \in 1..n : <<i, j>> \in before <=> slots[i].start < slots[j].start
  BY <1>1 DEF Places
<1>3. IsWeakOrder(before, n)
  <2>1. \A i \in 1..n : slots[i].start \in Int
    BY <1>1 DEF Slots
  <2> HIDE DEF before, n
  <2> SUFFICES ASSUME NEW i \in 1..n, NEW j \in 1..n, NEW k \in 1..n
               PROVE  /\ ~(<<i, j>> \in before /\ <<j, i>> \in before)
                      /\ <<i, k>> \in before => <<i, j>> \in before \/ <<j, k>> \in before
    BY DEF IsWeakOrder
  <2>2. slots[i].start \in Int /\ slots[j].start \in Int /\ slots[k].start \in Int
    BY <2>1
  <2> QED BY <1>2, <2>2
<1>4. s = Sorted(slots, before)
  BY DEF ByStart
<1> HIDE DEF before
<1>5. PICK g \in [1..n -> 1..n] :
        /\ \A k \in 1..n : Sorted(slots, before)[k] = slots[g[k]]
        /\ \A i \in 1..n : \E k \in 1..n : g[k] = i
        /\ \A k, l \in 1..n : k < l => <<g[l], g[k]>> \notin before
  BY <1>3, SortedProperties
<1>5a. \A k \in 1..n : s[k] = slots[g[k]]
  BY <1>4, <1>5
<1> HIDE DEF s
<1>6. s \in Seq(Slots) /\ Len(s) = n
  BY <1>3, <1>4, SortedProperties
<1> HIDE DEF n
<1>7. \A k, l \in 1..n : k < l => s[k].start <= s[l].start
  <2> SUFFICES ASSUME NEW k \in 1..n, NEW l \in 1..n, k < l PROVE s[k].start <= s[l].start
    OBVIOUS
  <2>1. ~(slots[g[l]].start < slots[g[k]].start)
    BY <1>2, <1>5
  <2>2. slots[g[l]] \in Slots /\ slots[g[k]] \in Slots
    <3>1. g[l] \in 1..n /\ g[k] \in 1..n
      BY <1>5
    <3> QED BY <3>1, <1>1
  <2>3. s[k] = slots[g[k]] /\ s[l] = slots[g[l]]
    BY <1>5a
  <2>4. slots[g[l]].start \in Int /\ slots[g[k]].start \in Int
    BY <2>2 DEF Slots
  <2> QED BY <2>1, <2>3, <2>4
<1>8. \A k \in 1..n : s[k] \in Slots
  BY <1>1, <1>5, <1>5a
<1>9. v[0] = <<>> /\ \A i \in 1..n : v[i] = Merged(v[i - 1], s[i])
  BY <1>6, MergeRoundsFollow
<1> DEFINE Upto(k) == /\ v[k] \in Seq(Slots)
                      /\ \A i \in 1..k : Covered(s[i], v[k])
                      /\ k > 0 => \A m \in 1..Len(v[k]) : v[k][m].start <= s[k].start
                      /\ k = 0 => v[k] = <<>>
           I == {k \in Nat : k <= n => Upto(k)}
<1> HIDE DEF v
<1>10. 0 \in I
  <2>1. v[0] = <<>> /\ <<>> \in Seq(Slots) /\ \A i \in 1..0 : FALSE
    BY <1>9, EmptySeq
  <2> QED BY <2>1
<1>11. ASSUME NEW k \in I PROVE k + 1 \in I
  <2> SUFFICES ASSUME k + 1 <= n PROVE Upto(k + 1)
    OBVIOUS
  <2>1. k \in Nat /\ k + 1 \in 1..n /\ (k + 1) - 1 = k
    BY <1>1
  <2>2. Upto(k)
    BY <1>1, <2>1
  <2>3. v[k + 1] = Merged(v[k], s[k + 1])
    BY <1>9, <2>1
  <2>4. \A m \in 1..Len(v[k]) : v[k][m].start <= s[k + 1].start
    <3> SUFFICES ASSUME NEW m \in 1..Len(v[k]) PROVE v[k][m].start <= s[k + 1].start
      OBVIOUS
    <3>1. k # 0
      <4>1. Len(<<>>) = 0
        BY EmptySeq
      <4> QED BY <2>2, <4>1
    <3>2. k \in 1..n /\ k < k + 1
      BY <1>1, <2>1, <3>1
    <3>3. v[k][m].start <= s[k].start /\ s[k].start <= s[k + 1].start
      BY <1>7, <2>1, <2>2, <3>2
    <3>4. v[k][m] \in Slots /\ s[k] \in Slots /\ s[k + 1] \in Slots
      BY <1>8, <2>1, <2>2, <3>2, ElementOfSeq
    <3> QED BY <3>3, <3>4 DEF Slots
  <2>5. /\ v[k + 1] \in Seq(Slots)
        /\ \A m \in 1..Len(v[k + 1]) : v[k + 1][m].start <= s[k + 1].start
        /\ Covered(s[k + 1], v[k + 1])
        /\ \A t \in Slots : Covered(t, v[k]) => Covered(t, v[k + 1])
    BY <1>8, <2>1, <2>2, <2>3, <2>4, MergedCovers
  <2>6. \A i \in 1..(k + 1) : Covered(s[i], v[k + 1])
    <3> SUFFICES ASSUME NEW i \in 1..(k + 1) PROVE Covered(s[i], v[k + 1])
      OBVIOUS
    <3>1. CASE i = k + 1
      BY <3>1, <2>5
    <3>2. CASE i # k + 1
      <4>1. i \in 1..k /\ i \in 1..n
        BY <3>2, <2>1, <1>1
      <4> QED BY <4>1, <1>8, <2>2, <2>5
    <3> QED BY <3>1, <3>2
  <2> QED BY <2>1, <2>5, <2>6
<1> HIDE DEF I, Upto
<1>12. I = Nat
  <2>1. I \in SUBSET Nat
    BY DEF I
  <2> QED BY <1>10, <1>11, <2>1, InductOn
<1>13. Upto(n)
  <2>1. n \in I /\ n <= n
    BY <1>1, <1>12
  <2> QED BY <2>1 DEF I
<1>14. MergeBusySlots(slots) = v[n]
  BY DEF MergeBusySlots, v, s, n
<1>15. \A i \in 1..n : Covered(slots[i], v[n])
  <2> SUFFICES ASSUME NEW i \in 1..n PROVE Covered(slots[i], v[n])
    OBVIOUS
  <2>1. PICK k \in 1..n : g[k] = i
    BY <1>5
  <2>2. s[k] = slots[i]
    BY <1>5a, <2>1
  <2> QED BY <1>13, <2>2 DEF Upto
<1> QED BY <1>13, <1>14, <1>15 DEF n, Upto

(***************************************************************************)
(* findAvailableSlots returns free time only.                              *)
(***************************************************************************)
Day == Slot(WorkStart, WorkEnd)

\* The slots of the day beside the first k busy slots.
FreeBeside(busy, k) ==
  {t \in Slots : Within(t, Day) /\ \A i \in 1..k : ~Overlap(t, busy[i])}

\* Each round of subtractBusySlots follows from the one before.
LEMMA SubtractRoundsFollow ==
  ASSUME NEW busy \in Seq(Slots)
  PROVE  LET v == SubtractRounds(busy)
         IN  /\ v[0] = <<Day>>
             /\ \A i \in 1..Len(busy) : v[i] = SlotsWithout(v[i - 1], busy[i])
<1> DEFINE n == Len(busy)
           S == Seq(Slots)
           base == <<Day>>
           advance == [p \in S \X (1..n) |-> SlotsWithout(p[1], busy[p[2]])]
           Rounds(f) == [i \in 0..n |-> IF i = 0 THEN <<Day>> ELSE SlotsWithout(f[i - 1], busy[i])]
           v == SubtractRounds(busy)
<1>1. n \in Nat /\ \A i \in 1..n : busy[i] \in Slots
  BY LenProperties, ElementOfSeq
<1>2. base \in S /\ base = <<Day>>
  BY SlotsAssumption DEF Day, Slot, Slots
<1>3. \A q \in S, s \in Slots : SlotsWithout(q, s) \in S
  <2>1. IsClosed(Slots)
    BY DEF IsClosed
  <2> SUFFICES ASSUME NEW q \in S, NEW s \in Slots PROVE SlotsWithout(q, s) \in S
    OBVIOUS
  <2>2. SlotsWithout(q, s) \in Seq(FreeOf(Slots, s))
    BY <2>1, SlotsWithoutKeepsWithin
  <2>3. FreeOf(Slots, s) \in SUBSET Slots
    BY DEF FreeOf
  <2> QED BY <2>2, <2>3
<1>4. v = CHOOSE f : f = Rounds(f)
  BY DEF SubtractRounds, Day
<1> HIDE DEF n, S, base, v
<1>5. PICK g : Iterates(g, S, base, n, advance)
  <2>1. advance \in [S \X (1..n) -> S]
    BY <1>1, <1>3
  <2> HIDE DEF advance
  <2> QED BY <1>1, <1>2, <2>1, IteratesExists
<1>6. g = Rounds(g)
  <2>1. ASSUME NEW i \in 0..n PROVE g[i] = IF i = 0 THEN <<Day>> ELSE SlotsWithout(g[i - 1], busy[i])
    <3>1. CASE i = 0
      BY <3>1, <1>2, <1>5 DEF Iterates
    <3>2. CASE i # 0
      <4>1. i \in 1..n /\ i - 1 \in 0..n
        BY <3>2, <1>1
      <4>2. g[i - 1] \in S /\ g[i] = advance[<<g[i - 1], i>>]
        BY <4>1, <1>5 DEF Iterates
      <4> QED BY <3>2, <4>1, <4>2
    <3> QED BY <3>1, <3>2
  <2> QED BY <1>5, <2>1 DEF Iterates
<1>7. v = Rounds(v)
  BY <1>4, <1>6
<1>8. v[0] = <<Day>> /\ \A i \in 1..n : v[i] = SlotsWithout(v[i - 1], busy[i])
  BY <1>1, <1>7
<1> QED BY <1>8 DEF v, n

\* What subtractBusySlots leaves of the day is beside every busy slot.
LEMMA SubtractKeepsFree ==
  ASSUME NEW busy \in Seq(Slots)
  PROVE  SubtractRounds(busy)[Len(busy)] \in Seq(FreeBeside(busy, Len(busy)))
<1> DEFINE n == Len(busy)
           v == SubtractRounds(busy)
           I == {k \in Nat : k <= n => v[k] \in Seq(FreeBeside(busy, k))}
<1>1. n \in Nat /\ \A i \in 1..n : busy[i] \in Slots
  BY LenProperties, ElementOfSeq
<1>2. v[0] = <<Day>> /\ \A i \in 1..n : v[i] = SlotsWithout(v[i - 1], busy[i])
  BY SubtractRoundsFollow
<1> HIDE DEF v, n
<1>3. 0 \in I
  <2>1. Day \in FreeBeside(busy, 0)
    BY SlotsAssumption DEF FreeBeside, Day, Slot, Slots, Within
  <2>2. <<Day>> \in Seq(FreeBeside(busy, 0))
    BY <2>1
  <2> QED BY <1>2, <2>2
<1>4. ASSUME NEW k \in I PROVE k + 1 \in I
  <2> DEFINE F == FreeBeside(busy, k)
             G == FreeBeside(busy, k + 1)
  <2> SUFFICES ASSUME k + 1 <= n PROVE v[k + 1] \in Seq(G)
    OBVIOUS
  <2>1. k \in Nat /\ k + 1 \in 1..n /\ (k + 1) - 1 = k /\ busy[k + 1] \in Slots
    BY <1>1
  <2>2. v[k] \in Seq(F) /\ v[k + 1] = SlotsWithout(v[k], busy[k + 1])
    BY <1>1, <1>2, <2>1
  <2>3. IsClosed(F)
    <3> SUFFICES ASSUME NEW a \in Slots, NEW b \in F, Within(a, b) PROVE a \in F
      BY DEF IsClosed, FreeBeside
    <3>1. b \in Slots /\ Within(b, Day) /\ Day \in Slots
      BY SlotsAssumption DEF FreeBeside, Day, Slot, Slots
    <3>2. Within(a, Day)
      BY <3>1 DEF Within, Slots
    <3>3. ASSUME NEW i \in 1..k PROVE ~Overlap(a, busy[i])
      <4>1. ~Overlap(b, busy[i]) /\ busy[i] \in Slots
        BY <1>1, <2>1 DEF FreeBeside
      <4> QED BY <3>1, <4>1 DEF Within, Overlap, Slots
    <3> QED BY <3>2, <3>3 DEF FreeBeside
  <2>4. v[k + 1] \in Seq(FreeOf(F, busy[k + 1]))
    <3> HIDE DEF F
    <3> QED BY <2>1, <2>2, <2>3, SlotsWithoutKeepsWithin
  <2>5. FreeOf(F, busy[k + 1]) \in SUBSET G
    <3> SUFFICES ASSUME NEW t \in F, ~Overlap(t, busy[k + 1]) PROVE t \in G
      BY DEF FreeOf
    <3>1. \A i \in 1..(k + 1) : i = k + 1 \/ i \in 1..k
      BY <2>1
    <3> QED BY <3>1 DEF FreeBeside
  <2> HIDE DEF F, G
  <2> QED BY <2>4, <2>5
<1> HIDE DEF I
<1>5. I = Nat
  <2>1. I \in SUBSET Nat
    BY DEF I
  <2> QED BY <1>3, <1>4, <2>1, InductOn
<1>6. v[n] \in Seq(FreeBeside(busy, n))
  BY <1>1, <1>5 DEF I
<1> QED BY <1>6 DEF v, n

\* What keeps its distance from an event.
Buffered(e) == Slot(e.start - Buffer, e.end + Buffer)
FreeSlots(es) == {t \in Slots : Within(t, Day) /\ \A e \in ToSet(es) : ~Overlap(t, Buffered(e))}

\* What lies in a free slot that is long enough.
UsableSlots(es) == {t \in Slots : \E w \in FreeSlots(es) : IsLong(w) /\ Within(t, w)}

\* What EntriesAt takes from a list satisfies what its places were chosen for.
LEMMA EntriesAtChosen ==
  ASSUME NEW T, NEW s \in Seq(T), NEW I \in SUBSET (1..Len(s)), NEW U, \A i \in I : s[i] \in U
  PROVE  EntriesAt(s, I) \in Seq(U)
<1> DEFINE r == EntriesAt(s, I)
<1>1. r \in Seq(T)
  BY EntriesAtProperties
<1>2. PICK g \in [1..Len(r) -> I] : \A k \in 1..Len(r) : r[k] = s[g[k]]
  BY EntriesAtProperties
<1> HIDE DEF r
<1>3. DOMAIN r = 1..Len(r) /\ Len(r) \in Nat /\ r = [k \in 1..Len(r) |-> r[k]]
  <2>1. DOMAIN r = 1..Len(r) /\ Len(r) \in Nat
    BY <1>1, LenProperties
  <2>2. r \in [1..Len(r) -> T]
    BY <1>1, SeqDef, LenProperties
  <2> QED BY <2>1, <2>2
<1>4. \A k \in 1..Len(r) : r[k] \in U
  BY <1>2
<1>5. r \in [1..Len(r) -> U]
  BY <1>3, <1>4
<1>6. r \in Seq(U)
  BY <1>3, <1>5, FunctionIsList
<1> QED BY <1>6 DEF r

\* The available slots are inside the working hours and beside the events with
\* their buffers, and long enough.
LEMMA AvailableSlotsAreFree ==
  ASSUME NEW es \in Seq(Slots)
  PROVE  AvailableSlots(es) \in Seq(UsableSlots(es))
<1> DEFINE ss == [i \in DOMAIN es |-> Slot(es[i].start - Buffer, es[i].end + Buffer)]
           busy == BusySlots(es)
           free == SubtractRounds(busy)[Len(busy)]
           kept == {i \in DOMAIN free : IsLong(free[i])}
           F == FreeBeside(busy, Len(busy))
<1>1. DOMAIN es = 1..Len(es) /\ Len(es) \in Nat /\ \A i \in 1..Len(es) : es[i] \in Slots
  BY LenProperties, ElementOfSeq
<1>2. /\ ss \in [1..Len(es) -> Slots]
      /\ \A i \in 1..Len(es) : ss[i] = Buffered(es[i])
  <2>1. \A i \in 1..Len(es) : Buffered(es[i]) \in Slots
    BY <1>1, SlotsAssumption DEF Buffered, Slot, Slots
  <2> QED BY <1>1, <2>1 DEF Buffered
<1>3. busy = MergeBusySlots(ss)
  BY DEF BusySlots
<1> HIDE DEF ss
<1>4. ss \in Seq(Slots) /\ Len(ss) = Len(es)
  BY <1>1, <1>2, FunctionIsList
<1>5. busy \in Seq(Slots) /\ \A i \in 1..Len(es) : Covered(Buffered(es[i]), busy)
  BY <1>2, <1>3, <1>4, MergeCovers
<1> HIDE DEF busy
<1>6. free \in Seq(F)
  BY <1>5, SubtractKeepsFree
<1>7. AvailableSlots(es) = EntriesAt(free, kept)
  BY DEF AvailableSlots, busy
<1> HIDE DEF free, F
<1>8. /\ EntriesAt(free, kept) \in Seq(F)
      /\ \A k \in 1..Len(EntriesAt(free, kept)) : IsLong(EntriesAt(free, kept)[k])
  <2>1. kept \in SUBSET (1..Len(free)) /\ \A i \in kept : IsLong(free[i])
    BY <1>6, LenProperties
  <2> HIDE DEF kept
  <2> DEFINE U == {t \in F : IsLong(t)}
  <2>2. \A i \in kept : free[i] \in U
    BY <1>6, <2>1, ElementOfSeq
  <2> HIDE DEF U
  <2>3. EntriesAt(free, kept) \in Seq(U)
    BY <1>6, <2>1, <2>2, EntriesAtChosen
  <2>4. EntriesAt(free, kept) \in Seq(F)
    BY <2>3 DEF U
  <2>5. \A k \in 1..Len(EntriesAt(free, kept)) : EntriesAt(free, kept)[k] \in U
    BY <2>3, ElementOfSeq
  <2> QED BY <2>4, <2>5 DEF U
<1>9. F \in SUBSET FreeSlots(es)
  <2> SUFFICES ASSUME NEW t \in F, NEW e \in ToSet(es) PROVE ~Overlap(t, Buffered(e))
    BY DEF F, FreeBeside, FreeSlots
  <2>1. PICK i \in 1..Len(es) : e = es[i]
    BY <1>1 DEF ToSet
  <2>2. PICK m \in 1..Len(busy) : Within(Buffered(e), busy[m])
    BY <1>5, <2>1 DEF Covered
  <2>3. t \in Slots /\ ~Overlap(t, busy[m])
    BY <2>2 DEF F, FreeBeside
  <2>4. busy[m] \in Slots /\ Buffered(e) \in Slots
    BY <1>2, <1>5, <2>1, <2>2, ElementOfSeq
  <2> QED BY <2>2, <2>3, <2>4 DEF Within, Overlap, Slots
<1>10. EntriesAt(free, kept) \in Seq(UsableSlots(es))
  <2> DEFINE r == EntriesAt(free, kept)
  <2>1. Len(r) \in Nat /\ DOMAIN r = 1..Len(r) /\ \A k \in 1..Len(r) : r[k] \in F /\ IsLong(r[k])
    BY <1>8, LenProperties, ElementOfSeq
  <2>2. F \in SUBSET Slots
    BY DEF F, FreeBeside
  <2>3. r \in Seq(Slots)
    BY <1>8, <2>2
  <2> HIDE DEF r
  <2>4. \A k \in 1..Len(r) : r[k] \in UsableSlots(es)
    <3> SUFFICES ASSUME NEW k \in 1..Len(r) PROVE r[k] \in UsableSlots(es)
      OBVIOUS
    <3>1. r[k] \in FreeSlots(es) /\ IsLong(r[k]) /\ r[k] \in Slots
      BY <1>9, <2>1, <2>2
    <3>2. Within(r[k], r[k])
      BY <3>1 DEF Within, Slots
    <3> QED BY <3>1, <3>2 DEF UsableSlots
  <2>5. r \in [1..Len(r) -> UsableSlots(es)]
    <3>1. r \in [1..Len(r) -> Slots]
      BY <2>1, <2>3
    <3> QED BY <2>4, <3>1
  <2>6. r \in Seq(UsableSlots(es))
    BY ONLY <2>1, <2>5, FunctionIsList
  <2> QED BY <2>6 DEF r
<1> QED BY <1>7, <1>10

(***************************************************************************)
(* scheduleTasks takes what it is offered, and takes it once.              *)
(***************************************************************************)
TaskRecords(ids) ==
  [id : ids, duration : Int, priority : Int, deadline : Int, prefers : STRING]

\* The parts of a large task are tasks.
LEMMA PartsAreTasks ==
  ASSUME NEW ids, NEW task \in TaskRecords(ids)
  PROVE  Parts(task) \in Seq(TaskRecords(ids))
<1> DEFINE T == TaskRecords(ids)
           n == (task.duration + MaxTaskDuration - 1) \div MaxTaskDuration
           part(i) == [task EXCEPT !.duration =
                         Earlier(MaxTaskDuration, task.duration - (i - 1) * MaxTaskDuration)]
<1>1. task.duration \in Int /\ MaxTaskDuration \in Nat \ {0}
  BY SlotsAssumption DEF TaskRecords
<1>2. CASE task.duration <= MaxTaskDuration
  <2>1. Parts(task) = <<task>>
    BY <1>2 DEF Parts
  <2> QED BY <2>1
<1>3. CASE ~(task.duration <= MaxTaskDuration)
  <2>1. n \in Nat
    BY <1>1, <1>3
  <2>2. \A i \in 1..n : part(i) \in T
    <3> SUFFICES ASSUME NEW i \in Int PROVE part(i) \in T
      OBVIOUS
    <3> DEFINE d == Earlier(MaxTaskDuration, task.duration - (i - 1) * MaxTaskDuration)
    <3>1. (i - 1) * MaxTaskDuration \in Int
      BY <1>1
    <3>2. d \in Int
      BY <1>1, <3>1 DEF Earlier
    <3> HIDE DEF d
    <3>3. [task EXCEPT !.duration = d] \in T
      BY <3>2 DEF TaskRecords
    <3> QED BY <3>3 DEF d
  <2>3. Parts(task) = [i \in 1..n |-> part(i)]
    BY <1>3 DEF Parts
  <2> HIDE DEF n, part, T
  <2>4. Parts(task) \in [1..n -> T]
    BY <2>2, <2>3
  <2> QED BY <2>1, <2>4, FunctionIsList DEF T
<1> QED BY <1>2, <1>3

\* r is s in another order.
IsRearranged(r, s) ==
  /\ Len(r) = Len(s)
  /\ \E g \in [1..Len(s) -> 1..Len(s)] :
       /\ \A k \in 1..Len(s) : r[k] = s[g[k]]
       /\ \A i \in 1..Len(s) : \E k \in 1..Len(s) : g[k] = i

\* prioritizeTasks compares by an order: it keeps the tasks and puts the more important
\* ones first.
LEMMA PrioritiesAreOrdered ==
  ASSUME NEW ids, NEW tasks \in Seq(TaskRecords(ids))
  PROVE  /\ ByPriority(tasks) \in Seq(TaskRecords(ids)) /\ Len(ByPriority(tasks)) = Len(tasks)
         /\ IsRearranged(ByPriority(tasks), tasks)
         /\ \A k, l \in 1..Len(tasks) :
              k < l => ByPriority(tasks)[k].priority >= ByPriority(tasks)[l].priority
<1> DEFINE n == Len(tasks)
           before == {p \in Places(tasks) : ComesBefore(tasks[p[1]], tasks[p[2]])}
           r == ByPriority(tasks)
<1>1. n \in Nat /\ DOMAIN tasks = 1..n /\ \A i \in 1..n : tasks[i] \in TaskRecords(ids)
  BY LenProperties, ElementOfSeq
<1>2. \A i, j \in 1..n : <<i, j>> \in before <=> ComesBefore(tasks[i], tasks[j])
  BY <1>1 DEF Places
<1>3. \A t, u, w \in TaskRecords(ids) :
        /\ ~(ComesBefore(t, u) /\ ComesBefore(u, t))
        /\ ComesBefore(t, w) => ComesBefore(t, u) \/ ComesBefore(u, w)
  BY DEF ComesBefore, TaskRecords, NoDeadline
<1>4. IsWeakOrder(before, n)
  <2> HIDE DEF before, n
  <2> SUFFICES ASSUME NEW i \in 1..n, NEW j \in 1..n, NEW k \in 1..n
               PROVE  /\ ~(<<i, j>> \in before /\ <<j, i>> \in before)
                      /\ <<i, k>> \in before => <<i, j>> \in before \/ <<j, k>> \in before
    BY DEF IsWeakOrder
  <2>1. /\ tasks[i] \in TaskRecords(ids) /\ tasks[j] \in TaskRecords(ids)
        /\ tasks[k] \in TaskRecords(ids)
    BY <1>1
  <2> QED BY <1>2, <1>3, <2>1
<1>5. r = Sorted(tasks, before)
  BY DEF ByPriority
<1> HIDE DEF before
<1>6. Len(Sorted(tasks, before)) = n /\ Sorted(tasks, before) \in Seq(TaskRecords(ids))
  BY <1>4, SortedProperties
<1>7. PICK g \in [1..n -> 1..n] :
        /\ \A k \in 1..n : Sorted(tasks, before)[k] = tasks[g[k]]
        /\ \A i \in 1..n : \E k \in 1..n : g[k] = i
        /\ \A k, l \in 1..n : k < l => <<g[l], g[k]>> \notin before
  BY <1>4, SortedProperties
<1> HIDE DEF r
<1>8. \A k \in 1..n : r[k] = tasks[g[k]]
  BY <1>5, <1>7
<1>9. IsRearranged(r, tasks)
  BY <1>5, <1>6, <1>7, <1>8 DEF IsRearranged
<1>10. ASSUME NEW k \in 1..n, NEW l \in 1..n, k < l PROVE r[k].priority >= r[l].priority
  <2>1. g[k] \in 1..n /\ g[l] \in 1..n /\ r[k] = tasks[g[k]] /\ r[l] = tasks[g[l]]
    BY <1>8
  <2>2. ~ComesBefore(r[l], r[k])
    BY <1>2, <1>7, <1>10, <2>1
  <2>3. r[k].priority \in Int /\ r[l].priority \in Int
    BY <1>1, <2>1 DEF TaskRecords
  <2> QED BY <2>2, <2>3 DEF ComesBefore
<1>11. r \in Seq(TaskRecords(ids)) /\ Len(r) = n
  BY <1>5, <1>6
<1> QED BY <1>9, <1>10, <1>11 DEF r, n

\* Scores can be compared.
LEMMA ScoreIsNumber ==
  ASSUME NEW ids, NEW task \in TaskRecords(ids), NEW slot \in Slots
  PROVE  Score(task, slot) \in Int
<1> DEFINE days == ((task.deadline - slot.start) * UnitMinutes) \div 1440
           excess == (Length(slot) - task.duration) * UnitMinutes
           hour == HourOf(slot.start)
<1>1. /\ slot.start \in Int /\ slot.end \in Int /\ UnitMinutes \in Int
      /\ task.deadline \in Int /\ task.duration \in Int
  BY SlotsAssumption DEF Slots, TaskRecords
<1>2. days \in Int
  BY <1>1
<1>3. excess \in Int
  BY <1>1 DEF Length
<1>4. hour \in Int
  BY <1>1 DEF HourOf
<1>5. slot.end * UnitMinutes \in Int
  BY <1>1
<1> DEFINE working == IF hour >= 9 /\ slot.end * UnitMinutes <= 1080 THEN 50 ELSE 0
           suiting == IF Suits(task, slot) THEN 100 ELSE 0
           late == IF task.deadline = NoDeadline THEN 0
                   ELSE IF days < 0 THEN 1000 ELSE IF days > 7 THEN days * 5 ELSE 0
<1>6. Score(task, slot) = 100 - excess + (24 - hour) * 2 + working + suiting - late
  BY DEF Score
<1> HIDE DEF days, excess, hour
<1>7. working \in Int /\ suiting \in Int /\ late \in Int
  BY <1>2
<1> HIDE DEF working, suiting, late
<1> QED BY <1>3, <1>4, <1>6, <1>7

\* The slots a task is offered are among those that are free and long enough.
LEMMA BestSlotsFit ==
  ASSUME NEW ids, NEW task \in TaskRecords(ids), NEW F \in SUBSET Slots, NEW slots \in Seq(F)
  PROVE  BestSlots(task, slots) \in Seq({t \in F : Length(t) >= task.duration})
<1> DEFINE U == {t \in F : Length(t) >= task.duration}
           I == {i \in DOMAIN slots : Length(slots[i]) >= task.duration}
           fitting == EntriesAt(slots, I)
           J == {i \in DOMAIN fitting : Suits(task, fitting[i])}
           preferred == EntriesAt(fitting, J)
           best == IF preferred = <<>> THEN fitting ELSE preferred
           before == {p \in Places(best) : Score(task, best[p[1]]) > Score(task, best[p[2]])}
<1>1. BestSlots(task, slots) = Sorted(best, before)
  BY DEF BestSlots
<1>2. fitting \in Seq(U)
  <2>1. I \in SUBSET (1..Len(slots)) /\ \A i \in I : slots[i] \in U
    BY LenProperties, ElementOfSeq
  <2> HIDE DEF I, U
  <2> QED BY <2>1, EntriesAtChosen
<1> HIDE DEF fitting, U
<1>3. preferred \in Seq(U)
  <2>1. J \in SUBSET (1..Len(fitting))
    BY <1>2, LenProperties
  <2> HIDE DEF J
  <2> QED BY <1>2, <2>1, EntriesAtProperties
<1>4. best \in Seq(U)
  BY <1>2, <1>3
<1> HIDE DEF best
<1>5. DOMAIN best = 1..Len(best) /\ Len(best) \in Nat /\ \A i \in 1..Len(best) : best[i] \in U
  BY <1>4, LenProperties, ElementOfSeq
<1>6. \A i \in 1..Len(best) : Score(task, best[i]) \in Int
  <2>1. U \in SUBSET Slots
    BY DEF U
  <2> QED BY <1>5, <2>1, ScoreIsNumber
<1>7. \A i, j \in 1..Len(best) : <<i, j>> \in before <=> Score(task, best[i]) > Score(task, best[j])
  BY <1>5 DEF Places
<1> HIDE DEF before
<1>8. IsWeakOrder(before, Len(best))
  <2> DEFINE n == Len(best)
  <2> HIDE DEF n
  <2> SUFFICES ASSUME NEW i \in 1..n, NEW j \in 1..n, NEW k \in 1..n
               PROVE  /\ ~(<<i, j>> \in before /\ <<j, i>> \in before)
                      /\ <<i, k>> \in before => <<i, j>> \in before \/ <<j, k>> \in before
    BY DEF IsWeakOrder, n
  <2>1. /\ Score(task, best[i]) \in Int /\ Score(task, best[j]) \in Int
        /\ Score(task, best[k]) \in Int
    BY <1>6 DEF n
  <2>2. /\ <<i, j>> \in before <=> Score(task, best[i]) > Score(task, best[j])
        /\ <<j, i>> \in before <=> Score(task, best[j]) > Score(task, best[i])
        /\ <<i, k>> \in before <=> Score(task, best[i]) > Score(task, best[k])
        /\ <<j, k>> \in before <=> Score(task, best[j]) > Score(task, best[k])
    BY <1>7 DEF n
  <2> QED BY <2>1, <2>2
<1>9. Sorted(best, before) \in Seq(U)
  BY <1>4, <1>8, SortedProperties
<1> QED BY <1>1, <1>9 DEF U

\* The entries of a plan, with tasks of T at slots of F.
Placements(T, F) == [task : T, slot : F]
NoOverlaps(scheduled) ==
  \A i, j \in 1..Len(scheduled) : i # j => ~Overlap(scheduled[i].slot, scheduled[j].slot)

\* The states of scheduleTasks between two rounds: what is taken is taken once and
\* is not offered again.
PlanStates(T, F) ==
  {r \in [scheduled : Seq(Placements(T, F)), unscheduled : Seq(T), slots : Seq(F)] :
     /\ NoOverlaps(r.scheduled)
     /\ \A i \in 1..Len(r.slots), j \in 1..Len(r.scheduled) :
          ~Overlap(r.slots[i], r.scheduled[j].slot)}

\* One round of scheduleTasks: what it takes is free and is used up.
LEMMA PlacedKeepsPlan ==
  ASSUME NEW ids, NEW F, IsClosed(F),
         NEW r \in PlanStates(TaskRecords(ids), F), NEW task \in TaskRecords(ids)
  PROVE  Placed(r, task) \in PlanStates(TaskRecords(ids), F)
<1> DEFINE T == TaskRecords(ids)
           done == r.scheduled
           G == {t \in F : \A j \in 1..Len(done) : ~Overlap(t, done[j].slot)}
           best == BestSlots(task, r.slots)
           used == Slot(best[1].start, best[1].start + task.duration)
           rest == SlotsWithout(r.slots, used)
           more == Append(done, [task |-> task, slot |-> used])
<1>1. /\ r = [scheduled |-> done, unscheduled |-> r.unscheduled, slots |-> r.slots]
      /\ done \in Seq(Placements(T, F)) /\ r.unscheduled \in Seq(T) /\ r.slots \in Seq(F)
      /\ NoOverlaps(done)
      /\ \A i \in 1..Len(r.slots), j \in 1..Len(done) : ~Overlap(r.slots[i], done[j].slot)
  BY DEF PlanStates
<1>2. Len(done) \in Nat /\ \A j \in 1..Len(done) : done[j] \in Placements(T, F)
  BY <1>1, LenProperties, ElementOfSeq
<1>3. \A j \in 1..Len(done) : done[j].slot \in Slots
  BY <1>2 DEF Placements, IsClosed
<1>4. IsClosed(G) /\ G \in SUBSET F /\ F \in SUBSET Slots
  <2>1. F \in SUBSET Slots
    BY DEF IsClosed
  <2> SUFFICES ASSUME NEW a \in Slots, NEW b \in G, Within(a, b) PROVE a \in G
    BY <2>1 DEF IsClosed
  <2>2. a \in F
    BY DEF IsClosed
  <2>3. ASSUME NEW j \in 1..Len(done) PROVE ~Overlap(a, done[j].slot)
    <3>1. b \in Slots /\ ~Overlap(b, done[j].slot)
      BY <2>1
    <3> HIDE DEF G, done
    <3> QED BY <1>3, <3>1 DEF Overlap, Within, Slots
  <2> QED BY <2>2, <2>3
<1>5. r.slots \in Seq(G)
  <2>1. Len(r.slots) \in Nat /\ r.slots \in [1..Len(r.slots) -> F]
    BY <1>1, LenProperties, SeqDef
  <2>2. \A i \in 1..Len(r.slots) : r.slots[i] \in G
    BY <1>1, <2>1
  <2> HIDE DEF G
  <2>3. r.slots \in [1..Len(r.slots) -> G]
    BY <2>1, <2>2
  <2> QED BY <2>1, <2>3, FunctionIsList
<1> HIDE DEF T, done
<1>6. CASE best = <<>>
  <2>1. Placed(r, task) = [r EXCEPT !.unscheduled = Append(@, task)]
    BY <1>6 DEF Placed
  <2>2. Append(r.unscheduled, task) \in Seq(T)
    BY <1>1, AppendProperties DEF T
  <2>3. Placed(r, task) = [scheduled |-> done, unscheduled |-> Append(r.unscheduled, task),
                           slots |-> r.slots]
    BY <1>1, <2>1 DEF done
  <2> QED BY <1>1, <2>2, <2>3 DEF PlanStates, T
<1>7. CASE best # <<>>
  <2> HIDE DEF G
  <2>1. best \in Seq({t \in G : Length(t) >= task.duration})
    BY <1>4, <1>5, BestSlotsFit
  <2>2. best[1] \in G /\ Length(best[1]) >= task.duration
    <3>1. 1 \in 1..Len(best)
      BY <1>7, <2>1, EmptySeq
    <3>2. best[1] \in {t \in G : Length(t) >= task.duration}
      BY <2>1, <3>1, ElementOfSeq
    <3> QED BY <3>2
  <2>3. used \in Slots /\ Within(used, best[1])
    <3>1. best[1].start \in Int /\ best[1].end \in Int /\ task.duration \in Int
      BY <1>4, <2>2 DEF Slots, TaskRecords
    <3> HIDE DEF best
    <3> QED BY <2>2, <3>1 DEF Slot, Slots, Within, Length
  <2>4. Placed(r, task) = [r EXCEPT !.scheduled = Append(@, [task |-> task, slot |-> used]),
                                    !.slots = SlotsWithout(@, used)]
    BY <1>7 DEF Placed
  <2> HIDE DEF used, best
  <2>5. used \in G /\ used \in F
    BY <1>4, <2>2, <2>3 DEF IsClosed
  <2>6. rest \in Seq(FreeOf(G, used))
    BY <1>4, <1>5, <2>3, SlotsWithoutKeepsWithin
  <2>7. [task |-> task, slot |-> used] \in Placements(T, F)
    BY <2>5 DEF Placements, T
  <2>8. /\ more \in Seq(Placements(T, F)) /\ Len(more) = Len(done) + 1
        /\ more[Len(done) + 1] = [task |-> task, slot |-> used]
        /\ \A j \in 1..Len(done) : more[j] = done[j]
    BY <1>1, <1>2, <2>7, AppendProperties
  <2>9. Placed(r, task) = [scheduled |-> more, unscheduled |-> r.unscheduled, slots |-> rest]
    BY <1>1, <2>4 DEF done
  <2> HIDE DEF more, rest
  <2>10. \A j \in 1..Len(more) : \/ j = Len(done) + 1 /\ more[j].slot = used
                                 \/ j \in 1..Len(done) /\ more[j] = done[j]
    <3> SUFFICES ASSUME NEW j \in 1..Len(more), j # Len(done) + 1
                 PROVE  j \in 1..Len(done) /\ more[j] = done[j]
      BY <2>8
    <3>1. j \in 1..Len(done)
      BY <1>2, <2>8
    <3> QED BY <3>1, <2>8
  <2>11. \A j \in 1..Len(done) : ~Overlap(used, done[j].slot) /\ ~Overlap(done[j].slot, used)
    <3>1. \A j \in 1..Len(done) : ~Overlap(used, done[j].slot)
      BY <2>5 DEF G
    <3> QED BY <3>1, <1>3, <2>3 DEF Overlap, Slots
  <2>12. NoOverlaps(more)
    <3> SUFFICES ASSUME NEW i \in 1..Len(more), NEW j \in 1..Len(more), i # j
                 PROVE  ~Overlap(more[i].slot, more[j].slot)
      BY DEF NoOverlaps
    <3>1. CASE i \in 1..Len(done) /\ more[i] = done[i] /\ j \in 1..Len(done) /\ more[j] = done[j]
      BY <1>1, <3>1 DEF NoOverlaps
    <3>2. CASE i = Len(done) + 1 /\ more[i].slot = used /\ j \in 1..Len(done) /\ more[j] = done[j]
      BY <2>11, <3>2
    <3>3. CASE j = Len(done) + 1 /\ more[j].slot = used /\ i \in 1..Len(done) /\ more[i] = done[i]
      BY <2>11, <3>3
    <3> QED BY <2>10, <3>1, <3>2, <3>3
  <2>13. ASSUME NEW i \in 1..Len(rest), NEW j \in 1..Len(more)
         PROVE  ~Overlap(rest[i], more[j].slot)
    <3>1. rest[i] \in G /\ ~Overlap(rest[i], used)
      BY <2>6, ElementOfSeq DEF FreeOf
    <3>2. \A k \in 1..Len(done) : ~Overlap(rest[i], done[k].slot)
      BY <3>1 DEF G
    <3> QED BY <2>10, <3>1, <3>2
  <2>14. rest \in Seq(F)
    <3>1. FreeOf(G, used) \in SUBSET F
      BY <1>4 DEF FreeOf
    <3> QED BY <2>6, <3>1
  <2> QED BY <1>1, <2>8, <2>9, <2>12, <2>13, <2>14 DEF PlanStates, T
<1> QED BY <1>6, <1>7

\* The function of the rounds exists, each round follows from the one before, and
\* what it takes is free and taken once.
LEMMA ScheduleRoundsFollow ==
  ASSUME NEW ids, NEW F, IsClosed(F), NEW s \in Seq(TaskRecords(ids)), NEW slots \in Seq(F)
  PROVE  LET v == ScheduleRounds(s, slots)
         IN  /\ v[0] = [scheduled |-> <<>>, unscheduled |-> <<>>, slots |-> slots]
             /\ \A i \in 1..Len(s) : v[i] = Placed(v[i - 1], s[i])
             /\ \A i \in 0..Len(s) : v[i] \in PlanStates(TaskRecords(ids), F)
<1> DEFINE T == TaskRecords(ids)
           n == Len(s)
           S == PlanStates(T, F)
           base == [scheduled |-> <<>>, unscheduled |-> <<>>, slots |-> slots]
           advance == [p \in S \X (1..n) |-> Placed(p[1], s[p[2]])]
           Rounds(f) == [i \in 0..n |-> IF i = 0 THEN base ELSE Placed(f[i - 1], s[i])]
           v == ScheduleRounds(s, slots)
<1>1. n \in Nat /\ \A i \in 1..n : s[i] \in T
  BY LenProperties, ElementOfSeq
<1>2. base \in S
  <2>1. <<>> \in Seq(Placements(T, F)) /\ <<>> \in Seq(T) /\ \A i \in 1..Len(<<>>) : FALSE
    BY EmptySeq
  <2> HIDE DEF T
  <2> QED BY <2>1 DEF PlanStates, NoOverlaps
<1>3. \A q \in S, t \in T : Placed(q, t) \in S
  BY PlacedKeepsPlan
<1>4. v = CHOOSE f : f = Rounds(f)
  BY <1>1 DEF ScheduleRounds
<1> HIDE DEF n, S, T, base, v
<1>5. PICK g : Iterates(g, S, base, n, advance)
  <2>1. advance \in [S \X (1..n) -> S]
    BY <1>1, <1>3
  <2> HIDE DEF advance
  <2> QED BY <1>1, <1>2, <2>1, IteratesExists
<1>6. g = Rounds(g)
  <2>1. ASSUME NEW i \in 0..n PROVE g[i] = IF i = 0 THEN base ELSE Placed(g[i - 1], s[i])
    <3>1. CASE i = 0
      BY <3>1, <1>5 DEF Iterates
    <3>2. CASE i # 0
      <4>1. i \in 1..n /\ i - 1 \in 0..n
        BY <3>2, <1>1
      <4>2. g[i - 1] \in S /\ g[i] = advance[<<g[i - 1], i>>]
        BY <4>1, <1>5 DEF Iterates
      <4> QED BY <3>2, <4>1, <4>2
    <3> QED BY <3>1, <3>2
  <2> QED BY <1>5, <2>1 DEF Iterates
<1>7. v = Rounds(v)
  BY <1>4, <1>6
<1>8. v[0] = base /\ \A i \in 1..n : v[i] = Placed(v[i - 1], s[i])
  BY <1>1, <1>7
<1> DEFINE I == {k \in Nat : k <= n => v[k] \in S}
<1>9. 0 \in I
  BY <1>2, <1>8
<1>10. ASSUME NEW k \in I PROVE k + 1 \in I
  <2> SUFFICES ASSUME k + 1 <= n PROVE v[k + 1] \in S
    OBVIOUS
  <2>1. k \in Nat /\ k + 1 \in 1..n /\ (k + 1) - 1 = k /\ k <= n
    BY <1>1
  <2> QED BY <1>1, <1>3, <1>8, <2>1
<1> HIDE DEF I
<1>11. I = Nat
  <2>1. I \in SUBSET Nat
    BY DEF I
  <2> QED BY <1>9, <1>10, <2>1, InductOn
<1>12. \A i \in 0..n : v[i] \in S
  BY <1>1, <1>11 DEF I
<1> QED BY <1>8, <1>12 DEF v, base, n, S, T

\* What scheduleTasks makes of free slots.
LEMMA ScheduleKeepsPlan ==
  ASSUME NEW ids, NEW F, IsClosed(F),
         NEW tasks \in Seq(TaskRecords(ids)), NEW slots \in Seq(F)
  PROVE  ScheduleTasks(tasks, slots) \in PlanStates(TaskRecords(ids), F)
<1> DEFINE sorted == ByPriority(tasks)
           n == Len(tasks)
<1>1. sorted \in Seq(TaskRecords(ids)) /\ Len(sorted) = n /\ n \in Nat
  BY PrioritiesAreOrdered, LenProperties
<1>2. ScheduleTasks(tasks, slots) = ScheduleRounds(sorted, slots)[n]
  BY DEF ScheduleTasks
<1> HIDE DEF sorted, n
<1>3. \A i \in 0..Len(sorted) : ScheduleRounds(sorted, slots)[i] \in PlanStates(TaskRecords(ids), F)
  BY <1>1, ScheduleRoundsFollow
<1> QED BY <1>1, <1>2, <1>3

\* What lies in a usable slot is usable.
LEMMA UsableSlotsAreClosed ==
  ASSUME NEW es \in Seq(Slots)
  PROVE  IsClosed(UsableSlots(es))
<1> SUFFICES ASSUME NEW a \in Slots, NEW b \in UsableSlots(es), Within(a, b)
             PROVE  a \in UsableSlots(es)
  BY DEF IsClosed, UsableSlots
<1>1. PICK w \in FreeSlots(es) : IsLong(w) /\ Within(b, w)
  BY DEF UsableSlots
<1>2. b \in Slots /\ w \in Slots
  BY DEF UsableSlots, FreeSlots
<1>3. Within(a, w)
  BY <1>1, <1>2 DEF Within, Slots
<1> QED BY <1>1, <1>3 DEF UsableSlots

\* Whatever the events and the tasks of a day are, a plan of scheduleForDate uses free
\* time only, inside the working hours and outside the buffers of the events and in
\* stretches that are long enough, and gives no time to two tasks.
THEOREM PlansUseFreeTimeOnce ==
  ASSUME NEW ids, NEW es \in Seq(Slots), NEW tasks \in Seq(TaskRecords(ids))
  PROVE  LET scheduled == PlanOfDay(es, tasks).scheduled
         IN  /\ scheduled \in Seq(Placements(TaskRecords(ids), UsableSlots(es)))
             /\ NoOverlaps(scheduled)
<1> DEFINE T == TaskRecords(ids)
           F == UsableSlots(es)
           parts == [i \in DOMAIN tasks |-> Parts(tasks[i])]
<1>1. FlattenSeq(parts) \in Seq(T)
  <2>1. /\ Len(tasks) \in Nat /\ DOMAIN tasks = 1..Len(tasks)
        /\ \A i \in 1..Len(tasks) : tasks[i] \in T
    BY LenProperties, ElementOfSeq
  <2>2. \A i \in 1..Len(tasks) : Parts(tasks[i]) \in Seq(T)
    BY <2>1, PartsAreTasks
  <2>3. parts \in [1..Len(tasks) -> Seq(T)]
    <3> HIDE DEF T
    <3> QED BY <2>1, <2>2
  <2> HIDE DEF parts, T
  <2>4. parts \in Seq(Seq(T))
    BY <2>1, <2>3, FunctionIsList
  <2> QED BY <2>4, FlattenedIsList
<1>2. IsClosed(F)
  BY UsableSlotsAreClosed
<1>3. AvailableSlots(es) \in Seq(F)
  BY AvailableSlotsAreFree
<1>4. PlanOfDay(es, tasks) = ScheduleTasks(FlattenSeq(parts), AvailableSlots(es))
  BY DEF PlanOfDay
<1> HIDE DEF parts, T, F
<1>5. PlanOfDay(es, tasks) \in PlanStates(T, F)
  BY <1>1, <1>2, <1>3, <1>4, ScheduleKeepsPlan DEF T
<1> QED BY <1>5 DEF PlanStates, T, F

-----------------------------------------------------------------------------
(***************************************************************************)
(* Proofs about the two calendars of the scheduling service, for any tasks *)
(* and any number of requests.  What is not in the two properties and has  *)
(* to be known with them is how far a request is in its plan, and that the *)
(* plan of a request to commit takes free time only, and once.             *)
(***************************************************************************)
Steps == Ended \cup {"planning", "saving", "pushing"}

TaskIds == {t.id : t \in DayTasks}
PlacedTasks == Placements(TaskRecords(TaskIds), Slots)

Sorts == {"none", "commit", "reschedule", "manual"}
PlanTypes ==
  /\ step \in [Calls -> Steps]
  /\ kind \in [Calls -> Sorts] /\ DOMAIN current = Calls
  /\ plan \in [Calls -> Seq(PlacedTasks)]
  /\ unmet \in SUBSET DayTasks
  /\ \A e \in DOMAIN events : e[1] \in Calls
  /\ copies \in SUBSET DOMAIN events

\* The first k events of a request's plan are in the store, and no others of it; all
\* but the last have their copies for certain.
Follows(c, k) ==
  /\ k \in 0..Len(plan[c])
  /\ current[c] = IF k = 0 THEN NoEvent ELSE <<c, k>>
  /\ \A i \in 1..k : <<c, i>> \in DOMAIN events /\ events[<<c, i>>] = plan[c][i].slot
  /\ \A e \in DOMAIN events : e[1] = c => \E i \in 1..k : e = <<c, i>>
  /\ \A i \in 1..k : i < k \/ step[c] \notin {"pushing", "unpushed"} => <<c, i>> \in copies
  /\ step[c] \in {"idle", "planning"} => plan[c] = <<>>
  /\ step[c] = "saving" => k < Len(plan[c])
  /\ step[c] = "pushing" => k > 0
  /\ step[c] = "done" => k = Len(plan[c])

IsInDay(slots) == \A i \in 1..Len(slots) : Within(slots[i].slot, Day)
CommitsArePlans == \A c \in Calls : kind[c] = "commit" => NoOverlaps(plan[c]) /\ IsInDay(plan[c])

FollowInv == PlanTypes /\ CommitsArePlans /\ \A c \in Calls : \E k : Follows(c, k)

\* No request has a plan at first.
LEMMA FollowInvHoldsFirst == PlanningInit => FollowInv
<1> SUFFICES ASSUME PlanningInit PROVE FollowInv
  OBVIOUS
<1>1. DOMAIN <<>> = {} /\ Len(<<>>) = 0 /\ <<>> \in Seq(PlacedTasks)
  BY EmptySeq
<1>2. PlanTypes
  BY <1>1 DEF PlanningInit, PlanTypes, Steps, Ended, Sorts
<1>3. CommitsArePlans
  BY DEF PlanningInit, CommitsArePlans
<1>4. ASSUME NEW c \in Calls PROVE Follows(c, 0)
  BY <1>1 DEF PlanningInit, Follows
<1> QED BY <1>2, <1>3, <1>4 DEF FollowInv

\* A request does not notice what another does with its own events.
LEMMA OthersFollow ==
  ASSUME FollowInv, NEW c \in Calls, NEW d \in Calls, d # c,
         plan'[d] = plan[d], current'[d] = current[d], step'[d] = step[d],
         \A e : e[1] = d => /\ e \in DOMAIN events' <=> e \in DOMAIN events
                            /\ e \in DOMAIN events => events'[e] = events[e]
                            /\ e \in copies' <=> e \in copies
  PROVE  \E k : Follows(d, k)'
<1>1. PICK k : Follows(d, k)
  BY DEF FollowInv
<1>2. \A i \in 1..k : <<d, i>>[1] = d
  OBVIOUS
<1>3. k \in 0..Len(plan'[d]) /\ current'[d] = IF k = 0 THEN NoEvent ELSE <<d, k>>
  BY <1>1 DEF Follows
<1>4. \A i \in 1..k : <<d, i>> \in DOMAIN events' /\ events'[<<d, i>>] = plan'[d][i].slot
  BY <1>1, <1>2 DEF Follows
<1>5. \A e \in DOMAIN events' : e[1] = d => \E i \in 1..k : e = <<d, i>>
  BY <1>1 DEF Follows
<1>6. \A i \in 1..k : i < k \/ step'[d] \notin {"pushing", "unpushed"} => <<d, i>> \in copies'
  BY <1>1, <1>2 DEF Follows
<1>7. /\ step'[d] \in {"idle", "planning"} => plan'[d] = <<>>
      /\ step'[d] = "saving" => k < Len(plan'[d])
      /\ step'[d] = "pushing" => k > 0
      /\ step'[d] = "done" => k = Len(plan'[d])
  BY <1>1 DEF Follows
<1>8. Follows(d, k)'
  BY <1>3, <1>4, <1>5, <1>6, <1>7 DEF Follows, NoEvent
<1> QED BY <1>8

\* A request that moves on without an event: it may have made its plan before its
\* first event.
LEMMA PlanningStepInv ==
  ASSUME FollowInv, NEW c \in Calls, NEW k, NEW how \in Steps, NEW p \in Seq(PlacedTasks),
         NEW sort \in Sorts,
         Follows(c, k), p = plan[c] \/ k = 0,
         step' = [step EXCEPT ![c] = how], plan' = [plan EXCEPT ![c] = p],
         kind' = [kind EXCEPT ![c] = sort],
         UNCHANGED <<events, copies, current, unmet>>,
         sort = "commit" => NoOverlaps(p) /\ IsInDay(p),
         step[c] \in {"pushing", "unpushed"} => how \in {"pushing", "unpushed"},
         how \in {"idle", "planning"} => p = <<>>,
         how = "saving" => k < Len(p),
         how = "pushing" => k > 0,
         how = "done" => k = Len(p)
  PROVE  FollowInv'
<1>1. /\ PlanTypes
      /\ DOMAIN step = Calls /\ DOMAIN plan = Calls /\ DOMAIN kind = Calls
  BY DEF FollowInv, PlanTypes
<1>2. /\ step'[c] = how /\ plan'[c] = p /\ kind'[c] = sort
      /\ \A d \in Calls : d # c => step'[d] = step[d] /\ plan'[d] = plan[d] /\ kind'[d] = kind[d]
  BY <1>1
<1>3. PlanTypes'
  <2>1. step' \in [Calls -> Steps]
    BY <1>1 DEF PlanTypes
  <2>2. plan' \in [Calls -> Seq(PlacedTasks)]
    BY <1>1 DEF PlanTypes
  <2>3. kind' \in [Calls -> Sorts]
    BY <1>1 DEF PlanTypes
  <2>4. PlacedTasks' = PlacedTasks /\ Steps' = Steps
    BY DEF PlacedTasks, Placements, TaskRecords, TaskIds, Slots, Steps, Ended, Sorts
  <2> QED BY <1>1, <2>1, <2>2, <2>3, <2>4 DEF PlanTypes, Sorts
<1>4. CommitsArePlans'
  <2>1. \A d \in Calls : kind'[d] = "commit" => NoOverlaps(plan'[d]) /\ IsInDay(plan'[d])
    BY <1>2 DEF FollowInv, CommitsArePlans
  <2> QED BY <2>1 DEF CommitsArePlans, IsInDay, NoOverlaps, Overlap, Within, Day
<1>5. Follows(c, k)'
  <2>1. k \in 0..Len(p)
    <3>1. Len(p) \in Nat
      BY LenProperties
    <3> QED BY <3>1 DEF Follows
  <2>2. \A i \in 1..k : <<c, i>> \in DOMAIN events /\ events[<<c, i>>] = p[i].slot
    <3>1. CASE p = plan[c]
      BY <3>1 DEF Follows
    <3>2. CASE k = 0
      BY <3>2
    <3> QED BY <3>1, <3>2
  <2>3. \A i \in 1..k : i < k \/ how \notin {"pushing", "unpushed"} => <<c, i>> \in copies
    BY DEF Follows
  <2>4. /\ current[c] = IF k = 0 THEN NoEvent ELSE <<c, k>>
        /\ \A e \in DOMAIN events : e[1] = c => \E i \in 1..k : e = <<c, i>>
    BY DEF Follows
  <2> QED BY <1>2, <2>1, <2>2, <2>3, <2>4 DEF Follows, NoEvent
<1>6. ASSUME NEW d \in Calls, d # c PROVE \E m : Follows(d, m)'
  BY <1>2, <1>6, OthersFollow
<1> QED BY <1>3, <1>4, <1>5, <1>6 DEF FollowInv

\* The order of a set that SetToSeq chooses has all its members.
LEMMA SetAsList ==
  ASSUME NEW S, IsFiniteSet(S)
  PROVE  SetToSeq(S) \in Seq(S) /\ ToSet(SetToSeq(S)) = S
<1> DEFINE n == Cardinality(S)
           f == SetToSeq(S)
<1>1. n \in Nat /\ ExistsBijection(1..n, S)
  BY FS_CardinalityType
<1>2. \E h \in [1..n -> S] : IsInjective(h)
  BY <1>1 DEF ExistsBijection, Bijection, Injection, IsInjective
<1>3. f \in [1..n -> S] /\ IsInjective(f)
  BY <1>2 DEF SetToSeq
<1> HIDE DEF n, f
<1>4. f \in Injection(1..n, S)
  BY <1>3 DEF Injection, IsInjective
<1>5. f \in Surjection(1..n, S)
  <2>1. IsFiniteSet(1..n) /\ Cardinality(1..n) = n
    BY <1>1, FS_Interval
  <2> QED BY <1>4, <2>1, FS_Injection DEF n
<1>6. \A x \in S : \E i \in 1..n : f[i] = x
  BY <1>5 DEF Surjection
<1>7. f \in Seq(S) /\ DOMAIN f = 1..n
  BY <1>1, <1>3, FunctionIsList
<1>8. ToSet(f) = S
  BY <1>3, <1>6, <1>7 DEF ToSet
<1> QED BY <1>7, <1>8 DEF f

\* The tasks of a user in some order.
LEMMA OrdersAreTasks ==
  ASSUME NEW tasks \in SUBSET DayTasks, NEW order \in SetToSeqs(tasks)
  PROVE  /\ order \in Seq(TaskRecords(TaskIds)) /\ order \in Seq(tasks)
         /\ \A i, j \in 1..Len(order) : i # j => order[i] # order[j]
<1>1. DayTasks \in SUBSET TaskRecords(TaskIds) /\ IsFiniteSet(tasks)
  <2>1. DayTasks \in SUBSET TaskRecords(TaskIds)
    BY PlanningAssumption DEF TaskRecords, TaskIds
  <2> QED BY <2>1, PlanningAssumption, FS_Subset
<1>2. /\ order \in [1..Cardinality(tasks) -> tasks] /\ Cardinality(tasks) \in Nat
      /\ \A i, j \in 1..Cardinality(tasks) : i # j => order[i] # order[j]
  BY <1>1, FS_CardinalityType DEF SetToSeqs
<1>3. order \in Seq(tasks) /\ Len(order) = Cardinality(tasks)
  BY <1>2, FunctionIsList
<1> QED BY <1>1, <1>2, <1>3

\* A plan to commit is in the day and takes no time twice.
LEMMA PlanInv == ASSUME FollowInv, NEW c \in Calls, Plan(c) PROVE FollowInv'
<1>1. step[c] = "planning" /\ UNCHANGED <<events, copies, unmet, kind, current>>
  BY DEF Plan
<1>2. PICK order \in SetToSeqs(unmet) :
        LET scheduled == PlanOfDay(SetToSeq(FindInTimeRange), order).scheduled
            commits == kind[c] = "commit" /\ scheduled # <<>>
        IN  /\ plan' = [plan EXCEPT ![c] = IF commits THEN scheduled ELSE <<>>]
            /\ step' = [step EXCEPT ![c] = IF commits THEN "saving" ELSE "done"]
  BY DEF Plan
<1> DEFINE es == SetToSeq(FindInTimeRange)
           scheduled == PlanOfDay(es, order).scheduled
<1>3. PICK p, how : /\ plan' = [plan EXCEPT ![c] = p] /\ step' = [step EXCEPT ![c] = how]
                    /\ \/ p = scheduled /\ p # <<>> /\ how = "saving"
                       \/ p = <<>> /\ how = "done"
  BY <1>2
<1> HIDE DEF scheduled
<1>4. es \in Seq(Slots)
  <2>1. FindInTimeRange = {} /\ IsFiniteSet({})
    BY FS_EmptySet DEF FindInTimeRange
  <2>2. SetToSeq(FindInTimeRange) \in Seq({})
    BY <2>1, SetAsList
  <2> QED BY <2>2
<1>5. order \in Seq(TaskRecords(TaskIds))
  BY OrdersAreTasks DEF FollowInv, PlanTypes
<1> HIDE DEF es
<1>6. /\ scheduled \in Seq(Placements(TaskRecords(TaskIds), UsableSlots(es)))
      /\ NoOverlaps(scheduled)
  BY <1>4, <1>5, PlansUseFreeTimeOnce DEF scheduled
<1>7. scheduled \in Seq(PlacedTasks) /\ IsInDay(scheduled)
  <2>1. \A t \in UsableSlots(es) : t \in Slots /\ Within(t, Day)
    <3> SUFFICES ASSUME NEW t \in UsableSlots(es) PROVE t \in Slots /\ Within(t, Day)
      OBVIOUS
    <3>1. PICK w \in FreeSlots(es) : Within(t, w)
      BY DEF UsableSlots
    <3>2. t \in Slots /\ w \in Slots /\ Within(w, Day) /\ Day \in Slots
      BY SlotsAssumption DEF UsableSlots, FreeSlots, Day, Slot, Slots
    <3> QED BY <3>1, <3>2 DEF Within, Slots
  <2>2. Placements(TaskRecords(TaskIds), UsableSlots(es)) \in SUBSET PlacedTasks
    BY <2>1 DEF PlacedTasks, Placements
  <2>3. \A i \in 1..Len(scheduled) : scheduled[i] \in Placements(TaskRecords(TaskIds), UsableSlots(es))
    BY <1>6, ElementOfSeq
  <2>4. \A i \in 1..Len(scheduled) : scheduled[i].slot \in UsableSlots(es)
    BY <2>3 DEF Placements
  <2> QED BY <1>6, <2>1, <2>2, <2>4 DEF IsInDay
<1>8. /\ p \in Seq(PlacedTasks) /\ NoOverlaps(p) /\ IsInDay(p)
      /\ how = "saving" => 0 < Len(p)
      /\ how = "done" => 0 = Len(p)
      /\ how \in {"saving", "done"}
  <2>1. Len(<<>>) = 0 /\ <<>> \in Seq(PlacedTasks) /\ \A i \in 1..Len(<<>>) : FALSE
    BY EmptySeq
  <2>2. CASE p = scheduled /\ p # <<>> /\ how = "saving"
    <3>1. Len(p) \in Nat /\ Len(p) # 0
      BY <1>7, <2>2, EmptySeq, LenProperties
    <3> QED BY <1>6, <1>7, <2>2, <3>1
  <2>3. CASE p = <<>> /\ how = "done"
    BY <2>1, <2>3 DEF NoOverlaps, IsInDay
  <2> QED BY <1>3, <2>2, <2>3
<1>9. Follows(c, 0)
  <2>1. PICK k : Follows(c, k)
    BY DEF FollowInv
  <2>2. k = 0
    BY <1>1, <2>1, EmptySeq DEF Follows
  <2> QED BY <2>1, <2>2
<1>10. kind' = [kind EXCEPT ![c] = kind[c]] /\ kind[c] \in Sorts
  BY <1>1 DEF FollowInv, PlanTypes
<1>11. how \in Steps
  BY <1>8 DEF Steps, Ended
<1> QED BY <1>1, <1>3, <1>8, <1>9, <1>10, <1>11, PlanningStepInv

\* A request begins.
LEMMA OpenInv ==
  ASSUME FollowInv, NEW c \in Calls,
         Commit(c) \/ Reschedule(c) \/ (\E t \in DayTasks, s \in ManualStarts : PlaceByHand(c, t, s))
  PROVE  FollowInv'
<1>1. step[c] = "idle" /\ UNCHANGED <<events, copies, unmet, current>>
  BY DEF Commit, Reschedule, PlaceByHand, Open
<1>2. Follows(c, 0)
  <2>1. PICK k : Follows(c, k)
    BY DEF FollowInv
  <2>2. k = 0
    BY <1>1, <2>1, EmptySeq DEF Follows
  <2> QED BY <2>1, <2>2
<1>3. CASE Commit(c) \/ Reschedule(c)
  <2>1. PICK sort \in {"commit", "reschedule"} :
          /\ kind' = [kind EXCEPT ![c] = sort] /\ step' = [step EXCEPT ![c] = "planning"]
          /\ plan' = plan /\ sort \in Sorts
    BY <1>3 DEF Commit, Reschedule, Open, Sorts
  <2> DEFINE p == <<>>
  <2>2. p \in Seq(PlacedTasks) /\ NoOverlaps(p) /\ IsInDay(p)
    <3>1. Len(p) = 0 /\ p \in Seq(PlacedTasks)
      BY EmptySeq
    <3> QED BY <3>1 DEF NoOverlaps, IsInDay
  <2>3. plan[c] = p
    \* An idle request has not planned yet.
    BY <1>1, <1>2 DEF Follows
  <2>4. plan' = [plan EXCEPT ![c] = p]
    BY <2>1, <2>3 DEF FollowInv, PlanTypes
  <2>5. "planning" \in Steps
    BY DEF Steps
  <2>6. p = <<>>
    OBVIOUS
  <2> HIDE DEF p
  <2> QED BY ONLY FollowInv, c \in Calls, <1>1, <1>2, <2>1, <2>2, <2>4, <2>5, <2>6, PlanningStepInv
<1>4. ASSUME NEW t \in DayTasks, NEW s \in ManualStarts, PlaceByHand(c, t, s) PROVE FollowInv'
  <2> DEFINE w == [task |-> t, slot |-> Slot(s, s + t.duration)]
             p == <<w>>
  <2>1. /\ kind' = [kind EXCEPT ![c] = "manual"] /\ step' = [step EXCEPT ![c] = "saving"]
        /\ plan' = [plan EXCEPT ![c] = p] /\ "manual" \in Sorts
    BY <1>4 DEF PlaceByHand, Open, Sorts
  <2>2. w \in PlacedTasks
    <3>1. t \in TaskRecords(TaskIds) /\ t.duration \in Nat /\ s \in Nat
      BY PlanningAssumption DEF TaskRecords, TaskIds
    <3>2. Slot(s, s + t.duration) \in Slots
      BY <3>1 DEF Slot, Slots
    <3> QED BY <3>1, <3>2 DEF PlacedTasks, Placements
  <2> HIDE DEF w
  <2>3. p \in Seq(PlacedTasks) /\ 0 < Len(p)
    BY <2>2
  <2>4. "saving" \in Steps
    BY DEF Steps
  <2> HIDE DEF p
  <2> QED BY <1>1, <1>2, <2>1, <2>3, <2>4, PlanningStepInv
<1> QED BY <1>3, <1>4

\* The event that is saved is the next of the plan.
LEMMA SaveInv == ASSUME FollowInv, NEW c \in Calls, Save(c) PROVE FollowInv'
<1>1. PICK k : Follows(c, k)
  BY DEF FollowInv
<1> DEFINE n == k + 1
           e == <<c, n>>
<1>2. /\ step[c] = "saving" /\ step' = [step EXCEPT ![c] = "pushing"]
      /\ UNCHANGED <<copies, unmet, kind, plan>>
      /\ current' = [current EXCEPT ![c] = NextEvent(c)]
      /\ events' = [f \in DOMAIN events \cup {NextEvent(c)} |->
                      IF f = NextEvent(c) THEN plan[c][NextEvent(c)[2]].slot ELSE events[f]]
  BY DEF Save
<1>3. Len(plan[c]) \in Nat /\ k \in 0..Len(plan[c]) /\ n \in 1..Len(plan[c]) /\ k < n
  <2>1. Len(plan[c]) \in Nat
    BY LenProperties DEF FollowInv, PlanTypes
  <2> QED BY <1>1, <1>2, <2>1 DEF Follows
<1>4. NextEvent(c) = e
  <2>1. CASE k = 0
    BY <1>1, <2>1 DEF Follows, NextEvent
  <2>2. CASE k # 0
    <3>1. current[c] = <<c, k>>
      BY <1>1, <2>2 DEF Follows
    <3>2. Len(<<c, k>>) = 2 /\ Len(<<>>) = 0
      OBVIOUS
    <3>3. <<c, k>> # NoEvent
      BY <3>2 DEF NoEvent
    <3> QED BY <3>1, <3>3 DEF NextEvent
  <2> QED BY <2>1, <2>2
<1>5. /\ step'[c] = "pushing" /\ current'[c] = e
      /\ \A d \in Calls : d # c => step'[d] = step[d] /\ current'[d] = current[d]
      /\ DOMAIN events' = DOMAIN events \cup {e} /\ events'[e] = plan[c][n].slot
      /\ \A f \in DOMAIN events : f # e => events'[f] = events[f]
  BY <1>2, <1>4 DEF FollowInv, PlanTypes
<1>6. PlanTypes'
  <2>1. step' \in [Calls -> Steps]
    <3>1. "pushing" \in Steps
      BY DEF Steps
    <3> QED BY <1>2, <3>1 DEF FollowInv, PlanTypes
  <2>2. DOMAIN current' = Calls
    BY <1>2 DEF FollowInv, PlanTypes
  <2>3. \A f \in DOMAIN events' : f[1] \in Calls
    BY <1>5 DEF FollowInv, PlanTypes
  <2>4. copies' \in SUBSET DOMAIN events'
    BY <1>2, <1>5 DEF FollowInv, PlanTypes
  <2>5. PlacedTasks' = PlacedTasks /\ Steps' = Steps
    BY DEF PlacedTasks, Placements, TaskRecords, TaskIds, Slots, Steps, Ended, Sorts
  <2> QED BY <1>2, <2>1, <2>2, <2>3, <2>4, <2>5 DEF FollowInv, PlanTypes
<1>7. CommitsArePlans'
  BY <1>2 DEF FollowInv, CommitsArePlans, NoOverlaps, IsInDay, Overlap, Within, Day
<1>8. Follows(c, n)'
  <2>1. \A i \in 1..n : i \in 1..k \/ i = n
    BY <1>3
  <2>2. \A i \in 1..k : <<c, i>> # e
    BY <1>3
  <2>3. \A i \in 1..n : <<c, i>> \in DOMAIN events' /\ events'[<<c, i>>] = plan'[c][i].slot
    BY <1>1, <1>2, <1>5, <2>1, <2>2 DEF Follows
  <2>4. \A f \in DOMAIN events' : f[1] = c => \E i \in 1..n : f = <<c, i>>
    BY <1>1, <1>3, <1>5 DEF Follows
  <2>5. \A i \in 1..n : i < n => <<c, i>> \in copies'
    <3> SUFFICES ASSUME NEW i \in 1..n, i < n PROVE <<c, i>> \in copies'
      OBVIOUS
    <3>1. i \in 1..k /\ step[c] \notin {"pushing", "unpushed"}
      BY <1>2, <1>3
    <3> QED BY <1>1, <1>2, <3>1 DEF Follows
  <2>6. n # 0 /\ n > 0 /\ n \in 0..Len(plan'[c])
    BY <1>2, <1>3
  <2> HIDE DEF n, e
  <2> QED BY <1>5, <2>3, <2>4, <2>5, <2>6 DEF Follows, NoEvent, e
<1>9. ASSUME NEW d \in Calls, d # c PROVE \E m : Follows(d, m)'
  <2>1. e[1] = c
    OBVIOUS
  <2> QED BY <1>2, <1>5, <1>9, <2>1, OthersFollow
<1> QED BY <1>6, <1>7, <1>8, <1>9 DEF FollowInv

\* Its copy is made, or the request gives up.
LEMMA PushInv == ASSUME FollowInv, NEW c \in Calls, Push(c) \/ PushFails(c) PROVE FollowInv'
<1>1. PICK k : Follows(c, k)
  BY DEF FollowInv
<1> DEFINE e == <<c, k>>
<1>2. step[c] = "pushing" /\ UNCHANGED <<events, unmet, kind, plan, current>>
  BY DEF Push, PushFails
<1>3. k \in 1..Len(plan[c]) /\ current[c] = e
  <2>1. Len(plan[c]) \in Nat
    BY LenProperties DEF FollowInv, PlanTypes
  <2> QED BY <1>1, <1>2, <2>1 DEF Follows
<1>4. \E how \in Steps :
        /\ step' = [step EXCEPT ![c] = how]
        /\ \/ /\ copies' = copies \cup {e}
              /\ how = IF k < Len(plan[c]) THEN "saving" ELSE "done"
           \/ /\ copies' = copies \/ copies' = copies \cup {e}
              /\ how = "unpushed"
  <2>1. CASE Push(c)
    <3>1. current[c][2] = k
      BY <1>3
    <3> QED BY <1>3, <2>1, <3>1 DEF Push, GoOn, Steps, Ended
  <2>2. CASE PushFails(c)
    BY <1>3, <2>2 DEF PushFails, Steps, Ended
  <2> QED BY <2>1, <2>2
<1>5. PICK how \in Steps :
        /\ step' = [step EXCEPT ![c] = how]
        /\ \/ /\ copies' = copies \cup {e}
              /\ how = IF k < Len(plan[c]) THEN "saving" ELSE "done"
           \/ /\ copies' = copies \/ copies' = copies \cup {e}
              /\ how = "unpushed"
  BY <1>4
<1>6. /\ step'[c] = how /\ \A d \in Calls : d # c => step'[d] = step[d]
      /\ copies \subseteq copies' /\ copies' \subseteq copies \cup {e}
  BY <1>5 DEF FollowInv, PlanTypes
<1>7. e \in DOMAIN events
  BY <1>1, <1>3 DEF Follows
<1>8. PlanTypes'
  <2>1. step' \in [Calls -> Steps]
    BY <1>5 DEF FollowInv, PlanTypes
  <2>2. copies' \in SUBSET DOMAIN events'
    BY <1>2, <1>6, <1>7 DEF FollowInv, PlanTypes
  <2>3. PlacedTasks' = PlacedTasks /\ Steps' = Steps
    BY DEF PlacedTasks, Placements, TaskRecords, TaskIds, Slots, Steps, Ended, Sorts
  <2> QED BY <1>2, <2>1, <2>2, <2>3 DEF FollowInv, PlanTypes
<1>9. CommitsArePlans'
  BY <1>2 DEF FollowInv, CommitsArePlans, NoOverlaps, IsInDay, Overlap, Within, Day
<1>10. Follows(c, k)'
  <2>1. \A i \in 1..k : i < k => <<c, i>> \in copies'
    BY <1>1, <1>6 DEF Follows
  <2>2. how # "unpushed" => e \in copies'
    BY <1>5
  <2>3. \A i \in 1..k : i < k \/ i = k
    BY <1>3
  <2>4. \A i \in 1..k : i < k \/ how \notin {"pushing", "unpushed"} => <<c, i>> \in copies'
    BY <2>1, <2>2, <2>3
  <2>5. /\ how \notin {"idle", "planning", "pushing"}
        /\ how = "saving" => k < Len(plan[c])
        /\ how = "done" => k = Len(plan[c])
    <3>1. Len(plan[c]) \in Nat /\ k \in Nat /\ k <= Len(plan[c])
      BY <1>3, LenProperties DEF FollowInv, PlanTypes
    <3> QED BY <1>5, <3>1
  <2>6. /\ k \in 0..Len(plan[c]) /\ current[c] = IF k = 0 THEN NoEvent ELSE <<c, k>>
        /\ \A i \in 1..k : <<c, i>> \in DOMAIN events /\ events[<<c, i>>] = plan[c][i].slot
        /\ \A f \in DOMAIN events : f[1] = c => \E i \in 1..k : f = <<c, i>>
    BY <1>1 DEF Follows
  <2> QED BY <1>2, <1>6, <2>4, <2>5, <2>6 DEF Follows, NoEvent
<1>11. ASSUME NEW d \in Calls, d # c PROVE \E m : Follows(d, m)'
  <2>1. e[1] = c
    OBVIOUS
  <2>2. \A f : f[1] = d => (f \in copies' <=> f \in copies)
    BY <1>6, <1>11, <2>1
  <2> QED BY <1>2, <1>6, <1>11, <2>2, OthersFollow
<1> QED BY <1>8, <1>9, <1>10, <1>11 DEF FollowInv

LEMMA FollowInvIsKept == FollowInv /\ [PlanningNext]_planVars => FollowInv'
<1> SUFFICES ASSUME FollowInv, [PlanningNext]_planVars PROVE FollowInv'
  OBVIOUS
<1>1. ASSUME UNCHANGED <<events, copies, kind, step, plan, current>>, unmet' \in SUBSET DayTasks
      PROVE  FollowInv'
  <2>1. PlanTypes'
    BY <1>1 DEF FollowInv, PlanTypes, PlacedTasks, Placements, TaskRecords, TaskIds, Slots, Steps, Ended
  <2>2. CommitsArePlans'
    BY <1>1 DEF FollowInv, CommitsArePlans, NoOverlaps, IsInDay, Overlap, Within, Day
  <2>3. ASSUME NEW c \in Calls PROVE \E k : Follows(c, k)'
    <3>1. PICK k : Follows(c, k)
      BY DEF FollowInv
    <3>2. Follows(c, k)'
      BY <1>1, <3>1 DEF Follows, NoEvent
    <3> QED BY <3>2
  <2> QED BY <2>1, <2>2, <2>3 DEF FollowInv
<1>2. CASE UNCHANGED planVars
  BY <1>1, <1>2 DEF planVars, FollowInv, PlanTypes
<1>3. ASSUME NEW t \in unmet, CompleteTask(t) PROVE FollowInv'
  BY <1>1, <1>3 DEF CompleteTask, FollowInv, PlanTypes
<1>4. ASSUME NEW c \in Calls, SaveFails(c) PROVE FollowInv'
  <2>1. PICK k : Follows(c, k)
    BY DEF FollowInv
  <2>2. /\ step[c] = "saving" /\ step' = [step EXCEPT ![c] = "unsaved"] /\ "unsaved" \in Steps
        /\ UNCHANGED <<events, copies, unmet, kind, plan, current>>
    BY <1>4 DEF SaveFails, Steps, Ended
  <2>3. /\ plan' = [plan EXCEPT ![c] = plan[c]] /\ kind' = [kind EXCEPT ![c] = kind[c]]
        /\ plan[c] \in Seq(PlacedTasks) /\ kind[c] \in Sorts
        /\ kind[c] = "commit" => NoOverlaps(plan[c]) /\ IsInDay(plan[c])
    BY <2>2 DEF FollowInv, PlanTypes, CommitsArePlans
  <2> QED BY <2>1, <2>2, <2>3, PlanningStepInv
<1> QED
  BY <1>2, <1>3, <1>4, OpenInv, PlanInv, SaveInv, PushInv DEF PlanningNext

\* Wherever a request to commit has stopped, its events are those of its plan up to
\* one of them, all of them when it is answered; they are in the working hours and apart.
THEOREM CommitsAlwaysFollowPlans == PlanningSpec => []CommitsFollowPlans
<1>1. FollowInv => CommitsFollowPlans
  <2> SUFFICES ASSUME FollowInv, NEW c \in Calls, kind[c] = "commit"
               PROVE  LET made == {e[2] : e \in {f \in DOMAIN events : f[1] = c}}
                      IN  /\ \E k \in 0..Len(plan[c]) :
                               made = 1..k /\ (step[c] = "done" => k = Len(plan[c]))
                          /\ \A i \in made : /\ WorkStart <= events[<<c, i>>].start
                                             /\ events[<<c, i>>].end <= WorkEnd
                          /\ \A i, j \in made :
                               i # j => ~Overlap(events[<<c, i>>], events[<<c, j>>])
    BY DEF CommitsFollowPlans
  <2> DEFINE made == {e[2] : e \in {f \in DOMAIN events : f[1] = c}}
  <2>1. PICK k : Follows(c, k)
    BY DEF FollowInv
  <2>2. made = 1..k
    <3>1. ASSUME NEW e \in DOMAIN events, e[1] = c PROVE e[2] \in 1..k
      BY <2>1, <3>1 DEF Follows
    <3>2. ASSUME NEW i \in 1..k PROVE i \in made
      <4>1. <<c, i>> \in DOMAIN events /\ <<c, i>>[1] = c /\ <<c, i>>[2] = i
        BY <2>1 DEF Follows
      <4> QED BY <4>1
    <3> QED BY <3>1, <3>2
  <2>3. /\ k \in 0..Len(plan[c]) /\ (step[c] = "done" => k = Len(plan[c]))
        /\ \A i \in 1..k : events[<<c, i>>] = plan[c][i].slot /\ i \in 1..Len(plan[c])
    <3>1. Len(plan[c]) \in Nat
      BY LenProperties DEF FollowInv, PlanTypes
    <3> QED BY <2>1, <3>1 DEF Follows
  <2>4. NoOverlaps(plan[c]) /\ IsInDay(plan[c])
    BY DEF FollowInv, CommitsArePlans
  <2>5. \A i \in 1..k : WorkStart <= events[<<c, i>>].start /\ events[<<c, i>>].end <= WorkEnd
    <3>1. \A i \in 1..k : Within(events[<<c, i>>], Day)
      BY <2>3, <2>4 DEF IsInDay
    <3> QED BY <3>1 DEF Within, Day, Slot
  <2>6. \A i, j \in 1..k : i # j => ~Overlap(events[<<c, i>>], events[<<c, j>>])
    BY <2>3, <2>4 DEF NoOverlaps
  <2> HIDE DEF made
  <2>7. \E m \in 0..Len(plan[c]) : made = 1..m /\ (step[c] = "done" => m = Len(plan[c]))
    <3>1. made = 1..k /\ k \in 0..Len(plan[c]) /\ (step[c] = "done" => k = Len(plan[c]))
      BY <2>2, <2>3
    <3> QED BY <3>1
  <2>8. /\ \A i \in made : WorkStart <= events[<<c, i>>].start /\ events[<<c, i>>].end <= WorkEnd
        /\ \A i, j \in made : i # j => ~Overlap(events[<<c, i>>], events[<<c, j>>])
    BY <2>2, <2>5, <2>6
  <2> QED BY ONLY <2>7, <2>8 DEF made
<1> QED BY <1>1, FollowInvHoldsFirst, FollowInvIsKept, PTL DEF PlanningSpec

\* Whatever fails and whoever runs beside whom, Google Calendar has no event that the
\* store has not, and an event it lacks is the one its request works on or gave up over.
THEOREM DifferencesAlwaysHaveACause == PlanningSpec => []DifferencesHaveACause
<1>1. FollowInv => DifferencesHaveACause
  <2> SUFFICES ASSUME FollowInv
               PROVE  /\ copies \subseteq DOMAIN events
                      /\ \A e \in DOMAIN events \ copies :
                           current[e[1]] = e /\ step[e[1]] \in {"pushing", "unpushed"}
    BY DEF DifferencesHaveACause
  <2>1. copies \subseteq DOMAIN events
    BY DEF FollowInv, PlanTypes
  <2>2. ASSUME NEW e \in DOMAIN events \ copies
        PROVE  current[e[1]] = e /\ step[e[1]] \in {"pushing", "unpushed"}
    <3> DEFINE c == e[1]
    <3>1. c \in Calls
      BY DEF FollowInv, PlanTypes
    <3> HIDE DEF c
    <3>2. PICK k : Follows(c, k)
      BY <3>1 DEF FollowInv
    <3>3. PICK i \in 1..k : e = <<c, i>>
      BY <3>2 DEF Follows, c
    <3>4. ~(i < k) /\ step[c] \in {"pushing", "unpushed"}
      BY <3>2, <3>3 DEF Follows
    <3>5. i = k /\ k # 0
      <4>1. k \in Nat
        BY <3>1, <3>2, LenProperties DEF Follows, FollowInv, PlanTypes
      <4> QED BY <3>4, <4>1
    <3>6. current[c] = e
      BY <3>2, <3>3, <3>5 DEF Follows
    <3> QED BY <3>4, <3>6 DEF c
  <2> QED BY <2>1, <2>2
<1> QED BY <1>1, FollowInvHoldsFirst, FollowInvIsKept, PTL DEF PlanningSpec

-----------------------------------------------------------------------------
(***************************************************************************)
(* What a plan leaves out, for any events and tasks: no free time is lost  *)
(* on the way to scheduleTasks, whatever is busy, merged and split.        *)
(***************************************************************************)
Spans == {s \in Slots : s.start < s.end}

\* What of a slot is free beside a used one lies in a part that Split leaves,
LEMMA SplitLosesNone ==
  ASSUME NEW slot \in Slots, NEW used \in Slots, NEW q \in Spans,
         Within(q, slot), ~Overlap(q, used), Overlap(slot, used)
  PROVE  Split(slot, used) \in Seq(Slots) /\ Covered(q, Split(slot, used))
<1> DEFINE a == Slot(slot.start, Earlier(used.start, slot.end))
           b == Slot(Later(used.end, slot.start), slot.end)
           front == IF slot.start < used.start THEN <<a>> ELSE <<>>
           back == IF slot.end > used.end THEN <<b>> ELSE <<>>
<1>1. Split(slot, used) = front \o back
  BY DEF Split
<1>2. a \in Slots /\ b \in Slots
  BY DEF Slots, Slot, Earlier, Later
<1>3. \/ slot.start < used.start /\ Within(q, a)
      \/ slot.end > used.end /\ Within(q, b)
  BY DEF Spans, Slots, Within, Overlap, Slot, Earlier, Later
<1> HIDE DEF a, b
<1>4. /\ <<>> \in Seq(Slots) /\ <<a>> \in Seq(Slots) /\ <<b>> \in Seq(Slots)
      /\ <<a>>[1] = a /\ <<b>>[1] = b /\ Len(<<a>>) = 1 /\ Len(<<b>>) = 1
  BY <1>2
<1>5. front \in Seq(Slots) /\ back \in Seq(Slots)
  BY <1>4
<1>6. CASE slot.start < used.start /\ Within(q, a)
  <2>1. front = <<a>>
    BY <1>6
  <2> HIDE DEF front, back
  <2>2. /\ Len(front) = 1 /\ front[1] = a /\ Len(back) \in Nat
        /\ Len(front \o back) = Len(front) + Len(back)
        /\ 1 \in 1..Len(front \o back) /\ (front \o back)[1] = a
        /\ front \o back \in Seq(Slots)
    BY <1>4, <1>5, <2>1, ConcatProperties
  <2> QED BY <1>1, <1>6, <2>2 DEF Covered
<1>7. CASE slot.end > used.end /\ Within(q, b)
  <2>1. back = <<b>>
    BY <1>7
  <2> HIDE DEF front, back
  <2>2. /\ Len(back) = 1 /\ back[1] = b /\ Len(front) \in Nat
        /\ front \o back \in Seq(Slots)
        /\ Len(front \o back) = Len(front) + Len(back)
        /\ \A k \in 1..(Len(front) + Len(back)) :
             (front \o back)[k] = IF k <= Len(front) THEN front[k] ELSE back[k - Len(front)]
    BY <1>4, <1>5, <2>1, ConcatProperties
  <2>3. Len(front) + 1 \in 1..Len(front \o back) /\ (front \o back)[Len(front) + 1] = b
    <3> DEFINE n == Len(front)
    <3>1. n \in Nat /\ n + 1 \in 1..(n + 1) /\ ~(n + 1 <= n) /\ (n + 1) - n = 1
      BY <2>2
    <3> QED BY <2>2, <3>1
  <2> QED BY <1>1, <1>7, <2>2, <2>3 DEF Covered
<1> QED BY <1>3, <1>6, <1>7

\* or of a list of slots, in one that SlotsWithout leaves.
LEMMA SlotsWithoutLosesNone ==
  ASSUME NEW slots \in Seq(Slots), NEW used \in Slots, NEW q \in Spans,
         Covered(q, slots), ~Overlap(q, used)
  PROVE  Covered(q, SlotsWithout(slots, used))
<1> DEFINE ss == [i \in DOMAIN slots |->
                    IF Overlap(slots[i], used) THEN Split(slots[i], used) ELSE <<slots[i]>>]
<1>1. DOMAIN slots = 1..Len(slots) /\ Len(slots) \in Nat /\ \A i \in 1..Len(slots) : slots[i] \in Slots
  BY LenProperties, ElementOfSeq
<1>2. \A i \in 1..Len(slots) : Split(slots[i], used) \in Seq(Slots) /\ <<slots[i]>> \in Seq(Slots)
  <2> SUFFICES ASSUME NEW i \in 1..Len(slots)
               PROVE  Split(slots[i], used) \in Seq(Slots) /\ <<slots[i]>> \in Seq(Slots)
    OBVIOUS
  <2>1. slots[i] \in Slots
    BY <1>1
  <2>2. IsClosed(Slots)
    BY DEF IsClosed
  <2>3. Split(slots[i], used) \in Seq(FreeOf(Slots, used))
    BY <2>1, <2>2, SplitKeepsWithin
  <2>4. FreeOf(Slots, used) \in SUBSET Slots
    BY DEF FreeOf
  <2> QED BY <2>1, <2>3, <2>4
<1>3. ss \in Seq(Seq(Slots)) /\ Len(ss) = Len(slots)
  <2>1. ss \in [1..Len(slots) -> Seq(Slots)]
    BY <1>1, <1>2
  <2> HIDE DEF ss
  <2> QED BY <1>1, <2>1, FunctionIsList
<1>4. PICK i \in 1..Len(slots) : Within(q, slots[i])
  BY DEF Covered
<1>5. Covered(q, ss[i])
  <2>1. CASE Overlap(slots[i], used)
    <3>1. ss[i] = Split(slots[i], used) /\ slots[i] \in Slots
      BY <1>1, <2>1
    <3> QED BY <1>4, <2>1, <3>1, SplitLosesNone
  <2>2. CASE ~Overlap(slots[i], used)
    <3>1. ss[i] = <<slots[i]>>
      BY <1>1, <2>2
    <3> HIDE DEF ss
    <3> QED BY <1>4, <3>1 DEF Covered
  <2> QED BY <2>1, <2>2
<1>6. SlotsWithout(slots, used) = FlattenSeq(ss)
  BY DEF SlotsWithout
<1> HIDE DEF ss
<1>7. PICK j \in 1..Len(ss[i]) : Within(q, ss[i][j])
  BY <1>5 DEF Covered
<1>8. \E k \in 1..Len(FlattenSeq(ss)) : FlattenSeq(ss)[k] = ss[i][j]
  BY <1>3, FlattenedHoldsAll
<1> QED BY <1>6, <1>7, <1>8 DEF Covered

\* What overlaps no slot of a list.
Beside(q, slots) == \A i \in 1..Len(slots) : ~Overlap(q, slots[i])

\* A round of merging makes nothing else busy,
LEMMA MergedAddsNone ==
  ASSUME NEW M \in Seq(Slots), NEW s \in Slots, NEW q \in Spans, Beside(q, M), ~Overlap(q, s)
  PROVE  Merged(M, s) \in Seq(Slots) /\ Beside(q, Merged(M, s))
<1> DEFINE n == Len(M)
           R == Merged(M, s)
<1>1. n \in Nat /\ DOMAIN M = 1..n /\ \A m \in 1..n : M[m] \in Slots
  BY LenProperties, ElementOfSeq
<1>2. CASE M # <<>> /\ s.start <= Last(M).end
  <2> DEFINE x == Slot(M[n].start, Later(M[n].end, s.end))
  <2>1. n \in 1..n
    BY <1>1, <1>2, EmptySeq
  <2>2. R = [M EXCEPT ![n] = x] /\ s.start <= M[n].end
    BY <1>2 DEF Merged, Last
  <2>3. x \in Slots /\ ~Overlap(q, x)
    <3>1. M[n] \in Slots /\ ~Overlap(q, M[n]) /\ s.start <= M[n].end
      BY <1>1, <2>1, <2>2 DEF Beside
    <3> HIDE DEF n
    <3> QED BY <3>1 DEF Slots, Spans, Overlap, Slot, Later
  <2> HIDE DEF n, x, R
  <2>4. R \in [1..n -> Slots] /\ R[n] = x /\ \A m \in 1..n : m # n => R[m] = M[m]
    <3>1. M \in [1..n -> Slots]
      BY <1>1 DEF n
    <3> QED BY <2>1, <2>2, <2>3, <3>1
  <2>5. R \in Seq(Slots) /\ Len(R) = n
    BY <1>1, <2>4, FunctionIsList
  <2>6. \A m \in 1..n : ~Overlap(q, R[m])
    BY <2>3, <2>4 DEF Beside, n
  <2> QED BY <2>5, <2>6 DEF Beside, R
<1>3. CASE ~(M # <<>> /\ s.start <= Last(M).end)
  <2>1. R = Append(M, s)
    BY <1>3 DEF Merged
  <2>2. /\ R \in Seq(Slots) /\ Len(R) = n + 1 /\ R[n + 1] = s
        /\ \A m \in 1..n : R[m] = M[m]
    BY <2>1, <1>1, AppendProperties
  <2> HIDE DEF R
  <2>3. \A m \in 1..n + 1 : R[m] = s \/ (m \in 1..n /\ R[m] = M[m])
    BY <1>1, <2>2
  <2>4. Beside(q, R)
    BY <2>2, <2>3 DEF Beside
  <2> QED BY <2>2, <2>4 DEF R
<1> QED BY <1>2, <1>3

\* nor do all of them.
LEMMA MergeAddsNone ==
  ASSUME NEW slots \in Seq(Slots), NEW q \in Spans, Beside(q, slots)
  PROVE  Beside(q, MergeBusySlots(slots))
<1> DEFINE n == Len(slots)
           before == {p \in Places(slots) : slots[p[1]].start < slots[p[2]].start}
           s == ByStart(slots)
           v == MergeRounds(s)
<1>1. n \in Nat /\ DOMAIN slots = 1..n /\ \A i \in 1..n : slots[i] \in Slots
  BY LenProperties, ElementOfSeq
<1>2. IsWeakOrder(before, n)
  <2>1. \A i, j \in 1..n : <<i, j>> \in before <=> slots[i].start < slots[j].start
    BY <1>1 DEF Places
  <2>2. \A i \in 1..n : slots[i].start \in Int
    BY <1>1 DEF Slots
  <2> HIDE DEF before, n
  <2> SUFFICES ASSUME NEW i \in 1..n, NEW j \in 1..n, NEW k \in 1..n
               PROVE  /\ ~(<<i, j>> \in before /\ <<j, i>> \in before)
                      /\ <<i, k>> \in before => <<i, j>> \in before \/ <<j, k>> \in before
    BY DEF IsWeakOrder
  <2>3. slots[i].start \in Int /\ slots[j].start \in Int /\ slots[k].start \in Int
    BY <2>2
  <2> QED BY <2>1, <2>3
<1>3. s = Sorted(slots, before)
  BY DEF ByStart
<1> HIDE DEF before
<1>4. PICK g \in [1..n -> 1..n] :
        /\ \A k \in 1..n : Sorted(slots, before)[k] = slots[g[k]]
        /\ \A i \in 1..n : \E k \in 1..n : g[k] = i
        /\ \A k, l \in 1..n : k < l => <<g[l], g[k]>> \notin before
  BY <1>2, SortedProperties
<1>5. \A k \in 1..n : s[k] = slots[g[k]]
  BY <1>3, <1>4
<1> HIDE DEF s
<1>6. s \in Seq(Slots) /\ Len(s) = n
  BY <1>2, <1>3, SortedProperties
<1>7. \A k \in 1..n : s[k] \in Slots /\ ~Overlap(q, s[k])
  BY <1>1, <1>4, <1>5 DEF Beside
<1> HIDE DEF n
<1>8. v[0] = <<>> /\ \A i \in 1..n : v[i] = Merged(v[i - 1], s[i])
  BY <1>6, MergeRoundsFollow
<1> DEFINE I == {k \in Nat : k <= n => v[k] \in Seq(Slots) /\ Beside(q, v[k])}
<1> HIDE DEF v
<1>9. 0 \in I
  <2>1. v[0] = <<>> /\ <<>> \in Seq(Slots) /\ Len(<<>>) = 0
    BY <1>8, EmptySeq
  <2>2. Beside(q, v[0])
    BY <2>1 DEF Beside
  <2> QED BY <2>1, <2>2
<1>10. ASSUME NEW k \in I PROVE k + 1 \in I
  <2> SUFFICES ASSUME k + 1 <= n PROVE v[k + 1] \in Seq(Slots) /\ Beside(q, v[k + 1])
    OBVIOUS
  <2>1. k \in Nat /\ k + 1 \in 1..n /\ (k + 1) - 1 = k /\ v[k] \in Seq(Slots) /\ Beside(q, v[k])
    BY <1>1
  <2>2. v[k + 1] = Merged(v[k], s[k + 1])
    BY <1>8, <2>1
  <2> QED BY <1>7, <2>1, <2>2, MergedAddsNone
<1> HIDE DEF I
<1>11. I = Nat
  <2>1. I \in SUBSET Nat
    BY DEF I
  <2> QED BY <1>9, <1>10, <2>1, InductOn
<1>12. Beside(q, v[n])
  <2>1. n \in I /\ n <= n
    BY <1>1, <1>11
  <2> QED BY <2>1 DEF I
<1> QED BY <1>12 DEF MergeBusySlots, v, s, n

\* What is free beside all busy slots lies in a slot that is left.
LEMMA SubtractLosesNone ==
  ASSUME NEW busy \in Seq(Slots), NEW q \in Spans, Within(q, Day), Beside(q, busy)
  PROVE  Covered(q, SubtractRounds(busy)[Len(busy)])
<1> DEFINE n == Len(busy)
           v == SubtractRounds(busy)
           I == {k \in Nat : k <= n => v[k] \in Seq(Slots) /\ Covered(q, v[k])}
<1>1. n \in Nat /\ \A i \in 1..n : busy[i] \in Slots
  BY LenProperties, ElementOfSeq
<1>2. v[0] = <<Day>> /\ \A i \in 1..n : v[i] = SlotsWithout(v[i - 1], busy[i])
  BY SubtractRoundsFollow
<1> HIDE DEF v, n
<1>3. 0 \in I
  <2>1. Day \in Slots
    BY SlotsAssumption DEF Day, Slot, Slots
  <2>2. <<Day>> \in Seq(Slots) /\ Len(<<Day>>) = 1 /\ <<Day>>[1] = Day
    BY <2>1
  <2>3. Covered(q, <<Day>>)
    BY <2>2 DEF Covered
  <2> QED BY <1>2, <2>2, <2>3
<1>4. ASSUME NEW k \in I PROVE k + 1 \in I
  <2> SUFFICES ASSUME k + 1 <= n PROVE v[k + 1] \in Seq(Slots) /\ Covered(q, v[k + 1])
    OBVIOUS
  <2>1. k \in Nat /\ k + 1 \in 1..n /\ (k + 1) - 1 = k /\ busy[k + 1] \in Slots
    BY <1>1
  <2>2. v[k] \in Seq(Slots) /\ Covered(q, v[k]) /\ v[k + 1] = SlotsWithout(v[k], busy[k + 1])
    BY <1>1, <1>2, <2>1
  <2>3. ~Overlap(q, busy[k + 1])
    BY <2>1 DEF Beside, n
  <2>4. v[k + 1] \in Seq(Slots)
    <3>1. IsClosed(Slots)
      BY DEF IsClosed
    <3>2. v[k + 1] \in Seq(FreeOf(Slots, busy[k + 1]))
      BY <2>1, <2>2, <3>1, SlotsWithoutKeepsWithin
    <3>3. FreeOf(Slots, busy[k + 1]) \in SUBSET Slots
      BY DEF FreeOf
    <3> QED BY <3>2, <3>3
  <2> QED BY <2>1, <2>2, <2>3, <2>4, SlotsWithoutLosesNone
<1> HIDE DEF I
<1>5. I = Nat
  <2>1. I \in SUBSET Nat
    BY DEF I
  <2> QED BY <1>3, <1>4, <2>1, InductOn
<1>6. Covered(q, v[n])
  BY <1>1, <1>5 DEF I
<1> QED BY <1>6 DEF v, n

\* Products grow with their factors.
LEMMA ProductsGrow ==
  ASSUME NEW i \in Int, NEW j \in Int, i <= j, NEW m \in Nat
  PROVE  i * m <= j * m /\ i * m \in Int /\ (i + 1) * m = i * m + m
OBVIOUS

\* Whatever is usable, in whole units, is in a slot that findAvailableSlots returns.
LEMMA AvailableSlotsAreAll ==
  ASSUME NEW es \in Seq(Slots), NEW q \in Spans, q \in UsableSlots(es)
  PROVE  Covered(q, AvailableSlots(es))
<1> DEFINE ss == [i \in DOMAIN es |-> Slot(es[i].start - Buffer, es[i].end + Buffer)]
           busy == BusySlots(es)
           free == SubtractRounds(busy)[Len(busy)]
           kept == {i \in DOMAIN free : IsLong(free[i])}
<1>1. DOMAIN es = 1..Len(es) /\ Len(es) \in Nat /\ \A i \in 1..Len(es) : es[i] \in Slots
  BY LenProperties, ElementOfSeq
<1>2. /\ ss \in [1..Len(es) -> Slots]
      /\ \A i \in 1..Len(es) : ss[i] = Buffered(es[i])
  <2>1. \A i \in 1..Len(es) : Buffered(es[i]) \in Slots
    <3> SUFFICES ASSUME NEW i \in 1..Len(es) PROVE Buffered(es[i]) \in Slots
      OBVIOUS
    <3>1. es[i].start \in Int /\ es[i].end \in Int /\ Buffer \in Nat
      BY <1>1, SlotsAssumption DEF Slots
    <3> QED BY <3>1 DEF Buffered, Slot, Slots
  <2> QED BY <1>1, <2>1 DEF Buffered
<1>3. busy = MergeBusySlots(ss)
  BY DEF BusySlots
<1> HIDE DEF ss
<1>4. ss \in Seq(Slots) /\ Len(ss) = Len(es)
  BY <1>1, <1>2, FunctionIsList
<1>4a. PICK w \in FreeSlots(es) : IsLong(w) /\ Within(q, w)
  BY DEF UsableSlots
<1>4b. w \in Spans
  BY <1>4a DEF Spans, FreeSlots, Slots, Within
<1>5. Beside(w, ss)
  <2>1. \A i \in 1..Len(es) : es[i] \in ToSet(es)
    BY MembersOf
  <2> QED BY <1>2, <1>4, <2>1 DEF Beside, FreeSlots
<1>6. busy \in Seq(Slots) /\ Beside(w, busy)
  BY <1>3, <1>4, <1>4b, <1>5, MergeCovers, MergeAddsNone
<1>7. AvailableSlots(es) = EntriesAt(free, kept)
  BY DEF AvailableSlots
<1> HIDE DEF busy
<1>8. free \in Seq(Slots) /\ Covered(w, free)
  <2>1. free \in Seq(FreeBeside(busy, Len(busy)))
    BY <1>6, SubtractKeepsFree
  <2>2. FreeBeside(busy, Len(busy)) \in SUBSET Slots
    BY DEF FreeBeside
  <2>3. Covered(w, free)
    BY <1>4b, <1>6, SubtractLosesNone DEF FreeSlots
  <2> HIDE DEF free
  <2> QED BY <2>1, <2>2, <2>3
<1> HIDE DEF free
<1>9. PICK i \in 1..Len(free) : Within(w, free[i])
  BY <1>8 DEF Covered
<1>10. DOMAIN free = 1..Len(free) /\ free[i] \in Slots
  BY <1>8, LenProperties, ElementOfSeq
<1>11. IsLong(free[i])
  <2> DEFINE l == Length(w)
             m == Length(free[i])
  <2>1. l \in Int /\ m \in Int /\ l <= m
    BY <1>4b, <1>9, <1>10 DEF Spans, Slots, Within, Length
  <2>2. UnitMinutes \in Nat /\ l * UnitMinutes >= 15
    BY <1>4a, SlotsAssumption DEF IsLong
  <2> HIDE DEF l, m
  <2>3. l * UnitMinutes <= m * UnitMinutes /\ l * UnitMinutes \in Int /\ m * UnitMinutes \in Int
    BY <2>1, <2>2, ProductsGrow
  <2>4. m * UnitMinutes >= 15
    BY <2>2, <2>3
  <2> QED BY <2>4 DEF IsLong, m
<1>11a. Within(q, free[i])
  BY <1>4a, <1>4b, <1>9, <1>10 DEF Spans, Slots, Within
<1>12. i \in kept
  BY <1>10, <1>11
<1>13. kept \in SUBSET (1..Len(free))
  BY <1>10
<1> HIDE DEF kept
<1>14. \E g \in [1..Len(EntriesAt(free, kept)) -> kept] :
         /\ \A k \in 1..Len(EntriesAt(free, kept)) : EntriesAt(free, kept)[k] = free[g[k]]
         /\ \A j \in kept : \E k \in 1..Len(EntriesAt(free, kept)) : g[k] = j
  BY <1>8, <1>13, EntriesAtProperties
<1>15. \E k \in 1..Len(EntriesAt(free, kept)) : EntriesAt(free, kept)[k] = free[i]
  BY <1>12, <1>14
<1> QED BY <1>7, <1>11a, <1>15 DEF Covered

\* A task that is offered no slot fits in none.
LEMMA NoSlotFits ==
  ASSUME NEW ids, NEW task \in TaskRecords(ids), NEW slots \in Seq(Slots),
         BestSlots(task, slots) = <<>>
  PROVE  \A i \in 1..Len(slots) : Length(slots[i]) < task.duration
<1> DEFINE I == {i \in DOMAIN slots : Length(slots[i]) >= task.duration}
           fitting == EntriesAt(slots, I)
           J == {i \in DOMAIN fitting : Suits(task, fitting[i])}
           preferred == EntriesAt(fitting, J)
           best == IF preferred = <<>> THEN fitting ELSE preferred
           before == {p \in Places(best) : Score(task, best[p[1]]) > Score(task, best[p[2]])}
<1>1. BestSlots(task, slots) = Sorted(best, before)
  BY DEF BestSlots
<1>2. I \in SUBSET (1..Len(slots)) /\ \A i \in 1..Len(slots) : slots[i] \in Slots
  BY LenProperties, ElementOfSeq
<1>2a. \A i \in 1..Len(slots) : i \in I <=> Length(slots[i]) >= task.duration
  BY LenProperties
<1> HIDE DEF I
<1>3. fitting \in Seq(Slots)
  BY <1>2, EntriesAtProperties
<1>4. \E g \in [1..Len(fitting) -> I] : \A i \in I : \E k \in 1..Len(fitting) : g[k] = i
  BY <1>2, EntriesAtProperties
<1> HIDE DEF fitting
<1>5. preferred \in Seq(Slots)
  <2>1. J \in SUBSET (1..Len(fitting))
    BY <1>3, LenProperties
  <2> HIDE DEF J
  <2> QED BY <1>3, <2>1, EntriesAtProperties
<1>6. best \in Seq(Slots) /\ (best = <<>> => fitting = <<>>)
  BY <1>3, <1>5
<1> HIDE DEF best
<1>7. best = <<>>
  <2>1. DOMAIN Sorted(best, before) = DOMAIN best
    BY DEF Sorted
  <2>2. DOMAIN best = DOMAIN <<>>
    BY <1>1, <2>1
  <2>3. Len(best) = 0
    <3>1. DOMAIN best = 1..Len(best) /\ Len(best) \in Nat
      BY <1>6, LenProperties
    <3>2. DOMAIN best = {}
      BY <2>2
    <3> HIDE DEF before
    <3> QED BY <3>1, <3>2
  <2> QED BY <1>6, <2>3, EmptySeq
<1>8. I = {}
  <2>1. Len(fitting) = 0
    BY <1>6, <1>7, EmptySeq
  <2> QED BY <1>4, <2>1
<1>9. \A i \in 1..Len(slots) : ~(Length(slots[i]) >= task.duration)
  BY <1>2a, <1>8
<1>10. task.duration \in Int /\ \A i \in 1..Len(slots) : Length(slots[i]) \in Int
  BY <1>2 DEF TaskRecords, Slots, Length
<1> QED BY <1>9, <1>10

-----------------------------------------------------------------------------
(***************************************************************************)
(* How much of a task there is in a list: splitting, flattening and        *)
(* sorting leave it as it is.                                              *)
(***************************************************************************)
Work(ids) == {t \in TaskRecords(ids) : t.duration \in Nat \ {0}}

FirstPortions(s, id, k) ==
  UNION {{i} \X (1..s[i].duration) : i \in {j \in 1..k : s[j].id = id}}
Minutes(s, id, k) == Cardinality(FirstPortions(s, id, k))
MinutesAt(s, id, i) == IF s[i].id = id THEN s[i].duration ELSE 0

\* A portion is an entry of the task with a unit of its duration.
LEMMA PortionsMembers ==
  ASSUME NEW s, NEW id, NEW k \in Nat, NEW p
  PROVE  p \in FirstPortions(s, id, k) <=>
           \E i \in 1..k : s[i].id = id /\ p \in {i} \X (1..s[i].duration)
BY DEF FirstPortions

\* Every entry adds what it lasts.
LEMMA MinutesFollow ==
  ASSUME NEW ids, NEW s \in Seq(Work(ids)), NEW id
  PROVE  /\ Minutes(s, id, 0) = 0
         /\ \A k \in 0..Len(s) : IsFiniteSet(FirstPortions(s, id, k)) /\ Minutes(s, id, k) \in Nat
         /\ \A k \in 1..Len(s) : Minutes(s, id, k) = Minutes(s, id, k - 1) + MinutesAt(s, id, k)
<1> DEFINE n == Len(s)
           F(k) == FirstPortions(s, id, k)
<1>1. n \in Nat /\ \A i \in 1..n : s[i].duration \in Nat \ {0}
  <2>1. n \in Nat /\ \A i \in 1..n : s[i] \in Work(ids)
    BY LenProperties, ElementOfSeq
  <2> QED BY <2>1 DEF Work
<1> HIDE DEF n
<1>2. F(0) = {}
  <2>1. \A p : p \notin F(0)
    BY PortionsMembers
  <2> HIDE DEF F
  <2> QED BY <2>1
<1>3. ASSUME NEW k \in Nat, k + 1 \in 1..n, IsFiniteSet(F(k))
      PROVE  /\ IsFiniteSet(F(k + 1))
             /\ Cardinality(F(k + 1)) = Cardinality(F(k)) + MinutesAt(s, id, k + 1)
  <2> DEFINE new == {k + 1} \X (1..s[k + 1].duration)
  <2>1. \A i : i \in 1..(k + 1) <=> i \in 1..k \/ i = k + 1
    OBVIOUS
  <2>2. \A p : p \in F(k) <=> \E i \in 1..k : s[i].id = id /\ p \in {i} \X (1..s[i].duration)
    BY PortionsMembers
  <2>3. \A p : p \in F(k + 1) <=>
                 \E i \in 1..(k + 1) : s[i].id = id /\ p \in {i} \X (1..s[i].duration)
    BY PortionsMembers
  <2>4. \A p : p \in F(k + 1) <=> p \in F(k) \/ (s[k + 1].id = id /\ p \in new)
    BY <2>1, <2>2, <2>3
  <2>5. F(k) \cap new = {}
    <3>1. \A p : p \in F(k) => p[1] \in 1..k
      BY <2>2
    <3>2. \A p : p \in new => p[1] = k + 1
      OBVIOUS
    <3>3. k + 1 \notin 1..k
      OBVIOUS
    <3> HIDE DEF F, new
    <3> QED BY <3>1, <3>2, <3>3
  <2>6. IsFiniteSet(new) /\ Cardinality(new) = s[k + 1].duration
    <3> DEFINE d == s[k + 1].duration
    <3>1. d \in Nat
      BY <1>1, <1>3
    <3> HIDE DEF d
    <3>2. IsFiniteSet({k + 1}) /\ Cardinality({k + 1}) = 1
      BY FS_Singleton
    <3>3. IsFiniteSet(1..d) /\ Cardinality(1..d) = d
      BY <3>1, FS_Interval
    <3>4. IsFiniteSet({k + 1} \X (1..d)) /\ Cardinality({k + 1} \X (1..d)) = 1 * d
      BY <3>2, <3>3, FS_Product
    <3> QED BY <3>1, <3>4 DEF d
  <2> HIDE DEF F, new
  <2>7. CASE s[k + 1].id = id
    <3>1. F(k + 1) = F(k) \cup new
      BY <2>4, <2>7
    <3>2. /\ IsFiniteSet(F(k) \cup new)
          /\ Cardinality(F(k) \cup new) = Cardinality(F(k)) + Cardinality(new) - Cardinality(F(k) \cap new)
      BY <1>3, <2>6, FS_Union
    <3>3. Cardinality(F(k) \cap new) = 0 /\ Cardinality(F(k)) \in Nat
      BY <1>3, <2>5, FS_EmptySet, FS_CardinalityType
    <3>4. s[k + 1].duration \in Nat
      BY <1>1, <1>3
    <3>5. MinutesAt(s, id, k + 1) = s[k + 1].duration
      BY <2>7 DEF MinutesAt
    <3>6. Cardinality(F(k + 1)) = Cardinality(F(k)) + s[k + 1].duration - 0
      BY <2>6, <3>1, <3>2, <3>3
    <3>7. Cardinality(F(k + 1)) = Cardinality(F(k)) + s[k + 1].duration
      BY <3>3, <3>4, <3>6
    <3> QED BY <3>1, <3>2, <3>5, <3>7
  <2>8. CASE s[k + 1].id # id
    <3>1. F(k + 1) = F(k)
      BY <2>4, <2>8
    <3>2. Cardinality(F(k)) \in Nat
      BY <1>3, FS_CardinalityType
    <3> QED BY <1>3, <2>8, <3>1, <3>2 DEF MinutesAt
  <2> QED BY <2>7, <2>8
<1> HIDE DEF F
<1> DEFINE I == {k \in Nat : k <= n => IsFiniteSet(F(k))}
<1>4. 0 \in I
  BY <1>2, FS_EmptySet
<1>5. ASSUME NEW k \in I PROVE k + 1 \in I
  <2> SUFFICES ASSUME k + 1 <= n PROVE IsFiniteSet(F(k + 1))
    OBVIOUS
  <2>1. k \in Nat /\ k + 1 \in 1..n /\ IsFiniteSet(F(k))
    BY <1>1
  <2> QED BY <1>3, <2>1
<1> HIDE DEF I
<1>6. I = Nat
  <2>1. I \in SUBSET Nat
    BY DEF I
  <2> QED BY <1>4, <1>5, <2>1, InductOn
<1>7. \A k \in 0..n : IsFiniteSet(F(k)) /\ Cardinality(F(k)) \in Nat
  <2> SUFFICES ASSUME NEW k \in 0..n PROVE IsFiniteSet(F(k)) /\ Cardinality(F(k)) \in Nat
    OBVIOUS
  <2>1. k \in Nat /\ k <= n
    BY <1>1
  <2>2. IsFiniteSet(F(k))
    BY <1>6, <2>1 DEF I
  <2> QED BY <2>2, FS_CardinalityType
<1>8. ASSUME NEW k \in 1..n
      PROVE  Cardinality(F(k)) = Cardinality(F(k - 1)) + MinutesAt(s, id, k)
  <2>1. k - 1 \in Nat /\ k - 1 \in 0..n /\ (k - 1) + 1 = k
    BY <1>1
  <2>2. IsFiniteSet(F(k - 1))
    BY <1>7, <2>1
  <2> QED BY <1>3, <2>1, <2>2
<1>9. Cardinality(F(0)) = 0
  BY <1>2, FS_EmptySet
<1> QED BY <1>7, <1>8, <1>9 DEF Minutes, F, n

\* Only the entries before matter.
LEMMA MinutesAlike ==
  ASSUME NEW s, NEW r, NEW id, NEW k \in Nat, \A i \in 1..k : s[i] = r[i]
  PROVE  Minutes(s, id, k) = Minutes(r, id, k)
<1>1. \A p : p \in FirstPortions(s, id, k) <=> p \in FirstPortions(r, id, k)
  BY PortionsMembers
<1>2. FirstPortions(s, id, k) = FirstPortions(r, id, k)
  BY <1>1
<1> QED BY <1>2 DEF Minutes

\* An appended task adds what it lasts.
LEMMA MinutesOfAppended ==
  ASSUME NEW ids, NEW s \in Seq(Work(ids)), NEW t \in Work(ids), NEW id
  PROVE  Minutes(Append(s, t), id, Len(s) + 1) =
           Minutes(s, id, Len(s)) + (IF t.id = id THEN t.duration ELSE 0)
<1> DEFINE a == Append(s, t)  n == Len(s)
<1>1. /\ n \in Nat /\ a \in Seq(Work(ids)) /\ Len(a) = n + 1 /\ a[n + 1] = t
      /\ \A i \in 1..n : a[i] = s[i]
  BY AppendProperties, LenProperties
<1> HIDE DEF a, n
<1>2. n + 1 \in 1..Len(a) /\ (n + 1) - 1 = n
  BY <1>1
<1>3. Minutes(a, id, n + 1) = Minutes(a, id, (n + 1) - 1) + MinutesAt(a, id, n + 1)
  BY <1>1, <1>2, MinutesFollow
<1>4. Minutes(a, id, n) = Minutes(s, id, n)
  BY <1>1, MinutesAlike
<1> QED BY <1>1, <1>2, <1>3, <1>4 DEF MinutesAt, a, n

\* Lists that are put together.
LEMMA MinutesOfBoth ==
  ASSUME NEW ids, NEW a \in Seq(Work(ids)), NEW b \in Seq(Work(ids)), NEW id
  PROVE  Minutes(a \o b, id, Len(a \o b)) = Minutes(a, id, Len(a)) + Minutes(b, id, Len(b))
<1> DEFINE c == a \o b
           m == Len(a)
           n == Len(b)
           I == {k \in Nat : k <= n => Minutes(c, id, m + k) = Minutes(a, id, m) + Minutes(b, id, k)}
<1>1. /\ m \in Nat /\ n \in Nat /\ c \in Seq(Work(ids)) /\ Len(c) = m + n
      /\ \A i \in 1..(m + n) : c[i] = IF i <= m THEN a[i] ELSE b[i - m]
  BY ConcatProperties, LenProperties
<1>2. \A k \in 0..n : Minutes(b, id, k) \in Nat
  BY MinutesFollow
<1>3. Minutes(b, id, 0) = 0 /\ \A k \in 1..n : Minutes(b, id, k) = Minutes(b, id, k - 1) + MinutesAt(b, id, k)
  BY MinutesFollow
<1>4. \A k \in 1..Len(c) : Minutes(c, id, k) = Minutes(c, id, k - 1) + MinutesAt(c, id, k)
  BY <1>1, MinutesFollow
<1>5. Minutes(a, id, m) \in Nat
  <2>1. m \in 0..m
    BY <1>1
  <2> QED BY <2>1, MinutesFollow
<1> HIDE DEF c, m, n
<1>6. 0 \in I
  <2>1. \A i \in 1..m : c[i] = a[i]
    BY <1>1
  <2>2. Minutes(c, id, m) = Minutes(a, id, m)
    BY <1>1, <2>1, MinutesAlike
  <2> QED BY <1>1, <1>3, <1>5, <2>2
<1>7. ASSUME NEW k \in I PROVE k + 1 \in I
  <2> SUFFICES ASSUME k + 1 <= n
               PROVE  Minutes(c, id, m + (k + 1)) = Minutes(a, id, m) + Minutes(b, id, k + 1)
    OBVIOUS
  <2>1. /\ k \in Nat /\ k \in 0..n /\ k <= n /\ k + 1 \in 1..n /\ (k + 1) - 1 = k
        /\ m + (k + 1) \in 1..(m + n) /\ (m + (k + 1)) - 1 = m + k
        /\ ~(m + (k + 1) <= m) /\ (m + (k + 1)) - m = k + 1
    BY <1>1
  <2>2. Minutes(c, id, m + k) = Minutes(a, id, m) + Minutes(b, id, k)
    BY <2>1
  <2>3. c[m + (k + 1)] = b[k + 1]
    BY <1>1, <2>1
  <2>4. Minutes(c, id, m + (k + 1)) = Minutes(c, id, m + k) + MinutesAt(c, id, m + (k + 1))
    BY <1>1, <1>4, <2>1
  <2>5. MinutesAt(c, id, m + (k + 1)) = MinutesAt(b, id, k + 1)
    BY <2>3 DEF MinutesAt
  <2>6. Minutes(b, id, k + 1) = Minutes(b, id, k) + MinutesAt(b, id, k + 1)
    BY <1>3, <2>1
  <2>7. Minutes(b, id, k) \in Nat /\ Minutes(b, id, k + 1) \in Nat
    BY <1>2, <2>1
  <2>8. MinutesAt(b, id, k + 1) \in Int
    <3>1. b[k + 1] \in Work(ids)
      BY <2>1, ElementOfSeq DEF n
    <3> QED BY <3>1 DEF Work, MinutesAt
  <2> QED BY <1>5, <2>2, <2>4, <2>5, <2>6, <2>7, <2>8
<1> HIDE DEF I
<1>8. I = Nat
  <2>1. I \in SUBSET Nat
    BY DEF I
  <2> QED BY <1>6, <1>7, <2>1, InductOn
<1>9. Minutes(c, id, m + n) = Minutes(a, id, m) + Minutes(b, id, n)
  <2>1. n \in I /\ n <= n
    BY <1>1, <1>8
  <2> QED BY <2>1 DEF I
<1> QED BY <1>1, <1>9 DEF c, m, n

\* A list in another order.
LEMMA MinutesInOrder ==
  ASSUME NEW ids, NEW s \in Seq(Work(ids)), NEW r \in Seq(Work(ids)), NEW id,
         Len(r) = Len(s), NEW g \in [1..Len(s) -> 1..Len(s)],
         \A k \in 1..Len(s) : r[k] = s[g[k]],
         \A i \in 1..Len(s) : \E k \in 1..Len(s) : g[k] = i
  PROVE  Minutes(r, id, Len(r)) = Minutes(s, id, Len(s))
<1> DEFINE n == Len(s)
           P == FirstPortions(r, id, n)
           Q == FirstPortions(s, id, n)
           h == [p \in P |-> <<g[p[1]], p[2]>>]
<1>1. n \in Nat
  BY LenProperties
<1>2. g \in Injection(1..n, 1..n)
  <2>1. g \in Surjection(1..n, 1..n)
    BY DEF Surjection
  <2>2. IsFiniteSet(1..n)
    <3> HIDE DEF n
    <3> QED BY <1>1, FS_Interval
  <2> QED BY <2>1, <2>2, FS_SurjSameCardinalityImpliesInj
<1>3. \A i, j \in 1..n : g[i] = g[j] => i = j
  BY <1>2 DEF Injection, IsInjective
<1>4. g \in [1..n -> 1..n] /\ \A k \in 1..n : r[k] = s[g[k]]
  OBVIOUS
<1>4a. \A i \in 1..n : \E k \in 1..n : g[k] = i
  OBVIOUS
<1> HIDE DEF n
<1>5. \A p : p \in P <=> \E i \in 1..n : r[i].id = id /\ p \in {i} \X (1..r[i].duration)
  BY <1>1, PortionsMembers
<1>6. \A p : p \in Q <=> \E i \in 1..n : s[i].id = id /\ p \in {i} \X (1..s[i].duration)
  BY <1>1, PortionsMembers
<1> HIDE DEF P, Q
<1>7. ASSUME NEW p \in P PROVE p = <<p[1], p[2]>> /\ p[1] \in 1..n /\ h[p] \in Q
  <2>1. PICK i \in 1..n : r[i].id = id /\ p \in {i} \X (1..r[i].duration)
    BY <1>5
  <2>2. p = <<p[1], p[2]>> /\ p[1] = i /\ p[2] \in 1..r[i].duration
    BY <2>1
  <2>3. g[i] \in 1..n /\ s[g[i]].id = id /\ <<g[i], p[2]>> \in {g[i]} \X (1..s[g[i]].duration)
    BY <1>4, <2>1, <2>2
  <2>4. <<g[i], p[2]>> \in Q
    BY <1>6, <2>3
  <2> QED BY <2>2, <2>4
<1>8. h \in Injection(P, Q)
  <2>1. h \in [P -> Q]
    BY <1>7
  <2>2. ASSUME NEW p \in P, NEW q \in P, h[p] = h[q] PROVE p = q
    <3>1. /\ p = <<p[1], p[2]>> /\ p[1] \in 1..n
          /\ q = <<q[1], q[2]>> /\ q[1] \in 1..n
      BY <1>7
    <3>2. g[p[1]] = g[q[1]] /\ p[2] = q[2]
      BY <2>2
    <3> QED BY <1>3, <3>1, <3>2
  <2> HIDE DEF h
  <2> QED BY <2>1, <2>2 DEF Injection, IsInjective
<1>9. h \in Surjection(P, Q)
  <2> SUFFICES ASSUME NEW q \in Q PROVE \E p \in P : h[p] = q
    BY <1>7 DEF Surjection
  <2>1. PICK i \in 1..n : s[i].id = id /\ q \in {i} \X (1..s[i].duration)
    BY <1>6
  <2>2. PICK k \in 1..n : g[k] = i
    BY <1>4a
  <2>3. r[k] = s[i] /\ q = <<i, q[2]>> /\ <<k, q[2]>> \in {k} \X (1..r[k].duration)
    <3>1. r[k] = s[i]
      BY <1>4, <2>2
    <3>2. q = <<i, q[2]>> /\ q[2] \in 1..s[i].duration
      BY <2>1
    <3> QED BY <3>1, <3>2
  <2>4. <<k, q[2]>> \in P
    BY <1>5, <2>1, <2>3
  <2>5. h[<<k, q[2]>>] = <<g[k], q[2]>>
    BY <2>4
  <2> QED BY <2>2, <2>3, <2>4, <2>5
<1>10. IsFiniteSet(P)
  <2>1. n \in 0..Len(r)
    BY <1>1 DEF n
  <2> QED BY <2>1, MinutesFollow DEF P
<1>11. Cardinality(P) = Cardinality(Q)
  <2>1. ExistsBijection(P, Q)
    BY <1>8, <1>9 DEF ExistsBijection, Bijection
  <2> QED BY <1>10, <2>1, FS_Bijection
<1> QED BY <1>11 DEF Minutes, P, Q, n

\* How many parts there are.
LEMMA DivisionRoundsDown ==
  ASSUME NEW a \in Nat, NEW m \in Nat \ {0}
  PROVE  (a \div m) \in Nat /\ (a \div m) * m <= a /\ a < (a \div m) * m + m
OBVIOUS

\* The parts of a task make up its duration.
LEMMA PartsAreWork ==
  ASSUME NEW ids, NEW task \in Work(ids), NEW id
  PROVE  /\ Parts(task) \in Seq(Work(ids))
         /\ \A i \in 1..Len(Parts(task)) : Parts(task)[i].id = task.id
         /\ Minutes(Parts(task), id, Len(Parts(task))) = IF task.id = id THEN task.duration ELSE 0
<1> DEFINE T == Work(ids)
           M == MaxTaskDuration
           d == task.duration
           n == (d + M - 1) \div M
           length(i) == Earlier(M, d - (i - 1) * M)
           part(i) == [task EXCEPT !.duration = length(i)]
           P == Parts(task)
<1>1. d \in Nat \ {0} /\ M \in Nat \ {0}
  BY SlotsAssumption DEF Work
<1>2. CASE d <= M
  <2>1. P = <<task>>
    BY <1>2 DEF Parts
  <2>2. <<task>> \in Seq(T) /\ Len(<<task>>) = 1 /\ <<task>>[1] = task /\ \A i \in 1..1 : i = 1
    OBVIOUS
  <2> HIDE DEF P
  <2>3. Minutes(P, id, 1) = Minutes(P, id, 1 - 1) + MinutesAt(P, id, 1) /\ Minutes(P, id, 0) = 0
    <3>1. P \in Seq(T) /\ Len(P) = 1 /\ 1 \in 1..1
      BY <2>1, <2>2
    <3> HIDE DEF T
    <3> QED BY <3>1, MinutesFollow DEF T
  <2>4. MinutesAt(P, id, 1) = IF task.id = id THEN task.duration ELSE 0
    BY <2>1, <2>2 DEF MinutesAt
  <2>5. Minutes(P, id, 1) = IF task.id = id THEN task.duration ELSE 0
    <3> DEFINE x == MinutesAt(P, id, 1)
    <3>1. x \in Int
      BY <1>1, <2>4
    <3>2. Minutes(P, id, 1) = 0 + x
      BY <2>3
    <3> HIDE DEF x
    <3>3. Minutes(P, id, 1) = x
      BY <3>1, <3>2
    <3> QED BY <2>4, <3>3 DEF x
  <2> QED BY <2>1, <2>2, <2>5 DEF P
<1>3. CASE ~(d <= M)
  <2>1. n \in Nat /\ n * M >= d /\ (n - 1) * M < d /\ n >= 1
    <3> DEFINE a == d + M - 1
    <3>1. a \in Nat
      BY <1>1
    <3> HIDE DEF M, a
    <3>2. (a \div M) \in Nat /\ (a \div M) * M <= a /\ a < (a \div M) * M + M
      BY <1>1, <3>1, DivisionRoundsDown
    <3> DEFINE q == a \div M
    <3> HIDE DEF q
    <3>3. q \in Nat /\ q * M <= a /\ a < q * M + M
      BY <3>2 DEF q
    <3>4. (q - 1) + 1 = q /\ q - 1 \in Int
      BY <3>3
    <3>5. q * M = (q - 1) * M + M /\ (q - 1) * M \in Int /\ q * M \in Int
      <4>1. ((q - 1) + 1) * M = (q - 1) * M + M /\ (q - 1) * M \in Int
        BY <1>1, <3>4, ProductsGrow
      <4> QED BY <1>1, <3>3, <3>4, <4>1
    <3>6. q * M >= d /\ (q - 1) * M < d
      <4> DEFINE x == (q - 1) * M
      <4> HIDE DEF x
      <4>1. x \in Int /\ q * M = x + M /\ x + M <= a /\ a < (x + M) + M
        BY <3>3, <3>5 DEF x
      <4>2. a = d + M - 1
        BY DEF a
      <4>3. x + M >= d /\ x < d
        BY <1>1, <4>1, <4>2
      <4> QED BY <4>1, <4>3 DEF x
    <3>7. q # 0
      <4> SUFFICES ASSUME q = 0 PROVE FALSE
        OBVIOUS
      <4>1. 0 * M = 0
        BY <1>1
      <4> QED BY <1>1, <3>6, <4>1
    <3>8. q >= 1
      BY <3>3, <3>7
    <3> QED BY <3>3, <3>6, <3>8 DEF q, a
  <2> HIDE DEF n
  <2>2. ASSUME NEW i \in 1..n
        PROVE  /\ (i - 1) * M \in Int /\ (i - 1) * M < d /\ i * M = (i - 1) * M + M
               /\ i < n => i * M < d
    <3>1. i - 1 \in Int /\ n - 1 \in Int /\ i - 1 <= n - 1 /\ (i - 1) + 1 = i /\ i \in Int
          /\ (i < n => i <= n - 1)
      BY <2>1
    <3>2. (i - 1) * M <= (n - 1) * M /\ (i - 1) * M \in Int /\ ((i - 1) + 1) * M = (i - 1) * M + M
      BY <1>1, <3>1, ProductsGrow
    <3>3. (n - 1) * M \in Int /\ (i < n => i * M <= (n - 1) * M /\ i * M \in Int)
      BY <1>1, <3>1, ProductsGrow
    <3> DEFINE x == (i - 1) * M
               y == (n - 1) * M
               z == i * M
    <3>4. x \in Int /\ y \in Int /\ x <= y /\ y < d /\ z = x + M /\ (i < n => z <= y /\ z \in Int)
      BY <2>1, <3>1, <3>2, <3>3
    <3> HIDE DEF x, y, z, M, d
    <3>5. x \in Int /\ x < d /\ z = x + M /\ (i < n => z < d)
      BY <1>1, <3>4
    <3> QED BY <3>5 DEF x, y, z
  <2>3. \A i \in 1..n : length(i) \in Nat \ {0}
    <3> SUFFICES ASSUME NEW i \in 1..n PROVE length(i) \in Nat \ {0}
      OBVIOUS
    <3> DEFINE x == (i - 1) * M
    <3>1. x \in Int /\ x < d
      BY <2>2
    <3> HIDE DEF x
    <3>2. Earlier(M, d - x) \in Nat \ {0}
      BY <1>1, <3>1 DEF Earlier
    <3> QED BY <3>2 DEF x
  <2>4. P = [i \in 1..n |-> part(i)]
    BY <1>3 DEF Parts, n
  <2> HIDE DEF length
  <2>5. \A i \in 1..n : part(i) \in T /\ part(i).id = task.id /\ part(i).duration = length(i)
    BY <2>3 DEF Work, TaskRecords
  <2> HIDE DEF part, T, P
  <2>6. P \in [1..n -> T]
    BY <2>4, <2>5
  <2>7. P \in Seq(T) /\ Len(P) = n
    BY <2>1, <2>6, FunctionIsList
  <2>8. \A i \in 1..n : P[i].id = task.id /\ P[i].duration = length(i)
    BY <2>4, <2>5
  <2>9. Minutes(P, id, 0) = 0 /\ \A k \in 1..n : Minutes(P, id, k) = Minutes(P, id, k - 1) + MinutesAt(P, id, k)
    BY <2>7, MinutesFollow DEF T
  <2>10. CASE task.id # id
    <3> DEFINE I == {k \in Nat : k <= n => Minutes(P, id, k) = 0}
    <3>1. 0 \in I
      BY <2>9
    <3>2. ASSUME NEW k \in I PROVE k + 1 \in I
      <4> SUFFICES ASSUME k + 1 <= n PROVE Minutes(P, id, k + 1) = 0
        OBVIOUS
      <4>1. k \in Nat /\ k + 1 \in 1..n /\ (k + 1) - 1 = k /\ Minutes(P, id, k) = 0
        BY <2>1
      <4>2. MinutesAt(P, id, k + 1) = 0
        BY <2>8, <2>10, <4>1 DEF MinutesAt
      <4> QED BY <2>9, <4>1, <4>2
    <3> HIDE DEF I
    <3>3. I = Nat
      <4>1. I \in SUBSET Nat
        BY DEF I
      <4> QED BY <3>1, <3>2, <4>1, InductOn
    <3>4. Minutes(P, id, n) = 0
      <4>1. n \in I /\ n <= n
        BY <2>1, <3>3
      <4> QED BY <4>1 DEF I
    <3> QED BY <2>7, <2>8, <2>10, <3>4 DEF P, T
  <2>11. CASE task.id = id
    <3> DEFINE I == {k \in Nat : k < n => Minutes(P, id, k) = k * M}
    <3>1. 0 \in I
      <4>1. 0 * M = 0
        BY <1>1
      <4> QED BY <2>9, <4>1
    <3>2. ASSUME NEW i \in 1..n PROVE MinutesAt(P, id, i) = Earlier(M, d - (i - 1) * M)
      BY <2>8, <2>11 DEF MinutesAt, length
    <3>3. ASSUME NEW k \in I PROVE k + 1 \in I
      <4> SUFFICES ASSUME k + 1 < n PROVE Minutes(P, id, k + 1) = (k + 1) * M
        OBVIOUS
      <4>1. k \in Nat /\ k + 1 \in 1..n /\ (k + 1) - 1 = k /\ Minutes(P, id, k) = k * M
        BY <2>1
      <4> DEFINE x == k * M
                 z == (k + 1) * M
      <4>2. x \in Int /\ z = x + M /\ z < d
        BY <2>2, <4>1
      <4>3. Minutes(P, id, k + 1) = x + Earlier(M, d - x)
        BY <2>9, <3>2, <4>1
      <4> HIDE DEF x, z, M, d
      <4>4. Minutes(P, id, k + 1) = z
        BY <1>1, <4>2, <4>3 DEF Earlier
      <4> QED BY <4>4 DEF z
    <3> HIDE DEF I
    <3>4. I = Nat
      <4>1. I \in SUBSET Nat
        BY DEF I
      <4> QED BY <3>1, <3>3, <4>1, InductOn
    <3>5. Minutes(P, id, n - 1) = (n - 1) * M
      <4>1. n - 1 \in I /\ n - 1 < n
        BY <2>1, <3>4
      <4> QED BY <4>1 DEF I
    <3>6. n \in 1..n
      BY <2>1
    <3> DEFINE x == (n - 1) * M
    <3>7. x \in Int /\ x + M >= d
      BY <2>1, <2>2, <3>6
    <3>8. Minutes(P, id, n) = x + Earlier(M, d - x)
      BY <2>9, <3>2, <3>5, <3>6
    <3> HIDE DEF x
    <3>9. Minutes(P, id, n) = d
      BY <1>1, <3>7, <3>8 DEF Earlier
    <3> QED BY <2>7, <2>8, <2>11, <3>9 DEF P, T
  <2> QED BY <2>10, <2>11
<1> QED BY <1>2, <1>3

\* No two tasks have an identity in common.
TasksApart(tasks) == \A i, j \in 1..Len(tasks) : tasks[i].id = tasks[j].id => i = j

\* The parts of all tasks make up the duration of each.
LEMMA SplitTasksAreWork ==
  ASSUME NEW ids, NEW tasks \in Seq(Work(ids))
  PROVE  LET flat == FlattenSeq([i \in DOMAIN tasks |-> Parts(tasks[i])])
         IN  /\ flat \in Seq(Work(ids))
             /\ TasksApart(tasks) =>
                  \A i \in 1..Len(tasks) : Minutes(flat, tasks[i].id, Len(flat)) = tasks[i].duration
<1> DEFINE n == Len(tasks)
           T == Work(ids)
           ss == [i \in DOMAIN tasks |-> Parts(tasks[i])]
<1>1. n \in Nat /\ DOMAIN tasks = 1..n /\ \A i \in 1..n : tasks[i] \in Work(ids)
  BY LenProperties, ElementOfSeq
<1>2. \A i \in 1..n : ss[i] = Parts(tasks[i]) /\ ss[i] \in Seq(T)
  BY <1>1, PartsAreWork
<1>3. ss \in Seq(Seq(T)) /\ Len(ss) = n
  <2>1. DOMAIN ss = 1..n /\ ss = [i \in DOMAIN ss |-> ss[i]]
    BY <1>1
  <2> HIDE DEF ss, T, n
  <2>2. ss \in [1..n -> Seq(T)]
    BY <1>2, <2>1
  <2> QED BY <1>1, <2>2, FunctionIsList
<1> HIDE DEF ss
<1>4. PICK g : Flattens(g, ss, T)
  BY <1>3, FlattenedInRounds
<1> HIDE DEF n, T
<1>5. /\ \A i \in 0..n : g[i] \in Seq(T)
      /\ g[0] = <<>> /\ FlattenSeq(ss) = g[n]
      /\ \A i \in 1..n : g[i] = g[i - 1] \o ss[i]
  BY <1>3, <1>4 DEF Flattens
<1>6. FlattenSeq(ss) \in Seq(T)
  <2>1. n \in 0..n
    BY <1>1
  <2> QED BY <1>5, <2>1
<1>7. ASSUME TasksApart(tasks), NEW i \in 1..n
      PROVE  Minutes(FlattenSeq(ss), tasks[i].id, Len(FlattenSeq(ss))) = tasks[i].duration
  <2> DEFINE id == tasks[i].id
             d == tasks[i].duration
             Sum(k) == Minutes(g[k], id, Len(g[k]))
             I == {k \in Nat : k <= n => Sum(k) = IF i <= k THEN d ELSE 0}
  <2>1. d \in Nat \ {0}
    BY <1>1 DEF Work
  <2>2. Sum(0) = 0
    <3>1. g[0] \in Seq(T) /\ Len(g[0]) = 0
      <4>1. 0 \in 0..n
        BY <1>1
      <4> QED BY <1>5, <4>1, EmptySeq
    <3> QED BY <3>1, MinutesFollow DEF T
  <2>3. ASSUME NEW k \in 1..n PROVE Sum(k) = Sum(k - 1) + (IF k = i THEN d ELSE 0)
    <3>1. k - 1 \in 0..n /\ g[k - 1] \in Seq(T) /\ ss[k] \in Seq(T) /\ g[k] = g[k - 1] \o ss[k]
      <4>1. k - 1 \in 0..n
        BY <1>1
      <4> QED BY <1>2, <1>5, <4>1
    <3>2. Sum(k) = Sum(k - 1) + Minutes(ss[k], id, Len(ss[k]))
      BY <3>1, MinutesOfBoth DEF T
    <3>3. Minutes(ss[k], id, Len(ss[k])) = IF tasks[k].id = id THEN tasks[k].duration ELSE 0
      <4>1. tasks[k] \in Work(ids) /\ ss[k] = Parts(tasks[k])
        BY <1>1, <1>2
      <4> QED BY <4>1, PartsAreWork
    <3>4. tasks[k].id = id <=> k = i
      BY <1>7 DEF TasksApart, n
    <3> HIDE DEF Sum
    <3> QED BY <3>2, <3>3, <3>4
  <2> HIDE DEF Sum, d, id
  <2>4. 0 \in I
    BY <2>2
  <2>5. ASSUME NEW k \in I PROVE k + 1 \in I
    <3> SUFFICES ASSUME k + 1 <= n PROVE Sum(k + 1) = IF i <= k + 1 THEN d ELSE 0
      OBVIOUS
    <3>1. k \in Nat /\ k + 1 \in 1..n /\ (k + 1) - 1 = k /\ Sum(k) = IF i <= k THEN d ELSE 0
      BY <1>1
    <3>2. Sum(k + 1) = Sum(k) + (IF k + 1 = i THEN d ELSE 0)
      BY <2>3, <3>1
    <3> QED BY <1>1, <2>1, <3>1, <3>2
  <2> HIDE DEF I
  <2>6. I = Nat
    <3>1. I \in SUBSET Nat
      BY DEF I
    <3> QED BY <2>4, <2>5, <3>1, InductOn
  <2>7. Sum(n) = d
    <3>1. n \in I /\ n <= n /\ i <= n
      BY <1>1, <2>6
    <3> QED BY <3>1 DEF I
  <2> QED BY <1>5, <2>7 DEF Sum, d, id
<1> QED BY <1>6, <1>7 DEF ss, T, n

-----------------------------------------------------------------------------
(***************************************************************************)
(* Between two rounds of scheduleTasks: done is what has a place, out what *)
(* is left out, of the first k tasks of s; F is the free time.             *)
(***************************************************************************)
\* What is free and not taken is in a slot that is still offered.
LosesNone(F, done, slots) ==
  \A q \in Spans : q \in F /\ (\A j \in 1..Len(done) : ~Overlap(q, done[j].slot)) => Covered(q, slots)

FromTasks(done, s, k) ==
  \A j \in 1..Len(done) :
    /\ done[j].slot.end = done[j].slot.start + done[j].task.duration
    /\ \E i \in 1..k : done[j].task = s[i]

\* A span beside everything that was more important, or as important.
BesideImportant(q, done, priority) ==
  \A j \in 1..Len(done) : done[j].task.priority >= priority => ~Overlap(q, done[j].slot)

FitNowhere(F, done, out) ==
  \A m \in 1..Len(out), q \in Spans :
    q \in F /\ Length(q) = out[m].duration => ~BesideImportant(q, done, out[m].priority)

TakenFor(done, id) ==
  UNION {Units(done[i].slot) : i \in {j \in DOMAIN done : done[j].task.id = id}}

AllMinutes(done, out, s, k, id) ==
  /\ IsFiniteSet(TakenFor(done, id))
  /\ Cardinality(TakenFor(done, id)) + Minutes(out, id, Len(out)) = Minutes(s, id, k)

Progress(r, s, k, F, id) ==
  /\ LosesNone(F, r.scheduled, r.slots)
  /\ FromTasks(r.scheduled, s, k)
  /\ FitNowhere(F, r.scheduled, r.unscheduled)
  /\ AllMinutes(r.scheduled, r.unscheduled, s, k, id)

ImportantFirst(s) == \A i, j \in 1..Len(s) : i < j => s[i].priority >= s[j].priority

\* A task that finds no slot.
LEMMA LeftOutProgress ==
  ASSUME NEW ids, NEW F, IsClosed(F), NEW r \in PlanStates(TaskRecords(ids), F),
         r.unscheduled \in Seq(Work(ids)),
         NEW s \in Seq(Work(ids)), ImportantFirst(s), NEW k \in Nat, k + 1 \in 1..Len(s), NEW id,
         Progress(r, s, k, F, id), BestSlots(s[k + 1], r.slots) = <<>>
  PROVE  /\ Progress(Placed(r, s[k + 1]), s, k + 1, F, id)
         /\ Placed(r, s[k + 1]).unscheduled \in Seq(Work(ids))
<1> DEFINE task == s[k + 1]
           done == r.scheduled
           out == r.unscheduled
           new == Append(out, task)
           p == Placed(r, task)
<1>1. /\ done \in Seq(Placements(TaskRecords(ids), F)) /\ r.slots \in Seq(F) /\ F \in SUBSET Slots
      /\ r = [scheduled |-> done, unscheduled |-> out, slots |-> r.slots]
  BY DEF PlanStates, IsClosed
<1>2. task \in Work(ids) /\ task \in TaskRecords(ids) /\ \A i \in 1..Len(s) : s[i] \in Work(ids)
  BY ElementOfSeq DEF Work
<1>3. p = [r EXCEPT !.unscheduled = Append(@, task)]
  BY DEF Placed
<1>4. p.scheduled = done /\ p.unscheduled = new /\ p.slots = r.slots
  BY <1>1, <1>3
<1>5. /\ Len(out) \in Nat /\ Len(new) = Len(out) + 1 /\ new[Len(out) + 1] = task /\ new \in Seq(Work(ids))
      /\ \A m \in 1..Len(out) : new[m] = out[m]
  BY <1>2, AppendProperties, LenProperties
<1>6. /\ LosesNone(F, done, r.slots) /\ FromTasks(done, s, k) /\ FitNowhere(F, done, out)
      /\ AllMinutes(done, out, s, k, id)
  BY DEF Progress
<1>7. k + 1 \in 1..Len(s) /\ BestSlots(task, r.slots) = <<>>
  OBVIOUS
<1> HIDE DEF task, done, out, new, p
<1>8. FromTasks(done, s, k + 1)
  <2>1. \A i \in 1..k : i \in 1..(k + 1)
    OBVIOUS
  <2> QED BY <1>6, <2>1 DEF FromTasks
<1>9. FitNowhere(F, done, new)
  <2> SUFFICES ASSUME NEW m \in 1..Len(new), NEW q \in Spans, q \in F, Length(q) = new[m].duration,
                      BesideImportant(q, done, new[m].priority)
               PROVE  FALSE
    BY DEF FitNowhere
  <2>1. CASE m \in 1..Len(out)
    BY <1>5, <1>6, <2>1 DEF FitNowhere
  <2>2. CASE m \notin 1..Len(out)
    <3>1. m = Len(out) + 1 /\ new[m] = task
      BY <1>5, <2>2
    <3>2. ASSUME NEW j \in 1..Len(done) PROVE ~Overlap(q, done[j].slot)
      <4>1. PICK i \in 1..k : done[j].task = s[i]
        BY <1>6 DEF FromTasks
      <4>2. i \in 1..Len(s) /\ i < k + 1
        BY <1>7
      <4>3. s[i].priority >= task.priority
        BY <1>7, <4>2 DEF ImportantFirst, task
      <4> QED BY <3>1, <4>1, <4>3 DEF BesideImportant
    <3>3. Covered(q, r.slots)
      BY <1>6, <3>2 DEF LosesNone
    <3>4. PICK i \in 1..Len(r.slots) : Within(q, r.slots[i])
      BY <3>3 DEF Covered
    <3>5. r.slots[i] \in Slots /\ r.slots \in Seq(Slots)
      BY <1>1, ElementOfSeq
    <3>6. Length(r.slots[i]) < task.duration
      BY <1>2, <1>7, <3>5, NoSlotFits
    <3>7. Length(q) = task.duration
      BY <3>1
    <3> DEFINE w == r.slots[i]
               d == task.duration
    <3>8. /\ q.start \in Int /\ q.end \in Int /\ w.start \in Int /\ w.end \in Int /\ d \in Int
          /\ w.start <= q.start /\ q.end <= w.end /\ w.end - w.start < d /\ q.end - q.start = d
      <4>1. q.start \in Int /\ q.end \in Int /\ w.start \in Int /\ w.end \in Int
        BY <3>5 DEF Spans, Slots
      <4>2. d \in Int
        BY <1>2 DEF Work
      <4>3. w.start <= q.start /\ q.end <= w.end
        BY <3>4 DEF Within
      <4>4. w.end - w.start < d /\ q.end - q.start = d
        BY <3>6, <3>7 DEF Length
      <4> QED BY <4>1, <4>2, <4>3, <4>4
    <3> HIDE DEF w, d
    <3> QED BY <3>8
  <2> QED BY <2>1, <2>2
<1>10. AllMinutes(done, new, s, k + 1, id)
  <2> DEFINE a == IF task.id = id THEN task.duration ELSE 0
             c == Cardinality(TakenFor(done, id))
             x == Minutes(out, id, Len(out))
             y == Minutes(s, id, k)
  <2>1. Minutes(new, id, Len(new)) = x + a
    BY <1>2, <1>5, MinutesOfAppended DEF new, out
  <2>2. Minutes(s, id, k + 1) = y + a
    <3>1. Minutes(s, id, k + 1) = Minutes(s, id, (k + 1) - 1) + MinutesAt(s, id, k + 1)
      BY <1>7, MinutesFollow
    <3>2. (k + 1) - 1 = k
      OBVIOUS
    <3> QED BY <3>1, <3>2 DEF MinutesAt, task
  <2>3. c \in Nat /\ c + x = y /\ IsFiniteSet(TakenFor(done, id))
    BY <1>6, FS_CardinalityType DEF AllMinutes
  <2>4. a \in Int
    BY <1>2 DEF Work
  <2>5. x \in Int /\ y \in Int
    <3>1. Len(out) \in 0..Len(out) /\ out \in Seq(Work(ids))
      BY <1>5 DEF out
    <3>2. x \in Nat
      BY <3>1, MinutesFollow
    <3> QED BY <2>3, <3>2
  <2> HIDE DEF a, c, x, y
  <2>6. c + (x + a) = y + a
    BY <2>3, <2>4, <2>5
  <2> QED BY <2>1, <2>2, <2>3, <2>6 DEF AllMinutes, c
<1>11. Progress(p, s, k + 1, F, id)
  BY <1>4, <1>6, <1>8, <1>9, <1>10 DEF Progress
<1> QED BY <1>4, <1>5, <1>11 DEF p, task

\* A task that is given a slot.
LEMMA PlacedProgress ==
  ASSUME NEW ids, NEW F, IsClosed(F), NEW r \in PlanStates(TaskRecords(ids), F),
         r.unscheduled \in Seq(Work(ids)),
         NEW s \in Seq(Work(ids)), NEW k \in Nat, k + 1 \in 1..Len(s), NEW id,
         Progress(r, s, k, F, id), BestSlots(s[k + 1], r.slots) # <<>>
  PROVE  /\ Progress(Placed(r, s[k + 1]), s, k + 1, F, id)
         /\ Placed(r, s[k + 1]).unscheduled \in Seq(Work(ids))
<1> DEFINE task == s[k + 1]
           done == r.scheduled
           out == r.unscheduled
           best == BestSlots(task, r.slots)
           used == Slot(best[1].start, best[1].start + task.duration)
           entry == [task |-> task, slot |-> used]
           new == Append(done, entry)
           rest == SlotsWithout(r.slots, used)
           p == Placed(r, task)
<1>1. /\ done \in Seq(Placements(TaskRecords(ids), F)) /\ r.slots \in Seq(F) /\ F \in SUBSET Slots
      /\ r = [scheduled |-> done, unscheduled |-> out, slots |-> r.slots]
  BY DEF PlanStates, IsClosed
<1>2. task \in Work(ids) /\ task \in TaskRecords(ids)
  BY ElementOfSeq DEF Work
<1>3. p \in PlanStates(TaskRecords(ids), F)
  BY <1>2, PlacedKeepsPlan
<1>4. p = [r EXCEPT !.scheduled = Append(@, entry), !.slots = SlotsWithout(@, used)]
  BY DEF Placed
<1>5. used \in Slots /\ used.start = best[1].start /\ used.end = used.start + task.duration
  <2>1. best \in Seq({t \in F : Length(t) >= task.duration})
    BY <1>1, <1>2, BestSlotsFit
  <2>2. 1 \in 1..Len(best)
    <3> HIDE DEF best
    <3>1. best # <<>>
      BY DEF best, task
    <3> QED BY <2>1, <3>1, EmptySeq
  <2>3. best[1] \in Slots
    <3>1. best[1] \in {t \in F : Length(t) >= task.duration}
      BY <2>1, <2>2, ElementOfSeq
    <3> QED BY <1>1, <3>1
  <2>4. best[1].start \in Int /\ task.duration \in Int
    BY <1>2, <2>3 DEF Slots, Work
  <2> HIDE DEF best, task
  <2> QED BY <2>4 DEF Slot, Slots
<1> HIDE DEF used
<1>6. p.scheduled = new /\ p.unscheduled = out /\ p.slots = rest
  BY <1>1, <1>4
<1>7. entry.task = task /\ entry.slot = used
  OBVIOUS
<1> HIDE DEF entry
<1>8. /\ Len(done) \in Nat /\ Len(new) = Len(done) + 1 /\ new[Len(done) + 1] = entry
      /\ \A j \in 1..Len(done) : new[j] = done[j]
      /\ DOMAIN done = 1..Len(done) /\ DOMAIN new = 1..Len(new)
  <2>1. p.scheduled \in Seq(Placements(TaskRecords(ids), F))
    BY <1>3 DEF PlanStates
  <2>2. new = Append(done, entry) /\ Len(done) \in Nat
    BY <1>1, LenProperties
  <2>3. /\ Len(new) = Len(done) + 1 /\ new[Len(done) + 1] = entry
        /\ \A j \in 1..Len(done) : new[j] = done[j]
    <3>1. entry \in Placements(TaskRecords(ids), Slots)
      BY <1>2, <1>5, <1>7 DEF Placements, entry
    <3>2. done \in Seq(Placements(TaskRecords(ids), Slots))
      <4>1. Placements(TaskRecords(ids), F) \in SUBSET Placements(TaskRecords(ids), Slots)
        BY <1>1 DEF Placements
      <4> QED BY <1>1, <4>1
    <3> QED BY <3>1, <3>2, AppendProperties
  <2> QED BY <1>1, <1>6, <2>1, <2>2, <2>3, LenProperties
<1>9. /\ LosesNone(F, done, r.slots) /\ FromTasks(done, s, k) /\ FitNowhere(F, done, out)
      /\ AllMinutes(done, out, s, k, id)
  BY DEF Progress
<1>10. k + 1 \in 1..Len(s) /\ out \in Seq(Work(ids))
  OBVIOUS
<1>11. NoOverlaps(new) /\ \A j \in 1..Len(new) : new[j].slot \in Slots
  <2>1. NoOverlaps(p.scheduled) /\ p.scheduled \in Seq(Placements(TaskRecords(ids), F))
    BY <1>3 DEF PlanStates
  <2>2. \A j \in 1..Len(new) : new[j] \in Placements(TaskRecords(ids), F)
    BY <1>6, <2>1, ElementOfSeq
  <2> HIDE DEF new
  <2> QED BY <1>1, <1>6, <2>1, <2>2 DEF Placements
<1> HIDE DEF task, done, out, best, new, rest, p
<1>12. \A j \in 1..Len(new) : (j \in 1..Len(done) /\ new[j] = done[j]) \/ (j = Len(done) + 1 /\ new[j] = entry)
  <2>1. \A n \in Nat : \A j \in 1..(n + 1) : j \in 1..n \/ j = n + 1
    OBVIOUS
  <2>2. \A j \in 1..Len(new) : j \in 1..Len(done) \/ j = Len(done) + 1
    BY <1>8, <2>1, Zenon
  <2> QED BY <1>8, <2>2
<1>13. /\ \A j \in 1..Len(done) : j \in 1..Len(new)
       /\ Len(done) + 1 \in 1..Len(new)
       /\ Len(done) + 1 \notin 1..Len(done)
  <2>1. \A n \in Nat : (\A j \in 1..n : j \in 1..(n + 1)) /\ n + 1 \in 1..(n + 1) /\ n + 1 \notin 1..n
    OBVIOUS
  <2> QED BY <1>8, <2>1, Zenon
<1>14. LosesNone(F, new, rest)
  <2> SUFFICES ASSUME NEW q \in Spans, q \in F, \A j \in 1..Len(new) : ~Overlap(q, new[j].slot)
               PROVE  Covered(q, rest)
    BY DEF LosesNone
  <2>1. \A j \in 1..Len(done) : ~Overlap(q, done[j].slot)
    BY <1>8, <1>13
  <2>2. Covered(q, r.slots)
    BY <1>9, <2>1 DEF LosesNone
  <2>3. ~Overlap(q, used)
    BY <1>7, <1>8, <1>13
  <2>4. r.slots \in Seq(Slots)
    BY <1>1
  <2> QED BY <1>5, <2>2, <2>3, <2>4, SlotsWithoutLosesNone DEF rest
<1>15. FromTasks(new, s, k + 1)
  <2> SUFFICES ASSUME NEW j \in 1..Len(new)
               PROVE  /\ new[j].slot.end = new[j].slot.start + new[j].task.duration
                      /\ \E i \in 1..(k + 1) : new[j].task = s[i]
    BY DEF FromTasks
  <2>1. CASE j \in 1..Len(done) /\ new[j] = done[j]
    <3>1. \A i \in 1..k : i \in 1..(k + 1)
      OBVIOUS
    <3> QED BY <1>9, <2>1, <3>1 DEF FromTasks
  <2>2. CASE j = Len(done) + 1 /\ new[j] = entry
    <3>1. k + 1 \in 1..(k + 1)
      OBVIOUS
    <3> QED BY <1>5, <1>7, <2>2, <3>1 DEF task
  <2> QED BY <1>12, <2>1, <2>2
<1>16. FitNowhere(F, new, out)
  <2> SUFFICES ASSUME NEW m \in 1..Len(out), NEW q \in Spans, q \in F, Length(q) = out[m].duration,
                      BesideImportant(q, new, out[m].priority)
               PROVE  FALSE
    BY DEF FitNowhere
  <2>1. BesideImportant(q, done, out[m].priority)
    BY <1>8, <1>13 DEF BesideImportant
  <2> QED BY <1>9, <2>1 DEF FitNowhere
<1>17. AllMinutes(new, out, s, k + 1, id)
  <2> DEFINE U == TakenFor(done, id)
             V == TakenFor(new, id)
             W == Units(used)
             c == Cardinality(U)
             x == Minutes(out, id, Len(out))
             y == Minutes(s, id, k)
             d == task.duration
  <2>1. /\ \A u : u \in U <=> \E i \in 1..Len(done) : done[i].task.id = id /\ u \in Units(done[i].slot)
        /\ \A u : u \in V <=> \E i \in 1..Len(new) : new[i].task.id = id /\ u \in Units(new[i].slot)
    BY <1>8 DEF TakenFor
  <2>2. IsFiniteSet(U) /\ c \in Nat /\ c + x = y
    BY <1>9, FS_CardinalityType DEF AllMinutes
  <2>3. x \in Int /\ y \in Int
    <3>1. Len(out) \in 0..Len(out)
      BY <1>10, LenProperties
    <3>2. x \in Nat
      BY <1>10, <3>1, MinutesFollow
    <3> QED BY <2>2, <3>2
  <2>4. Minutes(s, id, k + 1) = y + (IF task.id = id THEN d ELSE 0)
    <3>1. Minutes(s, id, k + 1) = Minutes(s, id, (k + 1) - 1) + MinutesAt(s, id, k + 1)
      BY <1>10, MinutesFollow
    <3>2. (k + 1) - 1 = k
      OBVIOUS
    <3> QED BY <3>1, <3>2 DEF MinutesAt, task
  <2>5. d \in Nat
    BY <1>2 DEF Work
  <2>6. IsFiniteSet(W) /\ Cardinality(W) = d
    <3> DEFINE a == used.start
    <3>1. a \in Int /\ W = a..(a + d - 1)
      <4>1. a \in Int /\ used.end = a + d /\ W = a..(used.end - 1)
        BY <1>5 DEF Units, Slots
      <4> DEFINE e == used.end
      <4> HIDE DEF W, a, d, e
      <4>2. a \in Int /\ e = a + d /\ W = a..(e - 1)
        BY <4>1 DEF e
      <4> QED BY <2>5, <4>2
    <3> HIDE DEF W, a, d
    <3>2. a + d - 1 \in Int
      BY <2>5, <3>1
    <3>3. /\ IsFiniteSet(a..(a + d - 1))
          /\ Cardinality(a..(a + d - 1)) = IF a > a + d - 1 THEN 0 ELSE (a + d - 1) - a + 1
      BY <3>1, <3>2, FS_Interval
    <3>4. (IF a > a + d - 1 THEN 0 ELSE (a + d - 1) - a + 1) = d
      BY <2>5, <3>1
    <3> QED BY <3>1, <3>3, <3>4
  <2>7. U \cap W = {}
    <3> SUFFICES ASSUME NEW u \in U, u \in W PROVE FALSE
      OBVIOUS
    <3>1. PICK i \in 1..Len(done) : u \in Units(done[i].slot)
      BY <2>1
    <3>2. ~Overlap(new[i].slot, new[Len(done) + 1].slot)
      <4>1. i # Len(done) + 1
        BY <1>13
      <4> QED BY <1>11, <1>13, <4>1 DEF NoOverlaps
    <3>3. ~Overlap(done[i].slot, used) /\ done[i].slot \in Slots /\ used \in Slots
      BY <1>5, <1>7, <1>8, <1>11, <1>13, <3>2
    <3> QED BY <3>1, <3>3 DEF Overlap, Units, Slots
  <2>8. CASE task.id = id
    <3>1. V = U \cup W
      <4>1. \A u : u \in V <=> u \in U \/ u \in W
        BY <1>7, <1>8, <1>12, <1>13, <2>1, <2>8
      <4> HIDE DEF U, V, W
      <4> QED BY <4>1
    <3> HIDE DEF U, V, W
    <3>2. /\ IsFiniteSet(U \cup W)
          /\ Cardinality(U \cup W) = Cardinality(U) + Cardinality(W) - Cardinality(U \cap W)
      BY <2>2, <2>6, FS_Union
    <3>3. Cardinality(U \cap W) = 0
      BY <2>7, FS_EmptySet
    <3>4. Cardinality(V) = c + d - 0
      BY <2>6, <3>1, <3>2, <3>3
    <3> HIDE DEF c, x, y, d
    <3>5. Cardinality(V) + x = y + d
      BY <2>2, <2>3, <2>5, <3>4
    <3> QED BY <2>4, <2>8, <3>1, <3>2, <3>5 DEF AllMinutes, V, x
  <2>9. CASE task.id # id
    <3>1. V = U
      <4>1. \A u : u \in V <=> u \in U
        BY <1>7, <1>8, <1>12, <1>13, <2>1, <2>9
      <4> HIDE DEF U, V, W
      <4> QED BY <4>1
    <3> HIDE DEF c, x, y, d
    <3>2. c + x = y + 0
      BY <2>2, <2>3
    <3> QED BY <2>2, <2>4, <2>9, <3>1, <3>2 DEF AllMinutes, c, x
  <2> QED BY <2>8, <2>9
<1>18. Progress(p, s, k + 1, F, id)
  BY <1>6, <1>9, <1>14, <1>15, <1>16, <1>17 DEF Progress
<1> QED BY <1>6, <1>10, <1>18 DEF p, task

\* No task is lost on the way, and what is left out had nowhere to go.
LEMMA ScheduleProgress ==
  ASSUME NEW ids, NEW F, IsClosed(F), NEW tasks \in Seq(Work(ids)), NEW slots \in Seq(F),
         LosesNone(F, <<>>, slots), NEW id
  PROVE  LET r == ScheduleTasks(tasks, slots)
         IN  /\ r \in PlanStates(TaskRecords(ids), F) /\ r.unscheduled \in Seq(Work(ids))
             /\ ByPriority(tasks) \in Seq(Work(ids))
             /\ Progress(r, ByPriority(tasks), Len(tasks), F, id)
             /\ Minutes(ByPriority(tasks), id, Len(tasks)) = Minutes(tasks, id, Len(tasks))
<1> DEFINE n == Len(tasks)
           s == ByPriority(tasks)
           v == ScheduleRounds(s, slots)
           S == PlanStates(TaskRecords(ids), F)
<1>1. tasks \in Seq(TaskRecords(ids)) /\ Work(ids) \in SUBSET TaskRecords(ids)
  <2>1. Work(ids) \in SUBSET TaskRecords(ids)
    BY DEF Work
  <2> QED BY <2>1
<1>2. n \in Nat /\ \A i \in 1..n : tasks[i] \in Work(ids)
  BY LenProperties, ElementOfSeq
<1>3. /\ IsRearranged(s, tasks)
      /\ \A k, l \in 1..n : k < l => s[k].priority >= s[l].priority
  BY <1>1, PrioritiesAreOrdered
<1>4. s \in Seq(TaskRecords(ids)) /\ Len(s) = n
  BY <1>1, PrioritiesAreOrdered
<1>5. ScheduleTasks(tasks, slots) = v[n]
  BY DEF ScheduleTasks
<1> HIDE DEF s
<1>6. PICK g \in [1..n -> 1..n] : /\ \A k \in 1..n : s[k] = tasks[g[k]]
                                  /\ \A i \in 1..n : \E k \in 1..n : g[k] = i
  BY <1>3 DEF IsRearranged
<1>7. s \in Seq(Work(ids))
  <2>1. \A k \in 1..n : s[k] \in Work(ids)
    BY <1>2, <1>6
  <2>2. s \in [1..n -> TaskRecords(ids)]
    BY <1>4, LenProperties, SeqDef
  <2> HIDE DEF n
  <2>3. s \in [1..n -> Work(ids)]
    BY <2>1, <2>2
  <2> QED BY <1>2, <2>3, FunctionIsList
<1>8. Minutes(s, id, n) = Minutes(tasks, id, n)
  BY <1>4, <1>6, <1>7, MinutesInOrder
<1>9. ImportantFirst(s)
  BY <1>3, <1>4 DEF ImportantFirst
<1>10. /\ v[0] = [scheduled |-> <<>>, unscheduled |-> <<>>, slots |-> slots]
       /\ \A i \in 1..n : v[i] = Placed(v[i - 1], s[i])
       /\ \A i \in 0..n : v[i] \in S
  <2>1. /\ v[0] = [scheduled |-> <<>>, unscheduled |-> <<>>, slots |-> slots]
        /\ \A i \in 1..Len(s) : v[i] = Placed(v[i - 1], s[i])
        /\ \A i \in 0..Len(s) : v[i] \in PlanStates(TaskRecords(ids), F)
    BY <1>4, ScheduleRoundsFollow
  <2> HIDE DEF v, n
  <2> QED BY <1>4, <2>1
<1> HIDE DEF v, n, S
<1> DEFINE Good(k) == v[k].unscheduled \in Seq(Work(ids)) /\ Progress(v[k], s, k, F, id)
           I == {k \in Nat : k <= n => Good(k)}
<1>11. 0 \in I
  <2> DEFINE base == v[0]
  <2>1. base.scheduled = <<>> /\ base.unscheduled = <<>> /\ base.slots = slots
    BY <1>10
  <2>2. <<>> \in Seq(Work(ids)) /\ Len(<<>>) = 0 /\ DOMAIN <<>> = {}
    BY EmptySeq
  <2> HIDE DEF base
  <2>3. FromTasks(base.scheduled, s, 0) /\ FitNowhere(F, base.scheduled, base.unscheduled)
    BY <2>1, <2>2 DEF FromTasks, FitNowhere
  <2>4. AllMinutes(base.scheduled, base.unscheduled, s, 0, id)
    <3>1. TakenFor(<<>>, id) = {}
      BY <2>2 DEF TakenFor
    <3>2. IsFiniteSet({}) /\ Cardinality({}) = 0
      BY FS_EmptySet
    <3>3. Minutes(<<>>, id, 0) = 0 /\ Minutes(s, id, 0) = 0
      BY <1>7, <2>2, MinutesFollow
    <3>4. /\ IsFiniteSet(TakenFor(<<>>, id)) /\ Cardinality(TakenFor(<<>>, id)) = 0
          /\ Minutes(<<>>, id, Len(<<>>)) = 0
      BY <2>2, <3>1, <3>2, <3>3
    <3>5. AllMinutes(<<>>, <<>>, s, 0, id)
      BY <3>3, <3>4 DEF AllMinutes
    <3> QED BY <2>1, <3>5
  <2>5. Progress(base, s, 0, F, id)
    BY <2>1, <2>3, <2>4 DEF Progress
  <2> QED BY <2>1, <2>2, <2>5 DEF base
<1>12. ASSUME NEW k \in I PROVE k + 1 \in I
  <2> SUFFICES ASSUME k + 1 <= n PROVE Good(k + 1)
    OBVIOUS
  <2>1. /\ k \in Nat /\ k + 1 \in 1..n /\ (k + 1) - 1 = k /\ k \in 0..n /\ Good(k)
    BY <1>2
  <2> DEFINE r == v[k]
  <2>2. r \in S /\ v[k + 1] = Placed(r, s[k + 1])
    BY <1>10, <2>1
  <2>3. r.unscheduled \in Seq(Work(ids)) /\ Progress(r, s, k, F, id)
    BY <2>1
  <2>4. k \in Nat /\ k + 1 \in 1..Len(s)
    BY <1>4, <2>1
  <2> HIDE DEF r
  <2>5. CASE BestSlots(s[k + 1], r.slots) = <<>>
    BY <1>7, <1>9, <2>2, <2>3, <2>4, <2>5, LeftOutProgress DEF S
  <2>6. CASE BestSlots(s[k + 1], r.slots) # <<>>
    BY <1>7, <2>2, <2>3, <2>4, <2>6, PlacedProgress DEF S
  <2> QED BY <2>5, <2>6
<1> HIDE DEF I
<1>13. I = Nat
  <2>1. I \in SUBSET Nat
    BY DEF I
  <2> QED BY <1>11, <1>12, <2>1, InductOn
<1>14. Good(n) /\ v[n] \in S
  <2>1. n \in I /\ n <= n /\ n \in 0..n
    BY <1>2, <1>13
  <2> QED BY <1>10, <2>1 DEF I
<1> QED BY <1>5, <1>7, <1>8, <1>14 DEF S, n, s

\* A span of free units is free.
LEMMA FreeUnitsAreFree ==
  ASSUME NEW es \in Seq(Spans)
  PROVE  /\ \A slot \in FreeSlots(es) : Units(slot) \subseteq FreeUnits(ToSet(es))
         /\ \A q \in Spans : Units(q) \subseteq FreeUnits(ToSet(es)) => q \in FreeSlots(es)
<1>1. \A e \in ToSet(es) : e \in Spans /\ e.start \in Int /\ e.end \in Int /\ e.start < e.end
  BY MembersOf DEF Spans, Slots
<1>2. /\ Buffer \in Nat /\ WorkStart \in Nat /\ WorkEnd \in Nat
      /\ Day.start = WorkStart /\ Day.end = WorkEnd
      /\ \A e : Buffered(e).start = e.start - Buffer /\ Buffered(e).end = e.end + Buffer
  BY SlotsAssumption DEF Day, Slot, Buffered
<1>3. ASSUME NEW slot \in FreeSlots(es), NEW u \in Units(slot) PROVE u \in FreeUnits(ToSet(es))
  <2>1. /\ slot.start \in Int /\ slot.end \in Int /\ Within(slot, Day)
        /\ \A e \in ToSet(es) : ~Overlap(slot, Buffered(e))
    BY DEF FreeSlots, Slots
  <2>2. u \in Int /\ slot.start <= u /\ u < slot.end
    BY <2>1 DEF Units
  <2>3. u \in WorkStart..(WorkEnd - 1)
    BY <1>2, <2>1, <2>2 DEF Within
  <2>4. ASSUME NEW e \in ToSet(es) PROVE u \notin (e.start - Buffer)..(e.end + Buffer - 1)
    <3>1. ~(slot.start < e.end + Buffer /\ slot.end > e.start - Buffer)
      BY <1>2, <2>1 DEF Overlap
    <3> QED BY <1>1, <1>2, <2>1, <2>2, <3>1
  <2> QED BY <2>3, <2>4 DEF FreeUnits
<1>4. ASSUME NEW q \in Spans, Units(q) \subseteq FreeUnits(ToSet(es)) PROVE q \in FreeSlots(es)
  <2>1. q \in Slots /\ q.start \in Int /\ q.end \in Int /\ q.start < q.end
    BY DEF Spans, Slots
  <2>2. \A u \in Int : q.start <= u /\ u < q.end => u \in FreeUnits(ToSet(es))
    <3> SUFFICES ASSUME NEW u \in Int, q.start <= u, u < q.end PROVE u \in FreeUnits(ToSet(es))
      OBVIOUS
    <3>1. u \in Units(q)
      BY <2>1 DEF Units
    <3> QED BY <1>4, <3>1
  <2>3. Within(q, Day)
    <3>1. q.start \in WorkStart..(WorkEnd - 1) /\ q.end - 1 \in WorkStart..(WorkEnd - 1)
      <4>1. q.start \in FreeUnits(ToSet(es)) /\ q.end - 1 \in FreeUnits(ToSet(es))
        <5>1. q.end - 1 \in Int /\ q.start <= q.end - 1 /\ q.end - 1 < q.end /\ q.start <= q.start
          BY <2>1
        <5> QED BY <2>1, <2>2, <5>1
      <4> QED BY <4>1 DEF FreeUnits
    <3> QED BY <1>2, <2>1, <3>1 DEF Within
  <2>4. ASSUME NEW e \in ToSet(es) PROVE ~Overlap(q, Buffered(e))
    <3> SUFFICES ASSUME Overlap(q, Buffered(e)) PROVE FALSE
      OBVIOUS
    <3> DEFINE a == e.start - Buffer
               b == e.end + Buffer
               u == Later(q.start, a)
    <3>1. a \in Int /\ b \in Int /\ a < b /\ q.start < b /\ q.end > a
      BY <1>1, <1>2 DEF Overlap
    <3>2. u \in Int /\ q.start <= u /\ u < q.end /\ u \in a..(b - 1)
      <4> HIDE DEF a, b
      <4> QED BY <2>1, <3>1 DEF Later
    <3>3. u \in FreeUnits(ToSet(es))
      BY <2>2, <3>2
    <3>4. u \notin (e.start - Buffer)..(e.end + Buffer - 1)
      <4> HIDE DEF u
      <4>1. u \notin UNION {(x.start - Buffer)..(x.end + Buffer - 1) : x \in ToSet(es)}
        BY <3>3 DEF FreeUnits
      <4> QED BY <4>1
    <3> HIDE DEF u
    <3> QED BY <1>1, <1>2, <3>2, <3>4
  <2> QED BY <2>1, <2>3, <2>4 DEF FreeSlots
<1> QED BY <1>3, <1>4

\* So is a span of usable units, and it is usable.
LEMMA UsableUnitsAreUsable ==
  ASSUME NEW es \in Seq(Spans)
  PROVE  /\ \A slot \in UsableSlots(es) : Units(slot) \subseteq UsableUnits(ToSet(es))
         /\ \A q \in Spans : Units(q) \subseteq UsableUnits(ToSet(es)) => q \in UsableSlots(es)
<1> DEFINE free == FreeUnits(ToSet(es))
           D == [start : WorkStart..WorkEnd, end : WorkStart..WorkEnd]
           long == {t \in D : IsLong(t) /\ Units(t) \subseteq free}
<1>1. UsableUnits(ToSet(es)) = UNION {Units(t) : t \in long}
  BY DEF UsableUnits
<1>2. WorkStart \in Nat /\ WorkEnd \in Nat /\ Day.start = WorkStart /\ Day.end = WorkEnd
  BY SlotsAssumption DEF Day, Slot
<1>3. \A t \in FreeSlots(es) : t \in Slots /\ Within(t, Day) /\ Units(t) \subseteq free
  <2>1. \A t \in FreeSlots(es) : Units(t) \subseteq free
    BY FreeUnitsAreFree
  <2> QED BY <2>1 DEF FreeSlots
<1>4. \A q \in Spans : Units(q) \subseteq free => q \in FreeSlots(es)
  BY FreeUnitsAreFree
<1>4a. free \subseteq WorkStart..(WorkEnd - 1)
  BY DEF FreeUnits
<1> HIDE DEF free
<1>5. \A t \in long : /\ t \in Spans /\ t \in FreeSlots(es) /\ IsLong(t)
                     /\ t.start \in Int /\ t.end \in Int /\ Units(t) \subseteq free
  <2> SUFFICES ASSUME NEW t \in long PROVE t \in Spans /\ t \in Slots
    BY <1>4 DEF Slots
  <2>1. t \in Slots
    BY <1>2 DEF Slots
  <2> DEFINE l == Length(t)
  <2>2. l \in Int /\ l * UnitMinutes >= 15 /\ UnitMinutes \in Nat \ {0}
    BY <2>1, SlotsAssumption DEF IsLong, Slots, Length
  <2>3. l >= 1
    <3> HIDE DEF l
    <3>1. ASSUME l <= 0 PROVE FALSE
      <4>1. l * UnitMinutes <= 0 * UnitMinutes
        BY <2>2, <3>1, ProductsGrow
      <4> QED BY <2>2, <4>1
    <3> QED BY <2>2, <3>1
  <2> QED BY <2>1, <2>3 DEF Spans, Slots, Length
<1>6. ASSUME NEW slot \in UsableSlots(es) PROVE Units(slot) \subseteq UsableUnits(ToSet(es))
  <2>1. PICK w \in FreeSlots(es) : IsLong(w) /\ Within(slot, w)
    BY DEF UsableSlots
  <2>2. w \in Slots /\ Within(w, Day) /\ Units(w) \subseteq free /\ slot \in Slots
    BY <1>3 DEF UsableSlots
  <2>3. CASE Units(slot) = {}
    BY <2>3
  <2>4. CASE Units(slot) # {}
    <3>1. slot.start < slot.end
      BY <2>2, <2>4 DEF Units, Slots
    <3>2. w \in D
      BY <1>2, <2>1, <2>2, <3>1 DEF Within, Slots
    <3>3. w \in long
      BY <2>1, <2>2, <3>2
    <3>4. Units(slot) \subseteq Units(w)
      BY <2>1, <2>2 DEF Within, Units, Slots
    <3> HIDE DEF long
    <3> QED BY <1>1, <3>3, <3>4
  <2> QED BY <2>3, <2>4
<1>7. ASSUME NEW q \in Spans, Units(q) \subseteq UsableUnits(ToSet(es)) PROVE q \in UsableSlots(es)
  <2>1. q \in Slots /\ q.start \in Int /\ q.end \in Int /\ q.start < q.end
    BY DEF Spans, Slots
  <2>2. q.start \in Units(q)
    BY <2>1 DEF Units
  <2>3. PICK t \in long : q.start \in Units(t)
    BY <1>1, <1>7, <2>2
  <2>4. /\ t.start \in Int /\ t.end \in Int /\ Units(t) \subseteq free /\ IsLong(t) /\ t \in Spans
        /\ t.start <= q.start /\ q.start < t.end
    BY <1>5, <2>3 DEF Units
  <2>5. Units(q) \subseteq free
    BY <1>1, <1>5, <1>7
  <2> HIDE DEF long
  <2> DEFINE w == Slot(t.start, Later(t.end, q.end))
  <2>6. /\ w \in Spans /\ Within(q, w) /\ Within(t, w)
        /\ Units(w) \subseteq Units(t) \cup Units(q)
    BY <2>1, <2>4 DEF Slot, Later, Spans, Slots, Within, Units
  <2> HIDE DEF w
  <2>7. w \in FreeSlots(es)
    BY <1>4, <2>4, <2>5, <2>6
  <2>8. IsLong(w)
    <3> DEFINE l == Length(t)
               m == Length(w)
    <3>1. l \in Int /\ m \in Int /\ l <= m
      BY <2>4, <2>6 DEF Within, Spans, Slots, Length
    <3>2. UnitMinutes \in Nat /\ l * UnitMinutes >= 15
      BY <2>4, SlotsAssumption DEF IsLong
    <3> HIDE DEF l, m
    <3>3. l * UnitMinutes <= m * UnitMinutes /\ l * UnitMinutes \in Int /\ m * UnitMinutes \in Int
      BY <3>1, <3>2, ProductsGrow
    <3>4. m * UnitMinutes >= 15
      BY <3>2, <3>3
    <3> QED BY <3>4 DEF IsLong, m
  <2> QED BY <2>1, <2>6, <2>7, <2>8 DEF UsableSlots
<1> QED BY <1>6, <1>7

\* What the rounds come to on a day.
LEMMA PlanOfDayProgress ==
  ASSUME NEW ids, NEW es \in Seq(Spans), NEW tasks \in Seq(Work(ids)), NEW id
  PROVE  LET result == PlanOfDay(es, tasks)
             flat == FlattenSeq([i \in DOMAIN tasks |-> Parts(tasks[i])])
             done == result.scheduled
         IN  /\ Progress(result, ByPriority(flat), Len(flat), UsableSlots(es), id)
             /\ result.unscheduled \in Seq(Work(ids))
             /\ Minutes(ByPriority(flat), id, Len(flat)) = Minutes(flat, id, Len(flat))
             /\ DOMAIN done = 1..Len(done) /\ NoOverlaps(done)
             /\ \A i \in 1..Len(done) : done[i].slot \in UsableSlots(es) /\ done[i].slot \in Spans
<1> DEFINE F == UsableSlots(es)
           flat == FlattenSeq([i \in DOMAIN tasks |-> Parts(tasks[i])])
           result == PlanOfDay(es, tasks)
           done == result.scheduled
           out == result.unscheduled
           s == ByPriority(flat)
           n == Len(flat)
<1>1. /\ es \in Seq(Slots) /\ tasks \in Seq(TaskRecords(ids))
      /\ Spans \in SUBSET Slots /\ Work(ids) \in SUBSET TaskRecords(ids)
  <2>1. Spans \in SUBSET Slots /\ Work(ids) \in SUBSET TaskRecords(ids)
    BY DEF Spans, Work
  <2> QED BY <2>1
<1>2. done \in Seq(Placements(TaskRecords(ids), F)) /\ NoOverlaps(done)
  BY <1>1, PlansUseFreeTimeOnce
<1>3. /\ DOMAIN done = 1..Len(done) /\ Len(done) \in Nat
      /\ \A i \in 1..Len(done) : done[i].slot \in F /\ done[i].task \in TaskRecords(ids)
  <2>1. DOMAIN done = 1..Len(done) /\ Len(done) \in Nat
        /\ \A i \in 1..Len(done) : done[i] \in Placements(TaskRecords(ids), F)
    BY <1>2, LenProperties, ElementOfSeq
  <2> HIDE DEF done, F
  <2> QED BY <2>1 DEF Placements
<1>4. flat \in Seq(Work(ids))
  BY SplitTasksAreWork
<1>5. result = ScheduleTasks(flat, AvailableSlots(es))
  BY DEF PlanOfDay
<1> HIDE DEF flat
<1>6. IsClosed(F) /\ AvailableSlots(es) \in Seq(F) /\ F \in SUBSET Slots
  <2>1. IsClosed(F)
    BY <1>1, UsableSlotsAreClosed
  <2> QED BY <1>1, <2>1, AvailableSlotsAreFree DEF IsClosed
<1>7. LosesNone(F, <<>>, AvailableSlots(es))
  BY <1>1, AvailableSlotsAreAll DEF LosesNone
<1>8. /\ Progress(result, s, n, F, id) /\ s \in Seq(Work(ids)) /\ out \in Seq(Work(ids))
      /\ Minutes(s, id, n) = Minutes(flat, id, n)
  <2> DEFINE A == AvailableSlots(es)
             r == ScheduleTasks(flat, A)
  <2>1. A \in Seq(F) /\ LosesNone(F, <<>>, A)
    BY <1>6, <1>7
  <2>2. result = r
    BY <1>5
  <2> HIDE DEF F, A, result
  <2>3. /\ r.unscheduled \in Seq(Work(ids)) /\ ByPriority(flat) \in Seq(Work(ids))
        /\ Progress(r, ByPriority(flat), Len(flat), F, id)
        /\ Minutes(ByPriority(flat), id, Len(flat)) = Minutes(flat, id, Len(flat))
    BY <1>4, <1>6, <2>1, ScheduleProgress
  <2> HIDE DEF r
  <2> QED BY <2>2, <2>3
<1> HIDE DEF result, F, s, n
<1>9. FromTasks(done, s, n) /\ s \in Seq(Work(ids)) /\ out \in Seq(Work(ids))
  BY <1>8 DEF Progress
<1>10. Len(s) = n
  <2>1. flat \in Seq(TaskRecords(ids))
    BY <1>1, <1>4
  <2> QED BY <2>1, PrioritiesAreOrdered DEF s, n
<1>11. \A i \in 1..Len(done) : done[i].slot \in Spans
  <2> SUFFICES ASSUME NEW i \in 1..Len(done) PROVE done[i].slot \in Spans
    OBVIOUS
  <2>1. /\ done[i].slot.end = done[i].slot.start + done[i].task.duration
        /\ \E j \in 1..n : done[i].task = s[j]
    BY <1>9 DEF FromTasks
  <2>2. done[i].task \in Work(ids)
    BY <1>9, <1>10, <2>1, ElementOfSeq
  <2>3. done[i].slot \in Slots /\ done[i].task.duration \in Nat \ {0}
    BY <1>3, <1>6, <2>2 DEF Work
  <2> DEFINE w == done[i].slot
             d == done[i].task.duration
  <2>4. w \in Slots /\ d \in Nat \ {0} /\ w.end = w.start + d
    BY <2>1, <2>3
  <2> HIDE DEF w, d
  <2>5. w \in Spans
    BY <2>4 DEF Spans, Slots
  <2> QED BY <2>5 DEF w
<1>12. /\ Progress(result, s, n, F, id) /\ out \in Seq(Work(ids))
       /\ Minutes(s, id, n) = Minutes(flat, id, n)
       /\ DOMAIN done = 1..Len(done) /\ NoOverlaps(done)
       /\ \A i \in 1..Len(done) : done[i].slot \in F /\ done[i].slot \in Spans
  BY <1>2, <1>3, <1>8, <1>11
<1> QED BY <1>12 DEF result, F, s, n, flat

\* Whatever the events and the tasks of a day are, no two tasks with one identity:
\* the plan of scheduleForDate uses free time only and no time twice, gives every task
\* all its minutes or leaves parts of it out, and leaves a part out only when it fits
\* nowhere in the usable time beside what is as important.
THEOREM PlanOfDayIsRight ==
  ASSUME NEW ids, NEW es \in Seq(Spans), NEW tasks \in Seq(Work(ids)), TasksApart(tasks)
  PROVE  PlanIsRight(ToSet(es), tasks, PlanOfDay(es, tasks))
<1> DEFINE F == UsableSlots(es)
           flat == FlattenSeq([i \in DOMAIN tasks |-> Parts(tasks[i])])
           result == PlanOfDay(es, tasks)
           done == result.scheduled
           out == result.unscheduled
           s == ByPriority(flat)
           n == Len(flat)
           taken(S) == UNION {Units(done[i].slot) : i \in S}
           before(u) == {i \in DOMAIN done : done[i].task.priority >= u.priority}
           parts(t) == {i \in DOMAIN done : done[i].task.id = t.id}
<1>1. ASSUME NEW id
      PROVE  /\ Progress(result, s, n, F, id) /\ out \in Seq(Work(ids))
             /\ Minutes(s, id, n) = Minutes(flat, id, n)
             /\ DOMAIN done = 1..Len(done) /\ NoOverlaps(done)
             /\ \A i \in 1..Len(done) : done[i].slot \in F /\ done[i].slot \in Spans
  BY PlanOfDayProgress
<1>2. \A i \in 1..Len(tasks) : Minutes(flat, tasks[i].id, n) = tasks[i].duration
  BY SplitTasksAreWork
<1> HIDE DEF flat, result, F, s, n
<1>3. /\ FitNowhere(F, done, out) /\ out \in Seq(Work(ids))
      /\ DOMAIN done = 1..Len(done) /\ NoOverlaps(done)
      /\ \A i \in 1..Len(done) : done[i].slot \in F /\ done[i].slot \in Spans
  BY <1>1 DEF Progress
<1> HIDE DEF done, out
<1>4. \A i \in 1..Len(out) : out[i] \in Work(ids)
  BY <1>3, MembersOf
<1>5. ToSet(out) = {out[i] : i \in 1..Len(out)} /\ DOMAIN out = 1..Len(out)
  BY <1>3, MembersOf
<1>6. taken(DOMAIN done) \subseteq UsableUnits(ToSet(es))
  <2> SUFFICES ASSUME NEW i \in DOMAIN done PROVE Units(done[i].slot) \subseteq UsableUnits(ToSet(es))
    OBVIOUS
  <2>1. done[i].slot \in UsableSlots(es)
    BY <1>3 DEF F
  <2> QED BY <2>1, UsableUnitsAreUsable
<1>7. \A i, j \in DOMAIN done : i # j => ~Overlap(done[i].slot, done[j].slot)
  BY <1>3 DEF NoOverlaps
<1>8. ASSUME NEW t \in ToSet(tasks)
       PROVE  Cardinality(taken(parts(t))) + Cardinality(Portions(out, t.id)) = t.duration
  <2>1. PICK i \in 1..Len(tasks) : t = tasks[i]
    BY MembersOf
  <2>2. Minutes(s, t.id, n) = t.duration
    BY <1>2, <1>1, <2>1
  <2>3. Cardinality(TakenFor(done, t.id)) + Minutes(out, t.id, Len(out)) = Minutes(s, t.id, n)
    BY <1>1 DEF Progress, AllMinutes, done, out
  <2>4. taken(parts(t)) = TakenFor(done, t.id)
    BY DEF TakenFor
  <2>5. Portions(out, t.id) = FirstPortions(out, t.id, Len(out))
    BY <1>4, <1>5 DEF Portions, FirstPortions
  <2> HIDE DEF taken, parts
  <2> QED BY <2>2, <2>3, <2>4, <2>5 DEF Minutes
<1>9. ASSUME NEW u \in ToSet(out), Fits(u.duration, UsableUnits(ToSet(es)) \ taken(before(u)))
       PROVE  FALSE
  <2> DEFINE d == u.duration
             free == UsableUnits(ToSet(es)) \ taken(before(u))
  <2>1. PICK m \in 1..Len(out) : u = out[m]
    BY <1>4, <1>5
  <2>2. d \in Nat \ {0}
    BY <1>4, <1>5, <2>1 DEF Work
  <2>3. PICK t \in free : t..(t + d - 1) \subseteq free
    BY <1>9 DEF Fits
  <2>4. t \in Int
    BY <2>3, SlotsAssumption DEF UsableUnits, Units
  <2> DEFINE q == Slot(t, t + d)
  <2>5. q \in Spans /\ q.start = t /\ q.end = t + d /\ Length(q) = d
    BY <2>2, <2>4 DEF Slot, Slots, Spans, Length
  <2> HIDE DEF q
  <2>6. Units(q) \subseteq free
    <3>1. t + d - 1 = (t + d) - 1
      BY <2>2, <2>4
    <3> QED BY <2>3, <2>5, <3>1 DEF Units
  <2>7. q \in F
    BY <2>5, <2>6, UsableUnitsAreUsable DEF F
  <2>8. ASSUME NEW j \in 1..Len(done), done[j].task.priority >= u.priority, Overlap(q, done[j].slot)
        PROVE  FALSE
    <3> DEFINE w == done[j].slot
               x == Later(q.start, w.start)
    <3>1. w \in Spans
      BY <1>3
    <3>2. /\ q.start \in Int /\ q.end \in Int /\ w.start \in Int /\ w.end \in Int
          /\ q.start < q.end /\ w.start < w.end /\ q.start < w.end /\ q.end > w.start
      BY <2>5, <2>8, <3>1 DEF Spans, Slots, Overlap
    <3> HIDE DEF w
    <3>3. x \in q.start..(q.end - 1) /\ x \in w.start..(w.end - 1)
      BY <3>2 DEF Later
    <3>4. j \in before(u)
      BY <1>3, <2>8
    <3>5. x \in taken(before(u))
      BY <3>3, <3>4 DEF Units, w
    <3>6. x \in free
      <4> HIDE DEF x, free
      <4> QED BY <2>6, <3>3 DEF Units
    <3> HIDE DEF x, taken, before
    <3> QED BY <3>5, <3>6
  <2>9. BesideImportant(q, done, out[m].priority)
    BY <2>1, <2>8 DEF BesideImportant
  <2> QED BY <1>3, <2>1, <2>5, <2>7, <2>9 DEF FitNowhere
<1> HIDE DEF taken, before, parts
<1>10. /\ taken(DOMAIN result.scheduled) \subseteq UsableUnits(ToSet(es))
       /\ \A i, j \in DOMAIN result.scheduled :
            i # j => ~Overlap(result.scheduled[i].slot, result.scheduled[j].slot)
       /\ \A t \in ToSet(tasks) :
            Cardinality(taken(parts(t))) + Cardinality(Portions(result.unscheduled, t.id)) = t.duration
       /\ \A u \in ToSet(result.unscheduled) :
            ~Fits(u.duration, UsableUnits(ToSet(es)) \ taken(before(u)))
  BY <1>6, <1>7, <1>8, <1>9 DEF done, out
<1> QED BY <1>10 DEF PlanIsRight, result, taken, before, parts, done

-----------------------------------------------------------------------------
(***************************************************************************)
(* So is the plan of the tasks of a user around any events.                *)
(***************************************************************************)
LEMMA PlansOfTasksAreRight ==
  ASSUME NEW busy \in SUBSET Spans, IsFiniteSet(busy),
         NEW tasks \in SUBSET DayTasks, NEW order \in SetToSeqs(tasks)
  PROVE  PlanIsRight(busy, order, PlanOfDay(SetToSeq(busy), order))
<1> DEFINE es == SetToSeq(busy)
<1>1. es \in Seq(Spans) /\ ToSet(es) = busy
  <2>1. es \in Seq(busy) /\ ToSet(es) = busy
    BY SetAsList
  <2> QED BY <2>1
<1> HIDE DEF es
<1>2. order \in Seq(tasks) /\ \A i, j \in 1..Len(order) : i # j => order[i] # order[j]
  BY OrdersAreTasks
<1>3. order \in Seq(Work(TaskIds))
  <2>1. DayTasks \in SUBSET Work(TaskIds)
    BY PlanningAssumption DEF Work, TaskRecords, TaskIds
  <2>2. tasks \in SUBSET Work(TaskIds)
    BY <2>1
  <2> QED BY <1>2, <2>2
<1>4. TasksApart(order)
  <2> SUFFICES ASSUME NEW i \in 1..Len(order), NEW j \in 1..Len(order), order[i].id = order[j].id
               PROVE  i = j
    BY DEF TasksApart
  <2>1. order[i] \in DayTasks /\ order[j] \in DayTasks
    BY <1>2, ElementOfSeq
  <2>2. order[i] = order[j]
    BY <2>1, PlanningAssumption
  <2> QED BY <1>2, <2>2
<1>5. PlanIsRight(ToSet(es), order, PlanOfDay(es, order))
  BY <1>1, <1>3, <1>4, PlanOfDayIsRight
<1> QED BY <1>1, <1>5 DEF es
==============================================================================
