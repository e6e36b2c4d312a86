-------------------------- MODULE SubsequenceProofs --------------------------
(***************************************************************************)
(* What the list operators of the models return, and induction in the form *)
(* the provers can use: over a set of numbers instead of a predicate.      *)
(***************************************************************************)
EXTENDS Subsequences, Integers, SequencesExt, FiniteSetTheorems, FunctionTheorems, SequenceTheorems,
        WellFoundedInduction, TLAPS

(***************************************************************************)
(* Numbers.                                                                *)
(***************************************************************************)

\* A set of natural numbers that is not empty has a least one.
LEMMA LeastNat ==
  ASSUME NEW T \in SUBSET Nat, T # {}
  PROVE  \E n \in T : \A m \in T : n <= m
<1> DEFINE R == {ss \in Nat \X Nat : ss[1] < ss[2]}
<1>1. IsWellFoundedOn(R, Nat)
  BY NatLessThanWellFounded DEF OpToRel
<1> HIDE DEF R
<1>2. \E n \in T : \A m \in T : ~(<<m, n>> \in R)
  BY <1>1, WFMin
<1>3. \A m, n \in T : ~(<<m, n>> \in R) => n <= m
  BY DEF R
<1> QED BY <1>2, <1>3

\* Induction: a set with 0 and the successors of its members is Nat.
LEMMA InductOn ==
  ASSUME NEW S \in SUBSET Nat, 0 \in S, \A n \in S : n + 1 \in S
  PROVE  S = Nat
<1> SUFFICES ASSUME Nat \ S # {} PROVE FALSE
  OBVIOUS
<1>1. PICK n \in Nat \ S : \A m \in Nat \ S : n <= m
  BY LeastNat
<1>2. n # 0 /\ n - 1 \in Nat
  BY <1>1
<1>3. n - 1 \in S
  BY <1>1, <1>2
<1> QED BY <1>1, <1>2, <1>3

\* What a step does to the members of S can be repeated n times from any of them.
LEMMA IterationExists ==
  ASSUME NEW S, NEW base \in S, NEW n \in Nat, NEW step \in [S \X (1..n) -> S]
  PROVE  \E g \in [0..n -> S] : g[0] = base /\ \A i \in 1..n : g[i] = step[<<g[i - 1], i>>]
<1> DEFINE Reaches(k) == \E g \in [0..k -> S] :
             g[0] = base /\ \A i \in 1..k : g[i] = step[<<g[i - 1], i>>]
           T == {k \in Nat : k <= n => Reaches(k)}
<1>1. 0 \in T
  <2>1. [i \in 0..0 |-> base] \in [0..0 -> S]
    OBVIOUS
  <2>2. Reaches(0)
    <3> WITNESS [i \in 0..0 |-> base] \in [0..0 -> S]
    <3> QED OBVIOUS
  <2> QED BY <2>2
<1>2. ASSUME NEW k \in T PROVE k + 1 \in T
  <2> SUFFICES ASSUME k + 1 <= n PROVE Reaches(k + 1)
    OBVIOUS
  <2>0. k \in Nat /\ k + 1 \in 1..n
    OBVIOUS
  <2>1. PICK g \in [0..k -> S] : g[0] = base /\ \A i \in 1..k : g[i] = step[<<g[i - 1], i>>]
    BY <2>0
  <2> DEFINE h == [i \in 0..(k + 1) |-> IF i <= k THEN g[i] ELSE step[<<g[k], k + 1>>]]
  <2>2. step[<<g[k], k + 1>>] \in S
    BY <2>0, <2>1
  <2>3. h \in [0..(k + 1) -> S]
    BY <2>0, <2>2
  <2>4. /\ \A i \in 0..k : h[i] = g[i]
        /\ h[k + 1] = step[<<g[k], k + 1>>]
    BY <2>0
  <2> HIDE DEF h
  <2>5. h[0] = base
    BY <2>0, <2>1, <2>4
  <2>6. \A i \in 1..(k + 1) : h[i] = step[<<h[i - 1], i>>]
    <3> SUFFICES ASSUME NEW i \in 1..(k + 1) PROVE h[i] = step[<<h[i - 1], i>>]
      OBVIOUS
    <3>1. i - 1 \in 0..k /\ h[i - 1] = g[i - 1]
      BY <2>0, <2>4
    <3>2. CASE i = k + 1
      BY <3>1, <3>2, <2>0, <2>4
    <3>3. CASE i # k + 1
      <4>1. i \in 1..k /\ i \in 0..k
        BY <3>3, <2>0
      <4> QED BY <4>1, <3>1, <2>1, <2>4
    <3> QED BY <3>2, <3>3
  <2> QED BY <2>3, <2>5, <2>6
<1> HIDE DEF T
<1>3. T = Nat
  <2>1. T \in SUBSET Nat
    BY DEF T
  <2> QED BY <1>1, <1>2, <2>1, InductOn
<1>4. n \in T
  BY <1>3
<1> QED BY <1>4 DEF T

\* A function on 1..n is a list of length n.
LEMMA FunctionIsList ==
  ASSUME NEW T, NEW n \in Nat, NEW f \in [1..n -> T]
  PROVE  f \in Seq(T) /\ Len(f) = n
<1>1. f \in Seq(T)
  BY SeqDef
<1>2. DOMAIN f = 1..n /\ DOMAIN f = 1..Len(f) /\ Len(f) \in Nat
  BY <1>1, LenProperties
<1>3. Len(f) = n
  BY <1>2
<1> QED BY <1>1, <1>3

(***************************************************************************)
(* EntriesAt, Without.                                                     *)
(***************************************************************************)

\* The rank of a place among the places in I.
Rank(I, i) == Cardinality({j \in I : j <= i})

\* The places in I are ranked 1..Cardinality(I), in their order.
LEMMA RankProperties ==
  ASSUME NEW n \in Nat, NEW I \in SUBSET (1..n)
  PROVE  /\ IsFiniteSet(I) /\ Cardinality(I) \in 0..n
         /\ \A i \in I : Rank(I, i) \in 1..Cardinality(I)
         /\ \A i, j \in I : i < j => Rank(I, i) < Rank(I, j)
         /\ \A k \in 1..Cardinality(I) : \E i \in I : Rank(I, i) = k
<1> DEFINE Upto(i) == {j \in I : j <= i}
           f == [i \in I |-> Rank(I, i)]
<1>1. /\ IsFiniteSet(I) /\ Cardinality(I) \in Nat /\ Cardinality(I) <= n
  <2>1. IsFiniteSet(1..n) /\ Cardinality(1..n) = n
    BY FS_Interval
  <2>2. IsFiniteSet(I) /\ Cardinality(I) <= Cardinality(1..n)
    BY <2>1, FS_Subset
  <2> QED BY <2>1, <2>2, FS_CardinalityType
<1>2. \A i \in I : /\ IsFiniteSet(Upto(i)) /\ Cardinality(Upto(i)) \in Nat
                   /\ Cardinality(Upto(i)) <= Cardinality(I)
  BY <1>1, FS_Subset, FS_CardinalityType
<1>3. \A i \in I : Rank(I, i) \in 1..Cardinality(I)
  <2> SUFFICES ASSUME NEW i \in I PROVE Rank(I, i) \in 1..Cardinality(I)
    OBVIOUS
  <2>1. i \in Upto(i)
    OBVIOUS
  <2>2. Cardinality(Upto(i)) # 0
    BY <1>2, <2>1, FS_EmptySet
  <2> QED BY <1>1, <1>2, <2>2 DEF Rank
<1>4. \A i, j \in I : i < j => Rank(I, i) < Rank(I, j)
  <2> SUFFICES ASSUME NEW i \in I, NEW j \in I, i < j
               PROVE  Rank(I, i) < Rank(I, j)
    OBVIOUS
  <2>1. Upto(i) \in SUBSET Upto(j) /\ j \in Upto(j) /\ j \notin Upto(i)
    <3>1. i \in Int /\ j \in Int /\ \A m \in I : m \in Int
      OBVIOUS
    <3>2. ~(j <= i) /\ j <= j /\ \A m \in I : m <= i => m <= j
      BY <3>1
    <3> QED BY <3>2
  <2>2. /\ Cardinality(Upto(i)) <= Cardinality(Upto(j))
        /\ Cardinality(Upto(j)) = Cardinality(Upto(i)) => Upto(j) = Upto(i)
    BY <1>2, <2>1, FS_Subset
  <2>3. Cardinality(Upto(i)) \in Nat /\ Cardinality(Upto(j)) \in Nat
    BY <1>2
  <2> QED BY <2>1, <2>2, <2>3 DEF Rank
<1>5. f \in Injection(I, 1..Cardinality(I))
  <2>1. f \in [I -> 1..Cardinality(I)]
    BY <1>3
  <2>2. \A i, j \in I : f[i] = f[j] => i = j
    <3> SUFFICES ASSUME NEW i \in I, NEW j \in I, f[i] = f[j], i # j PROVE FALSE
      OBVIOUS
    <3>1. i < j \/ j < i
      OBVIOUS
    <3>2. Rank(I, i) \in Nat /\ Rank(I, j) \in Nat
      BY <1>1, <1>3
    <3> QED BY <1>4, <3>1, <3>2
  <2> HIDE DEF f
  <2> QED BY <2>1, <2>2, Fun_IsInj
<1>6. f \in Surjection(I, 1..Cardinality(I))
  <2>1. IsFiniteSet(1..Cardinality(I)) /\ Cardinality(1..Cardinality(I)) = Cardinality(I)
    BY <1>1, FS_Interval
  <2> HIDE DEF f
  <2> QED BY <1>5, <2>1, FS_Injection
<1>7. \A k \in 1..Cardinality(I) : \E i \in I : f[i] = k
  <2> HIDE DEF f
  <2> QED BY <1>6, Fun_SurjectionProperties
<1> QED BY <1>1, <1>3, <1>4, <1>7

\* EntriesAt(s, I) reads s along an increasing map onto I.
LEMMA EntriesAtProperties ==
  ASSUME NEW T, NEW s \in Seq(T), NEW I \in SUBSET (1..Len(s))
  PROVE  /\ EntriesAt(s, I) \in Seq(T)
         /\ \E g \in [1..Len(EntriesAt(s, I)) -> I] :
              /\ \A k \in 1..Len(EntriesAt(s, I)) : EntriesAt(s, I)[k] = s[g[k]]
              /\ \A k, l \in 1..Len(EntriesAt(s, I)) : k < l => g[k] < g[l]
              /\ \A i \in I : \E k \in 1..Len(EntriesAt(s, I)) : g[k] = i
<1> DEFINE N == Cardinality(I)
           g == [k \in 1..N |-> CHOOSE i \in I : Rank(I, i) = k]
           r == [k \in 1..N |-> s[g[k]]]
<1>1. Len(s) \in Nat
  OBVIOUS
<1>2. N \in Nat
  BY <1>1, RankProperties
<1>3. \A k \in 1..N : g[k] \in I /\ Rank(I, g[k]) = k
  <2>1. \A k \in 1..N : \E i \in I : Rank(I, i) = k
    BY <1>1, RankProperties
  <2> QED BY <2>1
<1>4. EntriesAt(s, I) = r
  <2>1. EntriesAt(s, I) = [k \in 1..N |-> s[CHOOSE i \in I : Rank(I, i) = k]]
    BY DEF EntriesAt, Rank
  <2>2. \A k \in 1..N : s[CHOOSE i \in I : Rank(I, i) = k] = s[g[k]]
    OBVIOUS
  <2> HIDE DEF g
  <2> QED BY <2>1, <2>2
<1>5. \A i \in 1..Len(s) : s[i] \in T
  BY ElementOfSeq
<1>6. r \in [1..N -> T]
  <2> HIDE DEF g, N
  <2> QED BY <1>3, <1>5
<1>7. r \in Seq(T) /\ Len(r) = N
  <2>1. r \in Seq(T)
    <3> HIDE DEF r, N
    <3> QED BY <1>2, <1>6, SeqDef
  <2>2. Len(r) = N
    <3> HIDE DEF r, N
    <3>1. DOMAIN r = 1..N /\ DOMAIN r = 1..Len(r) /\ Len(r) \in Nat
      BY <2>1, <1>6, LenProperties
    <3> QED BY <3>1, <1>2
  <2> QED BY <2>1, <2>2
<1>8. \A k, l \in 1..N : k < l => g[k] < g[l]
  <2> SUFFICES ASSUME NEW k \in 1..N, NEW l \in 1..N, k < l, ~(g[k] < g[l]) PROVE FALSE
    OBVIOUS
  <2>1. /\ g[k] \in 1..Len(s) /\ g[l] \in 1..Len(s)
        /\ g[k] \in I /\ g[l] \in I /\ Rank(I, g[k]) = k /\ Rank(I, g[l]) = l
    BY <1>3
  <2> HIDE DEF g, N
  <2>2. g[l] < g[k]
    <3>1. g[l] # g[k]
      BY <2>1, <1>2
    <3> QED BY <2>1, <3>1
  <2>3. Rank(I, g[l]) < Rank(I, g[k])
    BY <1>1, <2>1, <2>2, RankProperties
  <2> QED BY <2>1, <2>3, <1>2 DEF N
<1>9. \A i \in I : \E k \in 1..N : g[k] = i
  <2> SUFFICES ASSUME NEW i \in I PROVE \E k \in 1..N : g[k] = i
    OBVIOUS
  <2> DEFINE k == Rank(I, i)
  <2>1. k \in 1..N
    BY <1>1, RankProperties
  <2>2. g[k] \in I /\ Rank(I, g[k]) = Rank(I, i)
    BY <1>3, <2>1
  <2>3. g[k] = i
    <3> HIDE DEF g, N
    <3> SUFFICES ASSUME g[k] # i PROVE FALSE
      OBVIOUS
    <3>1. g[k] \in Int /\ i \in Int
      <4>1. \A m \in I : m \in Int
        OBVIOUS
      <4> QED BY <4>1, <2>2
    <3>2. g[k] < i \/ i < g[k]
      BY <3>1
    <3>3. Rank(I, i) \in Nat
      BY <1>2, <2>1
    <3>4. Rank(I, g[k]) < Rank(I, i) \/ Rank(I, i) < Rank(I, g[k])
      BY <1>1, <2>2, <3>2, RankProperties
    <3> QED BY <2>2, <3>3, <3>4
  <2> QED BY <2>1, <2>3
<1>10. g \in [1..N -> I]
  BY <1>3
<1> HIDE DEF g, r, N
<1>11. \A k \in 1..N : r[k] = s[g[k]]
  BY DEF r
<1> QED BY <1>4, <1>6, <1>7, <1>8, <1>9, <1>10, <1>11

\* r is s without its entries in S: it reads s along an increasing map onto
\* the places of the others.
IsRestOf(r, s, S) ==
  \E g \in [1..Len(r) -> 1..Len(s)] :
    /\ \A k \in 1..Len(r) : r[k] = s[g[k]] /\ s[g[k]] \notin S
    /\ \A k, l \in 1..Len(r) : k < l => g[k] < g[l]
    /\ \A i \in 1..Len(s) : s[i] \notin S => \E k \in 1..Len(r) : g[k] = i

\* Without keeps exactly the entries outside S, in their order.
LEMMA WithoutProperties ==
  ASSUME NEW T, NEW s \in Seq(T), NEW S
  PROVE  Without(s, S) \in Seq(T) /\ IsRestOf(Without(s, S), s, S)
<1> DEFINE I == {i \in DOMAIN s : s[i] \notin S}
           r == EntriesAt(s, I)
<1>1. I \in SUBSET (1..Len(s)) /\ Without(s, S) = r
  BY DEF Without
<1>2. \A i : i \in I <=> i \in 1..Len(s) /\ s[i] \notin S
  OBVIOUS
<1> HIDE DEF I
<1>3. /\ r \in Seq(T)
      /\ \E g \in [1..Len(r) -> I] :
           /\ \A k \in 1..Len(r) : r[k] = s[g[k]]
           /\ \A k, l \in 1..Len(r) : k < l => g[k] < g[l]
           /\ \A i \in I : \E k \in 1..Len(r) : g[k] = i
  BY <1>1, EntriesAtProperties
<1> HIDE DEF r
<1>4. PICK g \in [1..Len(r) -> I] :
        /\ \A k \in 1..Len(r) : r[k] = s[g[k]]
        /\ \A k, l \in 1..Len(r) : k < l => g[k] < g[l]
        /\ \A i \in I : \E k \in 1..Len(r) : g[k] = i
  BY <1>3
<1>5. g \in [1..Len(r) -> 1..Len(s)]
  BY <1>1
<1>6. \A k \in 1..Len(r) : s[g[k]] \notin S
  BY <1>2, <1>4
<1>7. \A i \in 1..Len(s) : s[i] \notin S => \E k \in 1..Len(r) : g[k] = i
  BY <1>2, <1>4
<1>8. IsRestOf(r, s, S)
  BY <1>4, <1>5, <1>6, <1>7 DEF IsRestOf
<1> QED BY <1>1, <1>3, <1>8

(***************************************************************************)
(* InsertAt, of the community modules.                                     *)
(***************************************************************************)
LEMMA InsertAtProperties ==
  ASSUME NEW T, NEW s \in Seq(T), NEW i \in 1..(Len(s) + 1), NEW e \in T
  PROVE  /\ InsertAt(s, i, e) \in Seq(T)
         /\ Len(InsertAt(s, i, e)) = Len(s) + 1
         /\ \A k \in 1..(Len(s) + 1) :
              InsertAt(s, i, e)[k] = IF k < i THEN s[k] ELSE IF k = i THEN e ELSE s[k - 1]
<1> DEFINE l == SubSeq(s, 1, i - 1)
           m == Append(l, e)
           r == SubSeq(s, i, Len(s))
<1>1. /\ l \in Seq(T) /\ Len(l) = i - 1
      /\ \A k \in 1..(i - 1) : l[k] = s[k]
  OBVIOUS
<1>2. /\ r \in Seq(T) /\ Len(r) = Len(s) - i + 1
      /\ \A k \in 1..(Len(s) - i + 1) : r[k] = s[i + k - 1]
  OBVIOUS
<1>3. InsertAt(s, i, e) = m \o r
  <2> HIDE DEF l, r
  <2>1. m = l \o <<e>>
    BY <1>1, AppendIsConcat
  <2> QED BY <2>1 DEF InsertAt, l, r
<1>4. m \in Seq(T) /\ Len(m) = i /\ \A k \in 1..i : m[k] = IF k = i THEN e ELSE s[k]
  <2> HIDE DEF l
  <2> QED BY <1>1, AppendProperties
<1> HIDE DEF l, m, r
<1>5. /\ m \o r \in Seq(T)
      /\ Len(m \o r) = Len(m) + Len(r)
      /\ \A k \in 1..(Len(m) + Len(r)) :
           (m \o r)[k] = IF k <= Len(m) THEN m[k] ELSE r[k - Len(m)]
  BY <1>2, <1>4, ConcatProperties
<1>6. Len(m) + Len(r) = Len(s) + 1
  BY <1>2, <1>4
<1>7. ASSUME NEW k \in 1..(Len(s) + 1)
      PROVE  (m \o r)[k] = IF k < i THEN s[k] ELSE IF k = i THEN e ELSE s[k - 1]
  <2>1. CASE k <= i
    BY <2>1, <1>4, <1>5, <1>6
  <2>2. CASE ~(k <= i)
    <3>1. k - i \in 1..(Len(s) - i + 1) /\ i + (k - i) - 1 = k - 1
      BY <2>2
    <3>2. (m \o r)[k] = r[k - i]
      BY <2>2, <1>4, <1>5, <1>6
    <3>3. r[k - i] = s[k - 1]
      BY <3>1, <1>2
    <3> QED BY <2>2, <3>2, <3>3
  <2> QED BY <2>1, <2>2
<1> QED BY <1>3, <1>5, <1>6, <1>7

(***************************************************************************)
(* What a list holds, and lists without repetition.                        *)
(***************************************************************************)
LEMMA MembersOf ==
  ASSUME NEW T, NEW s \in Seq(T)
  PROVE  /\ Len(s) \in Nat /\ DOMAIN s = 1..Len(s)
         /\ \A i \in 1..Len(s) : s[i] \in T
         /\ ToSet(s) = {s[i] : i \in 1..Len(s)} /\ ToSet(s) \subseteq T
         /\ IsInjective(s) <=> \A i, j \in 1..Len(s) : s[i] = s[j] => i = j
<1>1. /\ Len(s) \in Nat /\ DOMAIN s = 1..Len(s)
      /\ \A i \in 1..Len(s) : s[i] \in T
  BY LenProperties, ElementOfSeq
<1> QED BY <1>1 DEF ToSet, IsInjective

LEMMA MembersOfNone == ToSet(<<>>) = {} /\ IsInjective(<<>>)
  BY DEF ToSet, IsInjective

LEMMA AppendMembers ==
  ASSUME NEW T, NEW s \in Seq(T), NEW e \in T
  PROVE  /\ Append(s, e) \in Seq(T) /\ Append(s, e) # <<>> /\ Len(Append(s, e)) = Len(s) + 1
         /\ ToSet(Append(s, e)) = ToSet(s) \cup {e}
         /\ IsInjective(s) /\ e \notin ToSet(s) => IsInjective(Append(s, e))
<1> DEFINE a == Append(s, e)
<1>1. /\ a \in Seq(T) /\ Len(a) = Len(s) + 1
      /\ \A i \in 1..Len(s) : a[i] = s[i]
      /\ a[Len(s) + 1] = e
  BY AppendProperties
<1>2. a # <<>>
  BY <1>1, EmptySeq, LenProperties
<1> HIDE DEF a
<1>3. Len(s) \in Nat /\ 1..Len(a) = (1..Len(s)) \cup {Len(s) + 1}
  BY <1>1, MembersOf
<1>4. ToSet(a) = ToSet(s) \cup {e}
  BY <1>1, <1>3, MembersOf
<1>5. ASSUME IsInjective(s), e \notin ToSet(s) PROVE IsInjective(a)
  <2>1. /\ \A i, j \in 1..Len(s) : s[i] = s[j] => i = j
        /\ \A i \in 1..Len(s) : s[i] # e
    BY <1>5, MembersOf
  <2>2. \A i, j \in 1..Len(a) : a[i] = a[j] => i = j
    BY <2>1, <1>1, <1>3
  <2> QED BY <2>2, <1>1, MembersOf
<1> QED BY <1>1, <1>2, <1>4, <1>5 DEF a

LEMMA TailMembers ==
  ASSUME NEW T, NEW s \in Seq(T), s # <<>>
  PROVE  /\ Head(s) \in T /\ Tail(s) \in Seq(T) /\ Len(s) \in Nat \ {0}
         /\ Len(Tail(s)) = Len(s) - 1 /\ Head(s) = s[1]
         /\ \A i \in 1..Len(Tail(s)) : Tail(s)[i] = s[i + 1]
         /\ ToSet(s) = ToSet(Tail(s)) \cup {Head(s)}
         /\ IsInjective(s) => IsInjective(Tail(s)) /\ Head(s) \notin ToSet(Tail(s))
<1> DEFINE h == Head(s)
           q == Tail(s)
<1>1. /\ Len(s) \in Nat \ {0} /\ h = s[1] /\ h \in T
      /\ q \in Seq(T) /\ Len(q) = Len(s) - 1
      /\ \A i \in 1..Len(q) : q[i] = s[i + 1]
  BY EmptySeq, HeadTailProperties, LenProperties
<1> HIDE DEF h, q
<1>2. ToSet(s) = ToSet(q) \cup {h}
  <2>1. ASSUME NEW x \in ToSet(s) PROVE x \in ToSet(q) \cup {h}
    <3>1. PICK i \in 1..Len(s) : x = s[i]
      BY <2>1, MembersOf
    <3>2. i = 1 \/ (i - 1 \in 1..Len(q) /\ (i - 1) + 1 = i)
      BY <1>1
    <3>3. i = 1 \/ x = q[i - 1]
      BY <1>1, <3>1, <3>2
    <3> QED BY <1>1, <3>1, <3>2, <3>3, MembersOf
  <2>2. ASSUME NEW x \in ToSet(q) PROVE x \in ToSet(s)
    <3>1. PICK i \in 1..Len(q) : x = q[i]
      BY <1>1, <2>2, MembersOf
    <3>2. i + 1 \in 1..Len(s)
      BY <1>1
    <3> QED BY <1>1, <3>1, <3>2, MembersOf
  <2>3. h \in ToSet(s)
    <3>1. 1 \in 1..Len(s)
      BY <1>1
    <3> QED BY <1>1, <3>1, MembersOf
  <2> QED BY <2>1, <2>2, <2>3
<1>3. ASSUME IsInjective(s) PROVE IsInjective(q) /\ h \notin ToSet(q)
  <2>1. \A i, j \in 1..Len(s) : s[i] = s[j] => i = j
    BY <1>3, MembersOf
  <2>2. \A i \in 1..Len(q) : i + 1 \in 1..Len(s) /\ i + 1 # 1 /\ 1 \in 1..Len(s)
    BY <1>1
  <2>3. \A i, j \in 1..Len(q) : q[i] = q[j] => i = j
    <3> SUFFICES ASSUME NEW i \in 1..Len(q), NEW j \in 1..Len(q), q[i] = q[j] PROVE i = j
      OBVIOUS
    <3>1. s[i + 1] = s[j + 1]
      BY <1>1
    <3>2. i + 1 = j + 1
      BY <2>1, <2>2, <3>1
    <3> QED BY <3>2
  <2>4. \A i \in 1..Len(q) : q[i] # h
    BY <1>1, <2>1, <2>2
  <2> QED BY <1>1, <2>3, <2>4, MembersOf
<1> QED BY <1>1, <1>2, <1>3 DEF h, q

LEMMA WithoutMembers ==
  ASSUME NEW T, NEW s \in Seq(T), NEW S
  PROVE  /\ Without(s, S) \in Seq(T)
         /\ ToSet(Without(s, S)) = ToSet(s) \ S
         /\ IsInjective(s) => IsInjective(Without(s, S))
<1> DEFINE r == Without(s, S)
<1>1. r \in Seq(T) /\ IsRestOf(r, s, S)
  BY WithoutProperties
<1> HIDE DEF r
<1>2. PICK g \in [1..Len(r) -> 1..Len(s)] :
        /\ \A k \in 1..Len(r) : r[k] = s[g[k]] /\ s[g[k]] \notin S
        /\ \A k, l \in 1..Len(r) : k < l => g[k] < g[l]
        /\ \A i \in 1..Len(s) : s[i] \notin S => \E k \in 1..Len(r) : g[k] = i
  BY <1>1 DEF IsRestOf
<1>3. ToSet(r) = ToSet(s) \ S
  <2>1. ASSUME NEW x \in ToSet(r) PROVE x \in ToSet(s) \ S
    BY <1>1, <1>2, <2>1, MembersOf
  <2>2. ASSUME NEW x \in ToSet(s), x \notin S PROVE x \in ToSet(r)
    <3>1. PICK i \in 1..Len(s) : x = s[i]
      BY <2>2, MembersOf
    <3>2. PICK k \in 1..Len(r) : g[k] = i
      BY <1>2, <2>2, <3>1
    <3> QED BY <1>1, <1>2, <3>1, <3>2, MembersOf
  <2> QED BY <2>1, <2>2
<1>4. ASSUME IsInjective(s) PROVE IsInjective(r)
  <2>1. \A i, j \in 1..Len(s) : s[i] = s[j] => i = j
    BY <1>4, MembersOf
  <2>2. ASSUME NEW k \in 1..Len(r), NEW l \in 1..Len(r), r[k] = r[l] PROVE k = l
    <3>1. g[k] = g[l] /\ g[k] \in Int /\ k \in Int /\ l \in Int
      BY <1>2, <2>1, <2>2
    <3> QED BY <1>2, <3>1
  <2> QED BY <1>1, <2>2, MembersOf
<1> QED BY <1>1, <1>3, <1>4 DEF r

LEMMA InsertAtMembers ==
  ASSUME NEW T, NEW s \in Seq(T), NEW i \in 1..(Len(s) + 1), NEW e \in T
  PROVE  /\ InsertAt(s, i, e) \in Seq(T) /\ Len(InsertAt(s, i, e)) = Len(s) + 1
         /\ ToSet(InsertAt(s, i, e)) = ToSet(s) \cup {e}
         /\ IsInjective(s) /\ e \notin ToSet(s) => IsInjective(InsertAt(s, i, e))
<1> DEFINE r == InsertAt(s, i, e)
<1>1. /\ r \in Seq(T) /\ Len(r) = Len(s) + 1
      /\ \A k \in 1..(Len(s) + 1) : r[k] = IF k < i THEN s[k] ELSE IF k = i THEN e ELSE s[k - 1]
  BY InsertAtProperties
<1> HIDE DEF r
<1>2. Len(s) \in Nat
  BY MembersOf
<1>3. ToSet(r) = ToSet(s) \cup {e}
  <2>1. ASSUME NEW x \in ToSet(r) PROVE x \in ToSet(s) \cup {e}
    <3>1. PICK k \in 1..Len(r) : x = r[k]
      BY <1>1, <2>1, MembersOf
    <3>2. CASE k < i
      <4>1. k \in 1..Len(s)
        BY <1>1, <1>2, <3>2
      <4> QED BY <1>1, <3>1, <3>2, <4>1, MembersOf
    <3>3. CASE k = i
      BY <1>1, <3>1, <3>3
    <3>4. CASE k > i
      <4>1. k - 1 \in 1..Len(s) /\ ~(k < i) /\ k # i
        BY <1>1, <1>2, <3>4
      <4> QED BY <1>1, <3>1, <4>1, MembersOf
    <3> QED BY <3>2, <3>3, <3>4
  <2>2. ASSUME NEW x \in ToSet(s) PROVE x \in ToSet(r)
    <3>1. PICK k \in 1..Len(s) : x = s[k]
      BY <2>2, MembersOf
    <3>2. CASE k < i
      <4>1. k \in 1..Len(r)
        BY <1>1, <1>2
      <4> QED BY <1>1, <3>1, <3>2, <4>1, MembersOf
    <3>3. CASE ~(k < i)
      <4>1. k + 1 \in 1..Len(r) /\ ~(k + 1 < i) /\ k + 1 # i /\ (k + 1) - 1 = k
        BY <1>1, <1>2, <3>3
      <4>2. r[k + 1] = s[k]
        BY <1>1, <4>1
      <4> QED BY <1>1, <3>1, <4>1, <4>2, MembersOf
    <3> QED BY <3>2, <3>3
  <2>3. e \in ToSet(r)
    BY <1>1, MembersOf
  <2> QED BY <2>1, <2>2, <2>3
<1>4. ASSUME IsInjective(s), e \notin ToSet(s) PROVE IsInjective(r)
  <2>1. /\ \A k, l \in 1..Len(s) : s[k] = s[l] => k = l
        /\ \A k \in 1..Len(s) : s[k] # e
    BY <1>4, MembersOf
  <2>2. ASSUME NEW k \in 1..Len(r), NEW l \in 1..Len(r), r[k] = r[l], k < l PROVE FALSE
    <3> DEFINE from(m) == IF m < i THEN m ELSE m - 1
    <3>1. ASSUME NEW m \in 1..Len(r), m # i
          PROVE  from(m) \in 1..Len(s) /\ r[m] = s[from(m)]
      BY <1>1, <1>2, <3>1
    <3>2. CASE k # i /\ l # i
      <4>1. from(k) \in 1..Len(s) /\ from(l) \in 1..Len(s) /\ s[from(k)] = s[from(l)]
        BY <2>2, <3>1, <3>2
      <4>2. from(k) = from(l)
        BY ONLY <2>1, <4>1
      <4> QED BY <1>1, <1>2, <2>2, <3>2, <4>2
    <3>3. CASE k = i
      <4>1. r[k] = e /\ l # i
        BY <1>1, <2>2, <3>3
      <4> QED BY <2>1, <2>2, <3>1, <4>1
    <3>4. CASE l = i
      <4>1. r[l] = e /\ k # i
        BY <1>1, <2>2, <3>4
      <4> QED BY <2>1, <2>2, <3>1, <4>1
    <3> QED BY <3>2, <3>3, <3>4
  <2>3. \A k, l \in 1..Len(r) : r[k] = r[l] => k = l
    <3> SUFFICES ASSUME NEW k \in 1..Len(r), NEW l \in 1..Len(r), r[k] = r[l] PROVE k = l
      OBVIOUS
    <3>1. k < l \/ l < k \/ k = l
      BY <1>1, <1>2
    <3> QED BY <2>2, <3>1
  <2> QED BY <1>1, <2>3, MembersOf
<1> QED BY <1>1, <1>3, <1>4 DEF r

\* The first n entries of s, as a set.
LeadingMembers(s, n) == {s[i] : i \in 1..n}

\* What SubSeq leaves when it drops the first n entries.
LEMMA DropMembers ==
  ASSUME NEW T, NEW s \in Seq(T), IsInjective(s), NEW n \in 0..Len(s)
  PROVE  LET r == SubSeq(s, n + 1, Len(s))
         IN  /\ r \in Seq(T) /\ Len(r) = Len(s) - n /\ IsInjective(r)
             /\ ToSet(s) = ToSet(r) \cup LeadingMembers(s, n) /\ ToSet(r) \cap LeadingMembers(s, n) = {}
             /\ IsFiniteSet(LeadingMembers(s, n)) /\ Cardinality(LeadingMembers(s, n)) = n
<1> DEFINE r == SubSeq(s, n + 1, Len(s))
           gone == {s[i] : i \in 1..n}
<1>1. /\ Len(s) \in Nat /\ ToSet(s) = {s[i] : i \in 1..Len(s)}
      /\ \A i, j \in 1..Len(s) : s[i] = s[j] => i = j
      /\ \A i \in 1..Len(s) : s[i] \in T
  BY MembersOf
<1>2. /\ r \in Seq(T) /\ Len(r) = Len(s) - n
      /\ \A k \in 1..(Len(s) - n) : r[k] = s[n + k]
  <2>1. /\ n + 1 \in 1..(Len(s) + 1) /\ Len(s) \in n..Len(s)
        /\ \A k \in n + 1..Len(s) : s[k] \in T
    BY <1>1
  <2> QED BY <2>1, <1>1
<1> HIDE DEF r
<1>3. /\ ToSet(r) = {r[k] : k \in 1..Len(r)}
      /\ IsInjective(r) <=> \A i, j \in 1..Len(r) : r[i] = r[j] => i = j
  BY <1>2, MembersOf
<1>4. \A k \in 1..Len(r) : n + k \in 1..Len(s) /\ n + k \notin 1..n /\ r[k] = s[n + k]
  BY <1>1, <1>2
<1>5. IsInjective(r)
  <2> SUFFICES ASSUME NEW i \in 1..Len(r), NEW j \in 1..Len(r), r[i] = r[j] PROVE i = j
    BY <1>3
  <2>1. n + i = n + j
    BY <1>1, <1>4
  <2> QED BY <2>1
<1>6. ToSet(s) = ToSet(r) \cup gone
  <2>1. ASSUME NEW x \in ToSet(s), x \notin gone PROVE x \in ToSet(r)
    <3>1. PICK i \in 1..Len(s) : x = s[i]
      BY <1>1
    <3>2. ~(i \in 1..n)
      BY <2>1, <3>1
    <3>3. i - n \in 1..Len(r) /\ n + (i - n) = i
      BY <1>1, <1>2, <3>2
    <3>4. r[i - n] = x
      BY <1>4, <3>1, <3>3
    <3> QED BY <1>3, <3>3, <3>4
  <2>2. ASSUME NEW x \in ToSet(r) PROVE x \in ToSet(s)
    BY <1>1, <1>3, <1>4
  <2>3. gone \subseteq ToSet(s)
    <3>1. \A i \in 1..n : i \in 1..Len(s)
      BY <1>1
    <3> QED BY <1>1, <3>1
  <2> HIDE DEF gone
  <2> QED BY <2>1, <2>2, <2>3
<1>7. ToSet(r) \cap gone = {}
  <2> SUFFICES ASSUME NEW k \in 1..Len(r), NEW i \in 1..n, r[k] = s[i] PROVE FALSE
    BY <1>3
  <2>1. i \in 1..Len(s)
    BY <1>1
  <2>2. n + k = i
    BY <1>1, <1>4, <2>1
  <2> QED BY <1>4, <2>2
<1>8. IsFiniteSet(gone) /\ Cardinality(gone) = n
  <2> DEFINE f == [i \in 1..n |-> s[i]]
  <2>1. IsFiniteSet(1..n) /\ Cardinality(1..n) = n
    BY FS_Interval
  <2>2. \A i, j \in 1..n : f[i] = f[j] => i = j
    <3>1. \A i \in 1..n : i \in 1..Len(s)
      BY <1>1
    <3> QED BY <1>1, <3>1
  <2>3. f \in [1..n -> gone] /\ \A x \in gone : \E i \in 1..n : f[i] = x
    OBVIOUS
  <2> HIDE DEF f, gone
  <2>4. f \in Bijection(1..n, gone)
    BY <2>2, <2>3, Fun_IsBij
  <2> QED BY <2>1, <2>4, FS_Bijection, Fun_SurjectionProperties DEF ExistsBijection
<1> QED BY <1>2, <1>5, <1>6, <1>7, <1>8 DEF r, LeadingMembers

\* IterationExists, for contexts with lists in them.
Iterates(g, S, base, n, step) ==
  g \in [0..n -> S] /\ g[0] = base /\ \A i \in 1..n : g[i] = step[<<g[i - 1], i>>]

LEMMA IteratesExists ==
  ASSUME NEW S, NEW base \in S, NEW n \in Nat, NEW step \in [S \X (1..n) -> S]
  PROVE  \E g : Iterates(g, S, base, n, step)
BY IterationExists DEF Iterates

\* g holds what FlattenSeq has made of the first lists of ss.
Flattens(g, ss, T) ==
  /\ g \in [0..Len(ss) -> Seq(T)] /\ g[0] = <<>>
  /\ \A i \in 1..Len(ss) : g[i] = g[i - 1] \o ss[i]
  /\ FlattenSeq(ss) = g[Len(ss)]

LEMMA FlattenedInRounds ==
  ASSUME NEW T, NEW ss \in Seq(Seq(T))
  PROVE  \E g : Flattens(g, ss, T)
<1> DEFINE n == Len(ss)
           S == Seq(T)
           base == <<>>
           step == [p \in S \X (1..n) |-> p[1] \o ss[p[2]]]
           Rounds(f) == [i \in 1..n |-> IF i = 1 THEN ss[i] ELSE f[i - 1] \o ss[i]]
           flat == CHOOSE f : f = Rounds(f)
<1>1. n \in Nat /\ DOMAIN ss = 1..n /\ \A i \in 1..n : ss[i] \in Seq(T)
  BY LenProperties, ElementOfSeq
<1>2. PICK g : Iterates(g, S, base, n, step)
  <2>1. step \in [S \X (1..n) -> S]
    BY <1>1, ConcatProperties
  <2>2. base \in S
    BY EmptySeq
  <2> HIDE DEF step, S, n, base
  <2> QED BY <1>1, <2>1, <2>2, IteratesExists
<1>3. g \in [0..n -> Seq(T)] /\ g[0] = <<>>
  BY <1>2 DEF Iterates
<1>4. ASSUME NEW i \in 1..n PROVE g[i - 1] \in Seq(T) /\ g[i] = g[i - 1] \o ss[i]
  <2>1. g[i - 1] \in Seq(T)
    <3>1. i - 1 \in 0..n
      BY <1>1
    <3> QED BY <1>3, <3>1
  <2>2. g[i] = step[<<g[i - 1], i>>]
    BY <1>2 DEF Iterates
  <2> HIDE DEF n
  <2> QED BY <2>1, <2>2
<1>5. CASE n = 0
  <2>1. ss = <<>>
    BY <1>5, EmptySeq
  <2>2. FlattenSeq(ss) = ss
    <3>1. Len(ss) = 0
      BY <1>5
    <3> QED BY <3>1, Zenon DEF FlattenSeq
  <2>3. FlattenSeq(ss) = g[n]
    BY <1>3, <1>5, <2>1, <2>2
  <2> HIDE DEF n
  <2> QED BY <1>3, <1>4, <2>3 DEF Flattens, n
<1>6. CASE n # 0
  <2>1. FlattenSeq(ss) = flat[n]
    BY <1>6 DEF FlattenSeq
  <2> HIDE DEF n, step
  <2> DEFINE f == [i \in 1..n |-> g[i]]
  <2>2. f = Rounds(f)
    <3>1. ASSUME NEW i \in 1..n PROVE g[i] = IF i = 1 THEN ss[i] ELSE f[i - 1] \o ss[i]
      <4>1. CASE i = 1
        <5>1. g[i - 1] = <<>> /\ ss[i] \in Seq(T)
          BY <1>1, <1>3, <4>1
        <5> QED BY <4>1, <5>1, <1>4, ConcatEmptySeq
      <4>2. CASE i # 1
        <5>1. i - 1 \in 1..n
          BY <4>2, <1>1
        <5> QED BY <1>4, <4>2, <5>1
      <4> QED BY <4>1, <4>2
    <3> QED BY <3>1
  <2>3. flat = Rounds(flat)
    <3> HIDE DEF f
    <3> QED BY <2>2
  <2> HIDE DEF flat
  <2> DEFINE I == {k \in Nat : k + 1 <= n => flat[k + 1] = g[k + 1]}
  <2>4. 0 \in I
    <3>1. n >= 1 => 1 \in 1..n /\ g[0] = <<>> /\ ss[1] \in Seq(T)
      BY <1>1, <1>3
    <3>2. ASSUME n >= 1 PROVE g[1] = ss[1]
      <4>1. 1 \in 1..n /\ 1 - 1 = 0
        BY <3>1, <3>2
      <4>2. g[1] = g[1 - 1] \o ss[1]
        BY <1>4, <4>1
      <4> QED BY <3>1, <3>2, <4>1, <4>2, ConcatEmptySeq
    <3> QED BY <2>3, <3>1, <3>2
  <2>5. ASSUME NEW k \in I PROVE k + 1 \in I
    <3> SUFFICES ASSUME k + 2 <= n PROVE flat[k + 2] = g[k + 2]
      OBVIOUS
    <3>1. k \in Nat /\ k + 2 \in 1..n /\ k + 2 # 1 /\ (k + 2) - 1 = k + 1
      BY <1>1
    <3>2. flat[k + 1] = g[k + 1]
      BY <1>1, <3>1
    <3>3. flat[k + 2] = flat[k + 1] \o ss[k + 2]
      BY <2>3, <3>1
    <3> QED BY <1>4, <3>1, <3>2, <3>3
  <2> HIDE DEF I
  <2>6. I = Nat
    <3>1. I \in SUBSET Nat
      BY DEF I
    <3> QED BY <2>4, <2>5, <3>1, InductOn
  <2>7. n - 1 \in I
    BY <1>1, <1>6, <2>6
  <2>8. flat[n] = g[n]
    BY <1>1, <1>6, <2>7 DEF I
  <2> QED BY <1>3, <1>4, <2>1, <2>8 DEF Flattens, n
<1> QED BY <1>5, <1>6

\* What FlattenSeq makes of lists over T is a list over T.
LEMMA FlattenedIsList ==
  ASSUME NEW T, NEW ss \in Seq(Seq(T))
  PROVE  FlattenSeq(ss) \in Seq(T)
<1>1. PICK g : Flattens(g, ss, T)
  BY FlattenedInRounds
<1>2. Len(ss) \in 0..Len(ss)
  BY LenProperties
<1> QED BY <1>1, <1>2 DEF Flattens

\* It loses nothing.
LEMMA FlattenedHoldsAll ==
  ASSUME NEW T, NEW ss \in Seq(Seq(T)), NEW i \in 1..Len(ss), NEW j \in 1..Len(ss[i])
  PROVE  \E k \in 1..Len(FlattenSeq(ss)) : FlattenSeq(ss)[k] = ss[i][j]
<1> DEFINE n == Len(ss)
           x == ss[i][j]
           Holds(s) == \E k \in 1..Len(s) : s[k] = x
           I == {m \in Nat : m >= i /\ m <= n}
<1>1. n \in Nat /\ \A m \in 1..n : ss[m] \in Seq(T)
  BY LenProperties, ElementOfSeq
<1>2. PICK g : Flattens(g, ss, T)
  BY FlattenedInRounds
<1>3. /\ \A m \in 0..n : g[m] \in Seq(T)
      /\ \A m \in 1..n : g[m] = g[m - 1] \o ss[m]
      /\ FlattenSeq(ss) = g[n]
  BY <1>2 DEF Flattens
<1> DEFINE H == {m \in Nat : i + m <= n => Holds(g[i + m])}
<1> HIDE DEF n
<1>3a. \A a, b \in Nat : (\A k \in 1..b : a + k \in 1..(a + b)) /\ \A k \in 1..a : k \in 1..(a + b)
  OBVIOUS
<1>4. ASSUME NEW m \in 1..n
      PROVE  /\ g[m - 1] \in Seq(T) /\ ss[m] \in Seq(T)
             /\ Len(g[m]) = Len(g[m - 1]) + Len(ss[m])
             /\ \A k \in 1..Len(g[m - 1]) : g[m][k] = g[m - 1][k]
             /\ \A k \in 1..Len(ss[m]) : g[m][Len(g[m - 1]) + k] = ss[m][k]
             /\ Len(g[m - 1]) \in Nat /\ Len(ss[m]) \in Nat
  <2>1. m - 1 \in 0..n
    BY <1>1
  <2>2. g[m - 1] \in Seq(T) /\ ss[m] \in Seq(T) /\ g[m] = g[m - 1] \o ss[m]
    BY <1>1, <1>3, <2>1
  <2> DEFINE a == g[m - 1]  b == ss[m]
  <2>3. a \in Seq(T) /\ b \in Seq(T)
    BY <2>2
  <2> HIDE DEF a, b
  <2>4. /\ Len(a \o b) = Len(a) + Len(b) /\ Len(a) \in Nat /\ Len(b) \in Nat
        /\ \A k \in 1..(Len(a) + Len(b)) : (a \o b)[k] = IF k <= Len(a) THEN a[k] ELSE b[k - Len(a)]
    BY <2>3, ConcatProperties, LenProperties
  <2>5. \A k \in 1..Len(a) : (a \o b)[k] = a[k]
    BY <2>4
  <2>6. \A k \in 1..Len(b) : (a \o b)[Len(a) + k] = b[k]
    <3> SUFFICES ASSUME NEW k \in 1..Len(b) PROVE (a \o b)[Len(a) + k] = b[k]
      OBVIOUS
    <3>1. Len(a) + k \in 1..(Len(a) + Len(b)) /\ ~(Len(a) + k <= Len(a)) /\ (Len(a) + k) - Len(a) = k
      BY <2>4
    <3> QED BY <3>1, <2>4
  <2> QED BY <2>2, <2>4, <2>5, <2>6 DEF a, b
<1>5. 0 \in H
  <2>1. i \in 1..n /\ i + 0 = i
    BY DEF n
  <2>2. /\ Len(g[i]) = Len(g[i - 1]) + Len(ss[i]) /\ g[i][Len(g[i - 1]) + j] = ss[i][j]
        /\ Len(g[i - 1]) \in Nat /\ Len(ss[i]) \in Nat
    BY <1>4, <2>1
  <2>3. Len(g[i - 1]) + j \in 1..Len(g[i])
    BY <1>3a, <2>2, Zenon
  <2> QED BY <2>1, <2>2, <2>3
<1>6. ASSUME NEW m \in H PROVE m + 1 \in H
  <2> SUFFICES ASSUME i + (m + 1) <= n PROVE Holds(g[i + (m + 1)])
    OBVIOUS
  <2> DEFINE p == i + m
  <2>1. p + 1 \in 1..n /\ (p + 1) - 1 = p /\ p <= n /\ i + (m + 1) = p + 1
    BY <1>1
  <2>2. Holds(g[p])
    BY <2>1
  <2> HIDE DEF p
  <2>3. PICK k \in 1..Len(g[p]) : g[p][k] = x
    BY <2>2
  <2>4. /\ Len(g[p + 1]) = Len(g[(p + 1) - 1]) + Len(ss[p + 1])
        /\ \A l \in 1..Len(g[(p + 1) - 1]) : g[p + 1][l] = g[(p + 1) - 1][l]
        /\ Len(g[(p + 1) - 1]) \in Nat /\ Len(ss[p + 1]) \in Nat
    BY <1>4, <2>1
  <2>4a. /\ Len(g[p + 1]) = Len(g[p]) + Len(ss[p + 1]) /\ g[p + 1][k] = g[p][k]
         /\ Len(g[p]) \in Nat /\ Len(ss[p + 1]) \in Nat
    BY <2>1, <2>4, Zenon
  <2>5. k \in 1..Len(g[p + 1])
    BY <1>3a, <2>4a, Zenon
  <2> QED BY <2>1, <2>3, <2>4a, <2>5
<1> HIDE DEF H
<1>7. H = Nat
  <2>1. H \in SUBSET Nat
    BY DEF H
  <2> QED BY <1>5, <1>6, <2>1, InductOn
<1>8. n - i \in H /\ i + (n - i) = n /\ i + (n - i) <= n
  <2>1. n - i \in Nat /\ i + (n - i) = n /\ n <= n
    BY <1>1 DEF n
  <2> QED BY <2>1, <1>7
<1>9. Holds(g[n])
  BY <1>8 DEF H
<1> QED BY <1>3, <1>9

\* What body makes of a function depends only on its answers of a lesser measure.
Descends(body, measure, S, D) ==
  \A f, g \in S, q \in D :
    (\A p \in D : measure[p] < measure[q] => f[p] = g[p]) => body[f][q] = body[g][q]

Recursion(D, R, S, base, N, measure, body) ==
  /\ S \in SUBSET [D -> R] /\ base \in S
  /\ N \in Nat /\ measure \in [D -> 0..N]
  /\ body \in [S -> S] /\ Descends(body, measure, S, D)

Solves(f, S, body) == f \in S /\ body[f] = f

\* A function that is defined by recursion exists when what it answers depends only
\* on answers of a lesser measure: S are the candidates, body[f] is what the
\* definition makes of f, measure is bounded by N.
LEMMA RecursionExists ==
  ASSUME NEW D, NEW R, NEW S, NEW base, NEW N, NEW measure, NEW body,
         Recursion(D, R, S, base, N, measure, body)
  PROVE  \E f : Solves(f, S, body)
<1> USE DEF Recursion
<1> DEFINE last == N + 2
           advance == [p \in S \X (1..last) |-> body[p[1]]]
<1>0. last \in Nat /\ last = N + 2 /\ \A n \in Nat : n <= N + 1 => n \in 0..last /\ n + 1 \in 1..last
  OBVIOUS
<1>1. PICK g : Iterates(g, S, base, last, advance)
  <2>1. advance \in [S \X (1..last) -> S]
    OBVIOUS
  <2> HIDE DEF advance, last
  <2> QED BY <1>0, <2>1, IteratesExists
<1>2. ASSUME NEW n \in Nat, n <= N + 1
      PROVE  g[n] \in S /\ g[n + 1] \in S /\ g[n + 1] = body[g[n]]
  <2>1. n \in 0..last /\ n + 1 \in 0..last /\ n + 1 \in 1..last /\ (n + 1) - 1 = n
    <3>1. n \in Nat /\ N \in Nat /\ n <= N + 1
      BY <1>2
    <3> QED BY <3>1
  <2>2. g[n] \in S /\ g[n + 1] \in S /\ g[n + 1] = advance[<<g[(n + 1) - 1], n + 1>>]
    BY <1>1, <2>1 DEF Iterates
  <2> HIDE DEF last
  <2> QED BY <2>1, <2>2
<1> HIDE DEF advance, last
<1> DEFINE T == {n \in Nat : n <= N + 1 => \A q \in D : measure[q] < n => g[n][q] = g[n + 1][q]}
<1>3. 0 \in T
  OBVIOUS
<1>4. ASSUME NEW n \in T PROVE n + 1 \in T
  <2> SUFFICES ASSUME n + 1 <= N + 1, NEW q \in D, measure[q] < n + 1
               PROVE  g[n + 1][q] = g[(n + 1) + 1][q]
    OBVIOUS
  <2>1. n \in Nat /\ n <= N + 1 /\ n + 1 \in Nat /\ \A p \in D : measure[p] < n => g[n][p] = g[n + 1][p]
    OBVIOUS
  <2>2. \A p \in D : measure[p] < measure[q] => g[n][p] = g[n + 1][p]
    <3>1. \A p \in D : measure[p] \in Nat
      OBVIOUS
    <3> QED BY <2>1, <3>1
  <2>3. g[n] \in S /\ g[n + 1] \in S /\ g[n + 1] = body[g[n]] /\ g[(n + 1) + 1] = body[g[n + 1]]
    BY <1>2, <2>1
  <2>4. body[g[n]][q] = body[g[n + 1]][q]
    BY <2>2, <2>3 DEF Descends
  <2> QED BY <2>3, <2>4
<1>5. N + 1 \in T
  <2> HIDE DEF T
  <2>1. T = Nat
    <3>1. T \in SUBSET Nat
      BY DEF T
    <3> QED BY <3>1, <1>3, <1>4, InductOn
  <2> QED BY <2>1
<1>6. g[N + 1] \in S /\ g[(N + 1) + 1] \in S /\ g[(N + 1) + 1] = body[g[N + 1]]
  <2>1. N + 1 \in Nat /\ N + 1 <= N + 1
    OBVIOUS
  <2> QED BY <1>2, <2>1
<1>7. \A q \in D : g[N + 1][q] = g[(N + 1) + 1][q]
  BY <1>5
<1>8. g[N + 1] = g[(N + 1) + 1]
  <2>1. g[N + 1] \in [D -> R] /\ g[(N + 1) + 1] \in [D -> R]
    BY <1>6
  <2> QED BY <2>1, <1>7
<1> QED BY <1>6, <1>8 DEF Solves
==============================================================================
