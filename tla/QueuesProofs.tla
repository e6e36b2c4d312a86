----------------------------- MODULE QueuesProofs -----------------------------
(***************************************************************************)
(* Proofs about the queues of work: the message queue of the assistant,    *)
(* for any messages, agents, collectives and priorities, and the two       *)
(* worker pools, for any tasks, sizes of the pools and number of failures. *)
(***************************************************************************)
EXTENDS MessageQueue, MCPools, SubsequenceProofs

(***************************************************************************)
(* The message queue.  InboxesAreExact is inductive as it stands: that a   *)
(* pending message is queued needs QueuedIsLive (no other inbox holds it), *)
(* and both need the order of the entries only for the place of a new one. *)
(***************************************************************************)
USE QueueAssumption

\* What getNextMessage, the timers and the check do to an inbox.
Live(m) == message[m].status \in {"pending", "in_progress"}

Exact == PendingQueuedOnce /\ QueuedIsLive /\ HighestPriorityFirst

(***************************************************************************)
(* Lists.                                                                  *)
(***************************************************************************)
LEMMA QueueIsSeq ==
  ASSUME QueueTypeOK, NEW a \in Inboxes
  PROVE  /\ messageQueues[a] \in Seq(Messages) /\ Len(messageQueues[a]) \in Nat
         /\ \A i \in 1..Len(messageQueues[a]) : messageQueues[a][i] \in Messages
<1>1. messageQueues[a] \in Seq(Messages)
  BY DEF QueueTypeOK
<1> QED BY <1>1, LenProperties, ElementOfSeq

\* A list without its entries in a set that holds none of them is itself.
LEMMA RestOfNone ==
  ASSUME NEW q \in Seq(Messages), NEW S, \A i \in 1..Len(q) : q[i] \notin S
  PROVE  IsRestOf(q, q, S)
<1> DEFINE g == [k \in 1..Len(q) |-> k]
<1>1. Len(q) \in Nat
  BY LenProperties
<1>2. /\ g \in [1..Len(q) -> 1..Len(q)]
      /\ \A k \in 1..Len(q) : g[k] = k
  OBVIOUS
<1> HIDE DEF g
<1> QED BY <1>1, <1>2 DEF IsRestOf

\* A prefix-closed set of places of a list is an initial segment.
LEMMA PrefixIsInterval ==
  ASSUME NEW n \in Nat, NEW D \in SUBSET (1..n),
         \A i \in D : \A j \in 1..n : j < i => j \in D
  PROVE  Cardinality(D) \in 0..n /\ D = 1..Cardinality(D)
<1> DEFINE C == (1..(n + 1)) \ D
<1>1. C \in SUBSET Nat /\ n + 1 \in C
  OBVIOUS
<1>2. PICK c \in C : \A m \in C : c <= m
  BY <1>1, LeastNat
<1>3. c \in 1..(n + 1) /\ c \notin D
  OBVIOUS
<1>4. \A i \in D : i < c
  BY <1>3
<1>5. \A i \in 1..(c - 1) : i \in D
  BY <1>2, <1>3
<1>6. D = 1..(c - 1)
  <2>1. \A i \in D : i \in 1..n
    OBVIOUS
  <2>2. \A i \in D : i \in 1..(c - 1)
    <3> SUFFICES ASSUME NEW i \in D PROVE i \in 1..(c - 1)
      OBVIOUS
    <3>1. i \in 1..n /\ i < c /\ c \in Int
      BY <1>3, <1>4, <2>1
    <3> QED BY <3>1
  <2> QED BY <1>5, <2>2
<1>7. Cardinality(1..(c - 1)) = c - 1
  BY <1>3, FS_Interval
<1> QED BY <1>3, <1>6, <1>7

(***************************************************************************)
(* Steps that only take messages out of the inboxes: those of S are        *)
(* finished, the others stay in their places.                              *)
(***************************************************************************)
OnlyRemoves(S) ==
  /\ message' \in [Messages -> MessageRecords]
  /\ \A a \in Inboxes : /\ messageQueues'[a] \in Seq(Messages)
                        /\ IsRestOf(messageQueues'[a], messageQueues[a], S)
  /\ \A m \in Messages :
       /\ message'[m].priority = message[m].priority
       /\ message'[m].target = message[m].target
       /\ message'[m].status = "pending" => message[m].status = "pending" /\ m \notin S
       /\ m \notin S /\ Live(m) => message'[m].status \in {"pending", "in_progress"}

LEMMA RemovalIsExact ==
  ASSUME QueueTypeOK, Exact, NEW S, OnlyRemoves(S)
  PROVE  Exact'
<1>1. PendingQueuedOnce'
  <2> SUFFICES ASSUME NEW m \in Messages, message'[m].status = "pending"
               PROVE  \E i \in 1..Len(messageQueues'[message'[m].target]) :
                        \A j \in 1..Len(messageQueues'[message'[m].target]) :
                          messageQueues'[message'[m].target][j] = m <=> j = i
    BY DEF PendingQueuedOnce
  <2> DEFINE a == message[m].target
             q == messageQueues[a]
             r == messageQueues'[a]
  <2>1. message'[m].target = a /\ message[m].status = "pending" /\ m \notin S /\ a \in Inboxes
    BY DEF OnlyRemoves, QueueTypeOK, MessageRecords
  <2>2. PICK i \in 1..Len(q) : \A j \in 1..Len(q) : q[j] = m <=> j = i
    BY <2>1 DEF Exact, PendingQueuedOnce
  <2>3. IsRestOf(r, q, S)
    BY <2>1 DEF OnlyRemoves
  <2>4. Len(r) \in Nat
    BY <2>1, LenProperties DEF OnlyRemoves
  <2> HIDE DEF q, r
  <2>5. PICK g \in [1..Len(r) -> 1..Len(q)] :
          /\ \A k \in 1..Len(r) : r[k] = q[g[k]] /\ q[g[k]] \notin S
          /\ \A k, l \in 1..Len(r) : k < l => g[k] < g[l]
          /\ \A j \in 1..Len(q) : q[j] \notin S => \E k \in 1..Len(r) : g[k] = j
    BY <2>3 DEF IsRestOf
  <2>6. PICK k \in 1..Len(r) : g[k] = i
    BY <2>1, <2>2, <2>5
  <2>7. \A j \in 1..Len(r) : r[j] = m <=> j = k
    <3> SUFFICES ASSUME NEW j \in 1..Len(r) PROVE r[j] = m <=> j = k
      OBVIOUS
    <3>1. r[j] = m <=> g[j] = g[k]
      BY <2>2, <2>5, <2>6
    <3>2. g[j] \in Int /\ g[k] \in Int /\ (j < k \/ k < j \/ j = k)
      BY <2>4
    <3>3. g[j] = g[k] => j = k
      BY <2>5, <3>2
    <3> QED BY <3>1, <3>3
  <2> QED BY <2>1, <2>7 DEF r
<1>2. QueuedIsLive'
  <2> SUFFICES ASSUME NEW a \in Inboxes, NEW i \in 1..Len(messageQueues'[a])
               PROVE  /\ message'[messageQueues'[a][i]].status \in {"pending", "in_progress"}
                      /\ message'[messageQueues'[a][i]].target = a
    BY DEF QueuedIsLive
  <2> DEFINE q == messageQueues[a]
             r == messageQueues'[a]
  <2>1. PICK g \in [1..Len(r) -> 1..Len(q)] :
          \A k \in 1..Len(r) : r[k] = q[g[k]] /\ q[g[k]] \notin S
    BY DEF OnlyRemoves, IsRestOf
  <2>2. r[i] = q[g[i]] /\ q[g[i]] \notin S /\ g[i] \in 1..Len(q)
    BY <2>1
  <2>3. q[g[i]] \in Messages
    BY <2>2, QueueIsSeq
  <2>4. Live(q[g[i]]) /\ message[q[g[i]]].target = a
    BY <2>2 DEF Exact, QueuedIsLive, Live
  <2> QED BY <2>2, <2>3, <2>4 DEF OnlyRemoves
<1>3. HighestPriorityFirst'
  <2> SUFFICES ASSUME NEW a \in Inboxes, NEW i \in 1..Len(messageQueues'[a]),
                      NEW j \in 1..Len(messageQueues'[a]), i < j
               PROVE  message'[messageQueues'[a][i]].priority
                        <= message'[messageQueues'[a][j]].priority
    BY DEF HighestPriorityFirst
  <2> DEFINE q == messageQueues[a]
             r == messageQueues'[a]
  <2>1. PICK g \in [1..Len(r) -> 1..Len(q)] :
          /\ \A k \in 1..Len(r) : r[k] = q[g[k]]
          /\ \A k, l \in 1..Len(r) : k < l => g[k] < g[l]
    BY DEF OnlyRemoves, IsRestOf
  <2>2. /\ r[i] = q[g[i]] /\ r[j] = q[g[j]] /\ g[i] < g[j]
        /\ g[i] \in 1..Len(q) /\ g[j] \in 1..Len(q)
    BY <2>1
  <2>3. q[g[i]] \in Messages /\ q[g[j]] \in Messages
    BY <2>2, QueueIsSeq
  <2>4. message[q[g[i]]].priority <= message[q[g[j]]].priority
    BY <2>2 DEF Exact, HighestPriorityFirst
  <2> QED BY <2>2, <2>3, <2>4 DEF OnlyRemoves
<1> QED BY <1>1, <1>2, <1>3 DEF Exact

(***************************************************************************)
(* sendMessage to each target of id.                                       *)
(***************************************************************************)
MayPost(c, from, id, p) ==
  /\ c \in Collectives /\ from \in Inboxes /\ p \in Priorities
  /\ DOMAIN id \subseteq Inboxes /\ id \in [DOMAIN id -> Unsent]
  /\ \A s, t \in DOMAIN id : id[s] = id[t] => s = t

\* What Post does to the messages: those of id are new, one for each target.
LEMMA PostedMessages ==
  ASSUME QueueTypeOK, NEW c, NEW from, NEW id, NEW p, MayPost(c, from, id, p),
         Post(c, from, id, p)
  PROVE  /\ \A t \in DOMAIN id : message'[id[t]] = NewMessage(c, from, t, p)
         /\ \A m \in Messages : (\A t \in DOMAIN id : id[t] # m) => message'[m] = message[m]
         /\ message' \in [Messages -> MessageRecords]
         /\ timers' \in SUBSET Messages
<1> DEFINE T == DOMAIN id
           Of == [m \in {id[t] : t \in T} |-> CHOOSE t \in T : id[t] = m]
<1>1. \A t \in T : id[t] \in Messages /\ t \in Inboxes
  BY DEF MayPost, Unsent
<1>2. \A t \in T : Of[id[t]] = t
  <2> SUFFICES ASSUME NEW t \in T PROVE (CHOOSE u \in T : id[u] = id[t]) = t
    OBVIOUS
  <2> QED BY DEF MayPost
<1>3. \A m : m \in DOMAIN Of <=> \E t \in T : id[t] = m
  OBVIOUS
<1>4. /\ message' = [m \in Messages |-> IF m \in DOMAIN Of
                                         THEN NewMessage(c, from, Of[m], p)
                                         ELSE message[m]]
      /\ timers' = timers \cup DOMAIN Of
  BY DEF Post
<1> HIDE DEF Of
<1>5. \A t \in T : message'[id[t]] = NewMessage(c, from, t, p)
  BY <1>1, <1>2, <1>3, <1>4
<1>6. \A m \in Messages : (\A t \in T : id[t] # m) => message'[m] = message[m]
  BY <1>3, <1>4
<1>7. \A t \in T : NewMessage(c, from, t, p) \in MessageRecords
  BY <1>1 DEF MayPost, NewMessage, MessageRecords, Statuses
<1>8. \A m \in Messages : message'[m] \in MessageRecords
  BY <1>5, <1>6, <1>7 DEF QueueTypeOK
<1>9. message' \in [Messages -> MessageRecords]
  BY <1>4, <1>8
<1>10. timers' \in SUBSET Messages
  BY <1>1, <1>3, <1>4 DEF QueueTypeOK
<1> QED BY <1>5, <1>6, <1>9, <1>10

\* r is q with the message m of rank p at place i, behind those as urgent.
EntersAt(q, r, m, p, i) ==
  /\ \A k \in 1..(Len(q) + 1) :
       r[k] = IF k < i THEN q[k] ELSE IF k = i THEN m ELSE q[k - 1]
  /\ \A k \in 1..Len(q) : k < i <=> message[q[k]].priority <= p

Enters(q, r, m, p) ==
  /\ r \in Seq(Messages) /\ Len(r) = Len(q) + 1
  /\ \E i \in 1..(Len(q) + 1) : EntersAt(q, r, m, p, i)

\* A new message enters the inbox of its target behind those as urgent as it.
LEMMA EnqueueProperties ==
  ASSUME QueueTypeOK, Exact, NEW a \in Inboxes, NEW m \in Messages, NEW p \in Priorities
  PROVE  Enters(messageQueues[a], Enqueue(messageQueues[a], m, p), m, p)
<1> DEFINE q == messageQueues[a]
           D == {i \in 1..Len(q) : message[q[i]].priority <= p}
           i == 1 + Cardinality(D)
<1>1. q \in Seq(Messages) /\ Len(q) \in Nat /\ \A k \in 1..Len(q) : q[k] \in Messages
  BY QueueIsSeq
<1>2. p \in Int /\ \A k \in 1..Len(q) : message[q[k]].priority \in Int
  <2>1. \A x \in Messages : message[x] \in MessageRecords
    BY DEF QueueTypeOK
  <2>2. \A x \in Messages : message[x].priority \in Priorities
    BY <2>1 DEF MessageRecords
  <2>3. \A x \in Priorities : x \in Int
    OBVIOUS
  <2> QED BY <1>1, <2>2, <2>3
<1>3. \A k \in D : \A j \in 1..Len(q) : j < k => j \in D
  <2> SUFFICES ASSUME NEW k \in D, NEW j \in 1..Len(q), j < k PROVE j \in D
    OBVIOUS
  <2>1. message[q[j]].priority <= message[q[k]].priority
    BY DEF Exact, HighestPriorityFirst
  <2> QED BY <2>1, <1>2
<1>4. D \in SUBSET (1..Len(q))
  OBVIOUS
<1>5. \A k \in 1..Len(q) : k \in D <=> message[q[k]].priority <= p
  OBVIOUS
<1>6. Enqueue(q, m, p) = InsertAt(q, i, m)
  BY DEF Enqueue
<1> HIDE DEF D, q
<1>7. Cardinality(D) \in 0..Len(q) /\ D = 1..Cardinality(D)
  BY <1>1, <1>3, <1>4, PrefixIsInterval
<1>8. i \in 1..(Len(q) + 1) /\ \A k \in 1..Len(q) : k < i <=> k \in D
  BY <1>1, <1>7
<1> HIDE DEF i
<1>9. /\ InsertAt(q, i, m) \in Seq(Messages)
      /\ Len(InsertAt(q, i, m)) = Len(q) + 1
      /\ \A k \in 1..(Len(q) + 1) :
           InsertAt(q, i, m)[k] = IF k < i THEN q[k] ELSE IF k = i THEN m ELSE q[k - 1]
  <2>1. q \in Seq(Messages) /\ m \in Messages
    BY <1>1
  <2> QED BY ONLY <1>8, <2>1, InsertAtProperties
<1> QED BY <1>5, <1>6, <1>8, <1>9 DEF q, Enters, EntersAt

LEMMA PostIsExact ==
  ASSUME QueueTypeOK, Exact, NEW c, NEW from, NEW id, NEW p, MayPost(c, from, id, p),
         Post(c, from, id, p)
  PROVE  /\ Exact'
         /\ messageQueues' \in [Inboxes -> Seq(Messages)]
<1> USE DEF EntersAt
<1> DEFINE T == DOMAIN id
<1>1. /\ \A t \in T : message'[id[t]] = NewMessage(c, from, t, p)
      /\ \A m \in Messages : (\A t \in T : id[t] # m) => message'[m] = message[m]
  BY PostedMessages
<1>2. \A t \in T : /\ id[t] \in Messages /\ t \in Inboxes
                   /\ message[id[t]].status = "unsent"
                   /\ message'[id[t]].status = "pending"
                   /\ message'[id[t]].target = t
                   /\ message'[id[t]].priority = p
  <2> SUFFICES ASSUME NEW t \in T
               PROVE  /\ id[t] \in Messages /\ t \in Inboxes
                      /\ message[id[t]].status = "unsent"
                      /\ message'[id[t]].status = "pending"
                      /\ message'[id[t]].target = t
                      /\ message'[id[t]].priority = p
    OBVIOUS
  <2>1. id[t] \in Unsent /\ t \in Inboxes
    BY DEF MayPost
  <2>2. message'[id[t]] = NewMessage(c, from, t, p)
    BY <1>1
  <2> QED BY <2>1, <2>2 DEF Unsent, NewMessage
<1>3. p \in Priorities
  BY DEF MayPost
\* What is queued already is not one of the new messages.
<1>4. \A a \in Inboxes : \A i \in 1..Len(messageQueues[a]) :
        /\ messageQueues[a][i] \in Messages
        /\ message'[messageQueues[a][i]] = message[messageQueues[a][i]]
        /\ \A t \in T : id[t] # messageQueues[a][i]
  <2> SUFFICES ASSUME NEW a \in Inboxes, NEW i \in 1..Len(messageQueues[a])
               PROVE  /\ messageQueues[a][i] \in Messages
                      /\ message'[messageQueues[a][i]] = message[messageQueues[a][i]]
                      /\ \A t \in T : id[t] # messageQueues[a][i]
    OBVIOUS
  <2>1. messageQueues[a][i] \in Messages
    BY QueueIsSeq
  <2>2. message[messageQueues[a][i]].status # "unsent"
    BY DEF Exact, QueuedIsLive
  <2> QED BY <1>1, <1>2, <2>1, <2>2
<1>5. \A a \in Inboxes : a \notin T => messageQueues'[a] = messageQueues[a]
  BY DEF Post
<1> DEFINE r(a) == messageQueues'[a]
           q(a) == messageQueues[a]
           IsPlace(a, i) == EntersAt(q(a), r(a), id[a], p, i)
<1>6. \A a \in T : /\ r(a) \in Seq(Messages) /\ Len(r(a)) = Len(q(a)) + 1
                   /\ \E i \in 1..(Len(q(a)) + 1) : IsPlace(a, i)
  <2> SUFFICES ASSUME NEW a \in T PROVE Enters(q(a), r(a), id[a], p)
    BY DEF Enters
  <2>1. a \in Inboxes /\ id[a] \in Messages
    BY <1>2
  <2>2. messageQueues'[a] = Enqueue(messageQueues[a], id[a], p)
    BY <2>1 DEF Post
  <2> QED BY <1>3, <2>1, <2>2, EnqueueProperties
<1>7. messageQueues' \in [Inboxes -> Seq(Messages)]
  <2>1. \A a \in Inboxes : messageQueues'[a] \in Seq(Messages)
    BY <1>5, <1>6, QueueIsSeq
  <2> QED BY <2>1 DEF Post
<1>8. \A a \in Inboxes : Len(q(a)) \in Nat
  BY QueueIsSeq
<1>9. PendingQueuedOnce'
  <2> SUFFICES ASSUME NEW m \in Messages, message'[m].status = "pending"
               PROVE  \E i \in 1..Len(messageQueues'[message'[m].target]) :
                        \A j \in 1..Len(messageQueues'[message'[m].target]) :
                          messageQueues'[message'[m].target][j] = m <=> j = i
    BY DEF PendingQueuedOnce
  <2>1. CASE \E t \in T : id[t] = m
    <3>1. PICK t \in T : id[t] = m
      BY <2>1
    <3>2. message'[m].target = t /\ t \in Inboxes
      BY <1>2, <3>1
    <3>3. PICK i \in 1..(Len(q(t)) + 1) : IsPlace(t, i)
      BY <1>6
    <3>4. Len(r(t)) = Len(q(t)) + 1 /\ Len(q(t)) \in Nat
      BY <1>6, <1>8, <3>2
    <3>5. \A k \in 1..Len(q(t)) : q(t)[k] # m
      BY <1>4, <3>1, <3>2
    <3>6. \A j \in 1..Len(r(t)) : r(t)[j] = m <=> j = i
      <4> SUFFICES ASSUME NEW j \in 1..(Len(q(t)) + 1) PROVE r(t)[j] = m <=> j = i
        BY <3>4
      <4>1. CASE j < i
        BY <4>1, <3>3, <3>4, <3>5
      <4>2. CASE j = i
        BY <4>2, <3>1, <3>3, <3>4
      <4>3. CASE j > i
        <5>1. j - 1 \in 1..Len(q(t)) /\ r(t)[j] = q(t)[j - 1]
          BY <4>3, <3>3, <3>4
        <5> QED BY <4>3, <5>1, <3>5
      <4> QED BY <3>4, <4>1, <4>2, <4>3
    <3> QED BY <3>2, <3>4, <3>6
  <2>2. CASE \A t \in T : id[t] # m
    <3> DEFINE a == message[m].target
    <3>1. message'[m] = message[m] /\ message[m].status = "pending" /\ a \in Inboxes
      BY <1>1, <2>2 DEF QueueTypeOK, MessageRecords
    <3>2. PICK i \in 1..Len(q(a)) : \A j \in 1..Len(q(a)) : q(a)[j] = m <=> j = i
      BY <3>1 DEF Exact, PendingQueuedOnce
    <3>3. CASE a \notin T
      <4>1. r(a) = q(a)
        BY <1>5, <3>1, <3>3
      <4>2. i \in 1..Len(r(a)) /\ \A j \in 1..Len(r(a)) : r(a)[j] = m <=> j = i
        BY ONLY <3>2, <4>1
      <4>3. message'[m].target = a
        BY ONLY <3>1
      <4> HIDE DEF a
      <4> QED BY <4>2, <4>3
    <3>4. CASE a \in T
      <4>1. PICK n \in 1..(Len(q(a)) + 1) : IsPlace(a, n)
        BY <1>6, <3>4
      <4>2. Len(r(a)) = Len(q(a)) + 1 /\ Len(q(a)) \in Nat
        BY <1>6, <1>8, <3>1, <3>4
      <4>3. id[a] # m
        BY <2>2, <3>4
      <4> DEFINE h == IF i < n THEN i ELSE i + 1
      <4>4. h \in 1..(Len(q(a)) + 1)
        BY <4>2
      <4>5. ASSUME NEW j \in 1..(Len(q(a)) + 1)
            PROVE  r(a)[j] = m <=> j = h
        <5>1. CASE j < n
          <6>1. j \in 1..Len(q(a)) /\ r(a)[j] = q(a)[j]
            BY <5>1, <4>1, <4>2
          <6>2. r(a)[j] = m <=> j = i
            BY <6>1, <3>2
          <6> QED BY <5>1, <6>2, <4>2
        <5>2. CASE j = n
          BY <5>2, <4>1, <4>2, <4>3
        <5>3. CASE j > n
          <6>1. j - 1 \in 1..Len(q(a)) /\ r(a)[j] = q(a)[j - 1]
            BY <5>3, <4>1, <4>2
          <6>2. r(a)[j] = m <=> j - 1 = i
            BY <6>1, <3>2
          <6> QED BY <5>3, <6>2, <4>2
        <5> QED BY <4>2, <5>1, <5>2, <5>3
      <4> HIDE DEF h
      <4> QED BY <3>1, <4>2, <4>4, <4>5
    <3> QED BY <3>3, <3>4
  <2> QED BY <2>1, <2>2
<1>10. QueuedIsLive'
  <2> SUFFICES ASSUME NEW a \in Inboxes, NEW j \in 1..Len(messageQueues'[a])
               PROVE  /\ message'[messageQueues'[a][j]].status \in {"pending", "in_progress"}
                      /\ message'[messageQueues'[a][j]].target = a
    BY DEF QueuedIsLive
  <2>1. \A k \in 1..Len(q(a)) :
          /\ message'[q(a)[k]].status \in {"pending", "in_progress"}
          /\ message'[q(a)[k]].target = a
    BY <1>4 DEF Exact, QueuedIsLive
  <2>2. CASE a \notin T
    BY <1>5, <2>1, <2>2
  <2>3. CASE a \in T
    <3>1. PICK i \in 1..(Len(q(a)) + 1) : IsPlace(a, i)
      BY <1>6, <2>3
    <3>2. Len(r(a)) = Len(q(a)) + 1 /\ Len(q(a)) \in Nat
      BY <1>6, <1>8, <2>3
    <3>3. CASE j < i
      <4>1. j \in 1..Len(q(a)) /\ r(a)[j] = q(a)[j]
        BY <3>1, <3>2, <3>3
      <4> QED BY <2>1, <4>1
    <3>4. CASE j = i
      BY <1>2, <2>3, <3>1, <3>2, <3>4
    <3>5. CASE j > i
      <4>1. j - 1 \in 1..Len(q(a)) /\ r(a)[j] = q(a)[j - 1]
        BY <3>1, <3>2, <3>5
      <4> QED BY <2>1, <4>1
    <3> QED BY <3>2, <3>3, <3>4, <3>5
  <2> QED BY <2>2, <2>3
<1>11. HighestPriorityFirst'
  <2> SUFFICES ASSUME NEW a \in Inboxes, NEW j \in 1..Len(messageQueues'[a]),
                      NEW l \in 1..Len(messageQueues'[a]), j < l
               PROVE  message'[messageQueues'[a][j]].priority
                        <= message'[messageQueues'[a][l]].priority
    BY DEF HighestPriorityFirst
  <2> DEFINE P(k) == message[q(a)[k]].priority
  <2>1. \A k \in 1..Len(q(a)) : message'[q(a)[k]].priority = P(k) /\ P(k) \in Int
    <3>1. \A x \in Messages : message[x] \in MessageRecords
      BY DEF QueueTypeOK
    <3>2. \A x \in Messages : message[x].priority \in Priorities
      BY <3>1 DEF MessageRecords
    <3>3. \A x \in Priorities : x \in Int
      OBVIOUS
    <3> QED BY <1>4, <3>2, <3>3
  <2>2. \A k, m \in 1..Len(q(a)) : k < m => P(k) <= P(m)
    BY DEF Exact, HighestPriorityFirst
  <2>3. CASE a \notin T
    <3>1. r(a) = q(a)
      BY <1>5, <2>3
    <3> QED BY <2>1, <2>2, <3>1
  <2>4. CASE a \in T
    <3>1. PICK i \in 1..(Len(q(a)) + 1) : IsPlace(a, i)
      BY <1>6, <2>4
    <3>2. Len(r(a)) = Len(q(a)) + 1 /\ Len(q(a)) \in Nat /\ p \in Int
      BY <1>3, <1>6, <1>8, <2>4
    <3>3. message'[id[a]].priority = p
      BY <1>2, <2>4
    <3> DEFINE R(k) == message'[r(a)[k]].priority
    <3>4. \A k \in 1..(Len(q(a)) + 1) : k < i => k \in 1..Len(q(a)) /\ R(k) = P(k) /\ P(k) <= p
      BY <2>1, <3>1, <3>2
    <3>5. R(i) = p
      BY <3>1, <3>2, <3>3
    <3>6. \A k \in 1..(Len(q(a)) + 1) :
            i < k => k - 1 \in 1..Len(q(a)) /\ R(k) = P(k - 1) /\ P(k - 1) > p
      <4> SUFFICES ASSUME NEW k \in 1..(Len(q(a)) + 1), i < k
                   PROVE  k - 1 \in 1..Len(q(a)) /\ R(k) = P(k - 1) /\ P(k - 1) > p
        OBVIOUS
      <4>1. k - 1 \in 1..Len(q(a)) /\ r(a)[k] = q(a)[k - 1] /\ ~(k - 1 < i)
        <5>1. r(a)[k] = IF k < i THEN q(a)[k] ELSE IF k = i THEN id[a] ELSE q(a)[k - 1]
          BY <3>1
        <5> HIDE DEF q, r
        <5>2. k - 1 \in 1..Len(q(a)) /\ ~(k < i) /\ k # i /\ ~(k - 1 < i)
          BY <3>2
        <5> QED BY <5>1, <5>2
      <4>2. ~(P(k - 1) <= p)
        BY <3>1, <4>1
      <4>3. R(k) = P(k - 1)
        BY <2>1, <3>2, <4>1
      <4>4. P(k - 1) \in Int /\ p \in Int
        BY <2>1, <3>2, <4>1
      <4> HIDE DEF P, R, q
      <4>5. P(k - 1) > p
        BY ONLY <4>2, <4>4
      <4> QED BY <4>1, <4>3, <4>5
    <3>7. j \in 1..(Len(q(a)) + 1) /\ l \in 1..(Len(q(a)) + 1)
      BY <3>2
    <3> HIDE DEF P, R, q
    <3>8. CASE l < i
      BY <2>2, <3>2, <3>4, <3>7, <3>8 DEF R
    <3>9. CASE l = i
      BY <3>2, <3>4, <3>5, <3>7, <3>9 DEF R
    <3>10. CASE i < l
      <4>1. l - 1 \in 1..Len(q(a)) /\ R(l) = P(l - 1) /\ P(l - 1) > p /\ P(l - 1) \in Int
        BY <2>1, <3>6, <3>7, <3>10
      <4>2. CASE j < i
        <5>1. R(j) = P(j) /\ P(j) <= p /\ P(j) \in Int
          BY <2>1, <3>4, <3>7, <4>2
        <5> QED BY <3>2, <4>1, <5>1 DEF R
      <4>3. CASE j = i
        BY <3>2, <3>5, <4>1, <4>3 DEF R
      <4>4. CASE i < j
        <5>1. j - 1 \in 1..Len(q(a)) /\ R(j) = P(j - 1) /\ j - 1 < l - 1
          BY <3>2, <3>6, <3>7, <4>4
        <5> QED BY <2>2, <4>1, <5>1 DEF R
      <4> QED BY <3>2, <3>7, <4>2, <4>3, <4>4
    <3> QED BY <3>2, <3>7, <3>8, <3>9, <3>10
  <2> QED BY <2>3, <2>4
<1> QED BY <1>7, <1>9, <1>10, <1>11 DEF Exact

(***************************************************************************)
(* The actions.                                                            *)
(***************************************************************************)
QueueInv == QueueTypeOK /\ Exact

LEMMA InitIsExact == QueueInit => QueueInv
<1> SUFFICES ASSUME QueueInit PROVE QueueInv
  OBVIOUS
<1>1. QueueTypeOK
  BY DEF QueueInit, QueueTypeOK, MessageRecords, Statuses, Inboxes
<1>2. \A a \in Inboxes : messageQueues[a] = <<>> /\ Len(messageQueues[a]) = 0
  BY DEF QueueInit
<1>3. \A m \in Messages : message[m].status = "unsent"
  BY DEF QueueInit
<1> QED
  BY <1>1, <1>2, <1>3 DEF QueueInv, Exact, PendingQueuedOnce, QueuedIsLive, HighestPriorityFirst

LEMMA SendInv ==
  ASSUME QueueInv, NEW c \in Collectives, NEW from \in Inboxes, NEW to \in Inboxes,
         NEW p \in Priorities, SendMessage(c, from, to, p)
  PROVE  QueueInv'
<1>1. PICK m \in Unsent : Post(c, from, [t \in {to} |-> m], p)
  BY DEF SendMessage
<1>2. MayPost(c, from, [t \in {to} |-> m], p)
  BY DEF MayPost
<1>3. /\ Exact' /\ messageQueues' \in [Inboxes -> Seq(Messages)]
      /\ message' \in [Messages -> MessageRecords] /\ timers' \in SUBSET Messages
  BY <1>1, <1>2, PostIsExact, PostedMessages DEF QueueInv
<1>4. overdue' \in SUBSET Messages /\ paused' \in [Collectives -> BOOLEAN]
  BY DEF SendMessage, QueueInv, QueueTypeOK
<1> QED BY <1>3, <1>4 DEF QueueInv, QueueTypeOK

LEMMA BroadcastInv ==
  ASSUME QueueInv, NEW c \in Collectives, NEW from \in Inboxes, NEW p \in Priorities,
         BroadcastMessage(c, from, p)
  PROVE  QueueInv'
<1> DEFINE T == Known(c) \ {from}
<1>1. PICK id \in [T -> Unsent] : /\ \A s, t \in T : id[s] = id[t] => s = t
                                  /\ Post(c, from, id, p)
  BY DEF BroadcastMessage
<1>2. T \subseteq Inboxes
  <2>1. \A m \in Messages : message[m].source \in Inboxes /\ message[m].target \in Inboxes
    BY DEF QueueInv, QueueTypeOK, MessageRecords
  <2> QED BY <2>1 DEF Known
<1> HIDE DEF T
<1>3. MayPost(c, from, id, p)
  BY <1>1, <1>2 DEF MayPost
<1>4. /\ Exact' /\ messageQueues' \in [Inboxes -> Seq(Messages)]
      /\ message' \in [Messages -> MessageRecords] /\ timers' \in SUBSET Messages
  BY <1>1, <1>3, PostIsExact, PostedMessages DEF QueueInv
<1>5. overdue' \in SUBSET Messages /\ paused' \in [Collectives -> BOOLEAN]
  BY DEF BroadcastMessage, QueueInv, QueueTypeOK
<1> QED BY <1>4, <1>5 DEF QueueInv, QueueTypeOK

\* markDelivered of the messages in S of an inbox, while those in L are taken.
LEMMA TakeInv ==
  ASSUME QueueInv, NEW a \in Inboxes, NEW S \in SUBSET Messages, NEW L \in SUBSET Messages,
         \A m \in S \cup L : message[m].status = "pending" /\ message[m].target = a,
         Take(a, S, L), UNCHANGED <<overdue, paused>>
  PROVE  QueueInv'
<1>1. message' \in [Messages -> MessageRecords]
  <2>1. \A m \in Messages, x \in {"completed", "in_progress"} :
          [message[m] EXCEPT !.status = x] \in MessageRecords
    <3> TAKE m \in Messages, x \in {"completed", "in_progress"}
    <3>1. message[m] \in MessageRecords /\ x \in Statuses
      BY DEF QueueInv, QueueTypeOK, Statuses
    <3> QED BY <3>1 DEF MessageRecords
  <2> QED BY <2>1 DEF Take, QueueInv, QueueTypeOK
<1>2. ASSUME NEW b \in Inboxes
      PROVE  messageQueues'[b] \in Seq(Messages) /\ IsRestOf(messageQueues'[b], messageQueues[b], S)
  <2>1. messageQueues[b] \in Seq(Messages)
    BY DEF QueueInv, QueueTypeOK
  <2>2. CASE b = a
    <3>1. messageQueues'[b] = Without(messageQueues[b], S)
      BY <2>2 DEF Take, Dequeue, QueueInv, QueueTypeOK
    <3> QED BY <2>1, <3>1, WithoutProperties
  <2>3. CASE b # a
    <3>1. messageQueues'[b] = messageQueues[b]
      BY <2>3 DEF Take, QueueInv, QueueTypeOK
    <3>2. \A i \in 1..Len(messageQueues[b]) : messageQueues[b][i] \notin S
      BY <2>3 DEF QueueInv, Exact, QueuedIsLive
    <3> QED BY <2>1, <3>1, <3>2, RestOfNone
  <2> QED BY <2>2, <2>3
<1>3. messageQueues' \in [Inboxes -> Seq(Messages)]
  <2>1. messageQueues' = [b \in Inboxes |-> messageQueues'[b]]
    BY DEF Take, QueueInv, QueueTypeOK
  <2> QED BY <1>2, <2>1
<1>4. OnlyRemoves(S)
  <2>1. \A m \in Messages :
          /\ message'[m].priority = message[m].priority
          /\ message'[m].target = message[m].target
          /\ message'[m].status = "pending" => message[m].status = "pending" /\ m \notin S
          /\ m \notin S /\ Live(m) => message'[m].status \in {"pending", "in_progress"}
    BY DEF Take, QueueInv, QueueTypeOK, MessageRecords, Live
  <2> QED BY <1>1, <1>2, <2>1 DEF OnlyRemoves
<1>5. Exact'
  BY <1>4, RemovalIsExact DEF QueueInv
<1>6. timers' \in SUBSET Messages
  BY DEF Take, QueueInv, QueueTypeOK
<1> QED BY <1>1, <1>3, <1>5, <1>6 DEF QueueInv, QueueTypeOK

\* Expiring pending messages.
LEMMA ExpireInv ==
  ASSUME QueueInv, NEW S \in SUBSET Messages, \A m \in S : message[m].status = "pending",
         Expire(S), timers' \in SUBSET timers, UNCHANGED <<overdue, paused>>
  PROVE  QueueInv'
<1>1. message' \in [Messages -> MessageRecords]
  <2>1. \A m \in Messages : [message[m] EXCEPT !.status = "expired"] \in MessageRecords
    BY DEF QueueInv, QueueTypeOK, MessageRecords, Statuses
  <2> QED BY <2>1 DEF Expire, QueueInv, QueueTypeOK
<1>2. ASSUME NEW b \in Inboxes
      PROVE  messageQueues'[b] \in Seq(Messages) /\ IsRestOf(messageQueues'[b], messageQueues[b], S)
  <2>1. messageQueues[b] \in Seq(Messages)
    BY DEF QueueInv, QueueTypeOK
  <2>2. messageQueues'[b] = Without(messageQueues[b], S)
    BY DEF Expire, Dequeue
  <2> QED BY <2>1, <2>2, WithoutProperties
<1>3. messageQueues' \in [Inboxes -> Seq(Messages)]
  BY <1>2 DEF Expire
<1>4. OnlyRemoves(S)
  <2>1. \A m \in Messages :
          /\ message'[m].priority = message[m].priority
          /\ message'[m].target = message[m].target
          /\ message'[m].status = "pending" => message[m].status = "pending" /\ m \notin S
          /\ m \notin S /\ Live(m) => message'[m].status \in {"pending", "in_progress"}
    BY DEF Expire, QueueInv, QueueTypeOK, MessageRecords, Live
  <2> QED BY <1>1, <1>2, <2>1 DEF OnlyRemoves
<1>5. Exact'
  BY <1>4, RemovalIsExact DEF QueueInv
<1>6. timers' \in SUBSET Messages
  BY DEF QueueInv, QueueTypeOK
<1> QED BY <1>1, <1>3, <1>5, <1>6 DEF QueueInv, QueueTypeOK

\* What getNextMessage returns is pending and addressed to the inbox.
LEMMA PendingProperties ==
  ASSUME QueueInv, NEW a \in Inboxes
  PROVE  /\ Pending(a) \in Seq(Messages)
         /\ \A k \in 1..Len(Pending(a)) : /\ message[Pending(a)[k]].status = "pending"
                                          /\ message[Pending(a)[k]].target = a
         /\ \A k, l \in 1..Len(Pending(a)) : Pending(a)[k] = Pending(a)[l] => k = l
<1> DEFINE q == messageQueues[a]
           I == {i \in DOMAIN q : message[q[i]].status = "pending"}
           r == Pending(a)
<1>1. q \in Seq(Messages) /\ Len(q) \in Nat
  BY QueueIsSeq DEF QueueInv
<1>2. r = EntriesAt(q, I)
  BY DEF Pending
<1>3. I \in SUBSET (1..Len(q)) /\ \A i \in I : message[q[i]].status = "pending"
  BY <1>1
<1> HIDE DEF I, q, r
<1>4. r \in Seq(Messages)
  BY <1>1, <1>2, <1>3, EntriesAtProperties
<1>5. PICK g \in [1..Len(r) -> I] : /\ \A k \in 1..Len(r) : r[k] = q[g[k]]
                                    /\ \A k, l \in 1..Len(r) : k < l => g[k] < g[l]
  BY <1>1, <1>2, <1>3, EntriesAtProperties
<1>6. \A k \in 1..Len(r) : /\ g[k] \in 1..Len(q)
                           /\ message[r[k]].status = "pending"
  <2> SUFFICES ASSUME NEW k \in 1..Len(r)
               PROVE  g[k] \in 1..Len(q) /\ message[r[k]].status = "pending"
    OBVIOUS
  <2>1. g[k] \in I /\ r[k] = q[g[k]]
    BY <1>5
  <2> QED BY <1>3, <2>1
<1>7. \A k \in 1..Len(r) : message[r[k]].target = a
  BY <1>5, <1>6 DEF q, QueueInv, Exact, QueuedIsLive
<1>8. ASSUME NEW k \in 1..Len(r), NEW l \in 1..Len(r), r[k] = r[l]
      PROVE  k = l
  <2> DEFINE m == r[k]
  <2>1. m \in Messages /\ message[m].status = "pending" /\ message[m].target = a
    BY <1>4, <1>6, <1>7, ElementOfSeq
  <2>2. PICK i \in 1..Len(q) : \A j \in 1..Len(q) : q[j] = m <=> j = i
    BY <2>1 DEF q, QueueInv, Exact, PendingQueuedOnce
  <2>3. g[k] = i /\ g[l] = i
    BY <1>5, <1>6, <1>8, <2>2
  <2>4. i \in Int /\ Len(r) \in Nat
    BY <1>1, <1>4, LenProperties
  <2>5. ~(k < l) /\ ~(l < k)
    BY <1>5, <2>3, <2>4
  <2> QED BY <2>4, <2>5
<1> QED BY <1>4, <1>6, <1>7, <1>8 DEF r

\* The PM loop takes its messages from the pending ones of its inbox.
LEMMA LoopTakes ==
  ASSUME QueueInv, NEW c \in Collectives, PMMainLoop(c)
  PROVE  \E S, L \in SUBSET Messages :
           /\ \A m \in S \cup L : message[m].status = "pending" /\ message[m].target = PM
           /\ Take(PM, S, L)
<1> DEFINE next == Pending(PM)
           second == IF Len(next) > 1 THEN {next[2]} ELSE {}
           normal == {m \in second : message[m].priority # 0}
<1>1. PM \in Inboxes
  BY DEF Inboxes
<1>2. next # <<>>
  BY DEF PMMainLoop
<1>3. Take(PM, {next[1]} \cup normal, second \ normal) \/ Take(PM, {next[1]}, {})
  BY DEF PMMainLoop
<1>4. next \in Seq(Messages)
  BY <1>1, PendingProperties
<1>5. Len(next) \in Nat /\ Len(next) # 0
  BY <1>2, <1>4, EmptySeq
<1>6. \A m \in {next[1]} \cup second :
        m \in Messages /\ message[m].status = "pending" /\ message[m].target = PM
  <2>1. 1 \in 1..Len(next) /\ (Len(next) > 1 => 2 \in 1..Len(next))
    BY <1>5
  <2>2. \A k \in 1..Len(next) :
          next[k] \in Messages /\ message[next[k]].status = "pending" /\ message[next[k]].target = PM
    BY <1>1, <1>4, PendingProperties, ElementOfSeq
  <2> HIDE DEF next
  <2> QED BY <2>1, <2>2
<1> HIDE DEF next, second
<1> QED BY <1>3, <1>6

LEMMA LoopInv ==
  ASSUME QueueInv, NEW c \in Collectives, PMMainLoop(c)
  PROVE  QueueInv'
<1>1. PICK S \in SUBSET Messages, L \in SUBSET Messages :
        /\ \A m \in S \cup L : message[m].status = "pending" /\ message[m].target = PM
        /\ Take(PM, S, L)
  BY LoopTakes
<1>2. UNCHANGED <<overdue, paused>> /\ PM \in Inboxes
  BY DEF PMMainLoop, Inboxes
<1> QED BY <1>1, <1>2, TakeInv

\* A retry of a pending message finds it in its queue.
LEMMA RetryInv ==
  ASSUME QueueInv, NEW m \in Messages, message[m].status = "pending", RetryMessage(m),
         timers' \in SUBSET timers, UNCHANGED <<overdue, paused>>
  PROVE  QueueInv'
<1>1. message[m].target \in Inboxes /\ Queued(m, message[m].target)
  BY DEF Queued, QueueInv, QueueTypeOK, MessageRecords, Exact, PendingQueuedOnce
<1>2. messageQueues' = messageQueues
  BY <1>1 DEF RetryMessage
<1>3. message' \in [Messages -> MessageRecords]
  <2>1. [message[m] EXCEPT !.retryCount = @ + 1] \in MessageRecords
    <3>1. message[m] \in MessageRecords
      BY DEF QueueInv, QueueTypeOK
    <3>2. message[m].retryCount + 1 \in Nat
      BY <3>1 DEF MessageRecords
    <3> QED BY <3>1, <3>2 DEF MessageRecords
  <2> QED BY <2>1 DEF RetryMessage, QueueInv, QueueTypeOK
<1>4. \A x \in Messages : /\ message'[x].priority = message[x].priority
                          /\ message'[x].target = message[x].target
                          /\ message'[x].status = message[x].status
  BY DEF RetryMessage, QueueInv, QueueTypeOK, MessageRecords
<1>5. \A a \in Inboxes : /\ messageQueues[a] \in Seq(Messages)
                         /\ IsRestOf(messageQueues[a], messageQueues[a], {})
  BY RestOfNone DEF QueueInv, QueueTypeOK
<1>6. OnlyRemoves({})
  BY <1>2, <1>3, <1>4, <1>5 DEF OnlyRemoves, Live
<1>7. Exact'
  BY <1>6, RemovalIsExact DEF QueueInv
<1> QED BY <1>2, <1>3, <1>7 DEF QueueInv, QueueTypeOK

LEMMA QueueNextInv == QueueInv /\ [QueueNext]_queueVars => QueueInv'
<1> SUFFICES ASSUME QueueInv, [QueueNext]_queueVars PROVE QueueInv'
  OBVIOUS
<1>1. CASE UNCHANGED <<message, messageQueues>> /\ timers' \in SUBSET timers
           /\ overdue' \in SUBSET Messages /\ paused' \in [Collectives -> BOOLEAN]
  <2>1. PendingQueuedOnce'
    <3>1. message' = message /\ messageQueues' = messageQueues
      BY <1>1
    <3>2. PendingQueuedOnce
      BY DEF QueueInv, Exact
    <3> QED BY <3>1, <3>2, Zenon DEF PendingQueuedOnce
  <2>2. QueuedIsLive'
    BY <1>1 DEF QueueInv, Exact, QueuedIsLive
  <2>3. HighestPriorityFirst'
    BY <1>1 DEF QueueInv, Exact, HighestPriorityFirst
  <2>4. Exact'
    BY <2>1, <2>2, <2>3 DEF Exact
  <2> QED BY <2>4, <1>1, <2>1 DEF QueueInv, QueueTypeOK
<1>2. CASE UNCHANGED queueVars
  BY <1>1, <1>2 DEF queueVars, QueueInv, QueueTypeOK
<1>3. ASSUME NEW c \in Collectives, NEW from \in Inboxes, NEW to \in Inboxes,
             NEW p \in Priorities, SendMessage(c, from, to, p)
      PROVE  QueueInv'
  BY <1>3, SendInv
<1>4. ASSUME NEW c \in Collectives, NEW from \in Inboxes, NEW p \in Priorities,
             BroadcastMessage(c, from, p)
      PROVE  QueueInv'
  BY <1>4, BroadcastInv
<1>5. ASSUME NEW c \in Collectives, PMMainLoop(c) PROVE QueueInv'
  BY <1>5, LoopInv
<1>6. ASSUME NEW c \in Collectives, Pause(c) \/ Resume(c) PROVE QueueInv'
  BY <1>1, <1>6 DEF Pause, Resume, QueueInv, QueueTypeOK
<1>7. ASSUME NEW m \in Messages, Overdue(m) PROVE QueueInv'
  BY <1>1, <1>7 DEF Overdue, QueueInv, QueueTypeOK
<1>8. ASSUME NEW m \in Messages, HandleTimeout(m) PROVE QueueInv'
  <2>1. timers' \in SUBSET timers /\ UNCHANGED <<overdue, paused>>
    BY <1>8 DEF HandleTimeout
  <2>2. CASE message[m].status # "pending"
    <3>1. UNCHANGED <<message, messageQueues>>
      BY <1>8, <2>2 DEF HandleTimeout
    <3> QED BY <1>1, <2>1, <3>1 DEF QueueInv, QueueTypeOK
  <2>3. CASE message[m].status = "pending" /\ message[m].retryCount < MaxRetry
    BY <1>8, <2>1, <2>3, RetryInv DEF HandleTimeout
  <2>4. CASE message[m].status = "pending" /\ ~(message[m].retryCount < MaxRetry)
    <3>1. Expire({m}) /\ {m} \in SUBSET Messages
      BY <1>8, <2>4 DEF HandleTimeout
    <3> QED BY <2>1, <2>4, <3>1, ExpireInv
  <2> QED BY <2>2, <2>3, <2>4
<1>9. CASE CheckMessageTimeouts
  <2>1. Lapsed \in SUBSET Messages /\ \A m \in Lapsed : message[m].status = "pending"
    BY DEF Lapsed, QueueInv, QueueTypeOK
  <2>2. Expire(Lapsed) /\ timers' \in SUBSET timers /\ UNCHANGED <<overdue, paused>>
    BY <1>9 DEF CheckMessageTimeouts
  <2> QED BY <2>1, <2>2, ExpireInv
<1> QED BY <1>2, <1>3, <1>4, <1>5, <1>6, <1>7, <1>8, <1>9 DEF QueueNext

(***************************************************************************)
(* Theorems.                                                               *)
(***************************************************************************)

\* The inboxes are exact, whatever is sent, taken, retried, expired or paused,
\* in any order: what is pending is in the inbox of its target once, no inbox
\* holds what is finished or addressed elsewhere, and the urgent come first.
THEOREM InboxesAreAlwaysExact == QueueSafetySpec => []InboxesAreExact
<1>1. QueueInv => InboxesAreExact
  BY DEF QueueInv, Exact, InboxesAreExact
<1> QED BY InitIsExact, QueueNextInv, <1>1, PTL DEF QueueSafetySpec

Finished(m) == message[m].status \in {"completed", "expired"}

LEMMA StepKeepsFinished ==
  ASSUME QueueInv, [QueueNext]_queueVars, NEW m \in Messages, Finished(m)
  PROVE  message'[m].status = message[m].status
<1>1. message[m].status # "pending" /\ m \notin Unsent
  BY DEF Finished, Unsent
<1>2. ASSUME message' = message PROVE message'[m].status = message[m].status
  BY <1>2
<1>3. ASSUME NEW c, NEW from, NEW id, NEW p, MayPost(c, from, id, p), Post(c, from, id, p)
      PROVE  message'[m].status = message[m].status
  <2>1. \A t \in DOMAIN id : id[t] # m
    BY <1>1, <1>3 DEF MayPost
  <2> QED BY <1>3, <2>1, PostedMessages DEF QueueInv
<1>4. ASSUME NEW c \in Collectives, NEW from \in Inboxes, NEW to \in Inboxes,
             NEW p \in Priorities, SendMessage(c, from, to, p)
      PROVE  message'[m].status = message[m].status
  <2>1. PICK x \in Unsent : Post(c, from, [t \in {to} |-> x], p)
    BY <1>4 DEF SendMessage
  <2>2. MayPost(c, from, [t \in {to} |-> x], p)
    BY DEF MayPost
  <2> QED BY <1>3, <2>1, <2>2
<1>5. ASSUME NEW c \in Collectives, NEW from \in Inboxes, NEW p \in Priorities,
             BroadcastMessage(c, from, p)
      PROVE  message'[m].status = message[m].status
  <2> DEFINE T == Known(c) \ {from}
  <2>1. PICK id \in [T -> Unsent] : Post(c, from, id, p)
    BY <1>5 DEF BroadcastMessage
  <2>2. CASE \E t \in T : id[t] = m
    BY <1>1, <2>2
  <2>3. CASE \A t \in T : id[t] # m
    <3> DEFINE Of == [n \in {id[t] : t \in DOMAIN id} |-> CHOOSE t \in DOMAIN id : id[t] = n]
    <3>1. m \notin DOMAIN Of
      BY <2>3
    <3>2. message' = [n \in Messages |-> IF n \in DOMAIN Of
                                           THEN NewMessage(c, from, Of[n], p)
                                           ELSE message[n]]
      BY <2>1 DEF Post
    <3> HIDE DEF Of
    <3> QED BY <3>1, <3>2
  <2> QED BY <2>2, <2>3
<1>6. ASSUME NEW c \in Collectives, PMMainLoop(c) PROVE message'[m].status = message[m].status
  <2>1. PICK S \in SUBSET Messages, L \in SUBSET Messages :
          /\ \A n \in S \cup L : message[n].status = "pending"
          /\ Take(PM, S, L)
    BY <1>6, LoopTakes
  <2>2. m \notin S /\ m \notin L
    BY <1>1, <2>1
  <2> QED BY <2>1, <2>2 DEF Take
<1>7. ASSUME NEW S, \A n \in S : message[n].status = "pending", Expire(S)
      PROVE  message'[m].status = message[m].status
  BY <1>1, <1>7 DEF Expire
<1>8. ASSUME NEW n \in Messages, HandleTimeout(n) PROVE message'[m].status = message[m].status
  <2>1. CASE message[n].status # "pending"
    BY <1>2, <1>8, <2>1 DEF HandleTimeout
  <2>2. CASE message[n].status = "pending" /\ message[n].retryCount < MaxRetry
    BY <1>1, <1>8, <2>2 DEF HandleTimeout, RetryMessage, QueueInv, QueueTypeOK
  <2>3. CASE message[n].status = "pending" /\ ~(message[n].retryCount < MaxRetry)
    BY <1>7, <1>8, <2>3 DEF HandleTimeout
  <2> QED BY <2>1, <2>2, <2>3
<1>9. CASE CheckMessageTimeouts
  BY <1>7, <1>9 DEF CheckMessageTimeouts, Lapsed
<1> QED
  BY <1>2, <1>4, <1>5, <1>6, <1>8, <1>9 DEF QueueNext, queueVars, Pause, Resume, Overdue

\* No late timer, check or PM loop reopens a message that was delivered or
\* has expired.
THEOREM NothingReopensAMessage == QueueSafetySpec => FinishedForGood
<1>1. QueueInv /\ [QueueNext]_queueVars =>
        \A m \in Messages : message[m].status \in {"completed", "expired"} =>
          message'[m].status = message[m].status
  BY StepKeepsFinished DEF Finished
<1>2. QueueInv /\ [QueueNext]_queueVars =>
        [\A m \in Messages : message[m].status \in {"completed", "expired"} =>
           message'[m].status = message[m].status]_queueVars
  BY <1>1
<1> QED BY InitIsExact, QueueNextInv, <1>2, PTL DEF QueueSafetySpec, FinishedForGood

-----------------------------------------------------------------------------
(***************************************************************************)
(* The push of both pools, with its sort by priority.                      *)
(***************************************************************************)
PushInto(U, queue, t) ==
  LET behind == {i \in DOMAIN queue : t \in U /\ queue[i] \notin U}
  IN  IF behind = {} THEN Append(queue, t)
      ELSE InsertAt(queue, CHOOSE i \in behind : \A j \in behind : i <= j, t)

\* Members of U come first.
FirstIn(U, queue) == \A i, j \in 1..Len(queue) : i < j /\ queue[j] \in U => queue[i] \in U

LEMMA InsertKeepsFirst ==
  ASSUME NEW T, NEW U, NEW s \in Seq(T), NEW i \in 1..(Len(s) + 1), NEW t \in T, t \in U,
         \A j \in 1..Len(s) : j < i => s[j] \in U, FirstIn(U, s)
  PROVE  FirstIn(U, InsertAt(s, i, t))
<1> DEFINE r == InsertAt(s, i, t)
<1>1. /\ Len(r) = Len(s) + 1
      /\ \A k \in 1..(Len(s) + 1) : r[k] = IF k < i THEN s[k] ELSE IF k = i THEN t ELSE s[k - 1]
  BY InsertAtProperties
<1> HIDE DEF r
<1>2. Len(s) \in Nat
  BY MembersOf
<1>3. ASSUME NEW k \in 1..Len(r), NEW l \in 1..Len(r), k < l, r[l] \in U
      PROVE  r[k] \in U
  <2>1. CASE k < i
    <3>1. k \in 1..Len(s) /\ r[k] = s[k]
      BY <1>1, <1>2, <2>1
    <3> QED BY <2>1, <3>1
  <2>2. CASE k = i
    BY <1>1, <2>2
  <2>3. CASE i < k
    <3>1. /\ k - 1 \in 1..Len(s) /\ l - 1 \in 1..Len(s) /\ k - 1 < l - 1
          /\ r[k] = s[k - 1] /\ r[l] = s[l - 1]
      BY <1>1, <1>2, <1>3, <2>3
    <3> QED BY <1>3, <3>1 DEF FirstIn
  <2> QED BY <1>2, <2>1, <2>2, <2>3
<1>4. FirstIn(U, r)
  BY <1>3 DEF FirstIn
<1> QED BY <1>4 DEF r

LEMMA PushKeeps ==
  ASSUME NEW T, NEW U, NEW s \in Seq(T), NEW t \in T
  PROVE  /\ PushInto(U, s, t) \in Seq(T) /\ Len(PushInto(U, s, t)) = Len(s) + 1
         /\ ToSet(PushInto(U, s, t)) = ToSet(s) \cup {t}
         /\ IsInjective(s) /\ t \notin ToSet(s) => IsInjective(PushInto(U, s, t))
         /\ FirstIn(U, s) => FirstIn(U, PushInto(U, s, t))
<1> DEFINE behind == {i \in DOMAIN s : t \in U /\ s[i] \notin U}
           r == PushInto(U, s, t)
<1>1. Len(s) \in Nat /\ DOMAIN s = 1..Len(s)
  BY MembersOf
<1>2. CASE behind = {}
  <2>1. r = Append(s, t)
    BY <1>2 DEF PushInto
  <2>2. /\ Len(r) = Len(s) + 1
        /\ \A i \in 1..Len(s) : r[i] = s[i]
        /\ r[Len(s) + 1] = t
    BY <2>1, AppendProperties
  <2>3. t \in U => \A i \in 1..Len(s) : s[i] \in U
    BY <1>1, <1>2
  <2> HIDE DEF r, behind
  <2>4. ASSUME FirstIn(U, s) PROVE FirstIn(U, r)
    <3> SUFFICES ASSUME NEW i \in 1..Len(r), NEW j \in 1..Len(r), i < j, r[j] \in U
                 PROVE  r[i] \in U
      BY DEF FirstIn
    <3>1. i \in 1..Len(s) /\ (j \in 1..Len(s) \/ j = Len(s) + 1)
      BY <1>1, <2>2
    <3> QED BY <2>2, <2>3, <2>4, <3>1 DEF FirstIn
  <2> QED BY <2>1, <2>2, <2>4, AppendMembers DEF r
<1>3. CASE behind # {}
  <2> DEFINE i == CHOOSE k \in behind : \A j \in behind : k <= j
  <2>1. i \in behind /\ \A j \in behind : i <= j
    <3>1. behind \in SUBSET Nat
      BY <1>1
    <3>2. \E k \in behind : \A j \in behind : k <= j
      BY <1>3, <3>1, LeastNat
    <3> QED BY <3>2
  <2>2. r = InsertAt(s, i, t)
    BY <1>3 DEF PushInto
  <2>3. /\ i \in 1..Len(s) /\ t \in U /\ s[i] \notin U
        /\ \A j \in 1..Len(s) : s[j] \notin U => i <= j
    BY <1>1, <2>1
  <2> HIDE DEF i, r, behind
  <2>4. i \in 1..(Len(s) + 1)
    BY <1>1, <2>3
  <2>5. /\ r \in Seq(T) /\ Len(r) = Len(s) + 1 /\ ToSet(r) = ToSet(s) \cup {t}
        /\ IsInjective(s) /\ t \notin ToSet(s) => IsInjective(r)
    BY <2>2, <2>4, InsertAtMembers
  <2>6. FirstIn(U, s) => FirstIn(U, r)
    <3>1. \A j \in 1..Len(s) : j < i => s[j] \in U
      BY <1>1, <2>3
    <3> QED BY <2>2, <2>3, <2>4, <3>1, InsertKeepsFirst
  <2> QED BY <2>5, <2>6 DEF r
<1> QED BY <1>2, <1>3

LEMMA TailKeepsFirst ==
  ASSUME NEW T, NEW U, NEW s \in Seq(T), s # <<>>, FirstIn(U, s)
  PROVE  FirstIn(U, Tail(s)) /\ \A t \in ToSet(Tail(s)) : t \in U => Head(s) \in U
<1> DEFINE q == Tail(s)
<1>1. /\ q \in Seq(T) /\ Len(s) \in Nat \ {0} /\ Len(q) = Len(s) - 1 /\ Head(s) = s[1]
      /\ \A i \in 1..Len(q) : q[i] = s[i + 1]
  BY TailMembers
<1> HIDE DEF q
<1>2. \A i \in 1..Len(q) : i + 1 \in 1..Len(s) /\ 1 \in 1..Len(s) /\ 1 < i + 1
  BY <1>1
<1>3. FirstIn(U, q)
  <2> SUFFICES ASSUME NEW i \in 1..Len(q), NEW j \in 1..Len(q), i < j, q[j] \in U
               PROVE  q[i] \in U
    BY DEF FirstIn
  <2>1. i + 1 < j + 1
    OBVIOUS
  <2> QED BY <1>1, <1>2, <2>1 DEF FirstIn
<1>4. \A t \in ToSet(q) : t \in U => s[1] \in U
  <2> SUFFICES ASSUME NEW t \in ToSet(q), t \in U PROVE s[1] \in U
    OBVIOUS
  <2>1. PICK i \in 1..Len(q) : t = q[i]
    BY <1>1, MembersOf
  <2> QED BY <1>1, <1>2, <2>1 DEF FirstIn
<1> QED BY <1>1, <1>3, <1>4 DEF q

LEMMA WithoutKeepsFirst ==
  ASSUME NEW T, NEW U, NEW s \in Seq(T), NEW S, FirstIn(U, s)
  PROVE  FirstIn(U, Without(s, S))
<1> DEFINE r == Without(s, S)
<1>1. r \in Seq(T) /\ IsRestOf(r, s, S)
  BY WithoutProperties
<1> HIDE DEF r
<1>2. PICK g \in [1..Len(r) -> 1..Len(s)] :
        /\ \A k \in 1..Len(r) : r[k] = s[g[k]] /\ s[g[k]] \notin S
        /\ \A k, l \in 1..Len(r) : k < l => g[k] < g[l]
  BY <1>1 DEF IsRestOf
<1>3. FirstIn(U, r)
  BY <1>2 DEF FirstIn
<1> QED BY <1>3 DEF r

-----------------------------------------------------------------------------
(***************************************************************************)
(* The shared pool, one record at a time.                                  *)
(***************************************************************************)
USE PoolAssumption

\* The tasks some worker has a listener for, and all the pool has.
Listening(p) == {t \in Tasks : \E w \in WorkerIds : t \in ToSet(p.listeners[w])}
InPool(p) == ToSet(p.queue) \cup Listening(p)

\* A task is in the queue or has one listener, once.
EachOnce(p) ==
  /\ IsInjective(p.queue)
  /\ \A w \in WorkerIds : IsInjective(p.listeners[w])
  /\ \A v, w \in WorkerIds : v # w => ToSet(p.listeners[v]) \cap ToSet(p.listeners[w]) = {}
  /\ \A w \in WorkerIds : ToSet(p.listeners[w]) \cap ToSet(p.queue) = {}

\* c workers have failed so far.
Staffed(p, c) ==
  /\ p.workers \subseteq 1..p.created /\ Cardinality(p.workers) + c = p.created
  /\ Cardinality(p.workers) <= MaxWorkers

PoolCore(p, c) ==
  /\ p \in Pools /\ Staffed(p, c) /\ EachOnce(p)
  /\ IsFiniteSet(Listening(p)) /\ p.active = Cardinality(Listening(p))
  /\ FirstIn(Urgent, p.queue)

Conserves(p, c) ==
  c = 0 /\ p.queue # <<>> => p.available = <<>> /\ Cardinality(p.workers) >= MaxWorkers

\* What Conserves leaves when a task or a worker has just been added.
AtMostOneIdle(p, c) ==
  c = 0 /\ Len(p.queue) > 1 => Len(p.available) <= 1 /\ Cardinality(p.workers) >= MaxWorkers

\* Only tasks at least as urgent as those left behind are posted.
Took(p, q) ==
  \A t \in ToSet(q.queue), w \in WorkerIds :
    \A u \in ToSet(q.posted[w]) \ ToSet(p.posted[w]) : t \in Urgent => u \in Urgent

MovesOn(p, q) == Took(p, q) /\ ToSet(q.queue) \subseteq ToSet(p.queue) /\ InPool(q) \subseteq InPool(p)

LEMMA MovesFurther ==
  ASSUME NEW p, NEW q, NEW r, MovesOn(p, q), MovesOn(q, r)
  PROVE  MovesOn(p, r)
<1>1. Took(p, r)
  <2> SUFFICES ASSUME NEW t \in ToSet(r.queue), NEW w \in WorkerIds,
                      NEW u \in ToSet(r.posted[w]) \ ToSet(p.posted[w]), t \in Urgent
               PROVE  u \in Urgent
    BY DEF Took
  <2>1. t \in ToSet(q.queue)
    BY DEF MovesOn
  <2>2. CASE u \in ToSet(q.posted[w])
    BY <2>1, <2>2 DEF MovesOn, Took
  <2>3. CASE u \notin ToSet(q.posted[w])
    BY <2>3 DEF MovesOn, Took
  <2> QED BY <2>2, <2>3
<1> QED BY <1>1 DEF MovesOn

\* A pool and its fields.
LEMMA PoolShape ==
  ASSUME NEW p \in Pools
  PROVE  /\ p.created \in 0..(MaxWorkers + MaxCrashes) /\ p.workers \in SUBSET WorkerIds
         /\ p.dead \in SUBSET WorkerIds /\ p.available \in Seq(WorkerIds) /\ p.queue \in Seq(Tasks)
         /\ p.active \in Nat /\ p.listeners \in [WorkerIds -> Seq(Tasks)]
         /\ p.posted \in [WorkerIds -> Seq(Tasks)]
         /\ \A w \in WorkerIds : p.listeners[w] \in Seq(Tasks) /\ p.posted[w] \in Seq(Tasks)
BY DEF Pools

LEMMA WorkersAreFinite ==
  ASSUME NEW p \in Pools, NEW c, Staffed(p, c)
  PROVE  IsFiniteSet(p.workers) /\ Cardinality(p.workers) \in Nat /\ p.created \in Nat
<1>1. p.created \in Nat
  BY PoolShape
<1>2. IsFiniteSet(1..p.created) /\ p.workers \subseteq 1..p.created
  <2>1. IsFiniteSet(1..p.created)
    BY <1>1, FS_Interval
  <2> QED BY <2>1 DEF Staffed
<1>3. IsFiniteSet(p.workers)
  BY ONLY <1>2, FS_Subset
<1> QED BY <1>1, <1>3, FS_CardinalityType

\* The head of the queue is posted to w.
LEMMA AssignWithKeeps ==
  ASSUME NEW p, NEW c, PoolCore(p, c), NEW w \in WorkerIds, p.queue # <<>>
  PROVE  LET q == AssignWith(p, w)
         IN  /\ PoolCore(q, c) /\ MovesOn(p, q)
             /\ q.queue = Tail(p.queue) /\ q.available = p.available
             /\ q.workers = p.workers
             /\ \A v \in WorkerIds : ToSet(p.listeners[v]) \subseteq ToSet(q.listeners[v])
<1> DEFINE q == AssignWith(p, w)
           h == Head(p.queue)
           li == [p.listeners EXCEPT ![w] = Append(@, h)]
           po == [p.posted EXCEPT ![w] = Append(@, h)]
<1>1. /\ p \in Pools /\ Staffed(p, c) /\ EachOnce(p) /\ FirstIn(Urgent, p.queue)
      /\ IsFiniteSet(Listening(p)) /\ p.active = Cardinality(Listening(p))
  BY DEF PoolCore
<1>2. /\ h \in Tasks /\ Tail(p.queue) \in Seq(Tasks)
      /\ ToSet(p.queue) = ToSet(Tail(p.queue)) \cup {h}
      /\ IsInjective(Tail(p.queue)) /\ h \notin ToSet(Tail(p.queue))
      /\ FirstIn(Urgent, Tail(p.queue))
      /\ \A t \in ToSet(Tail(p.queue)) : t \in Urgent => h \in Urgent
  <2>1. p.queue \in Seq(Tasks) /\ IsInjective(p.queue)
    BY <1>1, PoolShape DEF EachOnce
  <2>2. FirstIn(Urgent, Tail(p.queue)) /\ \A t \in ToSet(Tail(p.queue)) : t \in Urgent => h \in Urgent
    BY <1>1, <2>1, TailKeepsFirst
  <2> QED BY <2>1, <2>2, TailMembers
<1>3. \A v \in WorkerIds : p.listeners[v] \in Seq(Tasks) /\ p.posted[v] \in Seq(Tasks)
  BY <1>1, PoolShape
<1>4. /\ li \in [WorkerIds -> Seq(Tasks)] /\ po \in [WorkerIds -> Seq(Tasks)]
      /\ \A v \in WorkerIds \ {w} : li[v] = p.listeners[v] /\ po[v] = p.posted[v]
      /\ li[w] = Append(p.listeners[w], h) /\ po[w] = Append(p.posted[w], h)
      /\ ToSet(li[w]) = ToSet(p.listeners[w]) \cup {h}
      /\ ToSet(po[w]) = ToSet(p.posted[w]) \cup {h}
      /\ IsInjective(p.listeners[w]) /\ h \notin ToSet(p.listeners[w]) => IsInjective(li[w])
  <2>1. /\ p.listeners \in [WorkerIds -> Seq(Tasks)] /\ p.posted \in [WorkerIds -> Seq(Tasks)]
    BY <1>1, PoolShape
  <2>2. li[w] = Append(p.listeners[w], h) /\ po[w] = Append(p.posted[w], h)
    BY <2>1
  <2>3. /\ Append(p.listeners[w], h) \in Seq(Tasks) /\ Append(p.posted[w], h) \in Seq(Tasks)
        /\ ToSet(Append(p.listeners[w], h)) = ToSet(p.listeners[w]) \cup {h}
        /\ ToSet(Append(p.posted[w], h)) = ToSet(p.posted[w]) \cup {h}
        /\ IsInjective(p.listeners[w]) /\ h \notin ToSet(p.listeners[w]) =>
             IsInjective(Append(p.listeners[w], h))
    BY <1>2, <1>3, AppendMembers
  <2> QED BY <2>1, <2>2, <2>3
<1> HIDE DEF li, po
<1>5. p.active \in Nat /\ p.active + 1 \in Nat
  BY <1>1, PoolShape
<1>6. /\ q \in Pools /\ q.created = p.created /\ q.workers = p.workers /\ q.dead = p.dead
      /\ q.available = p.available /\ q.queue = Tail(p.queue) /\ q.active = p.active + 1
      /\ q.listeners = li /\ q.posted = po
  <2>1. q = [p EXCEPT !.queue = Tail(p.queue), !.active = p.active + 1, !.listeners = li, !.posted = po]
    BY <1>1 DEF AssignWith, Pools, li, po
  <2> HIDE DEF q, h
  <2> QED BY <1>1, <1>2, <1>4, <1>5, <2>1 DEF Pools
<1> HIDE DEF q
<1>7. h \in ToSet(p.queue) /\ h \notin Listening(p) /\ \A v \in WorkerIds : h \notin ToSet(p.listeners[v])
  BY <1>1, <1>2 DEF EachOnce, Listening
<1>8. \A v \in WorkerIds : /\ ToSet(p.listeners[v]) \subseteq ToSet(q.listeners[v])
                           /\ ToSet(q.listeners[v]) \subseteq ToSet(p.listeners[v]) \cup {h}
                           /\ v # w => ToSet(q.listeners[v]) = ToSet(p.listeners[v])
                           /\ v # w => q.posted[v] = p.posted[v]
  BY <1>4, <1>6
<1> HIDE DEF h
<1>9. Listening(q) = Listening(p) \cup {h}
  <2>1. h \in ToSet(q.listeners[w])
    BY <1>4, <1>6
  <2> QED BY <1>2, <1>8, <2>1 DEF Listening
<1>10. IsFiniteSet(Listening(q)) /\ q.active = Cardinality(Listening(q))
  BY <1>1, <1>6, <1>7, <1>9, FS_AddElement
<1>11. EachOnce(q)
  <2>1. IsInjective(q.queue)
    BY <1>2, <1>6
  <2>2. ASSUME NEW v \in WorkerIds PROVE IsInjective(q.listeners[v])
    <3>1. IsInjective(p.listeners[v])
      BY <1>1 DEF EachOnce
    <3> QED BY <3>1, <1>4, <1>6, <1>7
  <2>3. ASSUME NEW v \in WorkerIds, NEW u \in WorkerIds, v # u
        PROVE  ToSet(q.listeners[v]) \cap ToSet(q.listeners[u]) = {}
    <3>1. ToSet(p.listeners[v]) \cap ToSet(p.listeners[u]) = {}
      BY <1>1, <2>3 DEF EachOnce
    <3> QED BY <3>1, <1>7, <1>8, <2>3
  <2>4. ASSUME NEW v \in WorkerIds PROVE ToSet(q.listeners[v]) \cap ToSet(q.queue) = {}
    <3>1. ToSet(p.listeners[v]) \cap ToSet(p.queue) = {}
      BY <1>1 DEF EachOnce
    <3> QED BY <3>1, <1>2, <1>6, <1>8
  <2> QED BY <2>1, <2>2, <2>3, <2>4 DEF EachOnce
<1>12. PoolCore(q, c)
  BY <1>1, <1>2, <1>6, <1>10, <1>11 DEF PoolCore, Staffed
<1>13. MovesOn(p, q)
  <2>1. Took(p, q)
    <3> SUFFICES ASSUME NEW t \in ToSet(q.queue), NEW v \in WorkerIds,
                        NEW u \in ToSet(q.posted[v]) \ ToSet(p.posted[v]), t \in Urgent
                 PROVE  u \in Urgent
      BY DEF Took
    <3>1. v = w
      BY <1>8
    <3>2. u = h
      BY <3>1, <1>4, <1>6
    <3> QED BY <3>2, <1>2, <1>6
  <2>2. ToSet(q.queue) \subseteq ToSet(p.queue)
    BY <1>2, <1>6
  <2>3. InPool(q) \subseteq InPool(p)
    BY <1>7, <1>9, <2>2 DEF InPool
  <2> QED BY <2>1, <2>2, <2>3 DEF MovesOn
<1> QED BY <1>6, <1>8, <1>12, <1>13 DEF q

\* A new worker, also in place of one that failed.
LEMMA CreateKeeps ==
  ASSUME NEW p, NEW c \in 0..MaxCrashes, PoolCore(p, c), Cardinality(p.workers) < MaxWorkers
  PROVE  LET q == CreateWorker(p)
         IN  /\ PoolCore(q, c) /\ MovesOn(p, q)
             /\ q.queue = p.queue /\ q.listeners = p.listeners /\ q.posted = p.posted
             /\ p.created + 1 \in WorkerIds
<1> DEFINE q == CreateWorker(p)
           n == p.created + 1
<1>1. /\ p \in Pools /\ Staffed(p, c)
  BY DEF PoolCore
<1>2. IsFiniteSet(p.workers) /\ Cardinality(p.workers) \in Nat /\ p.created \in Nat
  BY <1>1, WorkersAreFinite
<1>3. n \in WorkerIds /\ n \in 0..(MaxWorkers + MaxCrashes)
  BY <1>1, <1>2 DEF Staffed, WorkerIds
<1>4. p.available \in Seq(WorkerIds) /\ Append(p.available, n) \in Seq(WorkerIds)
  BY <1>1, <1>3, PoolShape, AppendMembers
<1>5. p.workers \cup {n} \in SUBSET WorkerIds
  BY <1>1, <1>3, PoolShape
<1>6. /\ q \in Pools /\ q.created = n /\ q.workers = p.workers \cup {n}
      /\ q.queue = p.queue /\ q.active = p.active
      /\ q.listeners = p.listeners /\ q.posted = p.posted
  <2>1. q = [p EXCEPT !.created = n, !.workers = p.workers \cup {n}, !.available = Append(p.available, n)]
    BY <1>1 DEF CreateWorker, Pools
  <2> HIDE DEF q, n
  <2> QED BY <1>1, <1>3, <1>4, <1>5, <2>1 DEF Pools
<1> HIDE DEF q
<1>7. Staffed(q, c)
  <2>1. n \notin p.workers /\ p.workers \cup {n} \subseteq 1..n
    BY <1>1, <1>2 DEF Staffed
  <2>2. Cardinality(p.workers \cup {n}) = Cardinality(p.workers) + 1
    BY <1>2, <2>1, FS_AddElement
  <2> QED BY <1>1, <1>2, <1>6, <2>1, <2>2 DEF Staffed
<1>8. Listening(q) = Listening(p) /\ (EachOnce(p) => EachOnce(q))
  BY <1>6 DEF Listening, EachOnce
<1>9. PoolCore(q, c)
  BY <1>6, <1>7, <1>8 DEF PoolCore
<1>10. MovesOn(p, q)
  BY <1>6, <1>8 DEF MovesOn, Took, InPool
<1> QED BY <1>3, <1>6, <1>9, <1>10 DEF q

\* assignTaskToWorker: a task goes to a worker that is available or new, and whoever
\* is left waits for a pool of full size.
LEMMA AssignKeeps ==
  ASSUME NEW p, NEW c \in 0..MaxCrashes, PoolCore(p, c), AtMostOneIdle(p, c)
  PROVE  LET q == Assign(p)
         IN  /\ PoolCore(q, c) /\ Conserves(q, c) /\ MovesOn(p, q)
             /\ \A v \in WorkerIds : ToSet(p.listeners[v]) \subseteq ToSet(q.listeners[v])
<1> DEFINE q == Assign(p)
<1>1. /\ p \in Pools /\ Staffed(p, c) /\ p.queue \in Seq(Tasks) /\ p.available \in Seq(WorkerIds)
  BY PoolShape DEF PoolCore
<1>2. IsFiniteSet(p.workers) /\ Cardinality(p.workers) \in Nat
  BY <1>1, WorkersAreFinite
<1>3. p.queue # <<>> => Len(p.queue) \in Nat \ {0} /\ Len(Tail(p.queue)) = Len(p.queue) - 1
  BY <1>1, TailMembers
<1>4. Tail(p.queue) # <<>> /\ p.queue # <<>> => Len(p.queue) > 1
  <2> SUFFICES ASSUME Tail(p.queue) # <<>>, p.queue # <<>> PROVE Len(p.queue) > 1
    OBVIOUS
  <2>1. Tail(p.queue) \in Seq(Tasks)
    BY <1>1, TailMembers
  <2>2. Len(Tail(p.queue)) \in Nat \ {0}
    BY <2>1, TailMembers
  <2> QED BY <1>3, <2>2
<1>5. Conserves(p, c) /\ q = p => PoolCore(q, c) /\ Conserves(q, c) /\ MovesOn(p, q)
  BY DEF MovesOn, Took
<1>6. CASE p.queue # <<>> /\ p.available # <<>>
  <2> DEFINE w == Head(p.available)
             r == [p EXCEPT !.available = Tail(p.available)]
  <2>1. /\ w \in WorkerIds /\ Tail(p.available) \in Seq(WorkerIds) /\ Len(p.available) \in Nat \ {0}
        /\ Len(Tail(p.available)) = Len(p.available) - 1
    BY <1>1, <1>6, TailMembers
  <2>2. /\ r \in Pools /\ r.available = Tail(p.available) /\ r.queue = p.queue
        /\ r.created = p.created /\ r.workers = p.workers /\ r.active = p.active
        /\ r.listeners = p.listeners /\ r.posted = p.posted
    BY <1>1, <2>1 DEF Pools
  <2>3. q = AssignWith(r, w)
    BY <1>1, <1>6 DEF Assign, Pools
  <2> HIDE DEF q, r, w
  <2>4. Listening(r) = Listening(p) /\ PoolCore(r, c)
    BY <2>2 DEF PoolCore, Staffed, EachOnce, Listening
  <2>5. /\ PoolCore(q, c) /\ MovesOn(r, q)
        /\ q.queue = Tail(r.queue) /\ q.available = r.available /\ q.workers = r.workers
        /\ \A v \in WorkerIds : ToSet(r.listeners[v]) \subseteq ToSet(q.listeners[v])
    BY <1>6, <2>1, <2>2, <2>3, <2>4, AssignWithKeeps
  <2>6. MovesOn(p, r)
    BY <2>2, <2>4 DEF MovesOn, Took, InPool
  <2>7. MovesOn(p, q)
    BY <2>5, <2>6, MovesFurther
  <2>8. Conserves(q, c)
    <3> SUFFICES ASSUME c = 0, Tail(p.queue) # <<>>
                 PROVE  Tail(p.available) = <<>> /\ Cardinality(p.workers) >= MaxWorkers
      BY <2>2, <2>5 DEF Conserves
    <3>1. Len(p.available) <= 1 /\ Cardinality(p.workers) >= MaxWorkers
      BY <1>4, <1>6 DEF AtMostOneIdle
    <3> DEFINE long == Len(p.available)
               rest == Len(Tail(p.available))
    <3>2. rest = 0
      <4>1. long \in Nat \ {0} /\ rest = long - 1 /\ long <= 1
        BY <2>1, <3>1
      <4> HIDE DEF long, rest
      <4> QED BY ONLY <4>1
    <3>3. Tail(p.available) = <<>>
      BY <2>1, <3>2, EmptySeq
    <3> QED BY <3>1, <3>3
  <2> QED BY <2>2, <2>5, <2>7, <2>8 DEF q
<1>7. CASE p.queue # <<>> /\ p.available = <<>> /\ Cardinality(p.workers) < MaxWorkers
  <2> DEFINE n == p.created + 1
             r == CreateWorker(p)
  <2>1. q = AssignWith(r, n)
    BY <1>7 DEF Assign
  <2>2. /\ PoolCore(r, c) /\ MovesOn(p, r)
        /\ r.queue = p.queue /\ r.listeners = p.listeners /\ n \in WorkerIds
    BY <1>7, CreateKeeps
  <2> HIDE DEF q, r, n
  <2>3. /\ PoolCore(q, c) /\ MovesOn(r, q) /\ q.queue = Tail(r.queue)
        /\ \A v \in WorkerIds : ToSet(r.listeners[v]) \subseteq ToSet(q.listeners[v])
    BY <1>7, <2>1, <2>2, AssignWithKeeps
  <2>4. MovesOn(p, q)
    BY <2>2, <2>3, MovesFurther
  <2>5. Conserves(q, c)
    <3> SUFFICES ASSUME c = 0, Tail(p.queue) # <<>> PROVE FALSE
      BY <2>2, <2>3 DEF Conserves
    <3> QED BY <1>2, <1>4, <1>7 DEF AtMostOneIdle
  <2> QED BY <2>2, <2>3, <2>4, <2>5 DEF q
<1>8. CASE p.queue = <<>>
  <2>1. q = p
    BY <1>8 DEF Assign
  <2>2. Conserves(p, c)
    BY <1>8 DEF Conserves
  <2> QED BY <1>5, <2>1, <2>2
<1>9. CASE p.queue # <<>> /\ p.available = <<>> /\ ~(Cardinality(p.workers) < MaxWorkers)
  <2>1. q = p
    BY <1>9 DEF Assign
  <2>2. Conserves(p, c)
    BY <1>2, <1>9 DEF Conserves
  <2> QED BY <1>5, <2>1, <2>2
<1> QED BY <1>6, <1>7, <1>8, <1>9

\* A listener that is called takes itself off and its worker goes on.
LEMMA ListenKeeps ==
  ASSUME NEW p, NEW c \in 0..MaxCrashes, PoolCore(p, c), Conserves(p, c),
         NEW w \in WorkerIds, NEW t \in ToSet(p.listeners[w])
  PROVE  LET q == Listen(p, w, t)
         IN  /\ PoolCore(q, c) /\ Conserves(q, c) /\ MovesOn(p, q)
             /\ ToSet(p.listeners[w]) \ {t} \subseteq ToSet(q.listeners[w])
<1> DEFINE q == Listen(p, w, t)
           li == [p.listeners EXCEPT ![w] = Without(@, {t})]
           av == Append(p.available, w)
           r == [p EXCEPT !.listeners = li, !.available = av, !.active = p.active - 1]
<1>1. /\ p \in Pools /\ Staffed(p, c) /\ EachOnce(p)
      /\ IsFiniteSet(Listening(p)) /\ p.active = Cardinality(Listening(p))
      /\ p.queue \in Seq(Tasks) /\ p.available \in Seq(WorkerIds) /\ p.active \in Nat
      /\ p.listeners \in [WorkerIds -> Seq(Tasks)]
      /\ \A v \in WorkerIds : p.listeners[v] \in Seq(Tasks)
  BY PoolShape DEF PoolCore
<1>2. t \in Tasks /\ t \in Listening(p)
  <2>1. t \in Tasks
    BY <1>1, MembersOf
  <2> QED BY <2>1 DEF Listening
<1>3. q = Assign(r)
  BY <1>1 DEF Listen, Pools
<1>4. /\ li \in [WorkerIds -> Seq(Tasks)]
      /\ \A v \in WorkerIds \ {w} : li[v] = p.listeners[v]
      /\ ToSet(li[w]) = ToSet(p.listeners[w]) \ {t}
      /\ IsInjective(li[w])
  <2>1. /\ Without(p.listeners[w], {t}) \in Seq(Tasks)
        /\ ToSet(Without(p.listeners[w], {t})) = ToSet(p.listeners[w]) \ {t}
        /\ IsInjective(Without(p.listeners[w], {t}))
    BY <1>1, WithoutMembers DEF EachOnce
  <2>2. li[w] = Without(p.listeners[w], {t})
    BY <1>1
  <2> QED BY <1>1, <2>1, <2>2
<1>5. av \in Seq(WorkerIds) /\ Len(av) = Len(p.available) + 1
  BY <1>1, AppendMembers
<1> HIDE DEF li, av
<1>6. p.active - 1 \in Nat /\ p.active - 1 = Cardinality(Listening(p) \ {t})
      /\ IsFiniteSet(Listening(p) \ {t})
  <2>1. /\ IsFiniteSet(Listening(p) \ {t})
        /\ Cardinality(Listening(p) \ {t}) = Cardinality(Listening(p)) - 1
    BY <1>1, <1>2, FS_RemoveElement
  <2>2. Cardinality(Listening(p) \ {t}) \in Nat
    BY <2>1, FS_CardinalityType
  <2> QED BY <1>1, <2>1, <2>2
<1>7. /\ r \in Pools /\ r.listeners = li /\ r.available = av /\ r.active = p.active - 1
      /\ r.queue = p.queue /\ r.created = p.created /\ r.workers = p.workers /\ r.posted = p.posted
  BY <1>1, <1>4, <1>5, <1>6 DEF Pools
<1> HIDE DEF q, r
<1>8. Listening(r) = Listening(p) \ {t}
  <2>1. ASSUME NEW u \in Tasks PROVE u \in Listening(r) <=> u \in Listening(p) \ {t}
    <3>1. \A v \in WorkerIds \ {w} : t \notin ToSet(p.listeners[v])
      BY <1>1 DEF EachOnce
    <3>2. \A v \in WorkerIds \ {w} : ToSet(r.listeners[v]) = ToSet(p.listeners[v])
      BY <1>4, <1>7
    <3>3. ToSet(r.listeners[w]) = ToSet(p.listeners[w]) \ {t}
      BY <1>4, <1>7
    <3> QED BY <3>1, <3>2, <3>3 DEF Listening
  <2> QED BY <2>1 DEF Listening
<1>9. EachOnce(r)
  <2>1. \A v \in WorkerIds : ToSet(r.listeners[v]) \subseteq ToSet(p.listeners[v])
    BY <1>4, <1>7
  <2>2. \A v \in WorkerIds : IsInjective(r.listeners[v])
    BY <1>1, <1>4, <1>7 DEF EachOnce
  <2>3. IsInjective(r.queue)
    BY <1>1, <1>7 DEF EachOnce
  <2>4. ASSUME NEW u \in WorkerIds, NEW v \in WorkerIds, u # v
        PROVE  ToSet(r.listeners[u]) \cap ToSet(r.listeners[v]) = {}
    <3>1. ToSet(p.listeners[u]) \cap ToSet(p.listeners[v]) = {}
      BY <1>1, <2>4 DEF EachOnce
    <3> QED BY <2>1, <3>1
  <2>5. ASSUME NEW v \in WorkerIds PROVE ToSet(r.listeners[v]) \cap ToSet(r.queue) = {}
    <3>1. ToSet(p.listeners[v]) \cap ToSet(p.queue) = {}
      BY <1>1 DEF EachOnce
    <3> QED BY <2>1, <3>1, <1>7
  <2> QED BY <2>2, <2>3, <2>4, <2>5 DEF EachOnce
<1>10. PoolCore(r, c)
  BY <1>1, <1>6, <1>7, <1>8, <1>9 DEF PoolCore, Staffed
<1>11. AtMostOneIdle(r, c)
  <2> SUFFICES ASSUME c = 0, Len(p.queue) > 1
               PROVE  Len(av) <= 1 /\ Cardinality(p.workers) >= MaxWorkers
    BY <1>7 DEF AtMostOneIdle
  <2>1. p.queue # <<>>
    <3> SUFFICES ASSUME p.queue = <<>> PROVE FALSE
      OBVIOUS
    <3>1. Len(p.queue) = 0
      BY <1>1, EmptySeq
    <3> QED BY <3>1
  <2>2. p.available = <<>> /\ Cardinality(p.workers) >= MaxWorkers
    BY <2>1 DEF Conserves
  <2>3. Len(p.available) = 0
    BY <1>1, <2>2, EmptySeq
  <2> QED BY <1>5, <2>2, <2>3
<1>12. /\ PoolCore(q, c) /\ Conserves(q, c) /\ MovesOn(r, q)
       /\ \A v \in WorkerIds : ToSet(r.listeners[v]) \subseteq ToSet(q.listeners[v])
  BY <1>3, <1>10, <1>11, AssignKeeps
<1>13. MovesOn(p, r)
  BY <1>7, <1>8 DEF MovesOn, Took, InPool
<1>14. MovesOn(p, q)
  BY <1>12, <1>13, MovesFurther
<1> QED BY <1>4, <1>7, <1>12, <1>14 DEF q

\* One answer, for all the listeners its worker had.
LEMMA DeliverKeeps ==
  ASSUME NEW p, NEW c \in 0..MaxCrashes, PoolCore(p, c), Conserves(p, c),
         NEW w \in WorkerIds, p.posted[w] # <<>>
  PROVE  LET q == Deliver(p, w)
         IN  PoolCore(q, c) /\ Conserves(q, c) /\ MovesOn(p, q)
<1> DEFINE l == p.listeners[w]
           n == Len(l)
           base == [p EXCEPT !.posted[w] = Tail(@)]
           Loose == [created : Nat, workers : SUBSET Nat, dead : SUBSET Nat,
                     available : Seq(Nat), queue : Seq(Tasks), active : Int,
                     listeners : [WorkerIds -> Seq(Tasks)], posted : [WorkerIds -> Seq(Tasks)]]
           step == [s \in Loose \X (1..n) |-> Listen(s[1], w, l[s[2]])]
           Called(v) == [i \in 0..n |-> IF i = 0 THEN base ELSE Listen(v[i - 1], w, l[i])]
           v == Delivered(p, w)
<1>1. /\ p \in Pools /\ EachOnce(p) /\ l \in Seq(Tasks) /\ n \in Nat
      /\ \A i \in 1..n : l[i] \in Tasks
      /\ \A i, j \in 1..n : l[i] = l[j] => i = j
      /\ ToSet(l) = {l[i] : i \in 1..n}
  <2>1. p \in Pools /\ EachOnce(p)
    BY DEF PoolCore
  <2>2. l \in Seq(Tasks) /\ IsInjective(l)
    BY <2>1, PoolShape DEF EachOnce
  <2> QED BY <2>1, <2>2, MembersOf
<1>2. /\ PoolCore(base, c) /\ Conserves(base, c) /\ MovesOn(p, base) /\ base.listeners = p.listeners
  <2> DEFINE po == [p.posted EXCEPT ![w] = Tail(@)]
  <2>1. p.posted \in [WorkerIds -> Seq(Tasks)] /\ p.posted[w] \in Seq(Tasks)
    BY <1>1, PoolShape
  <2>2. /\ Tail(p.posted[w]) \in Seq(Tasks) /\ ToSet(Tail(p.posted[w])) \subseteq ToSet(p.posted[w])
    BY <2>1, TailMembers
  <2>3. /\ po \in [WorkerIds -> Seq(Tasks)]
        /\ \A u \in WorkerIds : ToSet(po[u]) \subseteq ToSet(p.posted[u])
    BY <2>1, <2>2
  <2>4. base = [p EXCEPT !.posted = po]
    BY <1>1 DEF Pools
  <2> HIDE DEF po, base
  <2>5. /\ base \in Pools /\ base.posted = po /\ base.listeners = p.listeners
        /\ base.queue = p.queue /\ base.available = p.available /\ base.workers = p.workers
        /\ base.created = p.created /\ base.active = p.active
    BY <1>1, <2>3, <2>4 DEF Pools
  <2>6. Listening(base) = Listening(p)
    BY <2>5 DEF Listening
  <2>7. PoolCore(base, c) /\ Conserves(base, c)
    BY <2>5, <2>6 DEF PoolCore, Staffed, EachOnce, Conserves
  <2>8. MovesOn(p, base)
    BY <2>3, <2>5, <2>6 DEF MovesOn, Took, InPool
  <2> QED BY <2>5, <2>7, <2>8
<1>3. v = CHOOSE u : u = Called(u)
  BY DEF Delivered
<1>4. base \in Loose /\ \A q \in Loose, t \in Tasks : Listen(q, w, t) \in Loose
  <2>1. base \in Loose
    <3>1. base \in Pools
      BY <1>2 DEF PoolCore
    <3> HIDE DEF base
    <3>2. Seq(WorkerIds) \subseteq Seq(Nat) /\ WorkerIds \subseteq Nat
      BY DEF WorkerIds
    <3>3. /\ base = [created |-> base.created, workers |-> base.workers, dead |-> base.dead,
                     available |-> base.available, queue |-> base.queue, active |-> base.active,
                     listeners |-> base.listeners, posted |-> base.posted]
          /\ base.created \in Nat /\ base.active \in Int
          /\ base.workers \subseteq WorkerIds /\ base.dead \subseteq WorkerIds
          /\ base.available \in Seq(WorkerIds) /\ base.queue \in Seq(Tasks)
          /\ base.listeners \in [WorkerIds -> Seq(Tasks)] /\ base.posted \in [WorkerIds -> Seq(Tasks)]
      BY <3>1 DEF Pools
    <3> QED BY <3>2, <3>3
  <2>2. ASSUME NEW q \in Loose, NEW t \in Tasks PROVE Listen(q, w, t) \in Loose
    <3>1. ASSUME NEW r \in Loose, NEW u \in Nat PROVE AssignWith(r, u) \in Loose
      <4>1. CASE r.queue = <<>>
        <5>1. Append(r.available, u) \in Seq(Nat)
          BY <3>1, AppendMembers
        <5> QED BY <3>1, <4>1, <5>1 DEF AssignWith
      <4>2. CASE r.queue # <<>>
        <5> DEFINE h == Head(r.queue)
                   li == [r.listeners EXCEPT ![u] = Append(@, h)]
                   po == [r.posted EXCEPT ![u] = Append(@, h)]
        <5>1. h \in Tasks /\ Tail(r.queue) \in Seq(Tasks)
          BY <3>1, <4>2, TailMembers
        <5>2. /\ \A x \in WorkerIds : Append(r.listeners[x], h) \in Seq(Tasks)
              /\ \A x \in WorkerIds : Append(r.posted[x], h) \in Seq(Tasks)
          BY <3>1, <5>1, AppendMembers
        <5>3. li \in [WorkerIds -> Seq(Tasks)] /\ po \in [WorkerIds -> Seq(Tasks)]
          BY <3>1, <5>2
        <5>4. AssignWith(r, u) = [r EXCEPT !.queue = Tail(r.queue), !.active = r.active + 1,
                                           !.listeners = li, !.posted = po]
          BY <3>1, <4>2 DEF AssignWith
        <5>5. r.active + 1 \in Int
          BY <3>1
        <5> HIDE DEF li, po
        <5> QED BY <3>1, <5>1, <5>3, <5>4, <5>5
      <4> QED BY <4>1, <4>2
    <3>2. ASSUME NEW r \in Loose PROVE CreateWorker(r) \in Loose /\ r.created + 1 \in Nat
      <4>1. Append(r.available, r.created + 1) \in Seq(Nat)
        BY <3>2, AppendMembers
      <4>2. r.created + 1 \in Nat /\ r.workers \cup {r.created + 1} \in SUBSET Nat
        BY <3>2
      <4>3. CreateWorker(r) = [r EXCEPT !.created = r.created + 1, !.workers = r.workers \cup {r.created + 1},
                                        !.available = Append(r.available, r.created + 1)]
        BY <3>2 DEF CreateWorker
      <4> QED BY <3>2, <4>1, <4>2, <4>3
    <3>3. ASSUME NEW r \in Loose PROVE Assign(r) \in Loose
      <4>1. CASE r.queue # <<>> /\ r.available # <<>>
        <5>1. Head(r.available) \in Nat /\ Tail(r.available) \in Seq(Nat)
          BY <3>3, <4>1, TailMembers
        <5>2. [r EXCEPT !.available = Tail(@)] \in Loose
          BY <3>3, <5>1
        <5> HIDE DEF Loose
        <5>3. AssignWith([r EXCEPT !.available = Tail(@)], Head(r.available)) \in Loose
          BY <3>1, <5>1, <5>2
        <5> QED BY <4>1, <5>3 DEF Assign
      <4>2. CASE ~(r.queue # <<>> /\ r.available # <<>>)
        <5> HIDE DEF Loose
        <5>1. AssignWith(CreateWorker(r), r.created + 1) \in Loose
          BY <3>1, <3>2, <3>3
        <5> QED BY <3>3, <4>2, <5>1 DEF Assign
      <4> QED BY <4>1, <4>2
    <3> DEFINE li == [q.listeners EXCEPT ![w] = Without(@, {t})]
               r == [q EXCEPT !.listeners = li, !.available = Append(q.available, w), !.active = q.active - 1]
    <3>4. li \in [WorkerIds -> Seq(Tasks)]
      <4>1. q.listeners \in [WorkerIds -> Seq(Tasks)] /\ q.listeners[w] \in Seq(Tasks)
        BY <2>2
      <4>2. Without(q.listeners[w], {t}) \in Seq(Tasks)
        BY <4>1, WithoutMembers
      <4> QED BY <4>1, <4>2
    <3>5. Append(q.available, w) \in Seq(Nat)
      <4>1. q.available \in Seq(Nat) /\ w \in Nat
        BY <2>2 DEF WorkerIds
      <4> QED BY <4>1, AppendMembers
    <3>6. Listen(q, w, t) = Assign(r)
      BY <2>2 DEF Listen
    <3> HIDE DEF li
    <3>7. r \in Loose
      <4>1. q.active - 1 \in Int
        BY <2>2
      <4> QED BY <2>2, <3>4, <3>5, <4>1
    <3> HIDE DEF r, Loose
    <3> QED BY <3>3, <3>6, <3>7
  <2> QED BY <2>1, <2>2
<1> HIDE DEF Loose, base, v, n, l
<1>5. PICK g \in [0..n -> Loose] : g[0] = base /\ \A i \in 1..n : g[i] = step[<<g[i - 1], i>>]
  <2>1. step \in [Loose \X (1..n) -> Loose]
    BY <1>1, <1>4
  <2>2. n \in Nat /\ base \in Loose
    BY <1>1, <1>4
  <2> HIDE DEF step
  <2>3. \E g : Iterates(g, Loose, base, n, step)
    BY ONLY <2>1, <2>2, IteratesExists
  <2> QED BY ONLY <2>3 DEF Iterates
<1>6. g = Called(g)
  <2>1. ASSUME NEW i \in 0..n PROVE g[i] = IF i = 0 THEN base ELSE Listen(g[i - 1], w, l[i])
    <3>1. CASE i = 0
      BY <3>1, <1>5
    <3>2. CASE i # 0
      <4>1. i \in 1..n /\ i - 1 \in 0..n
        BY <3>2, <1>1
      <4>2. g[i - 1] \in Loose /\ g[i] = step[<<g[i - 1], i>>]
        BY <4>1, <1>5
      <4> QED BY <3>2, <4>1, <4>2
    <3> QED BY <3>1, <3>2
  <2> QED BY <1>5, <2>1
<1>7. v = Called(v)
  BY <1>3, <1>6
<1> DEFINE Good(k) == /\ PoolCore(v[k], c) /\ Conserves(v[k], c) /\ MovesOn(p, v[k])
                      /\ \A j \in 1..n : k < j => l[j] \in ToSet(v[k].listeners[w])
           T == {k \in Nat : k <= n => Good(k)}
<1>8. 0 \in T
  <2>1. v[0] = base
    BY <1>1, <1>7
  <2>2. \A j \in 1..n : l[j] \in ToSet(base.listeners[w])
    BY <1>1, <1>2 DEF l
  <2> QED BY <1>2, <2>1, <2>2
<1>9. ASSUME NEW k \in T PROVE k + 1 \in T
  <2> SUFFICES ASSUME k + 1 <= n PROVE Good(k + 1)
    OBVIOUS
  <2>1. k \in Nat /\ k + 1 \in 0..n /\ k + 1 \in 1..n /\ k + 1 # 0 /\ (k + 1) - 1 = k /\ k <= n /\ k < k + 1
    BY <1>1
  <2>2. Good(k)
    BY <2>1
  <2> DEFINE r == v[k]
             t == l[k + 1]
  <2>3. v[k + 1] = Listen(r, w, t)
    BY <1>7, <2>1
  <2>4. PoolCore(r, c) /\ Conserves(r, c) /\ MovesOn(p, r) /\ t \in ToSet(r.listeners[w])
    BY <2>1, <2>2
  <2> HIDE DEF r
  <2>5. /\ PoolCore(v[k + 1], c) /\ Conserves(v[k + 1], c) /\ MovesOn(r, v[k + 1])
        /\ ToSet(r.listeners[w]) \ {t} \subseteq ToSet(v[k + 1].listeners[w])
    <3> HIDE DEF t, v
    <3>1. w \in WorkerIds /\ c \in 0..MaxCrashes
      OBVIOUS
    <3> QED BY ONLY <2>3, <2>4, <3>1, ListenKeeps
  <2>6. MovesOn(p, v[k + 1])
    BY <2>4, <2>5, MovesFurther
  <2>7. ASSUME NEW j \in 1..n, k + 1 < j PROVE l[j] \in ToSet(v[k + 1].listeners[w])
    <3>1. k < j /\ j # k + 1
      BY <2>1, <2>7
    <3>2. l[j] # t
      BY <1>1, <2>1, <3>1
    <3>3. l[j] \in ToSet(r.listeners[w])
      BY <2>2, <3>1 DEF r
    <3> QED BY <2>5, <3>2, <3>3
  <2> QED BY <2>5, <2>6, <2>7
<1> HIDE DEF T
<1>10. T = Nat
  <2>1. T \in SUBSET Nat
    BY DEF T
  <2> QED BY <1>8, <1>9, <2>1, InductOn
<1>11. Good(n)
  BY <1>1, <1>10 DEF T
<1>12. Deliver(p, w) = v[n]
  BY DEF Deliver, v, n, l
<1> QED BY <1>11, <1>12

-----------------------------------------------------------------------------
\* The inductive invariant of the shared pool.
SharedInv ==
  /\ PoolTypeOK /\ PoolCore(pool, crashes) /\ Conserves(pool, crashes)
  /\ \A t \in InPool(pool) : promise[t] # "none"

StartsUrgent ==
  \A t \in ToSet(pool'.queue), w \in WorkerIds :
    \A u \in ToSet(pool'.posted[w]) \ ToSet(pool.posted[w]) : t \in Urgent => u \in Urgent

LEMMA SharedTypes ==
  ASSUME PoolTypeOK
  PROVE  /\ pool \in Pools /\ pool.queue \in Seq(Tasks) /\ pool.available \in Seq(WorkerIds)
         /\ promise \in [Tasks -> {"none", "pending", "resolved", "rejected"}]
         /\ result \in [Tasks -> Tasks \cup {NoResult}]
         /\ crashes \in 0..MaxCrashes /\ shutdown \in BOOLEAN
BY PoolShape DEF PoolTypeOK

LEMMA SharedInitInv == PoolInit => SharedInv
<1> SUFFICES ASSUME PoolInit PROVE SharedInv
  OBVIOUS
<1> DEFINE av == [i \in 1..MinWorkers |-> i]
           none == [w \in WorkerIds |-> <<>>]
<1>1. av \in Seq(WorkerIds)
  <2>1. av \in [1..MinWorkers -> WorkerIds] /\ MinWorkers \in Nat
    BY DEF WorkerIds
  <2> HIDE DEF av
  <2> QED BY <2>1, FunctionIsList
<1>2. none \in [WorkerIds -> Seq(Tasks)] /\ <<>> \in Seq(Tasks)
  <2>1. <<>> \in Seq(Tasks)
    BY EmptySeq
  <2> QED BY <2>1
<1> HIDE DEF av, none
<1>3. pool = [created |-> MinWorkers, workers |-> 1..MinWorkers, dead |-> {}, available |-> av,
              queue |-> <<>>, active |-> 0, listeners |-> none, posted |-> none]
  BY DEF PoolInit, NoWorkers, av, none
<1>4. MinWorkers \in 0..(MaxWorkers + MaxCrashes) /\ 1..MinWorkers \in SUBSET WorkerIds
  BY DEF WorkerIds
<1>5. pool \in Pools
  BY <1>1, <1>2, <1>3, <1>4 DEF Pools
<1>6. \A w \in WorkerIds : pool.listeners[w] = <<>>
  BY <1>3 DEF none
<1>7. Listening(pool) = {} /\ InPool(pool) = {}
  <2>1. Listening(pool) = {}
    BY <1>6, MembersOfNone DEF Listening
  <2> QED BY <1>3, <2>1, MembersOfNone DEF InPool
<1>8. EachOnce(pool)
  BY <1>3, <1>6, MembersOfNone DEF EachOnce
<1>9. IsFiniteSet(Listening(pool)) /\ pool.active = Cardinality(Listening(pool))
  BY <1>3, <1>7, FS_EmptySet
<1>10. Staffed(pool, 0)
  <2>1. Cardinality(1..MinWorkers) = MinWorkers
    BY FS_Interval
  <2> QED BY <1>3, <2>1 DEF Staffed
<1>11. FirstIn(Urgent, pool.queue) /\ Conserves(pool, 0)
  <2>1. Len(<<>>) = 0
    OBVIOUS
  <2> QED BY <1>3, <2>1 DEF FirstIn, Conserves
<1>12. crashes = 0 /\ PoolTypeOK
  <2>1. /\ crashes = 0 /\ shutdown = FALSE
        /\ promise = [t \in Tasks |-> "none"] /\ result = [t \in Tasks |-> NoResult]
    BY DEF PoolInit
  <2>2. /\ promise \in [Tasks -> {"none", "pending", "resolved", "rejected"}]
        /\ result \in [Tasks -> Tasks \cup {NoResult}] /\ crashes \in 0..MaxCrashes
    BY <2>1
  <2> QED BY <1>5, <2>1, <2>2 DEF PoolTypeOK
<1> QED BY <1>5, <1>7, <1>8, <1>9, <1>10, <1>11, <1>12 DEF SharedInv, PoolCore

LEMMA ExecuteTaskInv ==
  ASSUME SharedInv, NEW t \in Tasks, ExecuteTask(t)
  PROVE  SharedInv' /\ StartsUrgent
<1> DEFINE qu == Push(pool.queue, t)
           r == [pool EXCEPT !.queue = qu]
<1>1. PoolTypeOK /\ PoolCore(pool, crashes) /\ Conserves(pool, crashes)
      /\ \A u \in InPool(pool) : promise[u] # "none"
  BY DEF SharedInv
<1>2. /\ pool \in Pools /\ pool.queue \in Seq(Tasks) /\ pool.available \in Seq(WorkerIds)
      /\ promise \in [Tasks -> {"none", "pending", "resolved", "rejected"}]
      /\ crashes \in 0..MaxCrashes
  BY <1>1, SharedTypes
<1>3. /\ promise[t] = "none" /\ promise' = [promise EXCEPT ![t] = "pending"]
      /\ pool' = Assign(r) /\ UNCHANGED <<result, crashes, shutdown>>
  BY <1>2 DEF ExecuteTask, Pools
<1>4. t \notin ToSet(pool.queue) /\ t \notin Listening(pool)
  BY <1>1, <1>3 DEF InPool
<1>5. /\ qu \in Seq(Tasks) /\ Len(qu) = Len(pool.queue) + 1
      /\ ToSet(qu) = ToSet(pool.queue) \cup {t} /\ IsInjective(qu) /\ FirstIn(Urgent, qu)
  <2>1. qu = PushInto(Urgent, pool.queue, t)
    BY DEF Push, PushInto
  <2>2. IsInjective(pool.queue) /\ FirstIn(Urgent, pool.queue)
    BY <1>1 DEF PoolCore, EachOnce
  <2> DEFINE u == PushInto(Urgent, pool.queue, t)
  <2>3. /\ u \in Seq(Tasks) /\ Len(u) = Len(pool.queue) + 1
        /\ ToSet(u) = ToSet(pool.queue) \cup {t}
        /\ IsInjective(pool.queue) /\ t \notin ToSet(pool.queue) => IsInjective(u)
        /\ FirstIn(Urgent, pool.queue) => FirstIn(Urgent, u)
    BY ONLY <1>2, t \in Tasks, PushKeeps
  <2> HIDE DEF qu, u
  <2> QED BY <1>4, <2>1, <2>2, <2>3 DEF u
<1> HIDE DEF qu
<1>6. /\ r \in Pools /\ r.queue = qu /\ r.available = pool.available /\ r.workers = pool.workers
      /\ r.created = pool.created /\ r.active = pool.active
      /\ r.listeners = pool.listeners /\ r.posted = pool.posted
  BY <1>2, <1>5 DEF Pools
<1> HIDE DEF r
<1>7. Listening(r) = Listening(pool)
  BY <1>6 DEF Listening
<1>8. EachOnce(r)
  <2>1. \A w \in WorkerIds : t \notin ToSet(pool.listeners[w])
    BY <1>4 DEF Listening
  <2>2. ASSUME NEW w \in WorkerIds PROVE ToSet(r.listeners[w]) \cap ToSet(r.queue) = {}
    <3>1. ToSet(pool.listeners[w]) \cap ToSet(pool.queue) = {}
      BY <1>1 DEF PoolCore, EachOnce
    <3> QED BY <3>1, <2>1, <1>5, <1>6
  <2> QED BY <1>1, <1>5, <1>6, <2>2 DEF PoolCore, EachOnce
<1>9. PoolCore(r, crashes)
  BY <1>1, <1>5, <1>6, <1>7, <1>8 DEF PoolCore, Staffed
<1>10. AtMostOneIdle(r, crashes)
  <2> SUFFICES ASSUME crashes = 0, Len(qu) > 1
               PROVE  Len(pool.available) <= 1 /\ Cardinality(pool.workers) >= MaxWorkers
    BY <1>6 DEF AtMostOneIdle
  <2>1. pool.queue # <<>>
    <3> SUFFICES ASSUME pool.queue = <<>> PROVE FALSE
      OBVIOUS
    <3>1. Len(pool.queue) = 0
      OBVIOUS
    <3> QED BY <1>5, <3>1
  <2>2. pool.available = <<>> /\ Cardinality(pool.workers) >= MaxWorkers
    BY <1>1, <2>1 DEF Conserves
  <2>3. Len(pool.available) = 0
    BY <2>2
  <2> QED BY <2>2, <2>3
<1>11. PoolCore(pool', crashes) /\ Conserves(pool', crashes) /\ MovesOn(r, pool')
  BY <1>2, <1>3, <1>9, <1>10, AssignKeeps
<1>12. StartsUrgent
  BY <1>6, <1>11 DEF StartsUrgent, MovesOn, Took
<1>13. \A u \in InPool(pool') : promise'[u] # "none"
  <2>1. InPool(pool') \subseteq InPool(pool) \cup {t}
    BY <1>5, <1>6, <1>7, <1>11 DEF MovesOn, InPool
  <2>2. InPool(pool) \subseteq Tasks
    BY <1>2, MembersOf DEF InPool, Listening
  <2> QED BY <1>1, <1>2, <1>3, <2>1, <2>2
<1>14. PoolTypeOK'
  BY <1>1, <1>2, <1>3, <1>11 DEF PoolTypeOK, PoolCore
<1> QED BY <1>3, <1>11, <1>12, <1>13, <1>14 DEF SharedInv

LEMMA WorkerAnswersInv ==
  ASSUME SharedInv, NEW w \in WorkerIds, WorkerAnswers(w)
  PROVE  SharedInv' /\ StartsUrgent
<1>1. PoolTypeOK /\ PoolCore(pool, crashes) /\ Conserves(pool, crashes)
      /\ \A u \in InPool(pool) : promise[u] # "none"
  BY DEF SharedInv
<1>2. /\ pool \in Pools /\ pool.posted[w] \in Seq(Tasks) /\ crashes \in 0..MaxCrashes
      /\ promise \in [Tasks -> {"none", "pending", "resolved", "rejected"}]
      /\ result \in [Tasks -> Tasks \cup {NoResult}]
      /\ InPool(pool) \subseteq Tasks
  BY <1>1, SharedTypes, PoolShape, MembersOf DEF InPool, Listening
<1>3. pool.posted[w] # <<>> /\ pool' = Deliver(pool, w) /\ UNCHANGED <<crashes, shutdown>>
  BY DEF WorkerAnswers
<1>4. PoolCore(pool', crashes) /\ Conserves(pool', crashes) /\ MovesOn(pool, pool')
  BY <1>1, <1>2, <1>3, DeliverKeeps
<1>5. Head(pool.posted[w]) \in Tasks
  BY <1>2, <1>3, TailMembers
<1>6. /\ promise' \in [Tasks -> {"none", "pending", "resolved", "rejected"}]
      /\ result' \in [Tasks -> Tasks \cup {NoResult}]
      /\ \A u \in Tasks : promise'[u] = promise[u] \/ promise'[u] = "resolved"
  BY <1>2, <1>5 DEF WorkerAnswers
<1>7. \A u \in InPool(pool') : promise'[u] # "none"
  BY <1>1, <1>2, <1>4, <1>6 DEF MovesOn
<1>8. PoolTypeOK'
  BY <1>1, <1>3, <1>4, <1>6 DEF PoolTypeOK, PoolCore
<1>9. StartsUrgent
  BY <1>4 DEF StartsUrgent, MovesOn, Took
<1> QED BY <1>3, <1>4, <1>7, <1>8, <1>9 DEF SharedInv

\* A timeout and the shutdown take tasks out of the queue, nothing more.
LEMMA QueueShrinks ==
  ASSUME SharedInv, NEW qu \in Seq(Tasks), NEW de \in SUBSET WorkerIds,
         ToSet(qu) \subseteq ToSet(pool.queue), IsInjective(qu), FirstIn(Urgent, qu),
         pool' = [pool EXCEPT !.queue = qu, !.dead = de],
         promise' \in [Tasks -> {"none", "pending", "resolved", "rejected"}],
         \A u \in Tasks : promise'[u] = promise[u] \/ promise'[u] = "rejected",
         shutdown' \in BOOLEAN, UNCHANGED <<result, crashes>>
  PROVE  SharedInv' /\ StartsUrgent
<1>1. PoolTypeOK /\ PoolCore(pool, crashes) /\ Conserves(pool, crashes)
      /\ \A u \in InPool(pool) : promise[u] # "none"
  BY DEF SharedInv
<1>2. pool \in Pools /\ pool.queue \in Seq(Tasks) /\ InPool(pool) \subseteq Tasks
  BY <1>1, SharedTypes, MembersOf DEF InPool, Listening
<1>3. /\ pool' \in Pools /\ pool'.queue = qu /\ pool'.available = pool.available
      /\ pool'.workers = pool.workers /\ pool'.created = pool.created
      /\ pool'.active = pool.active /\ pool'.listeners = pool.listeners
      /\ pool'.posted = pool.posted
  BY <1>2 DEF Pools
<1> DEFINE r == pool'
<1>4. Listening(r) = Listening(pool)
  BY <1>3 DEF Listening
<1>5. EachOnce(r)
  <2>1. ASSUME NEW w \in WorkerIds PROVE ToSet(r.listeners[w]) \cap ToSet(r.queue) = {}
    <3>1. ToSet(pool.listeners[w]) \cap ToSet(pool.queue) = {}
      BY <1>1 DEF PoolCore, EachOnce
    <3> QED BY <3>1, <1>3
  <2> QED BY <1>1, <1>3, <2>1 DEF PoolCore, EachOnce
<1>6. PoolCore(r, crashes)
  BY <1>1, <1>3, <1>4, <1>5 DEF PoolCore, Staffed
<1>7. Conserves(r, crashes)
  <2> SUFFICES ASSUME crashes = 0, qu # <<>>
               PROVE  pool.available = <<>> /\ Cardinality(pool.workers) >= MaxWorkers
    BY <1>3 DEF Conserves
  <2>1. qu[1] \in ToSet(qu)
    <3>1. 1 \in 1..Len(qu)
      BY TailMembers
    <3> QED BY <3>1, MembersOf
  <2>2. pool.queue # <<>>
    BY <2>1, MembersOfNone
  <2> QED BY <1>1, <2>2 DEF Conserves
<1>8. InPool(r) \subseteq InPool(pool)
  BY <1>3, <1>4 DEF InPool
<1>9. \A u \in InPool(r) : promise'[u] # "none"
  BY <1>1, <1>2, <1>8
<1>10. PoolTypeOK'
  BY <1>1, <1>3 DEF PoolTypeOK
<1>11. StartsUrgent
  BY <1>3 DEF StartsUrgent
<1> QED BY <1>6, <1>7, <1>9, <1>10, <1>11 DEF SharedInv

LEMMA TaskTimeoutInv ==
  ASSUME SharedInv, NEW t \in Tasks, TaskTimeout(t)
  PROVE  SharedInv' /\ StartsUrgent
<1> DEFINE qu == Without(pool.queue, {t})
<1>1. PoolTypeOK /\ EachOnce(pool) /\ FirstIn(Urgent, pool.queue)
  BY DEF SharedInv, PoolCore
<1>2. /\ pool \in Pools /\ pool.queue \in Seq(Tasks) /\ pool.dead \in SUBSET WorkerIds
      /\ promise \in [Tasks -> {"none", "pending", "resolved", "rejected"}] /\ shutdown \in BOOLEAN
  BY <1>1, SharedTypes, PoolShape
<1>3. /\ qu \in Seq(Tasks) /\ ToSet(qu) \subseteq ToSet(pool.queue) /\ IsInjective(qu)
      /\ FirstIn(Urgent, qu)
  BY <1>1, <1>2, WithoutMembers, WithoutKeepsFirst DEF EachOnce
<1>4. pool' = [pool EXCEPT !.queue = qu, !.dead = pool.dead]
  BY <1>2 DEF TaskTimeout, Pools
<1>5. /\ promise' \in [Tasks -> {"none", "pending", "resolved", "rejected"}]
      /\ \A u \in Tasks : promise'[u] = promise[u] \/ promise'[u] = "rejected"
      /\ shutdown' \in BOOLEAN /\ UNCHANGED <<result, crashes>>
  BY <1>2 DEF TaskTimeout
<1> HIDE DEF qu
<1> QED BY <1>2, <1>3, <1>4, <1>5, QueueShrinks

LEMMA DestroyInv ==
  ASSUME SharedInv, OnModuleDestroy
  PROVE  SharedInv' /\ StartsUrgent
<1>1. /\ pool \in Pools /\ pool.dead \cup pool.workers \in SUBSET WorkerIds
      /\ promise \in [Tasks -> {"none", "pending", "resolved", "rejected"}]
  BY SharedTypes, PoolShape DEF SharedInv
<1>2. /\ <<>> \in Seq(Tasks) /\ ToSet(<<>>) \subseteq ToSet(pool.queue) /\ IsInjective(<<>>)
      /\ FirstIn(Urgent, <<>>)
  BY EmptySeq, MembersOfNone DEF FirstIn
<1>3. pool' = [pool EXCEPT !.queue = <<>>, !.dead = pool.dead \cup pool.workers]
  BY <1>1 DEF OnModuleDestroy, Pools
<1>4. /\ promise' \in [Tasks -> {"none", "pending", "resolved", "rejected"}]
      /\ \A u \in Tasks : promise'[u] = promise[u] \/ promise'[u] = "rejected"
      /\ shutdown' \in BOOLEAN /\ UNCHANGED <<result, crashes>>
  BY <1>1 DEF OnModuleDestroy
<1> QED BY <1>1, <1>2, <1>3, <1>4, QueueShrinks

LEMMA WorkerFailsInv ==
  ASSUME SharedInv, NEW w \in WorkerIds, WorkerFails(w)
  PROVE  SharedInv' /\ StartsUrgent
<1> DEFINE av == Without(pool.available, {w})
           r == [pool EXCEPT !.workers = pool.workers \ {w}, !.dead = pool.dead \cup {w}, !.available = av]
<1>1. PoolTypeOK /\ PoolCore(pool, crashes) /\ \A u \in InPool(pool) : promise[u] # "none"
  BY DEF SharedInv
<1>2. /\ pool \in Pools /\ Staffed(pool, crashes) /\ pool.available \in Seq(WorkerIds)
      /\ crashes \in 0..MaxCrashes /\ crashes < MaxCrashes /\ w \in pool.workers
      /\ pool.workers \in SUBSET WorkerIds /\ pool.dead \in SUBSET WorkerIds
  BY <1>1, SharedTypes, PoolShape DEF PoolCore, WorkerFails
<1>3. /\ pool' = IF Cardinality(r.workers) < MinWorkers THEN CreateWorker(r) ELSE r
      /\ crashes' = crashes + 1 /\ UNCHANGED <<promise, result, shutdown>>
  BY <1>2 DEF WorkerFails, Pools
<1>4. crashes + 1 \in 0..MaxCrashes
  BY <1>2
<1>5. av \in Seq(WorkerIds)
  BY <1>2, WithoutMembers
<1> HIDE DEF av
<1>6. /\ r \in Pools /\ r.workers = pool.workers \ {w} /\ r.created = pool.created
      /\ r.queue = pool.queue /\ r.active = pool.active
      /\ r.listeners = pool.listeners /\ r.posted = pool.posted
  <2>1. pool.workers \ {w} \in SUBSET WorkerIds /\ pool.dead \cup {w} \in SUBSET WorkerIds
    BY <1>2
  <2> QED BY <1>2, <1>5, <2>1 DEF Pools
<1> HIDE DEF r
<1>7. Staffed(r, crashes + 1)
  <2>1. IsFiniteSet(pool.workers) /\ Cardinality(pool.workers) \in Nat
    BY <1>2, WorkersAreFinite
  <2>2. Cardinality(pool.workers \ {w}) = Cardinality(pool.workers) - 1
    BY <1>2, <2>1, FS_RemoveElement
  <2>3. /\ pool.workers \subseteq 1..pool.created /\ Cardinality(pool.workers) + crashes = pool.created
        /\ Cardinality(pool.workers) <= MaxWorkers
    BY <1>2 DEF Staffed
  <2>4. /\ Cardinality(pool.workers \ {w}) + (crashes + 1) = pool.created
        /\ Cardinality(pool.workers \ {w}) <= MaxWorkers
    BY <1>2, <2>1, <2>2, <2>3
  <2> QED BY <1>6, <2>3, <2>4 DEF Staffed
<1>8. Listening(r) = Listening(pool) /\ EachOnce(r)
  BY <1>1, <1>6 DEF Listening, EachOnce, PoolCore
<1>9. PoolCore(r, crashes + 1)
  BY <1>1, <1>6, <1>7, <1>8 DEF PoolCore
<1>10. /\ PoolCore(pool', crashes + 1) /\ pool'.queue = pool.queue
       /\ pool'.listeners = pool.listeners /\ pool'.posted = pool.posted
  <2>1. CASE Cardinality(r.workers) < MinWorkers
    <3>1. Cardinality(r.workers) < MaxWorkers
      <4>1. Cardinality(r.workers) \in Nat
        BY <1>6, <1>7, WorkersAreFinite
      <4> QED BY <2>1, <4>1
    <3> QED BY <1>3, <1>4, <1>6, <1>9, <2>1, <3>1, CreateKeeps
  <2>2. CASE ~(Cardinality(r.workers) < MinWorkers)
    BY <1>3, <1>6, <1>9, <2>2
  <2> QED BY <2>1, <2>2
<1>11. Conserves(pool', crashes + 1)
  BY <1>2 DEF Conserves
<1>12. InPool(pool') = InPool(pool)
  BY <1>10 DEF InPool, Listening
<1>13. StartsUrgent
  BY <1>10 DEF StartsUrgent
<1>14. PoolTypeOK'
  BY <1>1, <1>3, <1>4, <1>10 DEF PoolTypeOK, PoolCore
<1> QED BY <1>1, <1>3, <1>10, <1>11, <1>12, <1>13, <1>14 DEF SharedInv

LEMMA SharedNextInv == SharedInv /\ [PoolNext]_poolVars => SharedInv' /\ StartsUrgent
<1> SUFFICES ASSUME SharedInv, [PoolNext]_poolVars PROVE SharedInv' /\ StartsUrgent
  OBVIOUS
<1>1. ASSUME UNCHANGED poolVars PROVE SharedInv' /\ StartsUrgent
  BY <1>1 DEF poolVars, SharedInv, PoolTypeOK, StartsUrgent
<1>2. ASSUME NEW t \in Tasks, ExecuteTask(t) PROVE SharedInv' /\ StartsUrgent
  BY <1>2, ExecuteTaskInv
<1>3. ASSUME NEW t \in Tasks, TaskTimeout(t) PROVE SharedInv' /\ StartsUrgent
  BY <1>3, TaskTimeoutInv
<1>4. ASSUME NEW w \in WorkerIds, WorkerAnswers(w) PROVE SharedInv' /\ StartsUrgent
  BY <1>4, WorkerAnswersInv
<1>5. ASSUME NEW w \in WorkerIds, WorkerFails(w) PROVE SharedInv' /\ StartsUrgent
  BY <1>5, WorkerFailsInv
<1>6. ASSUME OnModuleDestroy PROVE SharedInv' /\ StartsUrgent
  BY <1>6, DestroyInv
<1> QED BY <1>1, <1>2, <1>3, <1>4, <1>5, <1>6 DEF PoolNext

-----------------------------------------------------------------------------
(***************************************************************************)
(* The pool of the assistant.                                              *)
(***************************************************************************)
USE AssistantAssumption

Threads == Assistant!WorkerIds

\* AssistantPool has the operators of the library under names of its own.
LEMMA AssistantOperators ==
  /\ \A s : Assistant!IsInjective(s) = IsInjective(s) /\ Assistant!ToSet(s) = ToSet(s)
  /\ \A S : Assistant!Cardinality(S) = Cardinality(S)
  /\ \A s, S : Assistant!Without(s, S) = Without(s, S)
  /\ \A s, i, e : Assistant!InsertAt(s, i, e) = InsertAt(s, i, e)
<1>1. ASSUME NEW s PROVE Assistant!IsInjective(s) = IsInjective(s)
  BY DEF Assistant!IsInjective, IsInjective
<1>2. ASSUME NEW s PROVE Assistant!ToSet(s) = ToSet(s)
  BY DEF Assistant!ToSet, ToSet
<1>3. ASSUME NEW S PROVE Assistant!Cardinality(S) = Cardinality(S)
  BY Zenon DEF Assistant!Cardinality, Cardinality
<1>4. ASSUME NEW s, NEW S PROVE Assistant!Without(s, S) = Without(s, S)
  BY Zenon DEF Assistant!Without, Without, Assistant!EntriesAt, EntriesAt,
               Assistant!Cardinality, Cardinality
<1>5. ASSUME NEW s, NEW i, NEW e PROVE Assistant!InsertAt(s, i, e) = InsertAt(s, i, e)
  BY DEF Assistant!InsertAt, InsertAt
<1> QED BY <1>1, <1>2, <1>3, <1>4, <1>5

\* The calls that wait for an answer and are out of the queue, those whose worker
\* failed among them.
Handed == {t \in Calls : answer[t] = "pending" /\ t \notin ToSet(taskQueue)}

\* Until the shutdown drops the lists.
Open ==
  /\ workers \subseteq 1..created /\ Cardinality(workers) + failures = created
  /\ Cardinality(workers) <= MaxWorkers
  /\ activeTasks = Cardinality(Handed)
  /\ \A t \in ToSet(taskQueue) : answer[t] = "pending"
  /\ \A w \in Threads : running[w] # NoTask => answer[running[w]] = "pending"

Dropped == workers = {} /\ taskQueue = <<>> /\ \A w \in Threads : running[w] = NoTask

\* The inductive invariant of the pool of the assistant.
AssistantInv ==
  /\ Assistant!PoolTypeOK /\ Assistant!BookedOnce /\ Assistant!WorkConserving
  /\ IsInjective(taskQueue) /\ exits <= failures
  /\ IF closing = "complete" THEN Dropped ELSE Open

LEMMA AssistantTypes ==
  ASSUME AssistantInv
  PROVE  /\ workers \in SUBSET Threads /\ available \in Seq(Threads) /\ taskQueue \in Seq(Calls)
         /\ running \in [Threads -> Calls \cup {NoTask}]
         /\ answer \in [Calls -> {"none", "pending", "resolved", "rejected"}]
         /\ activeTasks \in 0..Cardinality(Calls) /\ created \in 0..(MaxWorkers + MaxFailures)
         /\ failures \in 0..MaxFailures /\ exits \in 0..MaxFailures /\ exits <= failures
         /\ closing \in {"no", "requested", "complete"}
         /\ IsInjective(taskQueue) /\ IsInjective(available) /\ ToSet(available) \subseteq workers
BY AssistantOperators DEF AssistantInv, Assistant!PoolTypeOK, Assistant!BookedOnce, Threads

\* Who runs what, of the workers that have not just answered.
Booked(queue, avail, ws, free) ==
  \A w \in Threads \ free : running[w] # NoTask =>
    /\ w \in ws \ ToSet(avail) /\ running[w] \notin ToSet(queue)
    /\ \A v \in Threads \ free : running[v] = running[w] => v = w

\* The calls that would be handed out if the queue were this one.
HandedBut(queue) == {t \in Calls : answer'[t] = "pending" /\ t \notin ToSet(queue)}

\* processQueue restores the invariant, whatever list it is called on.
LEMMA ProcessKeeps ==
  ASSUME NEW queue \in Seq(Calls), IsInjective(queue),
         NEW avail \in Seq(Threads), IsInjective(avail),
         NEW ws \in SUBSET Threads, ToSet(avail) \subseteq ws,
         NEW next \in Nat \ {0}, ws \subseteq 1..(next - 1),
         Cardinality(ws) + failures' = next - 1, Cardinality(ws) <= MaxWorkers,
         NEW free, Booked(queue, avail, ws, free),
         running \in [Threads -> Calls \cup {NoTask}],
         answer' \in [Calls -> {"none", "pending", "resolved", "rejected"}],
         failures' \in 0..MaxFailures, exits' \in 0..failures', closing' \in {"no", "requested"},
         \A t \in ToSet(queue) : answer'[t] = "pending",
         \A w \in Threads \ free : running[w] # NoTask => answer'[running[w]] = "pending",
         NEW activeNow, activeNow = Cardinality(HandedBut(queue)),
         Assistant!ProcessQueue(queue, avail, ws, next, free, activeNow)
  PROVE  AssistantInv'
<1> DEFINE n == IF Len(queue) <= Len(avail) THEN Len(queue) ELSE Len(avail)
           grow == Len(queue) > n /\ Len(avail) = n /\ Cardinality(ws) < MaxWorkers
           rest == SubSeq(avail, n + 1, Len(avail))
           left == SubSeq(queue, n + 1, Len(queue))
           hired == LeadingMembers(avail, n)
           handed == LeadingMembers(queue, n)
<1>1. /\ taskQueue' = left
      /\ available' = IF grow THEN Append(rest, next) ELSE rest
      /\ workers' = IF grow THEN ws \cup {next} ELSE ws
      /\ created' = IF grow THEN next ELSE next - 1
      /\ running' = [w \in Threads |->
                       IF \E i \in 1..n : avail[i] = w THEN queue[CHOOSE i \in 1..n : avail[i] = w]
                       ELSE IF w \in free THEN NoTask ELSE running[w]]
      /\ activeTasks' = activeNow + n
  <2> DEFINE s == Assistant!Process(queue, avail, ws)
  <2>1. s = [taken |-> n, grow |-> grow]
    <3>1. Assistant!Cardinality(ws) = Cardinality(ws)
      BY AssistantOperators
    <3> QED BY ONLY <3>1 DEF Assistant!Process
  <2>2. s.taken = n /\ (s.grow <=> grow)
    <3> HIDE DEF n, grow, s
    <3> QED BY <2>1
  <2>3. /\ taskQueue' = SubSeq(queue, s.taken + 1, Len(queue))
        /\ available' = IF s.grow THEN Append(SubSeq(avail, s.taken + 1, Len(avail)), next)
                        ELSE SubSeq(avail, s.taken + 1, Len(avail))
        /\ workers' = IF s.grow THEN ws \cup {next} ELSE ws
        /\ created' = IF s.grow THEN next ELSE next - 1
        /\ running' = [w \in Threads |->
                         IF \E i \in 1..s.taken : avail[i] = w
                           THEN queue[CHOOSE i \in 1..s.taken : avail[i] = w]
                         ELSE IF w \in free THEN NoTask ELSE running[w]]
        /\ activeTasks' = activeNow + s.taken
    <3> HIDE DEF s, n
    <3> QED BY DEF Assistant!ProcessQueue, Threads, s
  <2> HIDE DEF s, n, grow
  <2> QED BY ONLY <2>2, <2>3 DEF rest, left
<1>2. /\ Len(queue) \in Nat /\ Len(avail) \in Nat
      /\ n \in 0..Len(queue) /\ n \in 0..Len(avail)
      /\ Len(queue) # n => Len(queue) > n /\ Len(avail) = n
  <2>1. Len(queue) \in Nat /\ Len(avail) \in Nat
    BY MembersOf
  <2> QED BY <2>1
<1> HIDE DEF n
<1>3. /\ left \in Seq(Calls) /\ Len(left) = Len(queue) - n /\ IsInjective(left)
      /\ ToSet(queue) = ToSet(left) \cup handed /\ ToSet(left) \cap handed = {}
      /\ IsFiniteSet(handed) /\ Cardinality(handed) = n
  <2>1. queue \in Seq(Calls) /\ IsInjective(queue)
    OBVIOUS
  <2> QED BY ONLY <1>2, <2>1, DropMembers
<1>4. /\ rest \in Seq(Threads) /\ Len(rest) = Len(avail) - n /\ IsInjective(rest)
      /\ ToSet(avail) = ToSet(rest) \cup hired /\ ToSet(rest) \cap hired = {}
  <2>1. avail \in Seq(Threads) /\ IsInjective(avail)
    OBVIOUS
  <2> QED BY ONLY <1>2, <2>1, DropMembers
<1> HIDE DEF left, rest
<1>5. \A i \in 1..n : /\ i \in 1..Len(queue) /\ i \in 1..Len(avail)
                      /\ queue[i] \in Calls /\ avail[i] \in hired /\ queue[i] \in handed
  <2>1. \A i \in 1..n : i \in 1..Len(queue) /\ i \in 1..Len(avail)
    BY <1>2
  <2> QED BY <2>1, MembersOf DEF LeadingMembers
<1>6. /\ IsFiniteSet(ws) /\ Cardinality(ws) \in Nat /\ next \notin ws
      /\ grow => next \in Threads
  <2>1. IsFiniteSet(1..(next - 1)) /\ next \notin 1..(next - 1)
    <3>1. 1 \in Int /\ next - 1 \in Int /\ ~(next <= next - 1)
      OBVIOUS
    <3>2. IsFiniteSet(1..(next - 1))
      BY <3>1, FS_Interval
    <3> QED BY <3>1, <3>2
  <2>2. IsFiniteSet(ws)
    BY <2>1, FS_Subset
  <2>3. Cardinality(ws) \in Nat
    BY <2>2, FS_CardinalityType
  <2>4. ASSUME Cardinality(ws) < MaxWorkers PROVE next \in 1..(MaxWorkers + MaxFailures)
    BY <2>3, <2>4
  <2> QED BY <2>1, <2>2, <2>3, <2>4 DEF Threads, Assistant!WorkerIds
\* The lists.
<1>7. /\ available' \in Seq(Threads) /\ IsInjective(available')
      /\ ToSet(available') \subseteq ToSet(rest) \cup {next}
      /\ ToSet(available') \subseteq workers'
  <2>1. CASE grow
    <3>1. available' = Append(rest, next) /\ workers' = ws \cup {next} /\ next \in Threads
      BY <1>1, <1>6, <2>1
    <3>2. next \notin ToSet(rest)
      BY <1>4, <1>6
    <3>3. /\ Append(rest, next) \in Seq(Threads) /\ IsInjective(Append(rest, next))
          /\ ToSet(Append(rest, next)) = ToSet(rest) \cup {next}
      BY <1>4, <3>1, <3>2, AppendMembers
    <3> QED BY <1>4, <3>1, <3>3
  <2>2. CASE ~grow
    BY <1>1, <1>4, <2>2
  <2> QED BY <2>1, <2>2
<1>8. /\ workers' \in SUBSET Threads /\ ws \subseteq workers'
      /\ created' \in 0..(MaxWorkers + MaxFailures)
      /\ workers' \subseteq 1..created' /\ Cardinality(workers') + failures' = created'
      /\ Cardinality(workers') <= MaxWorkers
  <2>1. CASE grow
    <3>1. workers' = ws \cup {next} /\ created' = next /\ next \in Threads
      BY <1>1, <1>6, <2>1
    <3>2. Cardinality(ws \cup {next}) = Cardinality(ws) + 1
      BY <1>6, FS_AddElement
    <3>3. /\ Cardinality(ws) + 1 + failures' = next /\ Cardinality(ws) + 1 <= MaxWorkers
          /\ next \in 0..(MaxWorkers + MaxFailures)
          /\ \A w \in 1..(next - 1) : w \in 1..next
          /\ next \in 1..next
      <4> DEFINE k == Cardinality(ws)
                 f == failures'
      <4>1. /\ k \in Nat /\ k < MaxWorkers /\ f \in 0..MaxFailures /\ k + f = next - 1
            /\ next \in Nat /\ MaxWorkers \in Nat /\ MaxFailures \in Nat
        BY <1>6, <2>1
      <4> HIDE DEF k, f
      <4>2. /\ k + 1 + f = next /\ k + 1 <= MaxWorkers
            /\ next \in 0..(MaxWorkers + MaxFailures)
            /\ \A w \in 1..(next - 1) : w \in 1..next
            /\ next \in 1..next
        BY ONLY <4>1
      <4> QED BY <4>2 DEF k, f
    <3> QED BY <3>1, <3>2, <3>3
  <2>2. CASE ~grow
    <3>1. workers' = ws /\ created' = next - 1
      BY <1>1, <2>2
    <3>2. next - 1 \in 0..(MaxWorkers + MaxFailures)
      BY <1>6
    <3> QED BY <3>1, <3>2
  <2> QED BY <2>1, <2>2
\* The workers.
<1>9. /\ running' \in [Threads -> Calls \cup {NoTask}]
      /\ \A w \in Threads : running'[w] # NoTask =>
           \/ \E i \in 1..n : avail[i] = w /\ running'[w] = queue[i]
           \/ w \notin hired /\ w \notin free /\ running'[w] = running[w]
  <2> DEFINE p(w) == CHOOSE i \in 1..n : avail[i] = w
  <2>1. \A w \in Threads : (\E i \in 1..n : avail[i] = w) => p(w) \in 1..n /\ avail[p(w)] = w
    OBVIOUS
  <2>2. ASSUME NEW w \in Threads
        PROVE  /\ running'[w] \in Calls \cup {NoTask}
               /\ running'[w] # NoTask =>
                    \/ \E i \in 1..n : avail[i] = w /\ running'[w] = queue[i]
                    \/ w \notin hired /\ w \notin free /\ running'[w] = running[w]
    <3>1. CASE \E i \in 1..n : avail[i] = w
      <4>1. running'[w] = queue[p(w)] /\ p(w) \in 1..n /\ avail[p(w)] = w
        BY <1>1, <2>1, <3>1
      <4> HIDE DEF p
      <4> QED BY <1>5, <4>1
    <3>2. CASE ~(\E i \in 1..n : avail[i] = w)
      BY <1>1, <3>2 DEF LeadingMembers
    <3> QED BY <3>1, <3>2
  <2>3. running' = [w \in Threads |-> running'[w]]
    BY <1>1
  <2> HIDE DEF hired
  <2> QED BY <2>2, <2>3
<1> HIDE DEF hired, handed
<1>10. ASSUME NEW w \in Threads, running'[w] # NoTask
       PROVE  /\ w \in workers' \ ToSet(available')
              /\ running'[w] \notin ToSet(taskQueue')
              /\ answer'[running'[w]] = "pending"
  <2>1. CASE \E i \in 1..n : avail[i] = w /\ running'[w] = queue[i]
    <3>1. PICK i \in 1..n : avail[i] = w /\ running'[w] = queue[i]
      BY <2>1
    <3>2. w \in hired /\ running'[w] \in handed
      BY <1>5, <3>1
    <3>3. w \in ws /\ w # next /\ w \notin ToSet(rest)
      BY <1>4, <1>6, <3>2
    <3>4. running'[w] \in ToSet(queue) /\ running'[w] \notin ToSet(left)
      BY <1>3, <3>2
    <3> QED BY <1>1, <1>7, <1>8, <3>3, <3>4
  <2>2. CASE w \notin hired /\ w \notin free /\ running'[w] = running[w]
    <3>1. /\ w \in ws /\ w \notin ToSet(avail) /\ running[w] \notin ToSet(queue)
          /\ answer'[running[w]] = "pending"
      BY <1>10, <2>2 DEF Booked
    <3>2. w # next /\ w \notin ToSet(rest) /\ running[w] \notin ToSet(left)
      BY <1>3, <1>4, <1>6, <3>1
    <3> QED BY <1>1, <1>7, <1>8, <2>2, <3>1, <3>2
  <2> QED BY <1>9, <1>10, <2>1, <2>2
<1>11. ASSUME NEW w \in Threads, running'[w] # NoTask, NEW v \in Threads, running'[v] = running'[w]
       PROVE  v = w
  <2> DEFINE took(u) == \E i \in 1..n : avail[i] = u /\ running'[u] = queue[i]
             kept(u) == u \notin hired /\ u \notin free /\ running'[u] = running[u]
  <2>1. (took(w) \/ kept(w)) /\ (took(v) \/ kept(v))
    BY <1>9, <1>11
  <2>2. ASSUME NEW u \in Threads, running'[u] # NoTask
        PROVE  /\ took(u) => running'[u] \in ToSet(queue)
               /\ kept(u) => running'[u] \notin ToSet(queue)
    BY <1>3, <1>5, <2>2 DEF Booked
  <2>3. CASE took(w) /\ took(v)
    <3>1. PICK i \in 1..n : avail[i] = w /\ running'[w] = queue[i]
      BY <2>3
    <3>2. PICK j \in 1..n : avail[j] = v /\ running'[v] = queue[j]
      BY <2>3
    <3>3. queue[i] = queue[j]
      BY <1>11, <3>1, <3>2
    <3>4. i = j
      BY <1>5, <3>3, MembersOf
    <3> QED BY <3>1, <3>2, <3>4
  <2>4. CASE kept(w) /\ kept(v)
    BY <1>11, <2>4 DEF Booked
  <2> QED BY <1>11, <2>1, <2>2, <2>3, <2>4
\* The count of active tasks.
<1>12. \A t \in ToSet(taskQueue') : answer'[t] = "pending"
  BY <1>1, <1>3
<1>13. Handed' = HandedBut(queue) \cup handed /\ HandedBut(queue) \cap handed = {}
  <2>1. Handed' = {t \in Calls : answer'[t] = "pending" /\ t \notin ToSet(taskQueue')}
    BY DEF Handed
  <2>2. handed \subseteq Calls
    BY <1>3, MembersOf
  <2> QED BY <1>1, <1>3, <2>1, <2>2 DEF HandedBut
<1>14. activeTasks' = Cardinality(Handed') /\ activeTasks' \in 0..Cardinality(Calls)
  <2> DEFINE A == HandedBut(queue)
  <2>1. A \subseteq Calls /\ Handed' \subseteq Calls
    BY DEF HandedBut, Handed
  <2>2. IsFiniteSet(A) /\ IsFiniteSet(Handed') /\ Cardinality(Handed') <= Cardinality(Calls)
    BY <2>1, FS_Subset
  <2>3. /\ Cardinality(A) \in Nat /\ Cardinality(Handed') \in Nat /\ Cardinality(Calls) \in Nat
    BY <2>2, FS_CardinalityType
  <2> HIDE DEF A
  <2>4. Cardinality(A \cup handed) = Cardinality(A) + Cardinality(handed) - Cardinality(A \cap handed)
    BY <1>3, <2>2, FS_Union
  <2>5. A \cap handed = {} /\ Handed' = A \cup handed
    BY <1>13 DEF A
  <2>6. Cardinality(A \cap handed) = 0
    BY <2>5, FS_EmptySet
  <2>7. Cardinality(Handed') = activeNow + n
    <3>1. activeNow = Cardinality(A)
      BY DEF A
    <3> QED BY <1>2, <1>3, <2>3, <2>4, <2>5, <2>6, <3>1
  <2> QED BY <1>1, <2>2, <2>3, <2>7
\* A backlog.
<1>15. Assistant!WorkConserving'
  <2> SUFFICES ASSUME left # <<>>
               PROVE  Len(available') <= 1 /\ (available' = <<>> => Cardinality(workers') >= MaxWorkers)
    BY <1>1, AssistantOperators DEF Assistant!WorkConserving
  <2>1. Len(left) # 0
    BY <1>3
  <2>2. Len(queue) > n /\ Len(avail) = n
    BY <1>2, <1>3, <2>1
  <2>3. Len(rest) = 0
    BY <1>2, <1>4, <2>2
  <2>4. CASE grow
    <3>1. available' = Append(rest, next) /\ next \in Threads
      BY <1>1, <1>6, <2>4
    <3>2. Append(rest, next) # <<>> /\ Len(Append(rest, next)) = 1
      BY <1>4, <2>3, <3>1, AppendMembers
    <3> QED BY <3>1, <3>2
  <2>5. CASE ~grow
    <3>1. available' = rest /\ workers' = ws
      BY <1>1, <2>5
    <3>2. Cardinality(ws) >= MaxWorkers
      BY <1>6, <2>2, <2>5
    <3> QED BY <2>3, <3>1, <3>2
  <2> QED BY <2>4, <2>5
<1>16. Assistant!BookedOnce'
  BY <1>7, <1>10, <1>11, AssistantOperators DEF Assistant!BookedOnce, Threads
<1>17. failures' \in 0..MaxFailures /\ exits' \in 0..MaxFailures /\ exits' <= failures'
  OBVIOUS
<1>18. Assistant!PoolTypeOK'
  <2>1. taskQueue' \in Seq(Calls)
    BY <1>1, <1>3
  <2> QED BY <1>7, <1>8, <1>9, <1>14, <1>17, <2>1, AssistantOperators DEF Assistant!PoolTypeOK, Threads
<1>19. IsInjective(taskQueue')
  BY <1>1, <1>3
<1>20. closing' # "complete" /\ Open'
  BY <1>8, <1>10, <1>12, <1>14 DEF Open
<1> QED BY <1>15, <1>16, <1>17, <1>18, <1>19, <1>20 DEF AssistantInv

LEMMA OpenFacts ==
  ASSUME AssistantInv, closing # "complete"
  PROVE  /\ Open /\ Booked(taskQueue, available, workers, {})
         /\ IsFiniteSet(workers) /\ Cardinality(workers) \in Nat /\ created \in Nat
<1>1. Open /\ created \in Nat
  BY AssistantTypes DEF AssistantInv
<1>2. IsFiniteSet(1..created) /\ workers \subseteq 1..created
  <2>1. IsFiniteSet(1..created)
    BY <1>1, FS_Interval
  <2> QED BY <1>1, <2>1 DEF Open
<1>3. IsFiniteSet(workers) /\ Cardinality(workers) \in Nat
  <2>1. IsFiniteSet(workers)
    BY ONLY <1>2, FS_Subset
  <2> QED BY <2>1, FS_CardinalityType
<1>4. Booked(taskQueue, available, workers, {})
  BY AssistantOperators DEF AssistantInv, Assistant!BookedOnce, Booked, Threads
<1> QED BY <1>1, <1>3, <1>4

LEMMA AssistantInitInv ==
  ASSUME Assistant!PoolInit
  PROVE  AssistantInv
<1> DEFINE av == [i \in 1..MinWorkers |-> i]
<1>1. /\ workers = 1..MinWorkers /\ available = av /\ taskQueue = <<>>
      /\ running = [w \in Threads |-> NoTask] /\ answer = [t \in Calls |-> "none"]
      /\ activeTasks = 0 /\ created = MinWorkers /\ failures = 0 /\ exits = 0 /\ closing = "no"
  BY DEF Assistant!PoolInit, Threads
<1>2. 1..MinWorkers \subseteq Threads /\ created \in 0..(MaxWorkers + MaxFailures)
  BY <1>1 DEF Threads, Assistant!WorkerIds
<1>3. av \in Seq(Threads) /\ Len(av) = MinWorkers /\ \A i \in 1..MinWorkers : av[i] = i
  <2>1. av \in [1..MinWorkers -> Threads]
    BY <1>2
  <2>2. \A i \in 1..MinWorkers : av[i] = i
    OBVIOUS
  <2> HIDE DEF av
  <2> QED BY <2>1, <2>2, FunctionIsList
<1> HIDE DEF av
<1>4. IsInjective(av) /\ ToSet(av) \subseteq 1..MinWorkers
  BY <1>3, MembersOf
<1>5. IsFiniteSet(1..MinWorkers) /\ Cardinality(1..MinWorkers) = MinWorkers
  BY FS_Interval
<1>6. Cardinality(Handed) = 0 /\ 0 \in 0..Cardinality(Calls)
  <2>1. Handed = {}
    BY <1>1 DEF Handed
  <2> QED BY <2>1, FS_EmptySet, FS_CardinalityType
<1>7. <<>> \in Seq(Calls) /\ ToSet(<<>>) = {} /\ IsInjective(<<>>)
  BY EmptySeq, MembersOfNone
<1>8. Assistant!PoolTypeOK
  <2>1. 0 \in 0..MaxFailures
    OBVIOUS
  <2>2. /\ running \in [Threads -> Calls \cup {NoTask}]
        /\ answer \in [Calls -> {"none", "pending", "resolved", "rejected"}]
    BY <1>1
  <2> QED BY <1>1, <1>2, <1>3, <1>6, <1>7, <2>1, <2>2, AssistantOperators
         DEF Assistant!PoolTypeOK, Threads
<1>9. Assistant!BookedOnce
  BY <1>1, <1>4, AssistantOperators DEF Assistant!BookedOnce, Threads
<1>10. Assistant!WorkConserving
  BY <1>1 DEF Assistant!WorkConserving
<1>11. Open
  BY <1>1, <1>5, <1>6, <1>7 DEF Open
<1> QED BY <1>1, <1>7, <1>8, <1>9, <1>10, <1>11 DEF AssistantInv

LEMMA ExecuteInv ==
  ASSUME AssistantInv, NEW t \in Calls, Assistant!Execute(t)
  PROVE  AssistantInv'
<1> DEFINE qu == PushInto(UrgentCalls, taskQueue, t)
<1>1. /\ answer[t] = "none" /\ closing = "no" /\ answer' = [answer EXCEPT ![t] = "pending"]
      /\ Assistant!ProcessQueue(Assistant!Push(taskQueue, t), available, workers, created + 1, {},
                                activeTasks)
      /\ failures' = failures /\ exits' = exits /\ closing' = closing
  BY DEF Assistant!Execute
<1>2. Assistant!Push(taskQueue, t) = qu
  BY AssistantOperators DEF Assistant!Push, PushInto
<1>3. /\ taskQueue \in Seq(Calls) /\ available \in Seq(Threads) /\ workers \in SUBSET Threads
      /\ running \in [Threads -> Calls \cup {NoTask}] /\ IsInjective(taskQueue)
      /\ answer \in [Calls -> {"none", "pending", "resolved", "rejected"}]
      /\ failures \in 0..MaxFailures /\ exits \in 0..failures
      /\ IsInjective(available) /\ ToSet(available) \subseteq workers
  BY AssistantTypes
<1>4. /\ Open /\ Booked(taskQueue, available, workers, {}) /\ created \in Nat
      /\ Cardinality(workers) \in Nat
  BY <1>1, OpenFacts
<1>5. t \notin ToSet(taskQueue) /\ \A w \in Threads : running[w] # t
  BY <1>1, <1>4 DEF Open
<1>6. qu \in Seq(Calls) /\ ToSet(qu) = ToSet(taskQueue) \cup {t} /\ IsInjective(qu)
  <2> DEFINE u == PushInto(UrgentCalls, taskQueue, t)
  <2>1. /\ u \in Seq(Calls) /\ Len(u) = Len(taskQueue) + 1
        /\ ToSet(u) = ToSet(taskQueue) \cup {t}
        /\ IsInjective(taskQueue) /\ t \notin ToSet(taskQueue) => IsInjective(u)
        /\ FirstIn(UrgentCalls, taskQueue) => FirstIn(UrgentCalls, u)
    <3>1. taskQueue \in Seq(Calls)
      BY <1>3
    <3> QED BY ONLY <3>1, t \in Calls, PushKeeps
  <2> HIDE DEF u
  <2> QED BY <1>3, <1>5, <2>1 DEF u
<1> HIDE DEF qu
<1>7. HandedBut(qu) = Handed
  BY <1>1, <1>3, <1>6 DEF HandedBut, Handed
<1>8. Booked(qu, available, workers, {})
  BY <1>4, <1>5, <1>6 DEF Booked
<1>9. /\ created + 1 \in Nat \ {0} /\ (created + 1) - 1 = created /\ workers \subseteq 1..created
      /\ Cardinality(workers) + failures' = created /\ Cardinality(workers) <= MaxWorkers
      /\ activeTasks = Cardinality(HandedBut(qu))
  BY <1>1, <1>4, <1>7 DEF Open
<1>10. /\ answer' \in [Calls -> {"none", "pending", "resolved", "rejected"}]
       /\ \A u \in ToSet(qu) : answer'[u] = "pending"
       /\ \A w \in Threads : running[w] # NoTask => answer'[running[w]] = "pending"
  <2>1. ToSet(taskQueue) \subseteq Calls
    BY <1>3, MembersOf
  <2> QED BY <1>1, <1>3, <1>4, <1>6, <2>1 DEF Open
<1> QED BY <1>1, <1>2, <1>3, <1>6, <1>8, <1>9, <1>10, ProcessKeeps

LEMMA AnswersInv ==
  ASSUME AssistantInv, NEW w \in Threads, Assistant!WorkerAnswers(w)
  PROVE  AssistantInv'
<1> DEFINE t == running[w]
           av == Append(available, w)
<1>1. /\ t # NoTask /\ w \in workers /\ answer' = [answer EXCEPT ![t] = "resolved"]
      /\ Assistant!ProcessQueue(taskQueue, av, workers, created + 1, {w}, activeTasks - 1)
      /\ failures' = failures /\ exits' = exits /\ closing' = closing
  BY DEF Assistant!WorkerAnswers
<1>2. closing # "complete"
  BY <1>1 DEF AssistantInv, Dropped
<1>3. /\ taskQueue \in Seq(Calls) /\ available \in Seq(Threads) /\ workers \in SUBSET Threads
      /\ running \in [Threads -> Calls \cup {NoTask}] /\ IsInjective(taskQueue)
      /\ answer \in [Calls -> {"none", "pending", "resolved", "rejected"}]
      /\ failures \in 0..MaxFailures /\ exits \in 0..failures
      /\ closing \in {"no", "requested", "complete"}
      /\ IsInjective(available) /\ ToSet(available) \subseteq workers
  BY AssistantTypes
<1>4. /\ Open /\ Booked(taskQueue, available, workers, {}) /\ created \in Nat
  BY <1>2, OpenFacts
<1>5. /\ t \in Calls /\ w \notin ToSet(available) /\ t \notin ToSet(taskQueue)
      /\ answer[t] = "pending" /\ \A v \in Threads : running[v] = t => v = w
  BY <1>1, <1>3, <1>4 DEF Booked, Open
<1> HIDE DEF t
<1>6. av \in Seq(Threads) /\ ToSet(av) = ToSet(available) \cup {w} /\ IsInjective(av)
  BY <1>3, <1>5, AppendMembers
<1> HIDE DEF av
<1>7. /\ Handed = HandedBut(taskQueue) \cup {t} /\ t \notin HandedBut(taskQueue)
  BY <1>1, <1>3, <1>5 DEF HandedBut, Handed
<1>8. activeTasks - 1 = Cardinality(HandedBut(taskQueue))
  <2>1. IsFiniteSet(HandedBut(taskQueue)) /\ Cardinality(HandedBut(taskQueue)) \in Nat
    <3>1. HandedBut(taskQueue) \subseteq Calls
      BY DEF HandedBut
    <3> QED BY <3>1, FS_Subset, FS_CardinalityType
  <2>2. Cardinality(Handed) = Cardinality(HandedBut(taskQueue)) + 1
    BY <1>7, <2>1, FS_AddElement
  <2>3. activeTasks = Cardinality(Handed)
    BY <1>4 DEF Open
  <2> QED BY <2>1, <2>2, <2>3
<1>9. Booked(taskQueue, av, workers, {w})
  BY <1>4, <1>6 DEF Booked
<1>10. /\ created + 1 \in Nat \ {0} /\ (created + 1) - 1 = created /\ workers \subseteq 1..created
       /\ Cardinality(workers) + failures' = created /\ Cardinality(workers) <= MaxWorkers
  BY <1>1, <1>4 DEF Open
<1>11. /\ answer' \in [Calls -> {"none", "pending", "resolved", "rejected"}]
       /\ \A u \in ToSet(taskQueue) : answer'[u] = "pending"
       /\ \A v \in Threads \ {w} : running[v] # NoTask => answer'[running[v]] = "pending"
  <2>1. ToSet(taskQueue) \subseteq Calls
    BY <1>3, MembersOf
  <2> QED BY <1>1, <1>3, <1>4, <1>5, <2>1 DEF Open
<1>12. ToSet(av) \subseteq workers
  BY <1>1, <1>3, <1>6
<1> QED BY <1>1, <1>2, <1>3, <1>6, <1>8, <1>9, <1>10, <1>11, <1>12, ProcessKeeps

LEMMA FailsInv ==
  ASSUME AssistantInv, NEW w \in Threads, Assistant!WorkerFails(w)
  PROVE  AssistantInv'
<1> DEFINE ws == workers \ {w}
           av == Without(available, {w})
           replace == Cardinality(ws) < MinWorkers /\ closing = "no"
<1>1. /\ failures < MaxFailures /\ w \in workers
      /\ failures' = failures + 1 /\ exits' = exits + 1
      /\ answer' = answer /\ closing' = closing
      /\ IF replace
           THEN Assistant!ProcessQueue(taskQueue, Append(av, created + 1), ws \cup {created + 1},
                                       created + 2, {w}, activeTasks)
           ELSE Assistant!ProcessQueue(taskQueue, av, ws, created + 1, {w}, activeTasks)
  BY AssistantOperators DEF Assistant!WorkerFails
<1>2. closing # "complete"
  BY <1>1 DEF AssistantInv, Dropped
<1>3. /\ taskQueue \in Seq(Calls) /\ available \in Seq(Threads) /\ workers \in SUBSET Threads
      /\ running \in [Threads -> Calls \cup {NoTask}] /\ IsInjective(taskQueue)
      /\ answer \in [Calls -> {"none", "pending", "resolved", "rejected"}]
      /\ failures \in 0..MaxFailures /\ exits \in 0..failures
      /\ closing \in {"no", "requested", "complete"}
      /\ IsInjective(available) /\ ToSet(available) \subseteq workers
  BY AssistantTypes
<1>4. /\ Open /\ Booked(taskQueue, available, workers, {}) /\ created \in Nat
      /\ IsFiniteSet(workers) /\ Cardinality(workers) \in Nat
  BY <1>2, OpenFacts
<1>5. av \in Seq(Threads) /\ ToSet(av) = ToSet(available) \ {w} /\ IsInjective(av)
  BY <1>3, WithoutMembers
<1> HIDE DEF av
<1>6. /\ IsFiniteSet(ws) /\ Cardinality(ws) = Cardinality(workers) - 1 /\ Cardinality(ws) \in Nat
  BY <1>1, <1>4, FS_RemoveElement, FS_CardinalityType
<1>7. /\ workers \subseteq 1..created /\ Cardinality(workers) + failures = created
      /\ Cardinality(workers) <= MaxWorkers /\ activeTasks = Cardinality(Handed)
  BY <1>4 DEF Open
<1>8. HandedBut(taskQueue) = Handed
  BY <1>1 DEF HandedBut, Handed
<1>9. /\ answer' \in [Calls -> {"none", "pending", "resolved", "rejected"}]
      /\ \A u \in ToSet(taskQueue) : answer'[u] = "pending"
      /\ \A v \in Threads \ {w} : running[v] # NoTask => answer'[running[v]] = "pending"
      /\ failures' \in 0..MaxFailures /\ exits' \in 0..failures' /\ closing' \in {"no", "requested"}
  BY <1>1, <1>2, <1>3, <1>4 DEF Open
<1>10. ws \in SUBSET Threads /\ ToSet(av) \subseteq ws /\ Booked(taskQueue, av, ws, {w})
  BY <1>3, <1>4, <1>5 DEF Booked
<1>11. CASE ~replace
  <2>1. Assistant!ProcessQueue(taskQueue, av, ws, created + 1, {w}, activeTasks)
    BY <1>1, <1>11
  <2>2. /\ created + 1 \in Nat \ {0} /\ (created + 1) - 1 = created /\ ws \subseteq 1..created
        /\ Cardinality(ws) + failures' = created /\ Cardinality(ws) <= MaxWorkers
    BY <1>1, <1>3, <1>4, <1>6, <1>7
  <2> HIDE DEF ws
  <2> QED BY <1>3, <1>5, <1>7, <1>8, <1>9, <1>10, <2>1, <2>2, ProcessKeeps
<1>12. CASE replace
  <2> DEFINE n == created + 1
             wn == ws \cup {n}
             an == Append(av, n)
  <2>1. Assistant!ProcessQueue(taskQueue, an, wn, created + 2, {w}, activeTasks)
    BY <1>1, <1>12
  <2>2. /\ created + 2 \in Nat \ {0} /\ (created + 2) - 1 = n /\ n \notin ws
        /\ n \in 1..(MaxWorkers + MaxFailures)
        /\ Cardinality(ws) + 1 + failures' = n /\ Cardinality(ws) + 1 <= MaxWorkers
    <3>1. n \notin 1..created
      BY <1>4
    <3>2. Cardinality(ws) < MaxWorkers
      BY <1>6, <1>12
    <3> DEFINE k == Cardinality(ws)
    <3>3. /\ k \in Nat /\ k < MaxWorkers /\ created \in Nat /\ failures \in Nat
          /\ failures < MaxFailures /\ failures' = failures + 1
          /\ k + 1 + failures = created
      BY <1>1, <1>3, <1>4, <1>6, <1>7, <3>2
    <3> HIDE DEF k
    <3>4. /\ created + 2 \in Nat \ {0} /\ (created + 2) - 1 = n
          /\ n \in 1..(MaxWorkers + MaxFailures)
          /\ k + 1 + failures' = n /\ k + 1 <= MaxWorkers
      BY <3>3
    <3> QED BY <1>7, <3>1, <3>4 DEF k
  <2>3. Cardinality(wn) = Cardinality(ws) + 1 /\ wn \subseteq 1..n /\ wn \in SUBSET Threads
    <3>1. Cardinality(wn) = Cardinality(ws) + 1
      BY <1>6, <2>2, FS_AddElement
    <3>2. n \in Threads
      BY <2>2 DEF Threads, Assistant!WorkerIds
    <3>3. \A v \in 1..created : v \in 1..n
      BY <1>4
    <3>4. n \in 1..n
      BY <1>4
    <3> QED BY <1>7, <1>10, <3>1, <3>2, <3>3, <3>4
  <2>4. /\ an \in Seq(Threads) /\ ToSet(an) = ToSet(av) \cup {n} /\ IsInjective(an)
    <3>1. n \in Threads /\ n \notin ToSet(av)
      BY <1>10, <2>2, <2>3
    <3> QED BY <1>5, <3>1, AppendMembers
  <2> HIDE DEF wn, an
  <2>5. ToSet(an) \subseteq wn /\ Booked(taskQueue, an, wn, {w})
    <3>1. ToSet(an) \subseteq wn
      BY <1>10, <2>4 DEF wn
    <3>2. Booked(taskQueue, an, wn, {w})
      BY <1>10, <2>2, <2>4 DEF Booked, wn
    <3> QED BY <3>1, <3>2
  <2>6. Cardinality(wn) + failures' = (created + 2) - 1 /\ Cardinality(wn) <= MaxWorkers
    BY <2>2, <2>3
  <2>7. wn \subseteq 1..((created + 2) - 1)
    BY <2>2, <2>3
  <2> HIDE DEF n
  <2> QED BY <1>3, <1>7, <1>8, <1>9, <2>1, <2>2, <2>3, <2>4, <2>5, <2>6, <2>7, ProcessKeeps
<1> QED BY <1>11, <1>12

LEMMA ExitsInv ==
  ASSUME AssistantInv, Assistant!WorkerExits
  PROVE  AssistantInv'
<1>1. /\ exits > 0 /\ closing = "no" /\ exits' = exits - 1
      /\ Assistant!ProcessQueue(taskQueue, available, workers, created + 1, {}, activeTasks)
      /\ answer' = answer /\ failures' = failures /\ closing' = closing
  BY DEF Assistant!WorkerExits
<1>2. /\ taskQueue \in Seq(Calls) /\ available \in Seq(Threads) /\ workers \in SUBSET Threads
      /\ running \in [Threads -> Calls \cup {NoTask}] /\ IsInjective(taskQueue)
      /\ answer \in [Calls -> {"none", "pending", "resolved", "rejected"}]
      /\ failures \in 0..MaxFailures /\ exits \in 0..failures
      /\ IsInjective(available) /\ ToSet(available) \subseteq workers
  BY AssistantTypes
<1>3. /\ Open /\ Booked(taskQueue, available, workers, {}) /\ created \in Nat
  BY <1>1, OpenFacts
<1>4. HandedBut(taskQueue) = Handed
  BY <1>1 DEF HandedBut, Handed
<1>5. /\ created + 1 \in Nat \ {0} /\ (created + 1) - 1 = created /\ workers \subseteq 1..created
      /\ Cardinality(workers) + failures' = created /\ Cardinality(workers) <= MaxWorkers
      /\ activeTasks = Cardinality(HandedBut(taskQueue))
  BY <1>1, <1>3, <1>4 DEF Open
<1>6. exits' \in 0..failures' /\ failures' \in 0..MaxFailures
  BY <1>1, <1>2
<1> QED BY <1>1, <1>2, <1>3, <1>5, <1>6, ProcessKeeps DEF Open

LEMMA TimeoutInv ==
  ASSUME AssistantInv, NEW t \in Calls, Assistant!TaskTimeout(t)
  PROVE  AssistantInv'
<1> DEFINE qu == Without(taskQueue, {t})
<1>1. /\ t \in ToSet(taskQueue) /\ taskQueue' = qu /\ answer' = [answer EXCEPT ![t] = "rejected"]
      /\ UNCHANGED <<workers, available, running, activeTasks, created, failures, exits, closing>>
  BY AssistantOperators DEF Assistant!TaskTimeout
<1>2. taskQueue # <<>> /\ closing # "complete"
  BY <1>1, MembersOfNone DEF AssistantInv, Dropped
<1>3. /\ taskQueue \in Seq(Calls) /\ IsInjective(taskQueue)
      /\ answer \in [Calls -> {"none", "pending", "resolved", "rejected"}]
      /\ running \in [Threads -> Calls \cup {NoTask}]
  BY AssistantTypes
<1>4. Open /\ Booked(taskQueue, available, workers, {})
  BY <1>2, OpenFacts
<1>5. qu \in Seq(Calls) /\ ToSet(qu) = ToSet(taskQueue) \ {t} /\ IsInjective(qu)
  BY <1>3, WithoutMembers
<1> HIDE DEF qu
<1>6. Handed' = Handed
  BY <1>1, <1>3, <1>5 DEF Handed
<1>7. Open'
  <2>1. ToSet(taskQueue) \subseteq Calls
    BY <1>3, MembersOf
  <2>2. \A u \in ToSet(taskQueue') : answer'[u] = "pending"
    BY <1>1, <1>3, <1>4, <1>5, <2>1 DEF Open
  <2>3. \A w \in Threads : running'[w] # NoTask => answer'[running'[w]] = "pending"
    BY <1>1, <1>3, <1>4 DEF Open, Booked
  <2> QED BY <1>1, <1>4, <1>6, <2>2, <2>3 DEF Open
<1>8. Assistant!PoolTypeOK'
  BY <1>1, <1>3, <1>5 DEF AssistantInv, Assistant!PoolTypeOK
<1>9. Assistant!BookedOnce'
  BY <1>1, <1>5, AssistantOperators DEF AssistantInv, Assistant!BookedOnce
<1>10. Assistant!WorkConserving'
  BY <1>1, <1>2, AssistantOperators DEF AssistantInv, Assistant!WorkConserving
<1> QED BY <1>1, <1>2, <1>5, <1>7, <1>8, <1>9, <1>10 DEF AssistantInv

LEMMA ShutdownInv ==
  ASSUME AssistantInv, Assistant!RequestShutdown \/ Assistant!CompleteShutdown
  PROVE  AssistantInv'
<1>1. CASE Assistant!RequestShutdown
  BY <1>1, AssistantOperators
     DEF AssistantInv, Assistant!RequestShutdown, Assistant!PoolTypeOK, Assistant!BookedOnce,
         Assistant!WorkConserving, Open, Handed
<1>2. CASE Assistant!CompleteShutdown
  <2>1. /\ workers' = {} /\ available' = <<>> /\ taskQueue' = <<>> /\ closing' = "complete"
        /\ running' = [w \in Threads |-> NoTask]
        /\ UNCHANGED <<answer, activeTasks, created, failures, exits>>
    BY <1>2 DEF Assistant!CompleteShutdown, Threads
  <2>2. /\ <<>> \in Seq(Calls) /\ <<>> \in Seq(Threads) /\ ToSet(<<>>) = {} /\ IsInjective(<<>>)
    BY EmptySeq, MembersOfNone
  <2>3. running' \in [Threads -> Calls \cup {NoTask}] /\ \A w \in Threads : running'[w] = NoTask
    BY <2>1
  <2>4. Assistant!PoolTypeOK'
    BY <2>1, <2>2, <2>3 DEF AssistantInv, Assistant!PoolTypeOK, Threads
  <2>5. Assistant!BookedOnce'
    BY <2>1, <2>2, <2>3, AssistantOperators DEF Assistant!BookedOnce, Threads
  <2>6. Assistant!WorkConserving'
    BY <2>1 DEF Assistant!WorkConserving
  <2> QED BY <2>1, <2>2, <2>3, <2>4, <2>5, <2>6 DEF AssistantInv, Dropped
<1> QED BY <1>1, <1>2

LEMMA AssistantNextInv == AssistantInv /\ [Assistant!PoolNext]_assistantVars => AssistantInv'
<1> SUFFICES ASSUME AssistantInv, [Assistant!PoolNext]_assistantVars PROVE AssistantInv'
  OBVIOUS
<1>1. ASSUME UNCHANGED assistantVars PROVE AssistantInv'
  BY <1>1, AssistantOperators
     DEF assistantVars, AssistantInv, Assistant!PoolTypeOK, Assistant!BookedOnce,
         Assistant!WorkConserving, Open, Dropped, Handed
<1>2. ASSUME NEW t \in Calls, Assistant!Execute(t) PROVE AssistantInv'
  BY <1>2, ExecuteInv
<1>3. ASSUME NEW t \in Calls, Assistant!TaskTimeout(t) PROVE AssistantInv'
  BY <1>3, TimeoutInv
<1>4. ASSUME NEW w \in Threads, Assistant!WorkerAnswers(w) PROVE AssistantInv'
  BY <1>4, AnswersInv
<1>5. ASSUME NEW w \in Threads, Assistant!WorkerFails(w) PROVE AssistantInv'
  BY <1>5, FailsInv
<1>6. ASSUME Assistant!WorkerExits PROVE AssistantInv'
  BY <1>6, ExitsInv
<1>7. ASSUME Assistant!RequestShutdown \/ Assistant!CompleteShutdown PROVE AssistantInv'
  BY <1>7, ShutdownInv
<1> QED BY <1>1, <1>2, <1>3, <1>4, <1>5, <1>6, <1>7 DEF Assistant!PoolNext, Threads

-----------------------------------------------------------------------------
(***************************************************************************)
(* Both pools.                                                             *)
(***************************************************************************)

\* WorkerPool and AssistantPool keep their workers at work, after every sequence
\* of calls, answers, timeouts, failures and shutdowns: in the shared pool no task
\* waits beside a listed worker while none has failed, and in the assistant pool a
\* backlog means a pool of full size, but for one worker just created, no worker
\* has two tasks and no task two workers.
THEOREM PoolsAreAlwaysSound == PoolsSpec => []PoolsAreSound
<1>1. PoolsInit => SharedInv /\ AssistantInv
  BY SharedInitInv, AssistantInitInv DEF PoolsInit
<1>2. SharedInv /\ AssistantInv /\ [PoolsNext]_<<subject, poolVars, assistantVars>>
        => SharedInv' /\ AssistantInv'
  <2> SUFFICES ASSUME SharedInv, AssistantInv, [PoolsNext]_<<subject, poolVars, assistantVars>>
               PROVE  SharedInv' /\ AssistantInv'
    OBVIOUS
  <2>1. [PoolNext]_poolVars /\ [Assistant!PoolNext]_assistantVars
    BY DEF PoolsNext
  <2> QED BY <2>1, SharedNextInv, AssistantNextInv
<1>3. SharedInv /\ AssistantInv => PoolsAreSound
  BY DEF SharedInv, AssistantInv, PoolsAreSound, NoIdleBacklog, BookedOnce, WorkConserving, Conserves
<1> QED BY <1>1, <1>2, <1>3, PTL DEF PoolsSpec

\* In the shared pool a task that is posted to a worker is at least as urgent as
\* every task left in the queue, through all the listeners one answer calls.
THEOREM UrgentTasksStartFirst == PoolsSpec => MostUrgentFirst
<1>1. PoolsInit => SharedInv
  BY SharedInitInv DEF PoolsInit
<1>2. SharedInv /\ [PoolsNext]_<<subject, poolVars, assistantVars>> => SharedInv' /\ [StartsUrgent]_poolVars
  <2> SUFFICES ASSUME SharedInv, [PoolsNext]_<<subject, poolVars, assistantVars>>
               PROVE  SharedInv' /\ StartsUrgent
    OBVIOUS
  <2>1. [PoolNext]_poolVars
    BY DEF PoolsNext
  <2> QED BY <2>1, SharedNextInv
<1> QED BY <1>1, <1>2, PTL DEF PoolsSpec, MostUrgentFirst, StartsUrgent
=============================================================================
