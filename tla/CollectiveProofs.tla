-------------------------- MODULE CollectiveProofs ---------------------------
(***************************************************************************)
(* Proofs about a collective of agents: its shared memory with the locks   *)
(* of its artifacts, and its task board.  The two share no state.          *)
(***************************************************************************)
EXTENDS SharedMemory, CollectiveTasks, SubsequenceProofs

-----------------------------------------------------------------------------
(***************************************************************************)
(* Proofs about the artifact lock service and about the shared memory that *)
(* uses it, for any sets of callers and artifacts.  The steps of the       *)
(* memory are steps of the lock service or leave the locks alone, so what  *)
(* is proved of the service in the first part holds of the memory as well; *)
(* the second part adds the facts that tie a call to its lock.             *)
(***************************************************************************)

USE NoLockAssumption

(***************************************************************************)
(* What RemoveAt, the splice of removeFromQueue, returns.                  *)
(***************************************************************************)
LEMMA RemoveAtProperties ==
  ASSUME NEW T, NEW s \in Seq(T), NEW i \in 1..Len(s)
  PROVE  /\ RemoveAt(s, i) \in Seq(T)
         /\ Len(RemoveAt(s, i)) = Len(s) - 1
         /\ \A k \in 1..(Len(s) - 1) :
              RemoveAt(s, i)[k] = IF k < i THEN s[k] ELSE s[k + 1]
<1> DEFINE l == SubSeq(s, 1, i - 1)
           r == SubSeq(s, i + 1, Len(s))
<1>1. /\ l \in Seq(T) /\ Len(l) = i - 1
      /\ \A k \in 1..(i - 1) : l[k] = s[k]
  OBVIOUS
<1>2. /\ r \in Seq(T) /\ Len(r) = Len(s) - i
      /\ \A k \in 1..(Len(s) - i) : r[k] = s[i + k]
  OBVIOUS
<1>3. RemoveAt(s, i) = l \o r
  BY DEF RemoveAt
<1> HIDE DEF l, r
<1>4. /\ l \o r \in Seq(T)
      /\ Len(l \o r) = Len(l) + Len(r)
      /\ \A k \in 1..(Len(l) + Len(r)) :
           (l \o r)[k] = IF k <= Len(l) THEN l[k] ELSE r[k - Len(l)]
  BY <1>1, <1>2, ConcatProperties
<1>5. ASSUME NEW k \in 1..(Len(s) - 1)
      PROVE  (l \o r)[k] = IF k < i THEN s[k] ELSE s[k + 1]
  <2>1. CASE k < i
    BY <2>1, <1>1, <1>2, <1>4
  <2>2. CASE ~(k < i)
    <3>1. k - (i - 1) \in 1..(Len(s) - i) /\ i + (k - (i - 1)) = k + 1
      BY <2>2
    <3>2. (l \o r)[k] = r[k - (i - 1)]
      BY <2>2, <1>1, <1>2, <1>4
    <3> QED BY <2>2, <3>1, <3>2, <1>2
  <2> QED BY <2>1, <2>2
<1>6. Len(l) + Len(r) = Len(s) - 1
  BY <1>1, <1>2
<1> QED BY <1>3, <1>4, <1>5, <1>6

(***************************************************************************)
(* The inductive invariant.  RecordIsCurrent ties a lock record to the     *)
(* promise it was granted to, WriterRecorded says that a running WRITE     *)
(* lease is never overwritten, which a READ lease may be.                  *)
(***************************************************************************)
RecordIsCurrent ==
  \A a \in Artifacts : activeLocks[a] # NoLock =>
    /\ phase[activeLocks[a]] = "granted"
    /\ request[activeLocks[a]].artifact = a

WriterRecorded ==
  \A c \in Clients :
    Holds(c) /\ request[c].lockType = "WRITE" => activeLocks[request[c].artifact] = c

LockInv ==
  /\ LockTypeOK
  /\ RecordIsCurrent
  /\ WriterRecorded
  /\ NoLostWakeup
  /\ QueueMatchesWaiters

\* The first request of a queue waits for that artifact, and no other queue
\* or later place holds it.
LEMMA HeadWaits ==
  ASSUME LockTypeOK, QueueMatchesWaiters,
         NEW a \in Artifacts, lockQueues[a] # <<>>
  PROVE  /\ Head(lockQueues[a]) \in Clients
         /\ phase[Head(lockQueues[a])] = "queued"
         /\ request[Head(lockQueues[a])].artifact = a
         /\ Tail(lockQueues[a]) \in Seq(Clients)
         /\ Len(Tail(lockQueues[a])) = Len(lockQueues[a]) - 1
         /\ \A k \in 1..(Len(lockQueues[a]) - 1) : Tail(lockQueues[a])[k] = lockQueues[a][k + 1]
         /\ Head(lockQueues[a]) = lockQueues[a][1]
         /\ 1 \in 1..Len(lockQueues[a])
BY DEF LockTypeOK, QueueMatchesWaiters

LEMMA InitInv == LockInit => LockInv
BY DEF LockInit, LockInv, LockTypeOK, Requests, Phases, LockTypes, RecordIsCurrent,
       WriterRecorded, Holds, NoLostWakeup, QueueMatchesWaiters

LEMMA AcquireInv ==
  ASSUME LockInv, NEW c \in Clients, NEW a \in Artifacts, NEW t \in LockTypes,
         AcquireLock(c, a, t)
  PROVE  LockInv'
<1> USE DEF LockInv, AcquireLock
<1>1. LockTypeOK'
  <2>1. request' \in [Clients -> Requests]
    BY DEF LockTypeOK, Requests
  <2>2. activeLocks' \in [Artifacts -> Clients \cup {NoLock}]
    BY DEF LockTypeOK
  <2>3. lockQueues' \in [Artifacts -> Seq(Clients)]
    <3>1. lockQueues[a] \in Seq(Clients) /\ Append(lockQueues[a], c) \in Seq(Clients)
      BY DEF LockTypeOK
    <3> QED BY <3>1 DEF LockTypeOK
  <2>4. phase' \in [Clients -> Phases] /\ leaseOver' \in [Clients -> BOOLEAN]
    BY DEF LockTypeOK, Phases
  <2> QED BY <2>1, <2>2, <2>3, <2>4 DEF LockTypeOK
<1>2. CASE CanGrantLock(a, t)
  <2>1. RecordIsCurrent'
    <3> SUFFICES ASSUME NEW b \in Artifacts, activeLocks'[b] # NoLock
                 PROVE  phase'[activeLocks'[b]] = "granted" /\ request'[activeLocks'[b]].artifact = b
      BY DEF RecordIsCurrent
    <3>1. CASE b = a
      BY <1>2, <3>1 DEF LockTypeOK
    <3>2. CASE b # a
      <4>1. activeLocks'[b] = activeLocks[b] /\ activeLocks[b] \in Clients
        BY <1>2, <3>2 DEF LockTypeOK
      <4>2. activeLocks[b] # c
        BY <4>1 DEF RecordIsCurrent
      <4> QED BY <4>1, <4>2, <1>2 DEF LockTypeOK, RecordIsCurrent
    <3> QED BY <3>1, <3>2
  <2>2. WriterRecorded'
    BY <1>2 DEF LockTypeOK, RecordIsCurrent, WriterRecorded, Holds, CanGrantLock,
                Expired, Requests, LockTypes
  <2>3. NoLostWakeup'
    BY <1>2 DEF LockTypeOK, NoLostWakeup
  <2>4. QueueMatchesWaiters'
    <3>1. \A d \in Clients : phase'[d] = "queued" =>
            phase[d] = "queued" /\ request'[d] = request[d]
      BY <1>2 DEF LockTypeOK
    <3>2. \A d \in Clients : phase[d] = "queued" =>
            phase'[d] = "queued" /\ request'[d] = request[d]
      BY <1>2 DEF LockTypeOK
    <3>3. lockQueues' = lockQueues
      BY <1>2
    <3>4. \A b \in Artifacts : \A k \in 1..Len(lockQueues[b]) : lockQueues[b][k] \in Clients
      BY DEF LockTypeOK
    <3>5. QueueMatchesWaiters
      OBVIOUS
    <3> HIDE DEF AcquireLock, LockInv
    <3>6. \A d \in Clients : phase'[d] = "queued" =>
            \E k \in 1..Len(lockQueues'[request'[d].artifact]) :
              lockQueues'[request'[d].artifact][k] = d
      BY <3>1, <3>3, <3>5 DEF QueueMatchesWaiters
    <3>7. \A b \in Artifacts : \A k \in 1..Len(lockQueues'[b]) :
            /\ phase'[lockQueues'[b][k]] = "queued"
            /\ request'[lockQueues'[b][k]].artifact = b
            /\ \A j \in 1..Len(lockQueues'[b]) :
                 lockQueues'[b][j] = lockQueues'[b][k] => j = k
      BY <3>2, <3>3, <3>4, <3>5 DEF QueueMatchesWaiters
    <3> QED BY <3>6, <3>7 DEF QueueMatchesWaiters
  <2> QED BY <1>1, <2>1, <2>2, <2>3, <2>4
<1>3. CASE ~CanGrantLock(a, t)
  <2> DEFINE q == lockQueues[a]
  <2>1. /\ lockQueues' = [lockQueues EXCEPT ![a] = Append(q, c)]
        /\ phase' = [phase EXCEPT ![c] = "queued"]
        /\ activeLocks' = activeLocks
    BY <1>3
  <2>2. /\ q \in Seq(Clients)
        /\ Len(Append(q, c)) = Len(q) + 1
        /\ Append(q, c)[Len(q) + 1] = c
        /\ \A k \in 1..Len(q) : Append(q, c)[k] = q[k]
    BY DEF LockTypeOK
  <2>3. RecordIsCurrent'
    BY <2>1 DEF LockTypeOK, RecordIsCurrent, Requests
  <2>4. WriterRecorded'
    BY <2>1 DEF LockTypeOK, WriterRecorded, Holds
  <2>5. NoLostWakeup'
    BY <1>3, <2>1 DEF LockTypeOK, NoLostWakeup, CanGrantLock
  <2>6. QueueMatchesWaiters'
    <3> HIDE DEF q
    <3>0. q = lockQueues[a] BY DEF q
    <3>1. \A k \in 1..Len(q) : q[k] # c
      BY <3>0 DEF LockTypeOK, QueueMatchesWaiters
    <3>2. ASSUME NEW d \in Clients, phase'[d] = "queued"
          PROVE  \E k \in 1..Len(lockQueues'[request'[d].artifact]) :
                   lockQueues'[request'[d].artifact][k] = d
      <4>1. CASE d = c
        <5>1. request'[c].artifact = a
          BY DEF LockTypeOK
        <5>2. lockQueues'[a] = Append(q, c)
          BY <2>1 DEF LockTypeOK
        <5>3. Len(q) + 1 \in 1..Len(Append(q, c))
          BY <2>2
        <5> QED BY <4>1, <5>1, <5>2, <5>3, <2>2
      <4>2. CASE d # c
        <5>1. request'[d] = request[d] /\ phase[d] = "queued"
          BY <4>2, <3>2, <2>1 DEF LockTypeOK
        <5>2. PICK k \in 1..Len(lockQueues[request[d].artifact]) :
                lockQueues[request[d].artifact][k] = d
          BY <5>1 DEF QueueMatchesWaiters
        <5>3. CASE request[d].artifact = a
          <6>1. lockQueues'[a] = Append(q, c)
            BY <2>1 DEF LockTypeOK
          <6>2. k \in 1..Len(Append(q, c)) /\ Append(q, c)[k] = d
            BY <5>2, <5>3, <3>0, <2>2
          <6> QED BY <5>1, <5>3, <6>1, <6>2
        <5>4. CASE request[d].artifact # a
          <6>1. request[d].artifact \in Artifacts
            BY DEF LockTypeOK, Requests
          <6>2. lockQueues'[request[d].artifact] = lockQueues[request[d].artifact]
            BY <5>4, <6>1, <2>1 DEF LockTypeOK
          <6> QED BY <5>1, <5>2, <6>2
        <5> QED BY <5>3, <5>4
      <4> QED BY <4>1, <4>2
    <3>3. ASSUME NEW b \in Artifacts, NEW k \in 1..Len(lockQueues'[b])
          PROVE  /\ phase'[lockQueues'[b][k]] = "queued"
                 /\ request'[lockQueues'[b][k]].artifact = b
                 /\ \A j \in 1..Len(lockQueues'[b]) :
                      lockQueues'[b][j] = lockQueues'[b][k] => j = k
      <4>1. CASE b = a
        <5>1. lockQueues'[b] = Append(q, c)
          BY <4>1, <2>1 DEF LockTypeOK
        <5>2. \A j \in 1..Len(q) : /\ q[j] \in Clients /\ phase[q[j]] = "queued"
                                   /\ request[q[j]].artifact = a
                                   /\ \A i \in 1..Len(q) : q[i] = q[j] => i = j
          BY <3>0, <2>2 DEF QueueMatchesWaiters
        <5>3. \A j \in 1..Len(q) : /\ phase'[q[j]] = "queued"
                                   /\ request'[q[j]].artifact = a
          BY <5>2, <3>1, <2>1 DEF LockTypeOK
        <5>4. phase'[c] = "queued" /\ request'[c].artifact = a
          BY <2>1 DEF LockTypeOK
        <5>5. \A j \in 1..Len(Append(q, c)) : j \in 1..Len(q) \/ j = Len(q) + 1
          BY <2>2
        <5> QED BY <4>1, <5>1, <5>2, <5>3, <5>4, <5>5, <2>2, <3>1
      <4>2. CASE b # a
        <5>1. lockQueues'[b] = lockQueues[b]
          BY <4>2, <2>1 DEF LockTypeOK
        <5>2. /\ lockQueues[b][k] \in Clients
              /\ phase[lockQueues[b][k]] = "queued"
              /\ request[lockQueues[b][k]].artifact = b
              /\ \A j \in 1..Len(lockQueues[b]) : lockQueues[b][j] = lockQueues[b][k] => j = k
          BY <5>1, <3>3 DEF QueueMatchesWaiters, LockTypeOK
        <5>3. phase'[lockQueues[b][k]] = "queued" /\ request'[lockQueues[b][k]].artifact = b
          BY <5>2, <2>1 DEF LockTypeOK
        <5> QED BY <5>1, <5>2, <5>3
      <4> QED BY <4>1, <4>2
    <3> QED BY <3>2, <3>3 DEF QueueMatchesWaiters
  <2> QED BY <1>1, <2>3, <2>4, <2>5, <2>6
<1> QED BY <1>2, <1>3


(***************************************************************************)
(* ReleaseLock and Cleanup both free a set S of artifacts whose recorded   *)
(* holders are gone: those in K give their lock up, the others' leases are *)
(* over.                                                                   *)
(***************************************************************************)
LEMMA FreeAllInv ==
  ASSUME LockInv, NEW S \in SUBSET Artifacts, NEW K \in SUBSET Clients,
         FreeAll(S), UNCHANGED <<request, leaseOver>>,
         \A d \in K : phase[d] = "granted",
         \A d \in K : activeLocks[request[d].artifact] = d => request[d].artifact \in S,
         \A a \in S : activeLocks[a] # NoLock /\ (activeLocks[a] \in K \/ leaseOver[activeLocks[a]]),
         phase' = [d \in Clients |-> IF d \in K THEN "idle"
                                     ELSE IF d \in Granted(S) THEN "granted"
                                     ELSE phase[d]]
  PROVE  LockInv'
<1> USE DEF LockInv
<1>1. \A a \in Artifacts :
        /\ a \notin S => activeLocks'[a] = activeLocks[a] /\ lockQueues'[a] = lockQueues[a]
        /\ a \in S /\ lockQueues[a] = <<>> =>
             activeLocks'[a] = NoLock /\ lockQueues'[a] = <<>>
        /\ a \in S /\ lockQueues[a] # <<>> =>
             activeLocks'[a] = Head(lockQueues[a]) /\ lockQueues'[a] = Tail(lockQueues[a])
  BY DEF FreeAll, NextHolder
<1>2. \A a \in Artifacts : lockQueues[a] # <<>> =>
        /\ Head(lockQueues[a]) \in Clients
        /\ phase[Head(lockQueues[a])] = "queued"
        /\ request[Head(lockQueues[a])].artifact = a
        /\ Tail(lockQueues[a]) \in Seq(Clients)
        /\ Len(Tail(lockQueues[a])) = Len(lockQueues[a]) - 1
        /\ \A k \in 1..(Len(lockQueues[a]) - 1) : Tail(lockQueues[a])[k] = lockQueues[a][k + 1]
        /\ Head(lockQueues[a]) = lockQueues[a][1]
        /\ 1 \in 1..Len(lockQueues[a])
  BY HeadWaits
<1>3. \A d \in Clients :
        /\ d \in Granted(S) <=> /\ phase[d] = "queued" /\ request[d].artifact \in S
                                /\ lockQueues[request[d].artifact] # <<>>
                                /\ d = Head(lockQueues[request[d].artifact])
        /\ d \in Granted(S) => d \notin K
  BY <1>2 DEF Granted, LockTypeOK, Requests
<1>4. \A d \in Clients :
        /\ d \in Granted(S) => phase'[d] = "granted"
        /\ d \in K => phase'[d] = "idle"
        /\ d \notin Granted(S) /\ d \notin K => phase'[d] = phase[d]
  BY <1>3
<1>5. LockTypeOK'
  <2>1. activeLocks' \in [Artifacts -> Clients \cup {NoLock}]
    <3>1. \A a \in Artifacts : activeLocks'[a] \in Clients \cup {NoLock}
      BY <1>1, <1>2 DEF LockTypeOK
    <3> QED BY <3>1 DEF FreeAll
  <2>2. lockQueues' \in [Artifacts -> Seq(Clients)]
    <3> SUFFICES ASSUME NEW a \in Artifacts PROVE lockQueues'[a] \in Seq(Clients)
      BY DEF FreeAll
    <3>1. lockQueues[a] \in Seq(Clients) /\ (lockQueues[a] # <<>> => Tail(lockQueues[a]) \in Seq(Clients))
      BY <1>2 DEF LockTypeOK
    <3>2. lockQueues'[a] \in {lockQueues[a], Tail(lockQueues[a])}
      BY <1>1
    <3> QED BY <3>1, <3>2, <1>1
  <2>3. phase' \in [Clients -> Phases]
    BY DEF LockTypeOK, Phases
  <2> QED BY <2>1, <2>2, <2>3 DEF LockTypeOK
<1>6. RecordIsCurrent'
  <2> SUFFICES ASSUME NEW a \in Artifacts, activeLocks'[a] # NoLock
               PROVE  phase'[activeLocks'[a]] = "granted" /\ request[activeLocks'[a]].artifact = a
    BY DEF RecordIsCurrent
  <2>1. CASE a \in S
    <3>1. lockQueues[a] # <<>> /\ activeLocks'[a] = Head(lockQueues[a])
      BY <2>1, <1>1
    <3>2. Head(lockQueues[a]) \in Granted(S)
      BY <2>1, <3>1, <1>2, <1>3
    <3> QED BY <3>1, <3>2, <1>2, <1>4
  <2>2. CASE a \notin S
    <3>1. /\ activeLocks'[a] = activeLocks[a] /\ activeLocks[a] \in Clients
          /\ phase[activeLocks[a]] = "granted" /\ request[activeLocks[a]].artifact = a
      BY <2>2, <1>1 DEF RecordIsCurrent, LockTypeOK
    <3>2. activeLocks[a] \notin Granted(S) /\ activeLocks[a] \notin K
      BY <2>2, <3>1, <1>3
    <3> QED BY <3>1, <3>2, <1>4
  <2> QED BY <2>1, <2>2
<1>7. WriterRecorded'
  <2> SUFFICES ASSUME NEW d \in Clients, phase'[d] = "granted", ~leaseOver[d],
                      request[d].lockType = "WRITE"
               PROVE  activeLocks'[request[d].artifact] = d
    BY DEF WriterRecorded, Holds
  <2>0. request[d].artifact \in Artifacts
    BY DEF LockTypeOK, Requests
  <2>1. CASE d \in Granted(S)
    BY <2>0, <2>1, <1>1, <1>3
  <2>2. CASE d \notin Granted(S)
    <3>1. phase[d] = "granted" /\ d \notin K
      BY <2>2, <1>4
    <3>2. activeLocks[request[d].artifact] = d
      BY <3>1 DEF WriterRecorded, Holds
    <3>3. request[d].artifact \notin S
      BY <3>1, <3>2
    <3> QED BY <2>0, <3>2, <3>3, <1>1
  <2> QED BY <2>1, <2>2
<1>8. NoLostWakeup'
  <2> SUFFICES ASSUME NEW a \in Artifacts, activeLocks'[a] = NoLock
               PROVE  lockQueues'[a] = <<>>
    BY DEF NoLostWakeup
  <2> QED BY <1>1, <1>2 DEF NoLostWakeup
<1>9. QueueMatchesWaiters'
  <2>1. ASSUME NEW d \in Clients, phase'[d] = "queued"
        PROVE  \E k \in 1..Len(lockQueues'[request[d].artifact]) :
                 lockQueues'[request[d].artifact][k] = d
    <3>1. phase[d] = "queued" /\ d \notin Granted(S) /\ request[d].artifact \in Artifacts
      BY <2>1, <1>4 DEF LockTypeOK, Requests
    <3>2. PICK k \in 1..Len(lockQueues[request[d].artifact]) :
            lockQueues[request[d].artifact][k] = d
      BY <3>1 DEF QueueMatchesWaiters
    <3>3. CASE request[d].artifact \in S
      <4>1. lockQueues[request[d].artifact] # <<>>
        BY <3>2
      <4>2. k # 1
        BY <3>1, <3>2, <3>3, <4>1, <1>2, <1>3
      <4>3. k - 1 \in 1..(Len(lockQueues[request[d].artifact]) - 1) /\ (k - 1) + 1 = k
        BY <4>2, <3>1 DEF LockTypeOK
      <4>a. /\ lockQueues'[request[d].artifact] = Tail(lockQueues[request[d].artifact])
            /\ Tail(lockQueues[request[d].artifact])[k - 1] = lockQueues[request[d].artifact][k]
        BY <3>1, <3>3, <4>1, <4>3, <1>1, <1>2
      <4>4. lockQueues'[request[d].artifact][k - 1] = d
        BY <3>2, <4>a
      <4>5. k - 1 \in 1..Len(lockQueues'[request[d].artifact])
        <5>1. Len(Tail(lockQueues[request[d].artifact])) = Len(lockQueues[request[d].artifact]) - 1
          BY <3>1, <4>1, <1>2
        <5> QED BY <4>a, <4>3, <5>1
      <4> QED BY <4>4, <4>5
    <3>4. CASE request[d].artifact \notin S
      BY <3>1, <3>2, <3>4, <1>1
    <3> QED BY <3>3, <3>4
  <2>2. ASSUME NEW a \in Artifacts, NEW k \in 1..Len(lockQueues'[a])
        PROVE  /\ phase'[lockQueues'[a][k]] = "queued"
               /\ request[lockQueues'[a][k]].artifact = a
               /\ \A j \in 1..Len(lockQueues'[a]) :
                    lockQueues'[a][j] = lockQueues'[a][k] => j = k
    <3>1. CASE a \in S /\ lockQueues[a] # <<>>
      <4>1. \A i \in 1..Len(lockQueues'[a]) :
              /\ i + 1 \in 1..Len(lockQueues[a])
              /\ i + 1 # 1
              /\ lockQueues'[a][i] = lockQueues[a][i + 1]
        <5>1. /\ lockQueues'[a] = Tail(lockQueues[a]) /\ Len(lockQueues[a]) \in Nat
              /\ Len(Tail(lockQueues[a])) = Len(lockQueues[a]) - 1
              /\ \A j \in 1..(Len(lockQueues[a]) - 1) : Tail(lockQueues[a])[j] = lockQueues[a][j + 1]
          BY <3>1, <1>1, <1>2 DEF LockTypeOK
        <5> QED BY <5>1
      <4>2. \A i \in 1..Len(lockQueues[a]) :
              /\ lockQueues[a][i] \in Clients
              /\ phase[lockQueues[a][i]] = "queued" /\ request[lockQueues[a][i]].artifact = a
              /\ \A j \in 1..Len(lockQueues[a]) : lockQueues[a][j] = lockQueues[a][i] => j = i
        <5>1. \A i \in 1..Len(lockQueues[a]) : lockQueues[a][i] \in Clients
          <6>1. lockQueues[a] \in Seq(Clients)
            BY DEF LockTypeOK
          <6> QED BY <6>1, ElementOfSeq
        <5> QED BY <5>1 DEF QueueMatchesWaiters
      <4>3. lockQueues[a][k + 1] \notin Granted(S)
        BY <4>1, <4>2, <3>1, <1>2, <1>3
      <4>4. lockQueues[a][k + 1] \notin K
        BY <4>1, <4>2
      <4>5. phase'[lockQueues[a][k + 1]] = "queued"
        BY <4>1, <4>2, <4>3, <4>4, <1>4
      <4>6. \A j \in 1..Len(lockQueues'[a]) : lockQueues'[a][j] = lockQueues'[a][k] => j + 1 = k + 1
        BY <4>1, <4>2
      <4>7. \A j \in 1..Len(lockQueues'[a]) : j + 1 = k + 1 => j = k
        OBVIOUS
      <4> QED BY <4>1, <4>2, <4>5, <4>6, <4>7
    <3>2. CASE a \in S /\ lockQueues[a] = <<>>
      BY <3>2, <1>1
    <3>3. CASE a \notin S
      <4>1. lockQueues'[a] = lockQueues[a]
        BY <3>3, <1>1
      <4>2. /\ lockQueues[a][k] \in Clients
            /\ phase[lockQueues[a][k]] = "queued" /\ request[lockQueues[a][k]].artifact = a
            /\ \A j \in 1..Len(lockQueues[a]) : lockQueues[a][j] = lockQueues[a][k] => j = k
        BY <4>1 DEF QueueMatchesWaiters, LockTypeOK
      <4>3. lockQueues[a][k] \notin Granted(S) /\ lockQueues[a][k] \notin K
        BY <3>3, <4>2, <1>3
      <4> QED BY <4>1, <4>2, <4>3, <1>4
    <3> QED BY <3>1, <3>2, <3>3
  <2>3. (\A d \in Clients :
           phase[d] = "queued" =>
             \E k \in 1..Len(lockQueues[request[d].artifact]) :
               lockQueues[request[d].artifact][k] = d)'
    BY <2>1
  <2>4. (\A a \in Artifacts : \A k \in 1..Len(lockQueues[a]) :
           /\ phase[lockQueues[a][k]] = "queued" /\ request[lockQueues[a][k]].artifact = a
           /\ \A j \in 1..Len(lockQueues[a]) :
                lockQueues[a][j] = lockQueues[a][k] => j = k)'
    BY <2>2
  <2> QED BY ONLY <2>3, <2>4, Zenon DEF QueueMatchesWaiters
<1> QED BY <1>5, <1>6, <1>7, <1>8, <1>9

LEMMA ReleaseInv ==
  ASSUME LockInv, NEW c \in Clients, ReleaseLock(c)
  PROVE  LockInv'
<1> DEFINE a == request[c].artifact
           S == IF activeLocks[a] = c THEN {a} ELSE {}
<1>1. a \in Artifacts /\ S \in SUBSET Artifacts /\ {c} \in SUBSET Clients
  BY DEF LockInv, LockTypeOK, Requests
<1>2. FreeAll(S) /\ UNCHANGED <<request, leaseOver>> /\ phase[c] = "granted"
  BY DEF ReleaseLock
<1>3. phase' = [d \in Clients |-> IF d \in {c} THEN "idle"
                                  ELSE IF d \in Granted(S) THEN "granted"
                                  ELSE phase[d]]
  BY DEF ReleaseLock
<1>4. \A b \in S : activeLocks[b] # NoLock /\ activeLocks[b] \in {c}
  OBVIOUS
<1>5. \A d \in {c} : activeLocks[request[d].artifact] = d => request[d].artifact \in S
  OBVIOUS
<1> HIDE DEF a, S
<1> QED BY <1>1, <1>2, <1>3, <1>4, <1>5, FreeAllInv

LEMMA CleanupInv ==
  ASSUME LockInv, Cleanup
  PROVE  LockInv'
<1> DEFINE S == {a \in Artifacts : Expired(a)}
<1>1. /\ S \in SUBSET Artifacts /\ {} \in SUBSET Clients
      /\ \A b \in S : activeLocks[b] # NoLock /\ leaseOver[activeLocks[b]]
  BY DEF Expired
<1>2. FreeAll(S) /\ UNCHANGED <<request, leaseOver>>
  BY DEF Cleanup
<1>3. phase' = [d \in Clients |-> IF d \in {} THEN "idle"
                                  ELSE IF d \in Granted(S) THEN "granted"
                                  ELSE phase[d]]
  BY DEF Cleanup
<1> HIDE DEF S
<1> QED BY <1>1, <1>2, <1>3, FreeAllInv

LEMMA TimeoutInv ==
  ASSUME LockInv, NEW c \in Clients, QueueTimeout(c)
  PROVE  LockInv'
<1> DEFINE a == request[c].artifact
           q == lockQueues[a]
<1> USE DEF LockInv
<1>1. a \in Artifacts /\ q \in Seq(Clients) /\ Len(q) \in Nat
  BY DEF LockTypeOK, Requests
<1>2. PICK k \in 1..Len(q) :
        q[k] = c /\ lockQueues' = [lockQueues EXCEPT ![a] = RemoveAt(q, k)]
  BY DEF QueueTimeout
<1>3. /\ phase[c] = "queued" /\ phase' = [phase EXCEPT ![c] = "idle"]
      /\ UNCHANGED <<activeLocks, request, leaseOver>>
  BY DEF QueueTimeout
<1>4. /\ RemoveAt(q, k) \in Seq(Clients)
      /\ Len(RemoveAt(q, k)) = Len(q) - 1
      /\ \A i \in 1..(Len(q) - 1) :
           RemoveAt(q, k)[i] = IF i < k THEN q[i] ELSE q[i + 1]
  BY <1>1, RemoveAtProperties
<1> DEFINE r == RemoveAt(q, k)
<1>5. /\ lockQueues'[a] = r
      /\ \A b \in Artifacts \ {a} : lockQueues'[b] = lockQueues[b]
      /\ phase'[c] = "idle"
      /\ \A d \in Clients \ {c} : phase'[d] = phase[d]
  BY <1>1, <1>2, <1>3 DEF LockTypeOK
<1> HIDE DEF r
<1>6. r \in Seq(Clients) /\ Len(r) = Len(q) - 1
  BY <1>4 DEF r
\* Where the entries of the shortened queue were, and where they went.
<1>7. \A i \in 1..Len(r) : \E j \in 1..Len(q) :
        r[i] = q[j] /\ j # k /\ j = (IF i < k THEN i ELSE i + 1)
  <2> TAKE i \in 1..Len(r)
  <2>1. i \in 1..(Len(q) - 1) /\ r[i] = IF i < k THEN q[i] ELSE q[i + 1]
    BY <1>4, <1>6 DEF r
  <2> HIDE DEF q
  <2>2. CASE i < k
    BY <1>1, <2>1, <2>2
  <2>3. CASE ~(i < k)
    <3>1. i + 1 \in 1..Len(q)
      BY <1>1, <2>1
    <3> WITNESS i + 1 \in 1..Len(q)
    <3> QED BY <1>1, <2>1, <2>3
  <2> QED BY <2>2, <2>3
<1>8. \A j \in 1..Len(q) : j # k => \E i \in 1..Len(r) : r[i] = q[j]
  <2> TAKE j \in 1..Len(q)
  <2> HAVE j # k
  <2> HIDE DEF q
  <2>1. CASE j < k
    <3>1. j \in 1..Len(r)
      BY <1>1, <1>6, <2>1 DEF q
    <3> WITNESS j \in 1..Len(r)
    <3> QED BY <1>1, <1>4, <2>1 DEF r, q
  <2>2. CASE j > k
    <3>1. j - 1 \in 1..(Len(q) - 1) /\ ~(j - 1 < k) /\ (j - 1) + 1 = j
      BY <1>1, <2>2
    <3>2. r[j - 1] = q[j]
      BY <3>1, <1>4 DEF r, q
    <3> QED BY <3>1, <3>2, <1>6 DEF q
  <2> QED BY <2>1, <2>2
<1>9. LockTypeOK'
  <2>1. lockQueues' \in [Artifacts -> Seq(Clients)]
    BY <1>1, <1>2, <1>4 DEF LockTypeOK
  <2> QED BY <1>3, <2>1 DEF LockTypeOK, Phases
<1>10. RecordIsCurrent'
  BY <1>3 DEF LockTypeOK, RecordIsCurrent
<1>11. WriterRecorded'
  BY <1>3 DEF LockTypeOK, WriterRecorded, Holds
<1>12. NoLostWakeup'
  <2> SUFFICES ASSUME NEW b \in Artifacts, activeLocks[b] = NoLock
               PROVE  lockQueues'[b] = <<>>
    BY <1>3 DEF NoLostWakeup
  <2>1. b # a
    BY DEF NoLostWakeup
  <2> QED BY <2>1, <1>5 DEF NoLostWakeup
<1>13. QueueMatchesWaiters'
  <2>1. ASSUME NEW d \in Clients, phase'[d] = "queued"
        PROVE  \E i \in 1..Len(lockQueues'[request[d].artifact]) :
                 lockQueues'[request[d].artifact][i] = d
    <3>1. d # c /\ phase[d] = "queued" /\ request[d].artifact \in Artifacts
      BY <2>1, <1>5 DEF LockTypeOK, Requests
    <3>2. PICK j \in 1..Len(lockQueues[request[d].artifact]) :
            lockQueues[request[d].artifact][j] = d
      BY <3>1 DEF QueueMatchesWaiters
    <3>3. CASE request[d].artifact = a
      <4>1. j \in 1..Len(q) /\ j # k /\ q[j] = d
        BY <3>1, <3>2, <3>3, <1>2
      <4> QED BY <3>3, <4>1, <1>5, <1>8, SMTT(30)
    <3>4. CASE request[d].artifact # a
      BY <3>1, <3>2, <3>4, <1>5
    <3> QED BY <3>3, <3>4
  <2>2. ASSUME NEW b \in Artifacts, NEW i \in 1..Len(lockQueues'[b])
        PROVE  /\ phase'[lockQueues'[b][i]] = "queued"
               /\ request[lockQueues'[b][i]].artifact = b
               /\ \A m \in 1..Len(lockQueues'[b]) :
                    lockQueues'[b][m] = lockQueues'[b][i] => m = i
    <3>0. \A j \in 1..Len(lockQueues[b]) :
            /\ lockQueues[b][j] \in Clients
            /\ phase[lockQueues[b][j]] = "queued" /\ request[lockQueues[b][j]].artifact = b
            /\ \A m \in 1..Len(lockQueues[b]) : lockQueues[b][m] = lockQueues[b][j] => m = j
      BY DEF QueueMatchesWaiters, LockTypeOK
    <3>1. CASE b = a
      <4>1. lockQueues'[b] = r
        BY <3>1, <1>5
      <4>2. PICK j \in 1..Len(q) : r[i] = q[j] /\ j # k /\ j = (IF i < k THEN i ELSE i + 1)
        BY <4>1, <1>7
      <4>3. q[j] # c
        BY <4>2, <3>0, <3>1, <1>2
      <4>4. ASSUME NEW m \in 1..Len(r), r[m] = r[i]
            PROVE  m = i
        <5>1. PICK n \in 1..Len(q) : r[m] = q[n] /\ n # k /\ n = (IF m < k THEN m ELSE m + 1)
          BY <1>7
        <5>2. n = j
          BY <4>2, <4>4, <5>1, <3>0, <3>1
        <5> QED BY <4>1, <4>2, <5>1, <5>2, <1>6
      <4> QED BY <3>0, <3>1, <4>1, <4>2, <4>3, <4>4, <1>5
    <3>2. CASE b # a
      <4>1. lockQueues'[b] = lockQueues[b]
        BY <3>2, <1>5
      <4>2. lockQueues[b][i] # c
        BY <4>1, <3>0, <3>2
      <4> QED BY <3>0, <4>1, <4>2, <1>5
    <3> QED BY <3>1, <3>2
  <2> QED BY <2>1, <2>2, <1>3 DEF QueueMatchesWaiters
<1> QED BY <1>9, <1>10, <1>11, <1>12, <1>13

LEMMA NextInv == LockInv /\ [LockNext]_lockVars => LockInv'
<1> SUFFICES ASSUME LockInv, [LockNext]_lockVars PROVE LockInv'
  OBVIOUS
<1>1. ASSUME NEW c \in Clients, LeaseExpires(c) PROVE LockInv'
  BY <1>1 DEF LockInv, LeaseExpires, LockTypeOK, RecordIsCurrent, WriterRecorded, Holds,
              NoLostWakeup, QueueMatchesWaiters
<1>2. CASE UNCHANGED lockVars
  BY <1>2 DEF LockInv, lockVars, LockTypeOK, RecordIsCurrent, WriterRecorded, Holds,
              NoLostWakeup, QueueMatchesWaiters
<1> QED BY <1>1, <1>2, AcquireInv, ReleaseInv, TimeoutInv, CleanupInv DEF LockNext

(***************************************************************************)
(* The theorems.                                                           *)
(***************************************************************************)

\* The inductive invariant holds: the lock table, the queues and the promises
\* of artifact-locking.service.ts stay consistent with each other.
THEOREM LockInvariant == LockSpec => []LockInv
BY InitInv, NextInv, PTL DEF LockSpec

\* The maps hold what the service puts into them: queues of waiting calls,
\* one lock record or none per artifact.
THEOREM LockFieldsTyped == LockSpec => []LockTypeOK
<1>1. LockInv => LockTypeOK
  BY DEF LockInv
<1> QED BY <1>1, LockInvariant, PTL

\* Two running WRITE leases on one artifact belong to one caller.
THEOREM WritersAreExclusive == LockSpec => []WritersExclusive
<1>1. LockInv => WritersExclusive
  BY DEF LockInv, WriterRecorded, WritersExclusive
<1> QED BY <1>1, LockInvariant, PTL

\* An artifact without a lock record has nobody waiting for it.
THEOREM NoWakeupIsLost == LockSpec => []NoLostWakeup
<1>1. LockInv => NoLostWakeup
  BY DEF LockInv
<1> QED BY <1>1, LockInvariant, PTL

\* Waiting promises and queue entries correspond one to one.
THEOREM QueuesMatchWaiters == LockSpec => []QueueMatchesWaiters
<1>1. LockInv => QueueMatchesWaiters
  BY DEF LockInv
<1> QED BY <1>1, LockInvariant, PTL

\* Locks, queues and promises fit each other: what the service takes on trust
\* whenever it hands an artifact to the head of a queue.
THEOREM LocksAreAlwaysSound == LockSpec => []LocksAreSound
<1>1. LockInv => LocksAreSound
  BY DEF LockInv, LocksAreSound
<1> QED BY <1>1, LockInvariant, PTL

\* A call is granted by being recorded: the record is how a second grant of the
\* same step, or a running WRITE lease, would be noticed.
LEMMA GrantIsRecorded ==
  ASSUME LockInv, LockNext, NEW d \in Clients, phase[d] # "granted", phase'[d] = "granted"
  PROVE  activeLocks'[request'[d].artifact] = d
<1>1. ASSUME NEW e \in Clients, NEW a \in Artifacts, NEW t \in LockTypes,
             AcquireLock(e, a, t)
      PROVE  activeLocks'[request'[d].artifact] = d
  BY <1>1 DEF AcquireLock, LockInv, LockTypeOK
<1>2. ASSUME NEW S \in SUBSET Artifacts, FreeAll(S), request' = request, d \in Granted(S)
      PROVE  activeLocks'[request'[d].artifact] = d
  <2>1. PICK a \in S : lockQueues[a] # <<>> /\ d = Head(lockQueues[a])
    BY <1>2 DEF Granted
  <2>2. request[d].artifact = a
    BY <2>1, HeadWaits DEF LockInv
  <2> QED BY <1>2, <2>1, <2>2 DEF FreeAll, NextHolder
<1>3. ASSUME NEW e \in Clients, ReleaseLock(e)
      PROVE  activeLocks'[request'[d].artifact] = d
  <2> DEFINE a == request[e].artifact
             S == IF activeLocks[a] = e THEN {a} ELSE {}
  <2>1. S \in SUBSET Artifacts
    BY DEF LockInv, LockTypeOK, Requests
  <2>2. FreeAll(S) /\ request' = request /\ d \in Granted(S)
    BY <1>3 DEF ReleaseLock
  <2> QED BY <2>1, <2>2, <1>2
<1>4. ASSUME Cleanup
      PROVE  activeLocks'[request'[d].artifact] = d
  <2> DEFINE S == {a \in Artifacts : Expired(a)}
  <2>1. S \in SUBSET Artifacts
    OBVIOUS
  <2>2. FreeAll(S) /\ request' = request /\ d \in Granted(S)
    BY <1>4 DEF Cleanup
  <2> QED BY <2>1, <2>2, <1>2
<1>5. ASSUME NEW e \in Clients, QueueTimeout(e) \/ LeaseExpires(e)
      PROVE  FALSE
  BY <1>5 DEF QueueTimeout, LeaseExpires, LockInv, LockTypeOK
<1> QED BY <1>1, <1>3, <1>4, <1>5 DEF LockNext

\* The request of a client that holds a lease stays what it was, and a lease
\* that is over does not begin to run again.
LEMMA LeaseIsKept ==
  ASSUME LockInv, LockNext, NEW c \in Clients, phase[c] = "granted"
  PROVE  /\ request'[c] = request[c]
         /\ leaseOver[c] /\ phase'[c] = "granted" => leaseOver'[c]
<1>1. ASSUME NEW e \in Clients, NEW a \in Artifacts, NEW t \in LockTypes,
             AcquireLock(e, a, t)
      PROVE  request'[c] = request[c] /\ leaseOver'[c] = leaseOver[c]
  BY <1>1 DEF AcquireLock, LockInv, LockTypeOK
<1>2. ASSUME NEW e \in Clients, LeaseExpires(e)
      PROVE  request'[c] = request[c] /\ (leaseOver[c] => leaseOver'[c])
  BY <1>2 DEF LeaseExpires, LockInv, LockTypeOK
<1> QED BY <1>1, <1>2 DEF LockNext, ReleaseLock, QueueTimeout, Cleanup

\* While a WRITE lease runs no step grants the artifact to anybody.
THEOREM NothingGrantedWhileWriting == LockSpec => NoGrantWhileWriting
<1> DEFINE A == \A c, d \in Clients :
                  /\ Holds(c) /\ request[c].lockType = "WRITE"
                  /\ phase[d] # "granted" /\ phase'[d] = "granted"
                  /\ request'[d].artifact = request[c].artifact
                  => phase'[c] # "granted"
<1>1. LockInv /\ LockInv' /\ [LockNext]_lockVars => [A]_lockVars
  <2> SUFFICES ASSUME LockInv, LockInv', LockNext,
                      NEW c \in Clients, NEW d \in Clients,
                      Holds(c), request[c].lockType = "WRITE",
                      phase[d] # "granted", phase'[d] = "granted",
                      request'[d].artifact = request[c].artifact,
                      phase'[c] = "granted"
               PROVE  FALSE
    OBVIOUS
  \* The grant is recorded, and the WRITE lease, or the next one of its caller, is too.
  <2>1. request'[c] = request[c] /\ c # d
    BY LeaseIsKept DEF Holds
  <2>2. activeLocks'[request'[d].artifact] = d
    BY GrantIsRecorded
  <2>3. leaseOver'[c] = leaseOver[c]
    <3>1. ASSUME NEW e \in Clients, LeaseExpires(e) PROVE FALSE
      BY <3>1 DEF LeaseExpires
    <3>2. ASSUME NEW e \in Clients, NEW a \in Artifacts, NEW t \in LockTypes,
                 AcquireLock(e, a, t)
          PROVE  leaseOver'[c] = leaseOver[c]
      BY <3>2 DEF AcquireLock, Holds, LockInv, LockTypeOK
    <3> QED BY <3>1, <3>2 DEF LockNext, ReleaseLock, QueueTimeout, Cleanup
  <2>4. activeLocks'[request[c].artifact] = c
    BY <2>1, <2>3 DEF LockInv, WriterRecorded, Holds
  <2> QED BY <2>1, <2>2, <2>4
<1> QED BY <1>1, LockInvariant, PTL DEF LockSpec, NoGrantWhileWriting

\* The leases of an artifact, and what a new one of them is: a grant of this step.
LEMMA NewLeaseIsGrant ==
  ASSUME LockInv, LockNext, NEW a \in Artifacts,
         NEW l \in RunningLeases'[a], l \notin RunningLeases[a]
  PROVE  /\ l \in [user : Clients, type : LockTypes]
         /\ phase[l.user] # "granted" /\ phase'[l.user] = "granted"
         /\ request'[l.user] = [artifact |-> a, lockType |-> l.type]
         /\ activeLocks'[a] = l.user
<1>1. PICK c \in Clients : /\ l = [user |-> c, type |-> request'[c].lockType]
                           /\ phase'[c] = "granted" /\ ~leaseOver'[c]
                           /\ request'[c].artifact = a
  BY DEF RunningLeases, Holds
<1>2. request' \in [Clients -> Requests]
  BY NextInv DEF LockInv, LockTypeOK
<1>3. phase[c] # "granted"
  <2> SUFFICES ASSUME phase[c] = "granted" PROVE FALSE
    OBVIOUS
  <2>1. request'[c] = request[c] /\ ~leaseOver[c]
    BY <1>1, LeaseIsKept
  <2>2. l \in RunningLeases[a]
    BY <1>1, <2>1 DEF RunningLeases, Holds
  <2> QED BY <2>2
<1>4. activeLocks'[a] = c
  BY <1>1, <1>3, GrantIsRecorded
<1> QED BY <1>1, <1>2, <1>3, <1>4 DEF Requests, LockTypes

LEMMA InitIsAbstract == LockInit => Access!AccessInit
BY DEF LockInit, Access!AccessInit, RunningLeases, Holds

\* Every step of the service ends some of the leases that run and begins at most
\* one on each artifact, and none beside a writer.
LEMMA StepIsAbstract ==
  LockInv /\ LockInv' /\ [LockNext]_lockVars => [Access!AccessNext]_RunningLeases
<1>1. CASE UNCHANGED lockVars
  BY <1>1 DEF lockVars, RunningLeases, Holds
<1>2. CASE LockNext
  <2> SUFFICES ASSUME LockInv, LockInv', LockNext PROVE Access!AccessNext
    BY <1>2
  <2>1. RunningLeases' \in [Artifacts -> SUBSET Access!Leases]
    BY DEF RunningLeases, Access!Leases, LockInv, LockTypeOK, Requests, LockTypes
  <2>2. ASSUME NEW a \in Artifacts PROVE Access!Change(a)
    <3> DEFINE kept == RunningLeases[a] \cap RunningLeases'[a]
               begun == RunningLeases'[a] \ RunningLeases[a]
    <3>1. CASE begun = {}
      BY <3>1 DEF Access!Change
    <3>2. CASE begun # {}
      <4>1. PICK l \in begun : TRUE
        BY <3>2
      \* Two grants of one step would both be in the one record.
      <4>2. begun = {l}
        <5>1. ASSUME NEW k \in begun PROVE k = l
          <6>1. /\ k \in [user : Clients, type : LockTypes]
                /\ activeLocks'[a] = k.user
                /\ request'[k.user] = [artifact |-> a, lockType |-> k.type]
            BY NewLeaseIsGrant
          <6>2. /\ l \in [user : Clients, type : LockTypes]
                /\ activeLocks'[a] = l.user
                /\ request'[l.user] = [artifact |-> a, lockType |-> l.type]
            BY <4>1, NewLeaseIsGrant
          <6>3. k.user = l.user
            BY <6>1, <6>2
          <6>4. request'[k.user].lockType = k.type /\ request'[l.user].lockType = l.type
            BY <6>1, <6>2
          <6>5. k.type = l.type
            BY <6>3, <6>4
          <6> QED BY <6>1, <6>2, <6>3, <6>5
        <5> QED BY <4>1, <5>1
      \* A writer that is left is recorded too, before the step and after it.
      <4>3. ASSUME NEW k \in kept PROVE k.type = "READ"
        <5> SUFFICES ASSUME k.type # "READ" PROVE FALSE
          OBVIOUS
        <5>1. PICK c \in Clients : /\ k = [user |-> c, type |-> request'[c].lockType]
                                   /\ Holds(c)' /\ request'[c].artifact = a
          BY DEF RunningLeases, Holds
        <5>2. request'[c].lockType = "WRITE"
          BY <5>1 DEF LockInv, LockTypeOK, Requests, LockTypes
        <5>3. activeLocks'[a] = c
          BY <5>1, <5>2 DEF LockInv, WriterRecorded
        <5>4. activeLocks'[a] = l.user /\ phase[l.user] # "granted"
          BY <4>1, NewLeaseIsGrant
        <5>5. PICK d \in Clients : /\ k = [user |-> d, type |-> request[d].lockType]
                                   /\ phase[d] = "granted"
          BY DEF RunningLeases, Holds
        <5>6. c = d
          BY <5>1, <5>5
        <5> QED BY <5>3, <5>4, <5>5, <5>6
      <4>4. l \in Access!Leases
        BY <4>1, NewLeaseIsGrant DEF Access!Leases, LockTypes
      <4> QED BY <4>2, <4>3, <4>4 DEF Access!Change
    <3> QED BY <3>1, <3>2
  <2> QED BY <2>1, <2>2 DEF Access!AccessNext
<1> QED BY <1>1, <1>2

\* The lock service, with its records, queues and timers, implements the abstract
\* service of leases on things.
THEOREM ImplementsExclusiveAccess == LockSpec => GivesExclusiveAccess
BY InitIsAbstract, StepIsAbstract, LockInvariant, PTL
   DEF LockSpec, GivesExclusiveAccess, Access!AccessSpec

-----------------------------------------------------------------------------
(***************************************************************************)
(* The shared memory.                                                      *)
(***************************************************************************)
USE WritesAssumption

\* A call is in progress as long as its lock is asked for or held.
CallHasLock ==
  \A c \in Clients : call[c].op = "none" <=> phase[c] = "idle"

\* An operation works under a WRITE lock whose lease runs: no lease ends before
\* the operation that has its lock goes on.
WriteOpsWrite ==
  \A c \in Clients :
    call[c].op \in WriteOps => request[c].lockType = "WRITE" /\ ~leaseOver[c]

\* The version numbers stay behind the number of writes, those a call has read
\* behind its own.
VersionsBounded ==
  /\ \A a \in Artifacts : artifacts[a] # NoArtifact =>
       artifacts[a] \in ArtifactRecords /\ artifacts[a].version <= writes
  /\ \A c \in Clients :
       /\ call[c].content <= writes
       /\ call[c].op = "update" =>
            call[c].read \in ArtifactRecords /\ call[c].read.version < call[c].content
       /\ call[c].op = "create" => call[c].content > 0

MemInv ==
  /\ LockInv
  /\ MemTypeOK
  /\ CallHasLock
  /\ WriteOpsWrite
  /\ VersionsBounded

\* Every step is a step of the lock service or leaves the locks alone.
LEMMA StepIsLockStep == [MemNext]_allVars => [LockNext]_lockVars
<1> SUFFICES ASSUME [MemNext]_allVars PROVE [LockNext]_lockVars
  OBVIOUS
<1>1. ASSUME NEW c \in Clients, NEW a \in Artifacts,
             \/ CreateArtifact(c, a) \/ UpdateArtifact(c, a) \/ DeleteArtifact(c, a)
             \/ \E t \in LockTypes : LockArtifact(c, a, t)
      PROVE  LockNext
  BY <1>1 DEF CreateArtifact, UpdateArtifact, DeleteArtifact, LockArtifact, LockNext, LockTypes
<1>2. ASSUME NEW c \in Clients, Finish(c) \/ UnlockArtifact(c) \/ GiveUp(c)
      PROVE  LockNext
  BY <1>2 DEF Finish, UnlockArtifact, GiveUp, LockNext
<1>3. ASSUME LockTimePasses PROVE LockNext
  BY <1>3 DEF LockTimePasses, LockNext
<1>4. CASE UNCHANGED allVars
  BY <1>4 DEF allVars
<1> QED BY <1>1, <1>2, <1>3, <1>4 DEF MemNext

\* What a step of the lock service does to the promises and requests.
LEMMA AcquireEffect ==
  ASSUME MemInv, NEW c \in Clients, NEW a \in Artifacts, NEW t \in LockTypes, AcquireLock(c, a, t)
  PROVE  /\ phase[c] = "idle" /\ phase'[c] # "idle"
         /\ request'[c].lockType = t /\ ~leaseOver'[c]
         /\ \A d \in Clients \ {c} :
              phase'[d] = phase[d] /\ request'[d] = request[d] /\ leaseOver'[d] = leaseOver[d]
BY DEF AcquireLock, MemInv, LockInv, LockTypeOK, Phases

LEMMA ReleaseEffect ==
  ASSUME MemInv, NEW c \in Clients, ReleaseLock(c)
  PROVE  /\ phase'[c] = "idle"
         /\ \A d \in Clients \ {c} : phase'[d] = "idle" <=> phase[d] = "idle"
         /\ request' = request /\ leaseOver' = leaseOver
<1> DEFINE a == request[c].artifact
           S == IF activeLocks[a] = c THEN {a} ELSE {}
<1>1. S \in SUBSET Artifacts
  BY DEF MemInv, LockInv, LockTypeOK, Requests
<1>2. \A d \in Granted(S) : phase[d] = "queued"
  BY <1>1, HeadWaits DEF Granted, MemInv, LockInv
<1>3. phase' = [d \in Clients |-> IF d = c THEN "idle"
                                  ELSE IF d \in Granted(S) THEN "granted" ELSE phase[d]]
  BY DEF ReleaseLock
<1> QED BY <1>2, <1>3 DEF ReleaseLock

LEMMA CleanupEffect ==
  ASSUME MemInv, Cleanup
  PROVE  /\ \A d \in Clients : phase'[d] = "idle" <=> phase[d] = "idle"
         /\ request' = request /\ leaseOver' = leaseOver
<1> DEFINE S == {a \in Artifacts : Expired(a)}
<1>1. \A d \in Granted(S) : phase[d] = "queued"
  BY HeadWaits DEF Granted, MemInv, LockInv
<1>2. phase' = [d \in Clients |-> IF d \in Granted(S) THEN "granted" ELSE phase[d]]
  BY DEF Cleanup
<1> QED BY <1>1, <1>2 DEF Cleanup

LEMMA MemInitInv == MemInit => MemInv
<1> SUFFICES ASSUME MemInit PROVE MemInv
  OBVIOUS
<1>1. LockInv
  BY InitInv DEF MemInit
<1>2. MemTypeOK
  BY <1>1 DEF MemInit, MemTypeOK, LockInv, Contents, Calls, NoCall
<1>3. CallHasLock /\ WriteOpsWrite
  BY DEF MemInit, LockInit, CallHasLock, WriteOpsWrite, NoCall, WriteOps
<1>4. VersionsBounded
  BY DEF MemInit, VersionsBounded, NoCall
<1> QED BY <1>1, <1>2, <1>3, <1>4 DEF MemInv

\* A call up to its await: with what it read and the content it brings.
CallBegins(c, a, t, begun) ==
  /\ AcquireLock(c, a, t)
  /\ call' = [call EXCEPT ![c] = begun]
  /\ begun \in Calls /\ begun.op # "none"
  /\ begun.op \in WriteOps => t = "WRITE"
  /\ UNCHANGED <<artifacts, versions>>
  /\ named' \in SUBSET Artifacts
  /\ writes' \in Contents /\ writes' >= writes
  /\ begun.content <= writes'
  /\ begun.op = "update" => begun.read \in ArtifactRecords /\ begun.read.version < begun.content
  /\ begun.op = "create" => begun.content > 0

LEMMA CallInv ==
  ASSUME MemInv, LockInv', NEW c \in Clients, NEW a \in Artifacts,
         \/ CreateArtifact(c, a) \/ UpdateArtifact(c, a) \/ DeleteArtifact(c, a)
         \/ \E t \in LockTypes : LockArtifact(c, a, t)
  PROVE  MemInv'
<1>1. PICK t \in LockTypes, begun \in Calls : CallBegins(c, a, t, begun)
  <2> USE DEF WriteOps, LockTypes, Contents, Calls, MemInv, MemTypeOK
  <2>1. CASE CreateArtifact(c, a)
    <3>1. CallBegins(c, a, "WRITE", [op |-> "create", read |-> NoArtifact, content |-> writes + 1])
      BY <2>1 DEF CallBegins, CreateArtifact
    <3> QED BY <3>1 DEF CallBegins
  <2>2. CASE UpdateArtifact(c, a)
    <3>1. artifacts[a] \in ArtifactRecords /\ artifacts[a].version < writes + 1
      BY <2>2 DEF UpdateArtifact, VersionsBounded, ArtifactRecords
    <3>2. CallBegins(c, a, "WRITE", [op |-> "update", read |-> artifacts[a], content |-> writes + 1])
      BY <2>2, <3>1 DEF CallBegins, UpdateArtifact
    <3> QED BY <3>2 DEF CallBegins
  <2>3. CASE DeleteArtifact(c, a)
    <3>1. CallBegins(c, a, "WRITE", [op |-> "delete", read |-> artifacts[a], content |-> 0])
      BY <2>3 DEF CallBegins, DeleteArtifact
    <3> QED BY <3>1 DEF CallBegins
  <2>4. ASSUME NEW t \in LockTypes, LockArtifact(c, a, t)
        PROVE  \E u \in LockTypes, begun \in Calls : CallBegins(c, a, u, begun)
    <3>1. CallBegins(c, a, t, [op |-> "lock", read |-> artifacts[a], content |-> 0])
      BY <2>4 DEF CallBegins, LockArtifact
    <3> QED BY <3>1 DEF CallBegins
  <2> QED BY <2>1, <2>2, <2>3, <2>4
<1> USE DEF CallBegins
<1>2. MemTypeOK'
  BY <1>1 DEF MemInv, MemTypeOK, LockInv
<1>3. \A d \in Clients : call'[d] = IF d = c THEN begun ELSE call[d]
  BY <1>1 DEF MemInv, MemTypeOK
<1>4. CallHasLock'
  BY <1>1, <1>3, AcquireEffect DEF MemInv, CallHasLock
<1>5. WriteOpsWrite'
  BY <1>1, <1>3, AcquireEffect DEF MemInv, WriteOpsWrite
<1>6. VersionsBounded'
  BY <1>1, <1>3 DEF MemInv, VersionsBounded, MemTypeOK, Contents, ArtifactRecords, Calls
<1> QED BY <1>2, <1>4, <1>5, <1>6 DEF MemInv

\* A call ends: what is left of the others is as it was.
LEMMA EndInv ==
  ASSUME MemInv, LockInv', NEW c \in Clients, ReleaseLock(c) \/ QueueTimeout(c),
         call' = [call EXCEPT ![c] = NoCall], UNCHANGED <<named, writes>>,
         VersionsBounded' , artifacts' \in [Artifacts -> ArtifactRecords \cup {NoArtifact}],
         versions' \in [Artifacts -> Seq(ArtifactRecords)]
  PROVE  MemInv'
<1>1. \A d \in Clients : call'[d] = IF d = c THEN NoCall ELSE call[d]
  BY DEF MemInv, MemTypeOK
<1>2. /\ phase'[c] = "idle"
      /\ \A d \in Clients \ {c} : phase'[d] = "idle" <=> phase[d] = "idle"
      /\ request' = request /\ leaseOver' = leaseOver
  <2>1. CASE ReleaseLock(c)
    BY <2>1, ReleaseEffect
  <2>2. CASE QueueTimeout(c)
    BY <2>2 DEF QueueTimeout, MemInv, LockInv, LockTypeOK
  <2> QED BY <2>1, <2>2
<1>3. MemTypeOK'
  BY DEF MemInv, MemTypeOK, LockInv, Calls, NoCall, Contents
<1>4. CallHasLock'
  BY <1>1, <1>2 DEF MemInv, CallHasLock, NoCall
<1>5. WriteOpsWrite'
  BY <1>1, <1>2 DEF MemInv, WriteOpsWrite, NoCall, WriteOps
<1> QED BY <1>3, <1>4, <1>5 DEF MemInv

\* The rest of an operation, which writes what it brings and gives its lock back.
LEMMA FinishInv ==
  ASSUME MemInv, LockInv', NEW c \in Clients, Finish(c)
  PROVE  MemInv'
<1> DEFINE a == request[c].artifact
<1>1. a \in Artifacts /\ Resuming(c)
  BY DEF Finish, FinishCreate, FinishUpdate, FinishDelete, MemInv, LockInv, LockTypeOK, Requests
<1>2. /\ call' = [call EXCEPT ![c] = NoCall] /\ UNCHANGED <<named, writes>>
      /\ ReleaseLock(c)
  BY DEF Finish
<1>3. \A x \in ArtifactRecords : x.version <= writes =>
        [x EXCEPT !.version = @ + 1] \in ArtifactRecords
  BY DEF MemInv, MemTypeOK, ArtifactRecords, Contents
<1>4. \A x \in ArtifactRecords : x.version <= writes /\ CreateVersion(a, x) =>
        versions' \in [Artifacts -> Seq(ArtifactRecords)]
  BY <1>1, <1>3 DEF CreateVersion, MemInv, MemTypeOK
<1>5. PICK new \in ArtifactRecords \cup {NoArtifact} :
        /\ artifacts' = [artifacts EXCEPT ![a] = new]
        /\ new # NoArtifact => new \in ArtifactRecords /\ new.version <= writes
        /\ versions' \in [Artifacts -> Seq(ArtifactRecords)]
  <2> USE DEF MemInv, MemTypeOK, VersionsBounded
  <2>1. CASE FinishCreate(c)
    <3>1. [version |-> 1, content |-> call[c].content] \in ArtifactRecords /\ 1 <= writes
      BY <2>1 DEF FinishCreate, ArtifactRecords, Contents, Calls
    <3>2. versions' \in [Artifacts -> Seq(ArtifactRecords)]
      BY <1>1, <1>4, <2>1 DEF FinishCreate
    <3> QED BY <2>1, <3>1, <3>2 DEF FinishCreate
  <2>2. CASE FinishUpdate(c)
    <3> DEFINE x == call[c].read
    <3>1. x \in ArtifactRecords /\ x.version < call[c].content /\ call[c].content <= writes
      BY <2>2 DEF FinishUpdate
    <3>2. [version |-> x.version + 1, content |-> call[c].content] \in ArtifactRecords
          /\ x.version + 1 <= writes
      BY <3>1 DEF ArtifactRecords, Contents, Calls
    <3>3. x.version <= writes /\ CreateVersion(a, x)
      BY <2>2, <3>1 DEF FinishUpdate, ArtifactRecords, Contents, Calls
    <3>4. versions' \in [Artifacts -> Seq(ArtifactRecords)]
      BY <1>4, <3>1, <3>3
    <3> QED BY <2>2, <3>2, <3>4 DEF FinishUpdate
  <2>3. CASE FinishDelete(c)
    BY <2>3 DEF FinishDelete
  <2> QED BY <2>1, <2>2, <2>3 DEF Finish
<1>6. artifacts' \in [Artifacts -> ArtifactRecords \cup {NoArtifact}]
  BY <1>1, <1>5 DEF MemInv, MemTypeOK
<1>7. VersionsBounded'
  <2>1. \A b \in Artifacts : artifacts'[b] = IF b = a THEN new ELSE artifacts[b]
    BY <1>5 DEF MemInv, MemTypeOK
  <2>2. \A d \in Clients : call'[d] = IF d = c THEN NoCall ELSE call[d]
    BY <1>2 DEF MemInv, MemTypeOK
  <2> QED BY <1>2, <1>5, <2>1, <2>2 DEF VersionsBounded, MemInv, MemTypeOK, NoCall, Contents
<1> QED BY <1>2, <1>5, <1>6, <1>7, EndInv

LEMMA MemNextInv == MemInv /\ [MemNext]_allVars => MemInv'
<1> SUFFICES ASSUME MemInv, [MemNext]_allVars PROVE MemInv'
  OBVIOUS
<1>1. LockInv'
  BY StepIsLockStep, NextInv DEF MemInv
<1>2. ASSUME NEW c \in Clients, NEW a \in Artifacts,
             \/ CreateArtifact(c, a) \/ UpdateArtifact(c, a) \/ DeleteArtifact(c, a)
             \/ \E t \in LockTypes : LockArtifact(c, a, t)
      PROVE  MemInv'
  BY <1>1, <1>2, CallInv
<1>3. ASSUME NEW c \in Clients, Finish(c)
      PROVE  MemInv'
  BY <1>1, <1>3, FinishInv
<1>4. ASSUME NEW c \in Clients, UnlockArtifact(c) \/ GiveUp(c)
      PROVE  MemInv'
  <2>1. /\ ReleaseLock(c) \/ QueueTimeout(c)
        /\ call' = [call EXCEPT ![c] = NoCall]
        /\ UNCHANGED <<artifacts, versions, named, writes>>
    BY <1>4 DEF UnlockArtifact, GiveUp
  <2>2. \A d \in Clients : call'[d] = IF d = c THEN NoCall ELSE call[d]
    BY <2>1 DEF MemInv, MemTypeOK
  <2>3. VersionsBounded'
    BY <2>1, <2>2 DEF VersionsBounded, MemInv, MemTypeOK, NoCall, Contents
  <2> QED BY <1>1, <2>1, <2>3, EndInv DEF MemInv, MemTypeOK
<1>5. ASSUME LockTimePasses PROVE MemInv'
  <2>1. UNCHANGED memVars
    BY <1>5 DEF LockTimePasses
  <2>2. MemTypeOK' /\ VersionsBounded'
    BY <1>1, <2>1 DEF memVars, MemInv, LockInv, MemTypeOK, VersionsBounded
  <2>3. CASE Cleanup
    BY <1>1, <2>1, <2>2, <2>3, CleanupEffect DEF memVars, MemInv, CallHasLock, WriteOpsWrite
  \* Who works under a lock is about to go on, and no lease ends before that.
  <2>4. ASSUME NEW c \in Clients, LeaseExpires(c)
        PROVE  MemInv'
    <3>1. phase[c] = "granted" /\ call[c].op \notin WriteOps
      BY <1>5, <2>4 DEF LockTimePasses, LeaseExpires, Settled, Resuming
    <3>2. /\ UNCHANGED <<phase, request>>
          /\ \A d \in Clients \ {c} : leaseOver'[d] = leaseOver[d]
      BY <2>4 DEF LeaseExpires, MemInv, LockInv, LockTypeOK
    <3> QED BY <1>1, <2>1, <2>2, <3>1, <3>2 DEF memVars, MemInv, CallHasLock, WriteOpsWrite
  <2> QED BY <1>5, <2>3, <2>4 DEF LockTimePasses
<1>6. CASE UNCHANGED allVars
  BY <1>1, <1>6 DEF allVars, lockVars, memVars, MemInv, LockInv, MemTypeOK, CallHasLock,
                    WriteOpsWrite, VersionsBounded
<1> QED BY <1>2, <1>3, <1>4, <1>5, <1>6 DEF MemNext

\* The inductive invariant of the shared memory holds in every state.
THEOREM MemInvariant == MemSpec => []MemInv
BY MemInitInv, MemNextInv, PTL DEF MemSpec

\* The shared memory uses the locks as a client should: what the lock service
\* promises its callers holds of the composition as well.
THEOREM MemoryKeepsAccessExclusive == MemSpec => GivesExclusiveAccess
<1>1. MemInit => LockInit
  BY DEF MemInit
<1>2. MemInv => LockInv
  BY DEF MemInv
<1> QED BY <1>1, <1>2, InitIsAbstract, StepIsAbstract, StepIsLockStep, MemInvariant, PTL
        DEF MemSpec, GivesExclusiveAccess, Access!AccessSpec

\* No operation leaves its own lock behind: the locks that outlive a step are
\* those users asked for.
THEOREM OnlyUserLocksEverRemain == MemSpec => []OnlyUserLocksRemain
<1>1. MemInv => OnlyUserLocksRemain
  <2> SUFFICES ASSUME MemInv, Settled, NEW a \in Artifacts, activeLocks[a] # NoLock
               PROVE  call[activeLocks[a]].op = "lock"
    BY DEF OnlyUserLocksRemain, MemInv
  <2>1. activeLocks[a] \in Clients /\ phase[activeLocks[a]] = "granted"
    BY DEF MemInv, LockInv, LockTypeOK, RecordIsCurrent
  <2>2. call[activeLocks[a]].op \notin WriteOps \cup {"none"}
    BY <2>1 DEF Settled, Resuming, MemInv, CallHasLock
  <2> QED BY <2>1, <2>2 DEF MemInv, MemTypeOK, Calls
<1> QED BY <1>1, MemInvariant, PTL

\* While a user holds a running WRITE lock no step changes the artifact.
THEOREM LockedIsNeverDisturbed == MemSpec => LockedIsUndisturbed
<1> DEFINE A == \A c \in Clients :
                  call[c].op = "lock" /\ Holds(c) /\ request[c].lockType = "WRITE"
                    => artifacts'[request[c].artifact] = artifacts[request[c].artifact]
<1>1. MemInv /\ [MemNext]_allVars => [A]_allVars
  <2> SUFFICES ASSUME MemInv, MemNext, NEW c \in Clients,
                      call[c].op = "lock", Holds(c), request[c].lockType = "WRITE"
               PROVE  artifacts'[request[c].artifact] = artifacts[request[c].artifact]
    OBVIOUS
  \* Only an operation under way writes, and it has a WRITE lease that runs.
  <2>1. ASSUME NEW d \in Clients, Finish(d)
        PROVE  artifacts'[request[c].artifact] = artifacts[request[c].artifact]
    <3>1. Resuming(d) /\ \E x : artifacts' = [artifacts EXCEPT ![request[d].artifact] = x]
      BY <2>1 DEF Finish, FinishCreate, FinishUpdate, FinishDelete
    <3>2. Holds(d) /\ request[d].lockType = "WRITE" /\ d # c
      BY <3>1 DEF Resuming, Holds, MemInv, WriteOpsWrite, WriteOps
    <3>3. request[d].artifact # request[c].artifact
      BY <3>2 DEF MemInv, LockInv, WriterRecorded
    <3> QED BY <3>1, <3>3 DEF MemInv, MemTypeOK, LockInv, LockTypeOK, Requests
  <2>2. ASSUME ~\E d \in Clients : Finish(d)
        PROVE  artifacts' = artifacts
    BY <2>2 DEF MemNext, CreateArtifact, UpdateArtifact, DeleteArtifact, LockArtifact,
                UnlockArtifact, GiveUp, LockTimePasses, memVars
  <2> QED BY <2>1, <2>2
<1> QED BY <1>1, MemInvariant, PTL DEF MemSpec, LockedIsUndisturbed

HIDE NoLockAssumption

-----------------------------------------------------------------------------
(***************************************************************************)
(* Proofs about the task board of a collective, for any number of tasks,   *)
(* agents and requests and whatever the deadlock detector reports.         *)
(***************************************************************************)

USE TaskAssumption, DetectAssumption

(***************************************************************************)
(* The inductive invariant.  That the links of the tree stay sound is a    *)
(* property of the steps, and is carried along with it.                    *)
(***************************************************************************)
OnlyCreated ==
  /\ planning \subseteq 1..created
  /\ executing \subseteq 1..created
  /\ \A i \in 1..Len(job) : job[i].step = "assign" => job[i].task \in 1..created

BoardInv == TasksTypeOK /\ PendingIsLive /\ OnlyCreated

(***************************************************************************)
(* Lists of dependencies.                                                  *)
(***************************************************************************)
LEMMA ListProperties ==
  ASSUME NEW s \in Lists
  PROVE  /\ s \in Seq(Tasks) /\ Len(s) \in 0..2
         /\ \A i, j \in 1..Len(s) : s[i] = s[j] => i = j
         /\ ToSet(s) \subseteq Tasks
<1>1. PICK n \in 0..2 : s \in [1..n -> Tasks] /\ IsInjective(s)
  BY DEF Lists, ListsOf
<1>2. s \in Seq(Tasks) /\ Len(s) = n /\ DOMAIN s = 1..n
  <2>1. n \in Nat
    OBVIOUS
  <2>2. s \in Seq(Tasks)
    BY <1>1, <2>1, SeqDef
  <2>3. 1..Len(s) = 1..n /\ Len(s) \in Nat /\ DOMAIN s = 1..n
    BY <1>1, <2>2, LenProperties
  <2> QED BY <2>1, <2>2, <2>3
<1>3. \A i, j \in 1..Len(s) : s[i] = s[j] => i = j
  BY <1>1, <1>2 DEF IsInjective
<1>4. ToSet(s) \subseteq Tasks
  BY <1>1, <1>2 DEF ToSet
<1> QED BY <1>2, <1>3, <1>4

LEMMA ListIntro ==
  ASSUME NEW s \in Seq(Tasks), Len(s) <= 2,
         \A i, j \in 1..Len(s) : s[i] = s[j] => i = j
  PROVE  s \in Lists
<1>1. Len(s) \in 0..2 /\ s \in [1..Len(s) -> Tasks] /\ DOMAIN s = 1..Len(s)
  <2>1. Len(s) \in Nat /\ s \in [1..Len(s) -> Tasks] /\ DOMAIN s = 1..Len(s)
    BY LenProperties
  <2> QED BY <2>1
<1>2. IsInjective(s)
  BY <1>1 DEF IsInjective
<1> QED BY <1>1, <1>2 DEF Lists, ListsOf

LEMMA SubLists ==
  ASSUME NEW S \in SUBSET Tasks, NEW s \in ListsOf(S)
  PROVE  s \in Lists
<1>1. PICK n \in 0..2 : s \in [1..n -> S] /\ IsInjective(s)
  BY DEF ListsOf
<1>2. s \in [1..n -> Tasks]
  BY <1>1
<1> QED BY <1>1, <1>2 DEF Lists, ListsOf

LEMMA TailOfList ==
  ASSUME NEW s \in Lists, s # <<>>
  PROVE  Tail(s) \in Lists
<1>1. s \in Seq(Tasks) /\ Len(s) \in 0..2 /\ \A i, j \in 1..Len(s) : s[i] = s[j] => i = j
  BY ListProperties
<1>2. /\ Tail(s) \in Seq(Tasks) /\ Len(Tail(s)) = Len(s) - 1
      /\ \A i \in 1..Len(Tail(s)) : Tail(s)[i] = s[i + 1]
  BY <1>1, HeadTailProperties
<1>3. \A i, j \in 1..Len(Tail(s)) : Tail(s)[i] = Tail(s)[j] => i = j
  BY <1>1, <1>2
<1>4. Len(Tail(s)) <= 2
  BY <1>1, <1>2
<1> QED BY <1>2, <1>3, <1>4, ListIntro

LEMMA WithoutOfList ==
  ASSUME NEW s \in Lists, NEW S
  PROVE  Without(s, S) \in Lists
<1> DEFINE r == Without(s, S)
<1>1. s \in Seq(Tasks) /\ Len(s) \in 0..2 /\ \A i, j \in 1..Len(s) : s[i] = s[j] => i = j
  BY ListProperties
<1>2. r \in Seq(Tasks) /\ IsRestOf(r, s, S)
  BY <1>1, WithoutProperties
<1> HIDE DEF r
<1>3. PICK g \in [1..Len(r) -> 1..Len(s)] :
        /\ \A k \in 1..Len(r) : r[k] = s[g[k]]
        /\ \A k, l \in 1..Len(r) : k < l => g[k] < g[l]
  BY <1>2 DEF IsRestOf
<1>4. Len(r) \in Nat
  BY <1>2, LenProperties
<1>5. \A i, j \in 1..Len(r) : r[i] = r[j] => i = j
  <2> SUFFICES ASSUME NEW i \in 1..Len(r), NEW j \in 1..Len(r), r[i] = r[j], i # j
               PROVE  FALSE
    OBVIOUS
  <2>1. g[i] = g[j] /\ g[i] \in Int
    BY <1>1, <1>3
  <2>2. i < j \/ j < i
    BY <1>4
  <2> QED BY <1>3, <2>1, <2>2
<1>6. Len(r) <= 2
  <2> SUFFICES ASSUME Len(r) > 2 PROVE FALSE
    BY <1>4
  <2>1. 1 \in 1..Len(r) /\ 2 \in 1..Len(r) /\ 3 \in 1..Len(r)
    BY <1>4
  <2>2. g[1] < g[2] /\ g[2] < g[3] /\ g[1] \in 1..Len(s) /\ g[2] \in 1..Len(s) /\ g[3] \in 1..Len(s)
    BY <1>3, <2>1
  <2> QED BY <1>1, <2>2
<1> QED BY <1>2, <1>5, <1>6, ListIntro DEF r

(***************************************************************************)
(* The helpers.  Only links change the tree, only assignments the agent.   *)
(***************************************************************************)
TaskMaps == [Tasks -> TaskRecords]
SameTree(T, U) == \A t \in Tasks : U[t].children = T[t].children /\ U[t].parent = T[t].parent
SameAgents(T, U) == \A t \in Tasks : U[t].agent = T[t].agent

LEMMA RefreshProperties ==
  ASSUME NEW T \in TaskMaps, NEW L, NEW t \in Tasks
  PROVE  /\ Refresh(T, L, t) \in TaskMaps
         /\ SameTree(T, Refresh(T, L, t)) /\ SameAgents(T, Refresh(T, L, t))
<1> DEFINE unmet == Unmet(T, L, t)
           state == IF unmet # {} /\ T[t].state # "completed" THEN "blocked"
                    ELSE IF unmet = {} /\ T[t].state = "blocked" THEN "unassigned"
                    ELSE T[t].state
           R == [T EXCEPT ![t].blockedBy = unmet, ![t].state = state]
<1>1. Refresh(T, L, t) = R
  BY DEF Refresh
<1>2. T[t] \in TaskRecords
  BY DEF TaskMaps
<1>3. unmet \in SUBSET Tasks
  BY <1>2, ListProperties DEF Unmet, TaskRecords
<1>4. state \in States
  BY <1>2 DEF TaskRecords, States
<1> HIDE DEF unmet, state
<1>5. /\ [T[t] EXCEPT !.blockedBy = unmet, !.state = state] \in TaskRecords
      /\ R = [T EXCEPT ![t] = [T[t] EXCEPT !.blockedBy = unmet, !.state = state]]
  BY <1>2, <1>3, <1>4 DEF TaskRecords, TaskMaps
<1>6. R \in TaskMaps
  BY <1>5 DEF TaskMaps
<1>7. SameTree(T, R) /\ SameAgents(T, R)
  BY DEF TaskMaps, TaskRecords, SameTree, SameAgents
<1> HIDE DEF R
<1> QED BY <1>1, <1>6, <1>7

Linked(T, U, L, p, t) ==
  \A u \in Tasks :
    /\ U[u].parent = T[u].parent /\ U[u].agent = T[u].agent
    /\ U[u].children = IF p \in L /\ u = p THEN T[u].children \cup {t} ELSE T[u].children

LEMMA LinkProperties ==
  ASSUME NEW T \in TaskMaps, NEW L, NEW p, NEW t \in Tasks
  PROVE  /\ Link(T, L, p, t) \in TaskMaps
         /\ Linked(T, Link(T, L, p, t), L, p, t)
<1>1. CASE p \notin L
  BY <1>1 DEF Link, Linked
<1>2. CASE p \in L
  <2> DEFINE R == [T EXCEPT ![p].children = @ \cup {t}]
  <2>1. \A u \in Tasks : [T[u] EXCEPT !.children = @ \cup {t}] \in TaskRecords
    <3> SUFFICES ASSUME NEW u \in Tasks
                 PROVE  [T[u] EXCEPT !.children = @ \cup {t}] \in TaskRecords
      OBVIOUS
    <3>1. T[u] \in TaskRecords
      BY DEF TaskMaps
    <3>2. T[u].children \cup {t} \in SUBSET Tasks
      BY <3>1 DEF TaskRecords
    <3> QED BY <3>1, <3>2 DEF TaskRecords
  <2>2. R \in TaskMaps
    BY <2>1 DEF TaskMaps
  <2>3. ASSUME NEW u \in Tasks
        PROVE  /\ R[u].parent = T[u].parent /\ R[u].agent = T[u].agent
               /\ R[u].children = IF u = p THEN T[u].children \cup {t} ELSE T[u].children
    <3>1. T[u] \in TaskRecords /\ DOMAIN T = Tasks
      BY DEF TaskMaps
    <3>2. R[u] = IF u = p THEN [T[u] EXCEPT !.children = @ \cup {t}] ELSE T[u]
      BY <3>1
    <3> QED BY <3>1, <3>2 DEF TaskRecords
  <2>4. Link(T, L, p, t) = R
    BY <1>2 DEF Link
  <2> HIDE DEF R
  <2> QED BY <1>2, <2>2, <2>3, <2>4 DEF Linked
<1> QED BY <1>1, <1>2

Unlinked(T, U, L, p, t) ==
  \A u \in Tasks :
    /\ U[u].parent = T[u].parent /\ U[u].agent = T[u].agent
    /\ U[u].children = IF p \in L /\ u = p THEN T[u].children \ {t} ELSE T[u].children

LEMMA UnlinkProperties ==
  ASSUME NEW T \in TaskMaps, NEW L, NEW p, NEW t \in Tasks
  PROVE  /\ Unlink(T, L, p, t) \in TaskMaps
         /\ Unlinked(T, Unlink(T, L, p, t), L, p, t)
<1>1. CASE p \notin L
  BY <1>1 DEF Unlink, Unlinked
<1>2. CASE p \in L
  <2> DEFINE R == [T EXCEPT ![p].children = @ \ {t}]
  <2>1. \A u \in Tasks : [T[u] EXCEPT !.children = @ \ {t}] \in TaskRecords
    <3> SUFFICES ASSUME NEW u \in Tasks
                 PROVE  [T[u] EXCEPT !.children = @ \ {t}] \in TaskRecords
      OBVIOUS
    <3>1. T[u] \in TaskRecords
      BY DEF TaskMaps
    <3>2. T[u].children \ {t} \in SUBSET Tasks
      BY <3>1 DEF TaskRecords
    <3> QED BY <3>1, <3>2 DEF TaskRecords
  <2>2. R \in TaskMaps
    BY <2>1 DEF TaskMaps
  <2>3. ASSUME NEW u \in Tasks
        PROVE  /\ R[u].parent = T[u].parent /\ R[u].agent = T[u].agent
               /\ R[u].children = IF u = p THEN T[u].children \ {t} ELSE T[u].children
    <3>1. T[u] \in TaskRecords /\ DOMAIN T = Tasks
      BY DEF TaskMaps
    <3>2. R[u] = IF u = p THEN [T[u] EXCEPT !.children = @ \ {t}] ELSE T[u]
      BY <3>1
    <3> QED BY <3>1, <3>2 DEF TaskRecords
  <2>4. Unlink(T, L, p, t) = R
    BY <1>2 DEF Unlink
  <2> HIDE DEF R
  <2> QED BY <1>2, <2>2, <2>3, <2>4 DEF Unlinked
<1> QED BY <1>1, <1>2

\* Breaking a cycle only takes a dependency away.
LEMMA BreakProperties ==
  ASSUME NEW T \in TaskMaps, NEW L, NEW c
  PROVE  /\ BreakCycle(T, L, c) \in TaskMaps
         /\ SameTree(T, BreakCycle(T, L, c)) /\ SameAgents(T, BreakCycle(T, L, c))
<1> DEFINE alive == Without(c, Tasks \ L)
           w == Weakest(T, alive)
           blockers == T[w].blockedBy \ {Head(T[w].deps)}
           R == [T EXCEPT ![w].deps = Tail(@), ![w].blockedBy = blockers,
                          ![w].state = IF blockers = {} THEN "unassigned" ELSE @]
<1>1. SameTree(T, T) /\ SameAgents(T, T)
  BY DEF SameTree, SameAgents
<1>2. BreakCycle(T, L, c) = T \/ (T[w].deps # <<>> /\ BreakCycle(T, L, c) = R)
  BY DEF BreakCycle
<1> HIDE DEF w
<1>3. ASSUME T[w].deps # <<>>, w \in Tasks
      PROVE  R \in TaskMaps
  <2> DEFINE v == [T[w] EXCEPT !.deps = Tail(@), !.blockedBy = blockers,
                               !.state = IF blockers = {} THEN "unassigned" ELSE @]
  <2>1. T[w] \in TaskRecords
    BY <1>3 DEF TaskMaps
  <2>2. Tail(T[w].deps) \in Lists
    BY <1>3, <2>1, TailOfList DEF TaskRecords
  <2>3. blockers \in SUBSET Tasks
    BY <2>1 DEF TaskRecords
  <2> HIDE DEF blockers
  <2>4. v \in TaskRecords
    BY <2>1, <2>2, <2>3 DEF TaskRecords, States
  <2>5. R = [T EXCEPT ![w] = v]
    BY <1>3, <2>1 DEF TaskMaps, TaskRecords
  <2> HIDE DEF v, R
  <2> QED BY <2>4, <2>5 DEF TaskMaps
<1>4. ASSUME w \notin Tasks PROVE R = T
  BY <1>4 DEF TaskMaps
<1>5. SameTree(T, R) /\ SameAgents(T, R)
  <2> HIDE DEF blockers
  <2> QED BY DEF TaskMaps, TaskRecords, SameTree, SameAgents
<1> HIDE DEF R
<1> QED BY <1>1, <1>2, <1>3, <1>4, <1>5

LEMMA CountProperties ==
  ASSUME NEW ld \in [Agents -> Nat], NEW a, NEW n \in Nat
  PROVE  Release(ld, a, n) \in [Agents -> Nat]
BY DEF Release

(***************************************************************************)
(* Lists of steps.                                                         *)
(***************************************************************************)
StepsUpTo(n) == {x \in Steps : x.step = "assign" => x.task \in 1..n}

\* The invariants say of the job that it is a list of steps for created tasks.
LEMMA JobAsList ==
  ASSUME created \in 0..MaxTasks
  PROVE  /\ (job \in Seq(Steps) /\ \A i \in 1..Len(job) : job[i].step = "assign" => job[i].task \in 1..created)
               <=> job \in Seq(StepsUpTo(created))
<1>1. ASSUME job \in Seq(StepsUpTo(created))
      PROVE  job \in Seq(Steps) /\ \A i \in 1..Len(job) : job[i].step = "assign" => job[i].task \in 1..created
  <2>1. StepsUpTo(created) \subseteq Steps
    BY DEF StepsUpTo
  <2>2. job \in Seq(Steps)
    BY <1>1, <2>1, SeqMonotonic
  <2>3. \A i \in 1..Len(job) : job[i] \in StepsUpTo(created)
    BY <1>1, ElementOfSeq
  <2> QED BY <2>2, <2>3 DEF StepsUpTo
<1>2. ASSUME job \in Seq(Steps), \A i \in 1..Len(job) : job[i].step = "assign" => job[i].task \in 1..created
      PROVE  job \in Seq(StepsUpTo(created))
  <2>1. Len(job) \in Nat /\ job \in [1..Len(job) -> Steps]
    BY <1>2, LenProperties
  <2>2. job \in [1..Len(job) -> StepsUpTo(created)]
    BY <1>2, <2>1 DEF StepsUpTo
  <2> QED BY <2>1, <2>2, SeqDef
<1> QED BY <1>1, <1>2

LEMMA StepsGrow ==
  ASSUME NEW m \in Nat, NEW n \in Nat, m <= n, NEW s \in Seq(StepsUpTo(m))
  PROVE  s \in Seq(StepsUpTo(n))
<1>1. StepsUpTo(m) \subseteq StepsUpTo(n)
  BY DEF StepsUpTo
<1> QED BY <1>1, SeqMonotonic

LEMMA AssignStepsTyped ==
  ASSUME NEW n \in 0..MaxTasks, NEW s \in Seq(1..n), NEW run \in BOOLEAN
  PROVE  AssignSteps(s, run) \in Seq(StepsUpTo(n))
<1>1. Len(s) \in Nat /\ DOMAIN s = 1..Len(s) /\ \A i \in 1..Len(s) : s[i] \in 1..n
  BY LenProperties, ElementOfSeq
<1>2. \A t \in 1..n : t \in Tasks
  BY TaskAssumption DEF Tasks
<1>3. \A i \in 1..Len(s) : [step |-> "assign", task |-> s[i], run |-> run] \in StepsUpTo(n)
  BY <1>1, <1>2 DEF StepsUpTo, Steps
<1> DEFINE a == AssignSteps(s, run)
           k == Len(s)
<1>4. k \in Nat /\ a \in [1..k -> StepsUpTo(n)]
  BY <1>1, <1>3 DEF AssignSteps
<1> HIDE DEF a, k
<1>5. a \in Seq(StepsUpTo(n))
  BY <1>4, SeqDef
<1> QED BY <1>5 DEF a

LEMMA ByPriorityTyped ==
  ASSUME NEW S, NEW s \in Seq(S), NEW T
  PROVE  ByPriority(T, s) \in Seq(S)
<1>1. \A p : OfLevel(T, s, p) \in Seq(S)
  BY WithoutProperties DEF OfLevel
<1> QED BY <1>1, ConcatProperties DEF ByPriority

(***************************************************************************)
(* The invariant in the form the steps preserve it.                        *)
(***************************************************************************)
CountsOK ==
  /\ load \in [Agents -> Nat]
  /\ pending \in [Tasks -> Nat]
  /\ inbox \in [Messages -> 0..MaxCopies]
BoardOK ==
  /\ task \in TaskMaps
  /\ created \in 0..MaxTasks
  /\ live \in SUBSET (1..created)
RunOK ==
  /\ planning \in SUBSET (1..created) /\ executing \in SUBSET (1..created)
  /\ paused \in {"no", "manual", "deadlock"}
  /\ job \in Seq(StepsUpTo(created))
  /\ requests \in 0..MaxRequests

LEMMA InvParts == BoardInv <=> CountsOK /\ BoardOK /\ RunOK /\ PendingIsLive
<1>1. created \in 0..MaxTasks => 1..created \subseteq Tasks
  BY TaskAssumption DEF Tasks
<1>2. ASSUME BoardInv PROVE CountsOK /\ BoardOK /\ RunOK /\ PendingIsLive
  BY <1>2, JobAsList
     DEF BoardInv, TasksTypeOK, OnlyCreated, CountsOK, BoardOK, RunOK, TaskMaps
<1>3. ASSUME CountsOK, BoardOK, RunOK, PendingIsLive PROVE BoardInv
  <2>1. TasksTypeOK
    BY <1>1, <1>3, JobAsList DEF TasksTypeOK, CountsOK, BoardOK, RunOK, TaskMaps
  <2>2. OnlyCreated
    BY <1>3, JobAsList DEF OnlyCreated, BoardOK, RunOK
  <2> QED BY <1>3, <2>1, <2>2 DEF BoardInv
<1> QED BY <1>2, <1>3

\* The links stay sound in a step that moves no task in the tree and takes none off
\* the board.
LEMMA TreeKept ==
  ASSUME live \subseteq Tasks, SameTree(task, task'), live \subseteq live'
  PROVE  LinksStaySound
<1> SUFFICES ASSUME NEW p \in live \cap live', NEW c \in task'[p].children
             PROVE  IsChild(p, c)' \/ (c \in task[p].children /\ ~IsChild(p, c))
  BY DEF LinksStaySound
<1>1. c \in task[p].children
  BY DEF SameTree
<1>2. IsChild(p, c) => c \in live' /\ task'[c].parent = p
  BY DEF SameTree, IsChild
<1> QED BY <1>1, <1>2 DEF IsChild

\* A running handler takes the next step off the job.
LEMMA NextStep ==
  ASSUME RunOK, BoardOK, NEW k, Turn(k)
  PROVE  /\ Head(job) \in StepsUpTo(created) /\ Head(job).step = k
         /\ Tail(job) \in Seq(StepsUpTo(created))
         /\ k = "assign" => Head(job).task \in 1..created /\ Head(job).task \in Tasks /\ Head(job).run \in BOOLEAN
<1>1. /\ Head(job) \in StepsUpTo(created) /\ Head(job).step = k
      /\ Tail(job) \in Seq(StepsUpTo(created))
  BY HeadTailProperties DEF RunOK, Turn
<1>2. ASSUME k = "assign"
      PROVE  Head(job).task \in 1..created /\ Head(job).task \in Tasks /\ Head(job).run \in BOOLEAN
  BY <1>1, <1>2 DEF StepsUpTo, Steps
<1> QED BY <1>1, <1>2

(***************************************************************************)
(* The steps of the jobs.                                                  *)
(***************************************************************************)
Sound == CountsOK /\ BoardOK /\ RunOK /\ PendingIsLive
\* What every step does.
SoundStep == Sound' /\ LinksStaySound

\* Handling a message changes the states of tasks and the books of their agents.
LEMMA HandlersKeep ==
  ASSUME Sound, NEW t \in Tasks,
         HandleResult(t) \/ HandleStatus(t, "in_progress") \/ HandleStatus(t, "blocked")
  PROVE  /\ task' \in TaskMaps /\ SameTree(task, task') /\ SameAgents(task, task')
         /\ load' \in [Agents -> Nat] /\ pending' \in [Tasks -> Nat]
         /\ \A u \in Tasks : pending'[u] > 0 => pending[u] > 0
<1>1. ASSUME UNCHANGED <<task, load, pending>>
      PROVE  /\ task' \in TaskMaps /\ SameTree(task, task') /\ SameAgents(task, task')
             /\ load' \in [Agents -> Nat] /\ pending' \in [Tasks -> Nat]
             /\ \A u \in Tasks : pending'[u] > 0 => pending[u] > 0
  BY <1>1 DEF Sound, BoardOK, CountsOK, SameTree, SameAgents
<1>2. \A u \in Tasks, x \in States :
        /\ [task[u] EXCEPT !.state = x] \in TaskRecords
        /\ [task[u] EXCEPT !.state = x].children = task[u].children
        /\ [task[u] EXCEPT !.state = x].parent = task[u].parent
        /\ [task[u] EXCEPT !.state = x].agent = task[u].agent
  BY DEF Sound, BoardOK, TaskMaps, TaskRecords
<1>3. ASSUME NEW x \in States, HandleStatus(t, x), t \in live
      PROVE  /\ task' \in TaskMaps /\ SameTree(task, task') /\ SameAgents(task, task')
             /\ load' \in [Agents -> Nat] /\ pending' \in [Tasks -> Nat]
             /\ \A u \in Tasks : pending'[u] > 0 => pending[u] > 0
  <2>1. task' = [task EXCEPT ![t] = [task[t] EXCEPT !.state = x]]
    BY <1>3 DEF HandleStatus, Sound, BoardOK, TaskMaps
  <2>2. task' \in TaskMaps /\ SameTree(task, task') /\ SameAgents(task, task')
    BY <1>2, <2>1 DEF Sound, BoardOK, TaskMaps, SameTree, SameAgents
  <2> QED BY <1>3, <2>2 DEF HandleStatus, Sound, CountsOK
<1>4. ASSUME HandleResult(t), t \in live, task[t].agent # NoAgent
      PROVE  /\ task' \in TaskMaps /\ SameTree(task, task') /\ SameAgents(task, task')
             /\ load' \in [Agents -> Nat] /\ pending' \in [Tasks -> Nat]
             /\ \A u \in Tasks : pending'[u] > 0 => pending[u] > 0
  <2> DEFINE done == [task EXCEPT ![t].state = "completed"]
  <2>1. task' = [d \in Tasks |->
                   IF d \in live /\ t \in ToSet(done[d].deps)
                     THEN [done[d] EXCEPT
                             !.blockedBy = @ \ {t},
                             !.state = IF done[d].blockedBy \subseteq {t} THEN "unassigned" ELSE @]
                     ELSE done[d]]
    BY <1>4 DEF HandleResult
  <2>2. \A d \in Tasks : /\ done[d] \in TaskRecords
                         /\ done[d].children = task[d].children
                         /\ done[d].parent = task[d].parent
                         /\ done[d].agent = task[d].agent
    <3>1. done = [task EXCEPT ![t] = [task[t] EXCEPT !.state = "completed"]]
      BY DEF Sound, BoardOK, TaskMaps
    <3>2. "completed" \in States
      BY DEF States
    <3> HIDE DEF done
    <3> QED BY <1>2, <3>1, <3>2 DEF Sound, BoardOK, TaskMaps
  <2> HIDE DEF done
  <2>3. ASSUME NEW d \in Tasks
        PROVE  LET r == [done[d] EXCEPT
                             !.blockedBy = @ \ {t},
                             !.state = IF done[d].blockedBy \subseteq {t} THEN "unassigned" ELSE @]
               IN  /\ r \in TaskRecords
                   /\ r.children = done[d].children /\ r.parent = done[d].parent
                   /\ r.agent = done[d].agent
    <3>1. done[d] \in TaskRecords
      BY <2>2
    <3>2. done[d].blockedBy \ {t} \in SUBSET Tasks
      BY <3>1 DEF TaskRecords
    <3> QED BY <3>1, <3>2 DEF TaskRecords, States
  <2>4. task' \in TaskMaps
    BY <2>1, <2>2, <2>3 DEF TaskMaps
  <2>5. SameTree(task, task') /\ SameAgents(task, task')
    BY <2>1, <2>2, <2>3 DEF SameTree, SameAgents
  <2>6. load' = Release(load, task[t].agent, 1) /\ pending' = SettleOne(t)
    BY <1>4 DEF HandleResult
  <2>7. load' \in [Agents -> Nat]
    BY <2>6, CountProperties DEF Sound, CountsOK
  <2>8. pending' \in [Tasks -> Nat] /\ \A u \in Tasks : pending'[u] > 0 => pending[u] > 0
    BY <2>6 DEF SettleOne, Sound, CountsOK
  <2> QED BY <2>4, <2>5, <2>7, <2>8
<1>5. "in_progress" \in States /\ "blocked" \in States
  BY DEF States
<1>6. CASE t \notin live
  BY <1>1, <1>6 DEF HandleResult, HandleStatus
<1>7. CASE t \in live /\ task[t].agent = NoAgent
  BY <1>1, <1>3, <1>5, <1>7 DEF HandleResult
<1>8. CASE t \in live /\ task[t].agent # NoAgent
  BY <1>3, <1>4, <1>5, <1>8
<1> QED BY <1>6, <1>7, <1>8

LEMMA MessageInv ==
  ASSUME Sound, StepMessage
  PROVE  SoundStep /\ SameAgents(task, task')
<1>1. /\ job' = Tail(job) /\ job' \in Seq(StepsUpTo(created))
      /\ UNCHANGED <<planning, executing, paused, requests, created, live>>
  BY NextStep DEF StepMessage, Sound, runVars, boardVars
<1>2. /\ task' \in TaskMaps /\ SameTree(task, task') /\ SameAgents(task, task')
      /\ load' \in [Agents -> Nat] /\ pending' \in [Tasks -> Nat]
      /\ \A u \in Tasks : pending'[u] > 0 => pending[u] > 0
      /\ inbox' \in [Messages -> 0..MaxCopies]
  <2>1. CASE \A m \in Messages : inbox[m] = 0
    BY <2>1 DEF StepMessage, boardVars, Sound, BoardOK, CountsOK, SameTree, SameAgents
  <2>2. CASE ~(\A m \in Messages : inbox[m] = 0)
    <3>1. PICK m \in Messages :
            /\ inbox[m] > 0
            /\ inbox' = [inbox EXCEPT ![m] = @ - 1]
            /\ CASE m[1] = "result"  -> HandleResult(m[2])
                 [] m[1] = "started" -> HandleStatus(m[2], "in_progress")
                 [] m[1] = "blocked" -> HandleStatus(m[2], "blocked")
      BY <2>2 DEF StepMessage
    <3>2. m[2] \in Tasks /\ m[1] \in {"result", "started", "blocked"}
      BY DEF Messages
    <3>3. HandleResult(m[2]) \/ HandleStatus(m[2], "in_progress") \/ HandleStatus(m[2], "blocked")
      BY <3>1, <3>2
    <3>4. inbox' \in [Messages -> 0..MaxCopies]
      BY <3>1 DEF Sound, CountsOK
    <3> QED BY <3>2, <3>3, <3>4, HandlersKeep
  <2> QED BY <2>1, <2>2
<1>3. live \subseteq Tasks
  BY TaskAssumption DEF Sound, BoardOK, Tasks
<1>4. LinksStaySound
  BY <1>1, <1>2, <1>3, TreeKept
<1>5. PendingIsLive'
  BY <1>1, <1>2 DEF Sound, PendingIsLive
<1>6. CountsOK' /\ BoardOK' /\ RunOK'
  BY <1>1, <1>2 DEF Sound, CountsOK, BoardOK, RunOK
<1> QED BY <1>2, <1>4, <1>5, <1>6 DEF Sound, SoundStep

\* Steps that leave the board alone.
LEMMA BoardKept ==
  ASSUME Sound, UNCHANGED <<task, created, live>>, CountsOK', RunOK', PendingIsLive'
  PROVE  SoundStep
<1>1. SameTree(task, task')
  BY DEF SameTree
<1>2. live \subseteq Tasks
  BY TaskAssumption DEF Sound, BoardOK, Tasks
<1>3. LinksStaySound
  BY <1>1, <1>2, TreeKept
<1>4. BoardOK'
  BY DEF Sound, BoardOK
<1> QED BY <1>3, <1>4 DEF Sound, SoundStep

LEMMA DistributeInv ==
  ASSUME Sound, StepDistribute
  PROVE  SoundStep /\ SameAgents(task, task')
<1> DEFINE ready == {t \in live : task[t].state = "unassigned"}
           all == [t \in Tasks |-> t]
           list == EntriesAt(all, ready)
<1>1. /\ job' = AssignSteps(ByPriority(task, list), FALSE) \o Tail(job)
      /\ UNCHANGED <<task, created, live, load, pending, inbox, planning, executing, paused, requests>>
  BY DEF StepDistribute, boardVars, runVars
<1>2. created \in 0..MaxTasks /\ MaxTasks \in Nat /\ ready \in SUBSET (1..created)
  BY TaskAssumption DEF Sound, BoardOK
<1>3. all \in Seq(Tasks) /\ Len(all) = MaxTasks
  <2>1. all \in [1..MaxTasks -> Tasks]
    BY DEF Tasks
  <2>2. all \in Seq(Tasks)
    BY <1>2, <2>1, SeqDef
  <2> HIDE DEF all
  <2>3. 1..Len(all) = 1..MaxTasks /\ Len(all) \in Nat
    BY <2>1, <2>2, LenProperties
  <2> QED BY <1>2, <2>2, <2>3
<1>4. list \in Seq(1..created)
  <2>1. ready \in SUBSET (1..Len(all))
    BY <1>2, <1>3
  <2>2. \A i \in ready : all[i] = i
    BY <1>2 DEF Tasks
  <2> HIDE DEF all, ready
  <2>3. /\ list \in Seq(Tasks)
        /\ \E g \in [1..Len(list) -> ready] : \A k \in 1..Len(list) : list[k] = all[g[k]]
    BY <1>3, <2>1, EntriesAtProperties
  <2> HIDE DEF list
  <2>4. Len(list) \in Nat /\ list \in [1..Len(list) -> Tasks]
    BY <2>3, LenProperties
  <2>5. \A k \in 1..Len(list) : list[k] \in 1..created
    <3>1. PICK g \in [1..Len(list) -> ready] : \A k \in 1..Len(list) : list[k] = all[g[k]]
      BY <2>3
    <3>2. \A k \in 1..Len(list) : g[k] \in ready /\ list[k] = g[k]
      BY <2>2, <3>1
    <3> QED BY <1>2, <3>2
  <2>6. list \in [1..Len(list) -> 1..created]
    BY <2>4, <2>5
  <2> QED BY <2>4, <2>6, SeqDef
<1> HIDE DEF list
<1>5. AssignSteps(ByPriority(task, list), FALSE) \in Seq(StepsUpTo(created))
  BY <1>2, <1>4, ByPriorityTyped, AssignStepsTyped
<1>6. Tail(job) \in Seq(StepsUpTo(created))
  BY NextStep DEF StepDistribute, Sound
<1>7. job' \in Seq(StepsUpTo(created))
  BY <1>1, <1>5, <1>6, ConcatProperties
<1>8. CountsOK' /\ RunOK' /\ PendingIsLive'
  BY <1>1, <1>7 DEF Sound, CountsOK, RunOK, PendingIsLive
<1> QED BY <1>1, <1>8, BoardKept DEF SameAgents

\* The body of the distribution loop: a task is put back on the board, blocked
\* or assigned, or nothing happens.
LEMMA AssignInv ==
  ASSUME Sound, StepAssign
  PROVE  SoundStep
<1> DEFINE t == Head(job).task
           unmet == Unmet(task, live, t)
<1>1. /\ t \in 1..created /\ t \in Tasks /\ task[t] \in TaskRecords /\ Head(job).run \in BOOLEAN
      /\ Tail(job) \in Seq(StepsUpTo(created))
  BY NextStep DEF StepAssign, Sound, BoardOK, TaskMaps
<1>2. job' = Tail(job) /\ UNCHANGED <<planning, paused, requests>>
  BY DEF StepAssign
<1>3. unmet \in SUBSET Tasks
  BY <1>1, ListProperties DEF Unmet, TaskRecords
<1> HIDE DEF t, unmet
<1>4. CASE UNCHANGED <<boardVars, executing>>
  <2>1. CountsOK' /\ RunOK' /\ PendingIsLive'
    BY <1>1, <1>2, <1>4 DEF boardVars, Sound, CountsOK, RunOK, PendingIsLive
  <2> QED BY <1>4, <2>1, BoardKept DEF boardVars
<1>5. ASSUME task' \in TaskMaps, SameTree(task, task'), live' = live \cup {t},
             executing' \subseteq executing \cup {t}, CountsOK', UNCHANGED created,
             \A u \in Tasks : pending'[u] > 0 => pending[u] > 0 \/ u = t
      PROVE  SoundStep
  <2>1. live' \in SUBSET (1..created) /\ live' \subseteq Tasks /\ executing' \in SUBSET (1..created)
    BY <1>1, <1>5, TaskAssumption DEF Sound, BoardOK, RunOK, Tasks
  <2>2. LinksStaySound
    <3>1. live \subseteq Tasks /\ live \subseteq live'
      BY <1>5, <2>1
    <3> QED BY <1>5, <3>1, TreeKept
  <2>3. PendingIsLive'
    BY <1>5 DEF Sound, PendingIsLive
  <2>4. RunOK' /\ BoardOK'
    BY <1>1, <1>2, <1>5, <2>1 DEF Sound, RunOK, BoardOK
  <2> QED BY <1>5, <2>2, <2>3, <2>4 DEF Sound, SoundStep
<1>6. CASE /\ task' = [task EXCEPT ![t].state = "blocked", ![t].blockedBy = unmet]
           /\ live' = live \cup {t}
           /\ UNCHANGED <<created, load, pending, inbox, executing>>
  <2> DEFINE v == [task[t] EXCEPT !.state = "blocked", !.blockedBy = unmet]
  <2>1. v \in TaskRecords /\ v.children = task[t].children /\ v.parent = task[t].parent
    BY <1>1, <1>3 DEF TaskRecords, States
  <2>2. task' = [task EXCEPT ![t] = v]
    BY <1>1, <1>6 DEF Sound, BoardOK, TaskMaps, TaskRecords
  <2> HIDE DEF v
  <2>3. task' \in TaskMaps /\ SameTree(task, task')
    BY <1>1, <2>1, <2>2 DEF Sound, BoardOK, TaskMaps, SameTree
  <2>4. CountsOK'
    BY <1>6 DEF Sound, CountsOK
  <2> QED BY <1>5, <1>6, <2>3, <2>4
<1>7. CASE \E a \in Agents :
             /\ task' = [task EXCEPT ![t].agent = a, ![t].state = "assigned"]
             /\ Take(t, a)
             /\ live' = live \cup {t}
             /\ executing' = IF Head(job).run THEN executing \cup {t} ELSE executing
             /\ UNCHANGED <<created, inbox>>
  <2>1. PICK a \in Agents :
             /\ task' = [task EXCEPT ![t].agent = a, ![t].state = "assigned"]
             /\ Take(t, a)
             /\ live' = live \cup {t}
             /\ executing' = IF Head(job).run THEN executing \cup {t} ELSE executing
             /\ UNCHANGED <<created, inbox>>
    BY <1>7
  <2> DEFINE v == [task[t] EXCEPT !.agent = a, !.state = "assigned"]
  <2>2. v \in TaskRecords /\ v.children = task[t].children /\ v.parent = task[t].parent
    BY <1>1 DEF TaskRecords, States
  <2>3. task' = [task EXCEPT ![t] = v]
    BY <1>1, <2>1 DEF Sound, BoardOK, TaskMaps, TaskRecords
  <2> HIDE DEF v
  <2>4. task' \in TaskMaps /\ SameTree(task, task')
    BY <1>1, <2>2, <2>3 DEF Sound, BoardOK, TaskMaps, SameTree
  <2>5. CountsOK' /\ \A u \in Tasks : pending'[u] > 0 => pending[u] > 0 \/ u = t
    <3>1. load' = [load EXCEPT ![a] = @ + 1] /\ pending' = [pending EXCEPT ![t] = @ + 1]
      BY <2>1 DEF Take
    <3>2. load' \in [Agents -> Nat] /\ pending' \in [Tasks -> Nat]
      <4>1. load \in [Agents -> Nat] /\ pending \in [Tasks -> Nat]
        BY DEF Sound, CountsOK
      <4>2. \A x \in Agents : load[x] + 1 \in Nat
        BY <4>1
      <4>3. \A x \in Tasks : pending[x] + 1 \in Nat
        BY <4>1
      <4> QED BY <3>1, <4>1, <4>2, <4>3
    <3>3. \A u \in Tasks : pending'[u] > 0 => pending[u] > 0 \/ u = t
      BY <1>1, <3>1 DEF Sound, CountsOK
    <3> QED BY <2>1, <3>2, <3>3 DEF Sound, CountsOK
  <2>6. executing' \subseteq executing \cup {t}
    BY <2>1
  <2> QED BY <1>5, <2>1, <2>4, <2>5, <2>6
<1> QED BY <1>4, <1>6, <1>7 DEF StepAssign, t, unmet

\* The cycles of low severity become the next steps.
LEMMA DetectInv ==
  ASSUME Sound, RecordedDeadlocksPause, StepDetect
  PROVE  SoundStep /\ RecordedDeadlocksPause' /\ SameAgents(task, task')
<1>1. /\ UNCHANGED <<task, created, live, load, pending, inbox, planning, executing, requests>>
      /\ Tail(job) \in Seq(StepsUpTo(created))
  BY NextStep DEF StepDetect, boardVars, runVars, Sound
<1>2. ASSUME NEW r, r = Deadlocks(task, live),
             detected' = CyclesIn(r),
             paused' = IF r = <<>> THEN paused ELSE "deadlock",
             NEW low, low = EntriesAt(r, {i \in DOMAIN r : r[i].severity # "high"}),
             job' = [i \in DOMAIN low |-> [step |-> "break", cycle |-> low[i].cycle]] \o Tail(job)
      PROVE  /\ job' \in Seq(StepsUpTo(created)) /\ paused' \in {"no", "manual", "deadlock"}
             /\ RecordedDeadlocksPause'
  <2>1. r \in Seq(Reports)
    <3> DEFINE graph == [t \in Tasks |-> IF t \in live
                                           THEN Without(task[t].deps, Tasks \ task[t].blockedBy)
                                           ELSE <<>>]
               stuck == BlockedTasks(task, live)
               critical == {t \in live : task[t].priority = "high"}
    <3>1. live \subseteq Tasks
      BY TaskAssumption DEF Sound, BoardOK, Tasks
    <3>2. \A t \in Tasks : task[t].deps \in Lists
      BY DEF Sound, BoardOK, TaskMaps, TaskRecords
    <3>3. <<>> \in Lists
      <4>1. <<>> \in [1..0 -> Tasks] /\ IsInjective(<<>>) /\ 0 \in 0..2
        BY DEF IsInjective
      <4> QED BY <4>1 DEF Lists, ListsOf
    <3>4. graph \in [Tasks -> Lists]
      BY <3>2, <3>3, WithoutOfList
    <3>5. stuck \in SUBSET Tasks /\ critical \in SUBSET Tasks
      BY <3>1 DEF BlockedTasks
    <3>6. r = Detect(graph, stuck, critical)
      BY <1>2 DEF Deadlocks
    <3> HIDE DEF graph, stuck, critical
    <3> QED BY <3>4, <3>5, <3>6, DetectAssumption
  <2>2. low \in Seq(Reports)
    <3>1. {i \in DOMAIN r : r[i].severity # "high"} \in SUBSET (1..Len(r))
      BY <2>1, LenProperties
    <3> QED BY <1>2, <2>1, <3>1, EntriesAtProperties
  <2> DEFINE breaks == [i \in DOMAIN low |-> [step |-> "break", cycle |-> low[i].cycle]]
  <2>3. breaks \in Seq(StepsUpTo(created))
    <3>1. Len(low) \in Nat /\ DOMAIN low = 1..Len(low) /\ \A i \in 1..Len(low) : low[i] \in Reports
      BY <2>2, LenProperties, ElementOfSeq
    <3>2. \A i \in 1..Len(low) : [step |-> "break", cycle |-> low[i].cycle] \in StepsUpTo(created)
      BY <3>1 DEF Reports, StepsUpTo, Steps
    <3>3. breaks \in [1..Len(low) -> StepsUpTo(created)]
      BY <3>1, <3>2
    <3> HIDE DEF breaks
    <3> QED BY <3>1, <3>3, SeqDef
  <2> HIDE DEF breaks
  <2>4. job' \in Seq(StepsUpTo(created))
    BY <1>1, <1>2, <2>3, ConcatProperties DEF breaks
  <2>5. paused' \in {"no", "manual", "deadlock"}
    BY <1>2 DEF Sound, RunOK
  <2>6. r = <<>> => CyclesIn(r) = {}
    BY DEF CyclesIn
  <2>7. RecordedDeadlocksPause'
    BY <1>2, <2>6 DEF RecordedDeadlocksPause
  <2> QED BY <2>4, <2>5, <2>7
<1>3. /\ job' \in Seq(StepsUpTo(created)) /\ paused' \in {"no", "manual", "deadlock"}
      /\ RecordedDeadlocksPause'
  <2>1. CASE paused = "manual"
    BY <1>1, <2>1 DEF StepDetect, RecordedDeadlocksPause
  <2>2. CASE paused # "manual"
    <3> DEFINE r == Deadlocks(task, live)
               low == EntriesAt(r, {i \in DOMAIN r : r[i].severity # "high"})
    <3>1. /\ detected' = CyclesIn(r)
          /\ paused' = IF r = <<>> THEN paused ELSE "deadlock"
          /\ job' = [i \in DOMAIN low |-> [step |-> "break", cycle |-> low[i].cycle]] \o Tail(job)
      BY <2>2 DEF StepDetect
    <3> HIDE DEF r
    <3> QED BY <1>2, <3>1 DEF r
  <2> QED BY <2>1, <2>2
<1>4. CountsOK' /\ RunOK' /\ PendingIsLive'
  BY <1>1, <1>3 DEF Sound, CountsOK, RunOK, PendingIsLive
<1> QED BY <1>1, <1>3, <1>4, BoardKept DEF SameAgents

LEMMA BreakInv ==
  ASSUME Sound, StepBreak
  PROVE  SoundStep /\ SameAgents(task, task')
<1>1. /\ UNCHANGED <<created, live, load, pending, inbox, planning, executing, paused, requests>>
      /\ job' = Tail(job) /\ Tail(job) \in Seq(StepsUpTo(created))
  BY NextStep DEF StepBreak, runVars, Sound
<1>2. task' \in TaskMaps /\ SameTree(task, task') /\ SameAgents(task, task')
  BY BreakProperties DEF StepBreak, Sound, BoardOK
<1>3. live \subseteq Tasks
  BY TaskAssumption DEF Sound, BoardOK, Tasks
<1>4. LinksStaySound
  BY <1>1, <1>2, <1>3, TreeKept
<1>5. CountsOK' /\ BoardOK' /\ RunOK' /\ PendingIsLive'
  BY <1>1, <1>2 DEF Sound, CountsOK, BoardOK, RunOK, PendingIsLive
<1> QED BY <1>2, <1>4, <1>5 DEF Sound, SoundStep

(***************************************************************************)
(* What starts the jobs, and the LLM calls of run().                       *)
(***************************************************************************)
LEMMA StarterInv ==
  ASSUME Sound, PMMainLoop \/ DeadlockCheck
  PROVE  SoundStep
<1>1. UNCHANGED <<task, created, live, load, pending, inbox, planning, executing, paused, requests>>
  BY DEF PMMainLoop, DeadlockCheck, boardVars, runVars
<1>2. \A k \in {"message", "distribute", "detect"} : [step |-> k] \in StepsUpTo(created)
  BY DEF StepsUpTo, Steps
<1>3. job' \in Seq(StepsUpTo(created))
  <2> DEFINE one == [step |-> "message"]
             two == [step |-> "distribute"]
             three == [step |-> "detect"]
  <2>1. one \in StepsUpTo(created) /\ two \in StepsUpTo(created) /\ three \in StepsUpTo(created)
    BY <1>2
  <2>2. job' = <<one, two, one>> \/ job' = <<three>>
    BY DEF PMMainLoop, DeadlockCheck
  <2> HIDE DEF one, two, three
  <2>3. ASSUME NEW x \in StepsUpTo(created), NEW y \in StepsUpTo(created)
        PROVE  <<x, y, x>> \in Seq(StepsUpTo(created)) /\ <<x>> \in Seq(StepsUpTo(created))
    OBVIOUS
  <2> QED BY <2>1, <2>2, <2>3
<1>4. CountsOK' /\ RunOK' /\ PendingIsLive'
  BY <1>1, <1>3 DEF Sound, CountsOK, RunOK, PendingIsLive
<1> QED BY <1>1, <1>4, BoardKept

LEMMA LoseInv ==
  ASSUME Sound, NEW m \in Messages, LoseMessage(m)
  PROVE  SoundStep
<1>1. UNCHANGED <<task, created, live, load, pending, planning, executing, paused, requests, job>>
  BY DEF LoseMessage, runVars
<1>2. inbox' \in [Messages -> 0..MaxCopies]
  BY DEF LoseMessage, Sound, CountsOK
<1>3. CountsOK' /\ RunOK' /\ PendingIsLive'
  BY <1>1, <1>2 DEF Sound, CountsOK, RunOK, PendingIsLive
<1> QED BY <1>1, <1>3, BoardKept

LEMMA RunEndsInv ==
  ASSUME Sound, NEW t \in Tasks, RunFailed(t) \/ ExecuteTask(t)
  PROVE  SoundStep
<1>1. UNCHANGED <<task, created, live, load, pending, paused, requests, job>>
  BY DEF RunFailed, ExecuteTask, boardVars
<1>2. planning' \subseteq planning /\ executing' \subseteq executing
  BY DEF RunFailed, ExecuteTask
<1>3. inbox' \in [Messages -> 0..MaxCopies]
  <2>1. <<"result", t>> \in Messages
    BY DEF Messages
  <2>2. CASE UNCHANGED inbox
    BY <2>2 DEF Sound, CountsOK
  <2>3. CASE /\ inbox[<<"result", t>>] < MaxCopies
             /\ inbox' = [inbox EXCEPT ![<<"result", t>>] = @ + 1]
    BY <2>1, <2>3 DEF Sound, CountsOK
  <2> QED BY <2>2, <2>3 DEF RunFailed, ExecuteTask, boardVars
<1>4. CountsOK' /\ RunOK' /\ PendingIsLive'
  BY <1>1, <1>2, <1>3 DEF Sound, CountsOK, RunOK, PendingIsLive
<1> QED BY <1>1, <1>4, BoardKept

\* A new task is typed and has no children.
LEMMA NewTaskTyped ==
  ASSUME NEW p \in Levels, NEW parent \in Tasks \cup {NoTask}, NEW deps \in Lists,
         NEW a \in Agents \cup {NoAgent}
  PROVE  /\ NewTask(p, parent, deps, a) \in TaskRecords
         /\ NewTask(p, parent, deps, a).children = {}
         /\ NewTask(p, parent, deps, a).parent = parent
BY DEF NewTask, TaskRecords, States

\* The empty list, of a task without dependencies.
LEMMA NoDeps == <<>> \in Lists
<1>1. <<>> \in [1..0 -> Tasks] /\ IsInjective(<<>>) /\ 0 \in 0..2
  BY DEF IsInjective
<1> QED BY <1>1 DEF Lists, ListsOf

\* New tasks without children keep the links sound.
LEMMA TreeGrows ==
  ASSUME Sound, live \subseteq live',
         \A t \in Tasks : \/ t > created /\ t \in live' /\ task'[t].children = {}
                          \/ task'[t].children = task[t].children /\ task'[t].parent = task[t].parent
  PROVE  LinksStaySound
<1>1. \A t \in live : t \in Tasks /\ ~(t > created)
  BY TaskAssumption DEF Sound, BoardOK, Tasks
<1> SUFFICES ASSUME NEW p \in live \cap live', NEW c \in task'[p].children
             PROVE  IsChild(p, c)' \/ (c \in task[p].children /\ ~IsChild(p, c))
  BY DEF LinksStaySound
<1>2. c \in task[p].children
  BY <1>1
<1>3. IsChild(p, c) => c \in live' /\ task'[c].parent = p
  BY <1>1 DEF IsChild
<1> QED BY <1>2, <1>3 DEF IsChild

LEMMA DecomposedInv ==
  ASSUME Sound, NEW root \in Tasks, RunDecomposed(root)
  PROVE  SoundStep
<1>1. PICK n \in 0..2, one \in Proposals({root}), two \in Proposals({root, created + 1}) :
        LET proposed == <<one, two>>
            new == [i \in 1..n |-> created + i]
        IN  /\ created + n <= MaxTasks
            /\ task' = [t \in Tasks |-> IF t - created \in 1..n THEN proposed[t - created] ELSE task[t]]
            /\ created' = created + n
            /\ live' = live \cup ToSet(new)
            /\ job' = <<[step |-> "detect"]>>
                       \o AssignSteps(<<root>> \o ByPriority(task', new), TRUE)
  BY DEF RunDecomposed
<1> DEFINE proposed == <<one, two>>
           new == [i \in 1..n |-> created + i]
<1>2. /\ created + n <= MaxTasks /\ created' = created + n
      /\ task' = [t \in Tasks |-> IF t - created \in 1..n THEN proposed[t - created] ELSE task[t]]
      /\ live' = live \cup ToSet(new)
      /\ job' = <<[step |-> "detect"]>> \o AssignSteps(<<root>> \o ByPriority(task', new), TRUE)
  BY <1>1
<1>3. /\ root \in 1..created /\ planning' \subseteq planning
      /\ UNCHANGED <<load, pending, inbox, executing, paused, requests>>
  BY DEF RunDecomposed, Sound, RunOK
<1>4. created \in 0..MaxTasks /\ MaxTasks \in Nat /\ created' \in 0..MaxTasks /\ created <= created'
  BY <1>2, TaskAssumption DEF Sound, BoardOK
<1>5. ToSet(new) = (created + 1)..(created + n)
  <2>1. \A x \in (created + 1)..(created + n) : x - created \in 1..n /\ new[x - created] = x
    BY <1>4
  <2>2. \A i \in 1..n : new[i] \in (created + 1)..(created + n)
    BY <1>4
  <2> HIDE DEF new
  <2>3. DOMAIN new = 1..n
    BY DEF new
  <2> QED BY <2>1, <2>2, <2>3, SMTT(30) DEF ToSet
<1>6. new \in Seq(1..created')
  <2>1. n \in Nat /\ new \in [1..n -> 1..created']
    BY <1>2, <1>4
  <2> HIDE DEF new
  <2> QED BY ONLY <2>1, SeqDef
\* The tasks of the LLM are typed and childless.
<1>7. \A t \in Tasks : t - created \in 1..n =>
        proposed[t - created] \in TaskRecords /\ proposed[t - created].children = {}
  <2>1. ASSUME NEW before \in SUBSET Tasks, NEW x \in Proposals(before)
        PROVE  x \in TaskRecords /\ x.children = {}
    <3>1. PICK p \in Levels, parent \in before \cup {NoTask}, deps \in ListsOf(before) :
            x = NewTask(p, parent, deps, NoAgent)
      BY DEF Proposals
    <3>2. deps \in Lists /\ parent \in Tasks \cup {NoTask}
      BY SubLists
    <3> QED BY <3>1, <3>2, NewTaskTyped
  <2>2. one \in TaskRecords /\ one.children = {}
    BY <2>1
  <2>3. n = 2 => {root, created + 1} \in SUBSET Tasks
    BY <1>2, <1>4 DEF Tasks
  <2>4. n = 2 => two \in TaskRecords /\ two.children = {}
    BY <2>1, <2>3
  <2>5. proposed[1] = one /\ proposed[2] = two
    OBVIOUS
  <2> HIDE DEF proposed
  <2>6. \A k \in 1..n : k = 1 \/ (k = 2 /\ n = 2)
    OBVIOUS
  <2> QED BY <2>2, <2>4, <2>5, <2>6
<1> HIDE DEF new, proposed
<1>8. task' \in TaskMaps
  BY <1>2, <1>7 DEF Sound, BoardOK, TaskMaps
<1>9. /\ live \subseteq live' /\ live' \in SUBSET (1..created') /\ live' \subseteq Tasks
  BY <1>2, <1>4, <1>5 DEF Sound, BoardOK, Tasks
<1>10. LinksStaySound
  <2>1. \A t \in Tasks : \/ t > created /\ t \in live' /\ task'[t].children = {}
                         \/ task'[t].children = task[t].children /\ task'[t].parent = task[t].parent
    <3> SUFFICES ASSUME NEW t \in Tasks
                 PROVE  \/ t > created /\ t \in live' /\ task'[t].children = {}
                        \/ task'[t].children = task[t].children /\ task'[t].parent = task[t].parent
      OBVIOUS
    <3>1. CASE t - created \in 1..n
      <4>1. t \in (created + 1)..(created + n) /\ t > created
        BY <1>4, <3>1 DEF Tasks
      <4> QED BY <1>2, <1>5, <1>7, <3>1, <4>1
    <3>2. CASE t - created \notin 1..n
      BY <1>2, <3>2
    <3> QED BY <3>1, <3>2
  <2> QED BY <1>9, <2>1, TreeGrows
<1>11. job' \in Seq(StepsUpTo(created'))
  <2>1. <<root>> \in Seq(1..created')
    BY <1>3, <1>4
  <2>2. ByPriority(task', new) \in Seq(1..created')
    BY <1>6, ByPriorityTyped
  <2>3. <<root>> \o ByPriority(task', new) \in Seq(1..created')
    BY <2>1, <2>2, ConcatProperties
  <2>4. AssignSteps(<<root>> \o ByPriority(task', new), TRUE) \in Seq(StepsUpTo(created'))
    BY <1>4, <2>3, AssignStepsTyped
  <2>5. [step |-> "detect"] \in StepsUpTo(created')
    BY DEF StepsUpTo, Steps
  <2>6. <<[step |-> "detect"]>> \in Seq(StepsUpTo(created'))
    BY <2>5
  <2> QED BY <1>2, <2>4, <2>6, ConcatProperties
<1>12. PendingIsLive' /\ CountsOK' /\ BoardOK'
  BY <1>3, <1>4, <1>8, <1>9 DEF Sound, PendingIsLive, CountsOK, BoardOK
<1>13. RunOK'
  <2>1. 1..created \subseteq 1..created'
    BY <1>4
  <2>2. planning' \in SUBSET (1..created') /\ executing' \in SUBSET (1..created')
    BY <1>3, <2>1 DEF Sound, RunOK
  <2> QED BY <1>3, <1>11, <2>2 DEF Sound, RunOK
<1> QED BY <1>10, <1>12, <1>13 DEF Sound, SoundStep

(***************************************************************************)
(* The HTTP API.  A request counts and leaves the job as it is.            *)
(***************************************************************************)
\* The links are as sound in T as they are now, for the tasks that stay in L.
TreeIn(T, L) ==
  \A p \in live \cap L : \A c \in T[p].children :
    (c \in L /\ T[c].parent = p) \/ (c \in task[p].children /\ ~IsChild(p, c))

LEMMA TreeInNow == TreeIn(task, live) /\ (TreeIn(task', live') <=> LinksStaySound)
BY DEF LinksStaySound, IsChild, TreeIn

LEMMA TreeOfSame ==
  ASSUME NEW T, NEW U, NEW L \in SUBSET Tasks, TreeIn(T, L), SameTree(T, U)
  PROVE  TreeIn(U, L)
BY DEF TreeIn, SameTree

\* What is left to show of a request that adds no step and no run.
LEMMA RequestInv ==
  ASSUME Sound, Request, CountsOK', BoardOK', TreeIn(task', live'), PendingIsLive',
         created <= created',
         planning' \in SUBSET (1..created'), executing' \in SUBSET (1..created'),
         paused' \in {"no", "manual", "deadlock"}
  PROVE  SoundStep
<1>1. requests' \in 0..MaxRequests
  BY TaskAssumption DEF Request, Sound, RunOK
<1>2. job' \in Seq(StepsUpTo(created'))
  <2>1. created \in Nat /\ created' \in Nat /\ job \in Seq(StepsUpTo(created)) /\ job' = job
    BY DEF Sound, BoardOK, RunOK, Request
  <2> QED BY <2>1, StepsGrow
<1> QED BY <1>1, <1>2, TreeInNow DEF Sound, RunOK, SoundStep

\* The tasks on the board, as the API is asked about them.
LEMMA LiveTasks ==
  ASSUME Sound
  PROVE  /\ live \subseteq Tasks /\ 1..created \subseteq Tasks
         /\ \A t \in Tasks : task[t] \in TaskRecords
         /\ TreeIn(task, live) /\ task \in TaskMaps
BY TaskAssumption, TreeInNow DEF Sound, BoardOK, TaskMaps, Tasks

LEMMA RunStartInv ==
  ASSUME Sound, RunStart
  PROVE  SoundStep
<1> DEFINE t == created + 1
           new == NewTask("high", NoTask, <<>>, NoAgent)
<1>1. /\ Request /\ created < MaxTasks /\ created' = t /\ live' = live \cup {t}
      /\ task' = [task EXCEPT ![t] = new] /\ planning' = planning \cup {t}
      /\ UNCHANGED <<load, pending, inbox, executing, paused, detected>>
  BY DEF RunStart
<1>2. created \in 0..MaxTasks /\ MaxTasks \in Nat
  BY TaskAssumption DEF Sound, BoardOK
<1>3. new \in TaskRecords /\ new.children = {}
  BY NewTaskTyped, NoDeps DEF Levels
<1> HIDE DEF new
<1>4. t \in Tasks /\ t \in 1..created' /\ created' \in 0..MaxTasks /\ 1..created \subseteq 1..created' /\ t \notin 1..created
  BY <1>1, <1>2 DEF Tasks
<1>5. task' \in TaskMaps /\ live' \in SUBSET (1..created')
  BY <1>1, <1>3, <1>4, LiveTasks DEF TaskMaps, Sound, BoardOK
<1>6. TreeIn(task', live')
  <2>1. live \subseteq live'
    BY <1>1
  <2>2. \A u \in Tasks : \/ u > created /\ u \in live' /\ task'[u].children = {}
                         \/ task'[u].children = task[u].children /\ task'[u].parent = task[u].parent
    BY <1>1, <1>2, <1>3, <1>4, LiveTasks DEF TaskMaps
  <2> QED BY <1>1, <2>1, <2>2, TreeGrows, TreeInNow
<1>7. CountsOK' /\ BoardOK' /\ PendingIsLive'
  BY <1>1, <1>4, <1>5 DEF Sound, CountsOK, BoardOK, PendingIsLive
<1>8. /\ planning' \in SUBSET (1..created') /\ executing' \in SUBSET (1..created')
      /\ paused' \in {"no", "manual", "deadlock"}
  BY <1>1, <1>4 DEF Sound, RunOK
<1> QED BY <1>1, <1>2, <1>6, <1>7, <1>8, RequestInv

LEMMA CreateTaskInv ==
  ASSUME Sound, NEW p \in Levels, NEW above, above \in live \cup {NoTask}, NEW deps \in LiveLists,
         NEW a \in Agents \cup {NoAgent}, CreateTask(p, above, deps, a)
  PROVE  SoundStep
<1> DEFINE t == created + 1
           L == live \cup {t}
           plain == NewTask(p, above, deps, a)
           new == [plain EXCEPT !.state = IF a = NoAgent THEN "unassigned" ELSE "assigned"]
           T == [task EXCEPT ![t] = new]
           K == Link(T, L, above, t)
<1>1. /\ Request /\ created < MaxTasks /\ created' = t /\ live' = L
      /\ task' = Refresh(K, L, t)
      /\ UNCHANGED <<load, pending, inbox, planning, executing, paused, detected>>
  BY DEF CreateTask, runVars
<1>2. created \in 0..MaxTasks /\ MaxTasks \in Nat
  BY TaskAssumption DEF Sound, BoardOK
<1>3. new \in TaskRecords /\ new.children = {} /\ new.parent = above
  <2>1. deps \in Lists /\ above \in Tasks \cup {NoTask}
    BY LiveTasks, SubLists DEF LiveLists
  <2> HIDE DEF plain
  <2>2. plain \in TaskRecords /\ plain.children = {} /\ plain.parent = above
    BY <2>1, NewTaskTyped DEF plain
  <2> QED BY <2>2 DEF TaskRecords, States
<1> HIDE DEF new
<1>4. t \in Tasks /\ t \in 1..created' /\ created' \in 0..MaxTasks /\ 1..created \subseteq 1..created' /\ t \notin 1..created
  BY <1>1, <1>2 DEF Tasks
<1>5. live \subseteq Tasks /\ t \notin live /\ L \subseteq Tasks /\ above # t /\ live' \in SUBSET (1..created')
  <2>1. live \in SUBSET (1..created) /\ NoTask # t
    BY <1>2 DEF Sound, BoardOK, NoTask
  <2> QED BY <1>1, <1>4, <2>1, LiveTasks
<1>6. T \in TaskMaps /\ T[t] = new /\ \A u \in Tasks \ {t} : T[u] = task[u]
  BY <1>3, <1>4, LiveTasks DEF TaskMaps
<1> HIDE DEF T, t, L, K
<1>7. /\ K \in TaskMaps
      /\ \A u \in Tasks : /\ K[u].parent = T[u].parent
                          /\ K[u].children = IF above \in L /\ u = above
                                               THEN T[u].children \cup {t} ELSE T[u].children
  <2>1. K \in TaskMaps /\ Linked(T, K, L, above, t)
    BY <1>4, <1>6, LinkProperties DEF K
  <2> QED BY <2>1 DEF Linked
<1>8. TreeIn(K, L)
  <2> SUFFICES ASSUME NEW u \in live \cap L, NEW c \in K[u].children
               PROVE  (c \in L /\ K[c].parent = u) \/ (c \in task[u].children /\ ~IsChild(u, c))
    BY DEF TreeIn
  <2>1. u \in Tasks /\ u # t
    BY <1>5
  <2>2. CASE c = t /\ u = above
    <3>1. K[c].parent = T[t].parent /\ T[t].parent = above
      BY <1>3, <1>4, <1>6, <1>7, <2>2
    <3> QED BY <2>2, <3>1 DEF L
  <2>3. CASE ~(c = t /\ u = above)
    <3>1. c \in T[u].children
      BY <1>7, <2>1, <2>3
    <3>2. c \in task[u].children
      BY <1>6, <2>1, <3>1
    <3>3. ASSUME IsChild(u, c) PROVE c \in L /\ K[c].parent = u
      <4>1. c \in live /\ task[c].parent = u
        BY <3>3 DEF IsChild
      <4>2. c \in Tasks /\ c # t /\ T[c] = task[c]
        BY <1>5, <1>6, <4>1
      <4> QED BY <1>7, <4>1, <4>2 DEF L
    <3> QED BY <3>2, <3>3
  <2> QED BY <2>2, <2>3
<1>9. task' \in TaskMaps /\ TreeIn(task', live')
  <2>1. Refresh(K, L, t) \in TaskMaps /\ SameTree(K, Refresh(K, L, t))
    BY <1>4, <1>7, RefreshProperties
  <2> QED BY <1>1, <1>5, <1>8, <2>1, TreeOfSame
<1>10. CountsOK' /\ BoardOK' /\ PendingIsLive'
  <2>1. live \subseteq live'
    BY <1>1 DEF L
  <2> QED BY <1>1, <1>4, <1>5, <1>9, <2>1 DEF Sound, CountsOK, BoardOK, PendingIsLive
<1>11. /\ planning' \in SUBSET (1..created') /\ executing' \in SUBSET (1..created')
       /\ paused' \in {"no", "manual", "deadlock"}
  BY <1>1, <1>4 DEF Sound, RunOK
<1>12. created <= created'
  BY <1>1, <1>2 DEF t
<1> QED BY <1>1, <1>9, <1>10, <1>11, <1>12, RequestInv

\* updateTask ends with a refresh, which leaves the tree alone.
LEMMA UpdateInv ==
  ASSUME Sound, NEW T \in TaskMaps, NEW t \in live, TreeIn(T, live), UpdateWith(T, t)
  PROVE  SoundStep
<1>1. /\ Request /\ task' = Refresh(T, live, t)
      /\ UNCHANGED <<created, live, load, pending, inbox, planning, executing, paused>>
  BY DEF UpdateWith, runVars
<1>2. live \subseteq Tasks /\ t \in Tasks
  BY LiveTasks
<1>3. Refresh(T, live, t) \in TaskMaps /\ SameTree(T, Refresh(T, live, t))
  BY <1>2, RefreshProperties
<1>4. task' \in TaskMaps /\ TreeIn(task', live')
  BY <1>1, <1>2, <1>3, TreeOfSame
<1>5. CountsOK' /\ BoardOK' /\ PendingIsLive'
  BY <1>1, <1>4 DEF Sound, CountsOK, BoardOK, PendingIsLive
<1>6. /\ planning' \in SUBSET (1..created') /\ executing' \in SUBSET (1..created')
      /\ paused' \in {"no", "manual", "deadlock"} /\ created <= created'
  BY <1>1 DEF Sound, RunOK, BoardOK
<1> QED BY <1>1, <1>4, <1>5, <1>6, RequestInv

\* A request that replaces one task by one in the same place of the tree.
LEMMA ReplacedInTree ==
  ASSUME Sound, NEW t \in live, NEW v \in TaskRecords,
         v.children = task[t].children, v.parent = task[t].parent
  PROVE  /\ [task EXCEPT ![t] = v] \in TaskMaps /\ TreeIn([task EXCEPT ![t] = v], live)
<1> DEFINE T == [task EXCEPT ![t] = v]
<1>1. T \in TaskMaps /\ SameTree(task, T)
  BY LiveTasks DEF TaskMaps, SameTree
<1> HIDE DEF T
<1>2. TreeIn(T, live)
  BY <1>1, LiveTasks, TreeOfSame
<1> QED BY <1>1, <1>2 DEF T

LEMMA UpdateFieldsInv ==
  ASSUME Sound, NEW t \in live,
         \/ \E deps \in LiveLists : UpdateDependencies(t, deps)
         \/ \E s \in States : UpdateState(t, s)
         \/ \E a \in Agents \cup {NoAgent} : UpdateAgent(t, a)
  PROVE  SoundStep
<1>1. t \in Tasks /\ task[t] \in TaskRecords /\ task \in TaskMaps
  BY LiveTasks
<1>2. ASSUME NEW v \in TaskRecords, v.children = task[t].children, v.parent = task[t].parent,
             UpdateWith([task EXCEPT ![t] = v], t)
      PROVE  SoundStep
  BY <1>2, ReplacedInTree, UpdateInv
<1>3. ASSUME NEW deps \in LiveLists, UpdateDependencies(t, deps) PROVE SoundStep
  <2> DEFINE v == [task[t] EXCEPT !.deps = deps]
  <2>1. deps \in Lists
    BY LiveTasks, SubLists DEF LiveLists
  <2>2. v \in TaskRecords /\ v.children = task[t].children /\ v.parent = task[t].parent
    BY <1>1, <2>1 DEF TaskRecords
  <2>3. [task EXCEPT ![t].deps = deps] = [task EXCEPT ![t] = v]
    BY <1>1 DEF TaskMaps
  <2>4. UpdateWith([task EXCEPT ![t] = v], t)
    BY <1>3, <2>3 DEF UpdateDependencies
  <2> HIDE DEF v
  <2> QED BY <1>2, <2>2, <2>4
<1>4. ASSUME NEW s \in States, UpdateState(t, s) PROVE SoundStep
  <2> DEFINE v == [task[t] EXCEPT !.state = s]
  <2>2. v \in TaskRecords /\ v.children = task[t].children /\ v.parent = task[t].parent
    BY <1>1 DEF TaskRecords
  <2>3. [task EXCEPT ![t].state = s] = [task EXCEPT ![t] = v]
    BY <1>1 DEF TaskMaps
  <2>4. UpdateWith([task EXCEPT ![t] = v], t)
    BY <1>4, <2>3 DEF UpdateState
  <2> HIDE DEF v
  <2> QED BY <1>2, <2>2, <2>4
<1>5. ASSUME NEW a \in Agents \cup {NoAgent}, UpdateAgent(t, a) PROVE SoundStep
  <2> DEFINE x == IF a # NoAgent THEN "assigned"
                  ELSE IF task[t].state = "assigned" THEN "unassigned" ELSE task[t].state
             v == [task[t] EXCEPT !.agent = a, !.state = x]
             T == [task EXCEPT ![t].agent = a,
                               ![t].state = IF a # NoAgent THEN "assigned"
                                            ELSE IF @ = "assigned" THEN "unassigned" ELSE @]
  <2>1. x \in States
    BY <1>1 DEF TaskRecords, States
  <2>2. T = [task EXCEPT ![t] = v]
    BY <1>1 DEF TaskMaps, TaskRecords
  <2>3. UpdateWith(T, t)
    BY <1>5 DEF UpdateAgent
  <2> HIDE DEF T, x
  <2>4. v \in TaskRecords /\ v.children = task[t].children /\ v.parent = task[t].parent
    BY <1>1, <2>1 DEF TaskRecords
  <2> HIDE DEF v
  <2> QED BY <1>2, <2>2, <2>3, <2>4
<1> QED BY <1>3, <1>4, <1>5

\* A task moves: it leaves the list of one parent and enters that of another.
LEMMA UpdateParentInv ==
  ASSUME Sound, NEW t \in live, NEW p, p \in live \cup {NoTask}, UpdateParent(t, p)
  PROVE  SoundStep
<1> DEFINE from == task[t].parent
           U == Unlink(task, live, from, t)
           T == [U EXCEPT ![t].parent = p]
           K == Link(T, live, p, t)
<1>1. UpdateWith(K, t)
  BY DEF UpdateParent
<1>2. t \in Tasks /\ task \in TaskMaps /\ TreeIn(task, live) /\ live \subseteq Tasks
      /\ p \in Tasks \cup {NoTask}
  BY LiveTasks
<1> HIDE DEF from, U, T, K
<1>3. U \in TaskMaps /\ Unlinked(task, U, live, from, t)
  BY <1>2, UnlinkProperties DEF U
<1>4. T \in TaskMaps
  <2> DEFINE v == [U[t] EXCEPT !.parent = p]
  <2>1. v \in TaskRecords
    BY <1>2, <1>3 DEF TaskMaps, TaskRecords
  <2>2. T = [U EXCEPT ![t] = v]
    BY <1>2, <1>3 DEF T, TaskMaps
  <2> HIDE DEF v
  <2> QED BY <1>3, <2>1, <2>2 DEF TaskMaps
<1>5. \A u \in Tasks : /\ T[u].children = U[u].children
                       /\ T[u].parent = IF u = t THEN p ELSE U[u].parent
  BY <1>2, <1>3 DEF T, TaskMaps, TaskRecords
<1>6. K \in TaskMaps /\ Linked(T, K, live, p, t)
  BY <1>2, <1>4, LinkProperties DEF K
<1>7. ASSUME NEW u \in live, NEW c \in K[u].children
      PROVE  (c \in live /\ K[c].parent = u) \/ (c \in task[u].children /\ ~IsChild(u, c))
  <2>1. u \in Tasks /\ K[t].parent = p
    BY <1>2, <1>5, <1>6 DEF Linked
  <2>2. CASE c = t
    <3>1. u = p \/ t \in U[u].children
      BY <1>5, <1>6, <2>1, <2>2 DEF Linked
    <3>2. ASSUME t \in U[u].children PROVE t \in task[u].children /\ ~IsChild(u, t)
      <4>1. t \in task[u].children /\ ~(from \in live /\ u = from)
        BY <1>3, <2>1, <3>2 DEF Unlinked
      <4> QED BY <4>1 DEF IsChild, from
    <3> QED BY <2>1, <2>2, <3>1, <3>2
  <2>3. CASE c # t
    <3>1. c \in T[u].children
      <4>1. K[u].children = T[u].children \cup {t} \/ K[u].children = T[u].children
        BY <1>6, <2>1 DEF Linked
      <4> QED BY <2>3, <4>1
    <3>2. c \in task[u].children
      BY <1>3, <1>5, <2>1, <3>1 DEF Unlinked
    <3>3. ASSUME IsChild(u, c) PROVE c \in live /\ K[c].parent = u
      <4>1. c \in live /\ task[c].parent = u
        BY <3>3 DEF IsChild
      <4>2. K[c].parent = task[c].parent
        BY <1>2, <1>3, <1>5, <1>6, <2>3, <4>1 DEF Linked, Unlinked
      <4> QED BY <4>1, <4>2
    <3> QED BY <3>2, <3>3
  <2> QED BY <2>2, <2>3
<1>9. TreeIn(K, live)
  BY <1>7 DEF TreeIn
<1> QED BY <1>1, <1>6, <1>9, UpdateInv

\* A request that settles or starts an assignment of a task on the board.
LEMMA BooksInv ==
  ASSUME Sound, Request, NEW t \in live, NEW v \in TaskRecords,
         v.children = task[t].children, v.parent = task[t].parent,
         task' = [task EXCEPT ![t] = v],
         load' \in [Agents -> Nat], pending' \in [Tasks -> Nat],
         \A u \in Tasks : pending'[u] > 0 => pending[u] > 0 \/ u = t,
         UNCHANGED <<created, live, inbox, runVars, paused>>
  PROVE  SoundStep
<1>1. task' \in TaskMaps /\ TreeIn(task', live')
  BY ReplacedInTree
<1>2. CountsOK' /\ BoardOK' /\ PendingIsLive'
  BY <1>1 DEF Sound, CountsOK, BoardOK, PendingIsLive
<1>3. /\ planning' \in SUBSET (1..created') /\ executing' \in SUBSET (1..created')
      /\ paused' \in {"no", "manual", "deadlock"} /\ created <= created'
  BY DEF Sound, RunOK, BoardOK, runVars
<1> QED BY <1>1, <1>2, <1>3, RequestInv

\* The two counters of an assignment.
LEMMA TakeTyped ==
  ASSUME NEW ld \in [Agents -> Nat], NEW pd \in [Tasks -> Nat], NEW a \in Agents, NEW t \in Tasks
  PROVE  /\ [ld EXCEPT ![a] = @ + 1] \in [Agents -> Nat]
         /\ [pd EXCEPT ![t] = @ + 1] \in [Tasks -> Nat]
         /\ \A u \in Tasks : [pd EXCEPT ![t] = @ + 1][u] > 0 => pd[u] > 0 \/ u = t
<1>1. \A x \in Agents : ld[x] + 1 \in Nat
  OBVIOUS
<1>2. \A x \in Tasks : pd[x] + 1 \in Nat
  OBVIOUS
<1> QED BY <1>1, <1>2

LEMMA AssignManuallyInv ==
  ASSUME Sound, NEW t \in live, NEW a \in Agents, AssignManually(t, a)
  PROVE  SoundStep
<1> DEFINE v == [task[t] EXCEPT !.agent = a, !.state = "assigned"]
<1>1. t \in Tasks /\ task[t] \in TaskRecords /\ task \in TaskMaps
  BY LiveTasks
<1>2. v \in TaskRecords /\ v.children = task[t].children /\ v.parent = task[t].parent
  BY <1>1 DEF TaskRecords, States
<1>3. /\ Request /\ UNCHANGED <<created, live, inbox, runVars, paused>>
      /\ load' = [load EXCEPT ![a] = @ + 1] /\ pending' = [pending EXCEPT ![t] = @ + 1]
      /\ task' = [task EXCEPT ![t].agent = a, ![t].state = "assigned"]
  BY DEF AssignManually, Take
<1>4. task' = [task EXCEPT ![t] = v]
  BY <1>1, <1>3 DEF TaskMaps, TaskRecords
<1> HIDE DEF v
<1>5. /\ load' \in [Agents -> Nat] /\ pending' \in [Tasks -> Nat]
      /\ \A u \in Tasks : pending'[u] > 0 => pending[u] > 0 \/ u = t
  BY <1>1, <1>3, TakeTyped DEF Sound, CountsOK
<1> QED BY <1>2, <1>3, <1>4, <1>5, BooksInv

LEMMA ReassignInv ==
  ASSUME Sound, NEW t \in live, NEW a \in Agents, Reassign(t, a)
  PROVE  SoundStep
<1> DEFINE freed == IF task[t].agent = NoAgent THEN load ELSE Release(load, task[t].agent, 1)
           left  == RemovePending(IF task[t].agent = NoAgent THEN {} ELSE {t})
           taken == [task[t] EXCEPT !.agent = a, !.state = "assigned"]
           x == IF task[t].agent # NoAgent /\ task[t].state \in {"assigned", "in_progress"}
                  THEN "unassigned" ELSE task[t].state
           loose == [task[t] EXCEPT !.agent = NoAgent, !.state = x]
<1>1. t \in Tasks /\ task[t] \in TaskRecords /\ task \in TaskMaps
  BY LiveTasks
<1>2. Request /\ UNCHANGED <<created, live, inbox, runVars, paused>>
  BY DEF Reassign
<1>3. freed \in [Agents -> Nat]
  BY CountProperties DEF Sound, CountsOK
<1>4. left \in [Tasks -> Nat] /\ \A u \in Tasks : left[u] > 0 => pending[u] > 0
  BY DEF RemovePending, Sound, CountsOK
<1>5. x \in States
  BY <1>1 DEF TaskRecords, States
<1>6. \/ /\ task' = [task EXCEPT ![t] = taken]
         /\ load' = [freed EXCEPT ![a] = @ + 1]
         /\ pending' = [left EXCEPT ![t] = @ + 1]
      \/ /\ task' = [task EXCEPT ![t] = loose]
         /\ load' = freed /\ pending' = left
  <2>1. CASE freed[a] < Saturation + ManualBonus
    <3>1. /\ task' = [task EXCEPT ![t].agent = a, ![t].state = "assigned"]
          /\ load' = [freed EXCEPT ![a] = @ + 1]
          /\ pending' = [left EXCEPT ![t] = @ + 1]
      BY <2>1 DEF Reassign
    <3> HIDE DEF freed, left
    <3> QED BY <1>1, <3>1 DEF TaskMaps, TaskRecords
  <2>2. CASE ~(freed[a] < Saturation + ManualBonus)
    <3>1. /\ task' = [task EXCEPT ![t].agent = NoAgent,
                     ![t].state = IF task[t].agent # NoAgent /\ @ \in {"assigned", "in_progress"}
                                    THEN "unassigned" ELSE @]
          /\ load' = freed /\ pending' = left
      BY <2>2 DEF Reassign
    <3> HIDE DEF freed, left
    <3> QED BY <1>1, <3>1 DEF TaskMaps, TaskRecords
  <2> QED BY <2>1, <2>2
<1> HIDE DEF freed, left, x
<1>7. /\ taken \in TaskRecords /\ taken.children = task[t].children /\ taken.parent = task[t].parent
      /\ loose \in TaskRecords /\ loose.children = task[t].children /\ loose.parent = task[t].parent
  BY <1>1, <1>5 DEF TaskRecords, States
<1> HIDE DEF taken, loose
<1>8. /\ load' \in [Agents -> Nat] /\ pending' \in [Tasks -> Nat]
      /\ \A u \in Tasks : pending'[u] > 0 => pending[u] > 0 \/ u = t
  <2>1. CASE load' = freed /\ pending' = left
    BY <1>3, <1>4, <2>1
  <2>2. CASE load' = [freed EXCEPT ![a] = @ + 1] /\ pending' = [left EXCEPT ![t] = @ + 1]
    <3>1. /\ load' \in [Agents -> Nat] /\ pending' \in [Tasks -> Nat]
          /\ \A u \in Tasks : pending'[u] > 0 => left[u] > 0 \/ u = t
      BY <1>1, <1>3, <1>4, <2>2, TakeTyped
    <3> QED BY <1>4, <3>1
  <2> QED BY <1>6, <2>1, <2>2
<1> QED BY <1>2, <1>6, <1>7, <1>8, BooksInv

LEMMA CompleteManuallyInv ==
  ASSUME Sound, NEW t \in live, CompleteManually(t)
  PROVE  SoundStep
<1> DEFINE v == [task[t] EXCEPT !.state = "completed"]
<1>1. t \in Tasks /\ task[t] \in TaskRecords /\ task \in TaskMaps
  BY LiveTasks
<1>2. v \in TaskRecords /\ v.children = task[t].children /\ v.parent = task[t].parent
  BY <1>1 DEF TaskRecords, States
<1>3. /\ Request /\ UNCHANGED <<created, live, inbox, runVars, paused>>
      /\ task' = [task EXCEPT ![t].state = "completed"]
      /\ load' = Release(load, task[t].agent, 1) /\ pending' = SettleOne(t)
  BY DEF CompleteManually
<1>4. task' = [task EXCEPT ![t] = v]
  BY <1>1, <1>3 DEF TaskMaps
<1> HIDE DEF v
<1>5. load' \in [Agents -> Nat]
  BY <1>3, CountProperties DEF Sound, CountsOK
<1>6. pending' \in [Tasks -> Nat] /\ \A u \in Tasks : pending'[u] > 0 => pending[u] > 0
  BY <1>1, <1>3 DEF SettleOne, Sound, CountsOK
<1> QED BY <1>2, <1>3, <1>4, <1>5, <1>6, BooksInv

(***************************************************************************)
(* deleteTask.  Nothing that stays refers to a task that goes.             *)
(***************************************************************************)
LEMMA CollectedProperties ==
  ASSUME NEW t \in Tasks, NEW cascade \in BOOLEAN
  PROVE  Collected(t, cascade) \in SUBSET Tasks
BY DEF Collected, Below

LEMMA SurvivorTyped ==
  ASSUME NEW T \in TaskMaps, NEW R, NEW s \in Tasks
  PROVE  /\ Survivor(T, R, s) \in TaskRecords
         /\ Survivor(T, R, s).children = T[s].children \ R
         /\ Survivor(T, R, s).parent = IF T[s].parent \in R THEN NoTask ELSE T[s].parent
<1> DEFINE deps == Without(T[s].deps, R)
           up == IF T[s].parent \in R THEN NoTask ELSE T[s].parent
           v == [T[s] EXCEPT !.deps = deps, !.blockedBy = @ \ R, !.children = @ \ R, !.parent = up]
<1>1. T[s] \in TaskRecords
  BY DEF TaskMaps
<1>2. deps \in Lists
  BY <1>1, WithoutOfList DEF TaskRecords
<1>3. up \in Tasks \cup {NoTask} /\ T[s].blockedBy \ R \in SUBSET Tasks /\ T[s].children \ R \in SUBSET Tasks
  BY <1>1 DEF TaskRecords
<1>4. Survivor(T, R, s) = v
  BY DEF Survivor
<1> HIDE DEF deps, up
<1>5. v \in TaskRecords /\ v.children = T[s].children \ R /\ v.parent = up
  BY <1>1, <1>2, <1>3 DEF TaskRecords
<1> HIDE DEF v
<1> QED BY <1>4, <1>5 DEF up

LEMMA DeleteTaskInv ==
  ASSUME Sound, NEW t \in live, NEW cascade \in BOOLEAN, DeleteTask(t, cascade)
  PROVE  SoundStep
<1> DEFINE C == Collected(t, cascade)
           R == C \cap live
           left == live \ C
<1>1. /\ Request
      /\ live' = left
      /\ load' = [a \in Agents |-> Release(load, a, Cardinality({s \in R : task[s].agent = a}))[a]]
      /\ pending' = RemovePending(R)
      /\ UNCHANGED <<created, inbox, planning, executing, paused, detected>>
  BY DEF DeleteTask, runVars
<1>2. PICK K \in KeptIn(R, t) :
        LET unlinked(s) == {c \in R \ K : task[c].parent = s}
            T == [s \in Tasks |-> IF s \in left THEN Survivor(task, C, s)
                                  ELSE IF s \in R THEN [task[s] EXCEPT !.children = @ \ unlinked(s)]
                                  ELSE task[s]]
            touched == {s \in left : \/ T[s].deps # task[s].deps
                                     \/ T[s].blockedBy # task[s].blockedBy}
        IN  task' = [s \in Tasks |-> IF s \in touched THEN Refresh(T, left, s)[s] ELSE T[s]]
  BY DEF DeleteTask
<1> DEFINE unlinked(s) == {c \in R \ K : task[c].parent = s}
           T == [s \in Tasks |-> IF s \in left THEN Survivor(task, C, s)
                                 ELSE IF s \in R THEN [task[s] EXCEPT !.children = @ \ unlinked(s)]
                                 ELSE task[s]]
           touched == {s \in left : \/ T[s].deps # task[s].deps
                                    \/ T[s].blockedBy # task[s].blockedBy}
<1>2a. task' = [s \in Tasks |-> IF s \in touched THEN Refresh(T, left, s)[s] ELSE T[s]]
  BY <1>2
<1> HIDE DEF C, unlinked
<1>3. live \subseteq Tasks /\ task \in TaskMaps /\ C \subseteq Tasks /\ left \subseteq Tasks
  BY LiveTasks, CollectedProperties DEF C
<1>4. ASSUME NEW s \in Tasks
      PROVE  /\ T[s] \in TaskRecords
             /\ s \in left => T[s].children = task[s].children \ C
             /\ s \in left => T[s].parent = IF task[s].parent \in C THEN NoTask ELSE task[s].parent
  <2>1. CASE s \in left
    BY <1>3, <2>1, SurvivorTyped
  <2>2. CASE s \in R
    <3> DEFINE v == [task[s] EXCEPT !.children = @ \ unlinked(s)]
    <3>1. T[s] = v
      BY <2>2
    <3>2. task[s] \in TaskRecords
      BY <1>3 DEF TaskMaps
    <3>3. v \in TaskRecords
      BY <3>2 DEF TaskRecords
    <3> HIDE DEF v
    <3> QED BY <2>2, <3>1, <3>3
  <2>3. CASE s \notin left /\ s \notin R
    <3>1. T[s] = task[s]
      BY <2>3
    <3>2. task[s] \in TaskRecords
      BY <1>3 DEF TaskMaps
    <3> QED BY <2>3, <3>1, <3>2
  <2> QED BY <2>1, <2>2, <2>3
<1>5. T \in TaskMaps
  BY <1>4 DEF TaskMaps
<1> HIDE DEF T, touched
<1>6. task' \in TaskMaps /\ SameTree(T, task')
  <2>1. \A s \in Tasks : Refresh(T, left, s) \in TaskMaps /\ SameTree(T, Refresh(T, left, s))
    BY <1>3, <1>5, RefreshProperties
  <2> QED BY <1>2a, <1>5, <2>1 DEF TaskMaps, SameTree
<1>7. TreeIn(T, left)
  <2> SUFFICES ASSUME NEW p \in live \cap left, NEW c \in T[p].children
               PROVE  (c \in left /\ T[c].parent = p) \/ (c \in task[p].children /\ ~IsChild(p, c))
    BY DEF TreeIn
  <2>1. c \in task[p].children /\ c \notin C /\ p \notin C
    BY <1>3, <1>4
  <2>2. ASSUME IsChild(p, c) PROVE c \in left /\ T[c].parent = p
    <3>1. c \in live /\ task[c].parent = p
      BY <2>2 DEF IsChild
    <3> QED BY <1>3, <1>4, <2>1, <3>1
  <2> QED BY <2>1, <2>2
<1>8. TreeIn(task', live')
  <2>1. TreeIn(task', left)
    BY <1>3, <1>6, <1>7, TreeOfSame
  <2> HIDE DEF left
  <2> QED BY <1>1, <2>1
<1>9. load' \in [Agents -> Nat]
  <2>1. IsFiniteSet(R)
    <3>1. IsFiniteSet(Tasks)
      BY FS_Interval, TaskAssumption DEF Tasks
    <3>2. R \subseteq Tasks
      BY <1>3
    <3> QED BY <3>1, <3>2, FS_Subset
  <2>2. ASSUME NEW a \in Agents
        PROVE  Release(load, a, Cardinality({s \in R : task[s].agent = a}))[a] \in Nat
    <3>1. IsFiniteSet({s \in R : task[s].agent = a})
      BY <2>1, FS_Subset
    <3>2. Cardinality({s \in R : task[s].agent = a}) \in Nat
      BY <3>1, FS_CardinalityType
    <3>3. Release(load, a, Cardinality({s \in R : task[s].agent = a})) \in [Agents -> Nat]
      BY <3>2, CountProperties DEF Sound, CountsOK
    <3> QED BY <3>3
  <2> QED BY <1>1, <2>2
<1>10. pending' \in [Tasks -> Nat] /\ \A u \in Tasks : pending'[u] > 0 => u \in left
  BY <1>1 DEF RemovePending, Sound, CountsOK, PendingIsLive
<1>11. CountsOK' /\ BoardOK' /\ PendingIsLive'
  BY <1>1, <1>6, <1>9, <1>10 DEF Sound, CountsOK, BoardOK, PendingIsLive
<1>12. /\ planning' \in SUBSET (1..created') /\ executing' \in SUBSET (1..created')
       /\ paused' \in {"no", "manual", "deadlock"} /\ created <= created'
  BY <1>1 DEF Sound, RunOK, BoardOK
<1> QED BY <1>1, <1>8, <1>11, <1>12, RequestInv

(***************************************************************************)
(* The requests that leave the tasks in place.                             *)
(***************************************************************************)
LEMMA ResolveInv ==
  ASSUME Sound, NEW c, ResolveDeadlock(c)
  PROVE  SoundStep
<1>1. /\ Request /\ task' = BreakCycle(task, live, c)
      /\ UNCHANGED <<created, live, load, pending, inbox, planning, executing, paused>>
  BY DEF ResolveDeadlock, runVars
<1>2. task' \in TaskMaps /\ SameTree(task, task')
  BY <1>1, LiveTasks, BreakProperties
<1>3. TreeIn(task', live')
  BY <1>1, <1>2, LiveTasks, TreeOfSame
<1>4. CountsOK' /\ BoardOK' /\ PendingIsLive'
  BY <1>1, <1>2 DEF Sound, CountsOK, BoardOK, PendingIsLive
<1>5. /\ planning' \in SUBSET (1..created') /\ executing' \in SUBSET (1..created')
      /\ paused' \in {"no", "manual", "deadlock"} /\ created <= created'
  BY <1>1 DEF Sound, RunOK, BoardOK
<1> QED BY <1>1, <1>3, <1>4, <1>5, RequestInv

LEMMA PauseInv ==
  ASSUME Sound, \/ Pause \/ Resume \/ \E m \in Messages : SendToPM(m)
  PROVE  SoundStep
<1>1. /\ Request /\ paused' \in {"no", "manual", "deadlock"}
      /\ UNCHANGED <<task, created, live, load, pending, planning, executing>>
  BY DEF Pause, Resume, SendToPM, boardVars, runVars, Sound, RunOK
<1>2. inbox' \in [Messages -> 0..MaxCopies]
  <2>1. CASE UNCHANGED inbox
    BY <2>1 DEF Sound, CountsOK
  <2>2. CASE \E m \in Messages : SendToPM(m)
    BY <2>2, TaskAssumption DEF SendToPM, Sound, CountsOK
  <2> QED BY <2>1, <2>2 DEF Pause, Resume, boardVars
<1>3. TreeIn(task', live')
  BY <1>1, LiveTasks
<1>4. CountsOK' /\ BoardOK' /\ PendingIsLive'
  BY <1>1, <1>2 DEF Sound, CountsOK, BoardOK, PendingIsLive
<1>5. planning' \in SUBSET (1..created') /\ executing' \in SUBSET (1..created') /\ created <= created'
  BY <1>1 DEF Sound, RunOK, BoardOK
<1> QED BY <1>1, <1>3, <1>4, <1>5, RequestInv

LEMMA ApiInv ==
  ASSUME Sound, ApiNext
  PROVE  SoundStep
<1>1. ASSUME NEW p \in Levels, NEW parent \in live \cup {NoTask}, NEW deps \in LiveLists,
             NEW a \in Agents \cup {NoAgent}, CreateTask(p, parent, deps, a)
      PROVE  SoundStep
  BY <1>1, CreateTaskInv
<1>2. ASSUME NEW t \in live,
             \/ \E deps \in LiveLists : UpdateDependencies(t, deps)
             \/ \E s \in States : UpdateState(t, s)
             \/ \E a \in Agents \cup {NoAgent} : UpdateAgent(t, a)
      PROVE  SoundStep
  BY <1>2, UpdateFieldsInv
<1>3. ASSUME NEW t \in live, NEW p \in live \cup {NoTask}, UpdateParent(t, p)
      PROVE  SoundStep
  BY <1>3, UpdateParentInv
<1>4. ASSUME NEW t \in live, NEW a \in Agents, AssignManually(t, a) \/ Reassign(t, a)
      PROVE  SoundStep
  BY <1>4, AssignManuallyInv, ReassignInv
<1>5. ASSUME NEW t \in live, CompleteManually(t) PROVE SoundStep
  BY <1>5, CompleteManuallyInv
<1>6. ASSUME NEW t \in live, NEW cascade \in BOOLEAN, DeleteTask(t, cascade) PROVE SoundStep
  BY <1>6, DeleteTaskInv
<1>7. ASSUME NEW c \in detected, ResolveDeadlock(c) PROVE SoundStep
  BY <1>7, ResolveInv
<1>8. ASSUME \/ RunStart \/ Pause \/ Resume \/ \E m \in Messages : SendToPM(m) PROVE SoundStep
  BY <1>8, RunStartInv, PauseInv
<1> QED BY <1>1, <1>2, <1>3, <1>4, <1>5, <1>6, <1>7, <1>8 DEF ApiNext

\* Requests, and the other steps that are no steps of a job, leave a running
\* handler alone.
LEMMA RunningAlone ==
  ASSUME job # <<>>, TasksNext
  PROVE  JobNext
<1>1. ~Idle
  BY DEF Idle
<1>2. ~PMMainLoop /\ ~DeadlockCheck /\ \A m \in Messages : ~LoseMessage(m)
  BY <1>1 DEF PMMainLoop, DeadlockCheck, LoseMessage
<1>3. \A t \in Tasks : ~RunDecomposed(t) /\ ~RunFailed(t) /\ ~ExecuteTask(t)
  BY <1>1 DEF RunDecomposed, RunFailed, ExecuteTask
<1>4. ~Request
  BY <1>1 DEF Request
<1>5. /\ ~RunStart /\ ~Pause /\ ~Resume /\ \A m \in Messages : ~SendToPM(m)
      /\ \A c : ~ResolveDeadlock(c)
  BY <1>4 DEF RunStart, Pause, Resume, SendToPM, ResolveDeadlock
<1>6. \A p, parent, deps, a : ~CreateTask(p, parent, deps, a)
  BY <1>4 DEF CreateTask
<1>7. ASSUME NEW t
      PROVE  /\ \A x : ~UpdateDependencies(t, x) /\ ~UpdateState(t, x) /\ ~UpdateAgent(t, x)
                       /\ ~UpdateParent(t, x)
             /\ ~CompleteManually(t)
             /\ \A x : ~AssignManually(t, x) /\ ~Reassign(t, x) /\ ~DeleteTask(t, x)
  BY <1>4 DEF UpdateWith, UpdateDependencies, UpdateState, UpdateAgent, UpdateParent,
              CompleteManually, AssignManually, Reassign, DeleteTask
<1>8. ~ApiNext
  BY <1>5, <1>6, <1>7 DEF ApiNext
<1> QED BY <1>2, <1>3, <1>8 DEF TasksNext

\* Only the check and three requests touch the pause or the deadlocks found.
LEMMA PauseSteps ==
  ASSUME RecordedDeadlocksPause, TasksNext, ~StepDetect
  PROVE  RecordedDeadlocksPause'
<1>1. CASE UNCHANGED <<detected, paused>>
  BY <1>1 DEF RecordedDeadlocksPause
<1>2. CASE Pause \/ Resume
  BY <1>2 DEF Pause, Resume, RecordedDeadlocksPause
<1>3. CASE \E c \in detected : ResolveDeadlock(c)
  BY <1>3 DEF ResolveDeadlock, RecordedDeadlocksPause
<1>4. ASSUME JobNext PROVE UNCHANGED <<detected, paused>>
  BY <1>4 DEF JobNext, StepMessage, StepDistribute, StepAssign, StepBreak
<1>5. ASSUME PMMainLoop \/ DeadlockCheck \/ \E m \in Messages : LoseMessage(m)
      PROVE  UNCHANGED <<detected, paused>>
  BY <1>5 DEF PMMainLoop, DeadlockCheck, LoseMessage
<1>6. ASSUME \E t \in Tasks : RunDecomposed(t) \/ RunFailed(t) \/ ExecuteTask(t)
      PROVE  UNCHANGED <<detected, paused>>
  BY <1>6 DEF RunDecomposed, RunFailed, ExecuteTask
<1>7. ASSUME ApiNext, ~Pause, ~Resume, ~\E c \in detected : ResolveDeadlock(c)
      PROVE  UNCHANGED <<detected, paused>>
  <2>1. ASSUME NEW t \in live,
               \/ \E deps \in LiveLists : UpdateDependencies(t, deps)
               \/ \E s \in States : UpdateState(t, s)
               \/ \E a \in Agents \cup {NoAgent} : UpdateAgent(t, a)
               \/ \E p \in live \cup {NoTask} : UpdateParent(t, p)
        PROVE  UNCHANGED <<detected, paused>>
    BY <2>1 DEF UpdateWith, UpdateDependencies, UpdateState, UpdateAgent, UpdateParent
  <2>2. ASSUME NEW t \in live,
               \/ \E a \in Agents : AssignManually(t, a) \/ Reassign(t, a)
               \/ CompleteManually(t)
               \/ \E cascade \in BOOLEAN : DeleteTask(t, cascade)
        PROVE  UNCHANGED <<detected, paused>>
    BY <2>2 DEF AssignManually, Reassign, CompleteManually, DeleteTask
  <2>3. ASSUME NEW p \in Levels, NEW parent \in live \cup {NoTask}, NEW deps \in LiveLists,
               NEW a \in Agents \cup {NoAgent}, CreateTask(p, parent, deps, a)
        PROVE  UNCHANGED <<detected, paused>>
    BY <2>3 DEF CreateTask
  <2>4. ASSUME RunStart \/ \E m \in Messages : SendToPM(m)
        PROVE  UNCHANGED <<detected, paused>>
    BY <2>4 DEF RunStart, SendToPM
  <2> QED BY <1>7, <2>1, <2>2, <2>3, <2>4 DEF ApiNext
<1> QED BY <1>1, <1>2, <1>3, <1>4, <1>5, <1>6, <1>7 DEF TasksNext

LEMMA BoardInitInv == TasksInit => Sound /\ RecordedDeadlocksPause
<1> SUFFICES ASSUME TasksInit PROVE Sound /\ RecordedDeadlocksPause
  OBVIOUS
<1> DEFINE none == NewTask("low", NoTask, <<>>, NoAgent)
<1>1. none \in TaskRecords /\ none.children = {}
  BY NewTaskTyped, NoDeps DEF Levels
<1>2. task = [t \in Tasks |-> none]
  BY DEF TasksInit
<1> HIDE DEF none
<1>3. task \in TaskMaps
  BY <1>1, <1>2 DEF TaskMaps, TasksInit
<1>4. CountsOK /\ PendingIsLive /\ RecordedDeadlocksPause
  BY TaskAssumption DEF TasksInit, CountsOK, PendingIsLive, RecordedDeadlocksPause
<1>5. RunOK /\ BoardOK
  <2>1. job \in Seq(StepsUpTo(created))
    BY DEF TasksInit
  <2> QED BY <1>3, <2>1, TaskAssumption DEF TasksInit, RunOK, BoardOK
<1> QED BY <1>3, <1>4, <1>5 DEF Sound

LEMMA StepInv ==
  ASSUME Sound, RecordedDeadlocksPause, [TasksNext]_vars
  PROVE  SoundStep /\ RecordedDeadlocksPause'
<1>1. CASE StepDetect
  BY <1>1, DetectInv
<1>2. CASE UNCHANGED vars
  <2>1. CountsOK' /\ RunOK' /\ PendingIsLive' /\ RecordedDeadlocksPause'
    BY <1>2 DEF vars, boardVars, runVars, Sound, CountsOK, RunOK, PendingIsLive, RecordedDeadlocksPause
  <2> QED BY <1>2, <2>1, BoardKept DEF vars, boardVars
<1>3. CASE TasksNext /\ ~StepDetect
  <2>1. CASE JobNext
    BY <1>3, <2>1, MessageInv, DistributeInv, AssignInv, BreakInv, PauseSteps DEF JobNext
  <2>2. CASE PMMainLoop \/ DeadlockCheck
    BY <1>3, <2>2, StarterInv, PauseSteps
  <2>3. CASE \E m \in Messages : LoseMessage(m)
    BY <1>3, <2>3, LoseInv, PauseSteps
  <2>4. CASE \E t \in Tasks : RunDecomposed(t) \/ RunFailed(t) \/ ExecuteTask(t)
    BY <1>3, <2>4, DecomposedInv, RunEndsInv, PauseSteps
  <2>5. CASE ApiNext
    BY <1>3, <2>5, ApiInv, PauseSteps
  <2> QED BY <1>3, <2>1, <2>2, <2>3, <2>4, <2>5 DEF TasksNext
<1> QED BY <1>1, <1>2, <1>3

\* The inductive invariant of the task board.
THEOREM BoardInvHolds == TasksSafetySpec => [](Sound /\ RecordedDeadlocksPause)
<1>1. TasksInit => Sound /\ RecordedDeadlocksPause
  BY BoardInitInv
<1>2. Sound /\ RecordedDeadlocksPause /\ [TasksNext]_vars => (Sound /\ RecordedDeadlocksPause)'
  BY StepInv DEF SoundStep
<1> QED BY <1>1, <1>2, PTL DEF TasksSafetySpec

\* Whatever is moved, completed or deleted in whatever order, by users, the PM loop
\* and run(): an assignment is pending for a task of the board only, and both ends of
\* a link of the tree agree, but for the lists of deleted roots that run() brings back.
THEOREM BoardIsAlwaysSound == TasksSafetySpec => BoardIsSound
<1>1. Sound => TasksTypeOK /\ PendingIsLive
  BY InvParts DEF Sound, BoardInv
<1>2. Sound /\ RecordedDeadlocksPause /\ [TasksNext]_vars => [LinksStaySound]_vars
  BY StepInv DEF SoundStep
<1> QED BY <1>1, <1>2, BoardInvHolds, PTL DEF TasksSafetySpec, BoardIsSound

\* A deadlock on record never leaves the board running.
THEOREM DeadlocksPauseTheBoard == TasksSafetySpec => []RecordedDeadlocksPause
BY BoardInvHolds, PTL

\* Within a handler only the body of the distribution loop assigns, and it has
\* just looked at the dependencies and the pause.
LEMMA EarlyStep ==
  ASSUME Sound, RecordedDeadlocksPause, [TasksNext]_vars, job # <<>>, NEW t \in Tasks,
         task'[t].agent # task[t].agent
  PROVE  paused = "no" /\ \A d \in ToSet(task[t].deps) : Completed(task, live, d)
<1>1. ~UNCHANGED task
  OBVIOUS
<1>2. JobNext
  BY <1>1, RunningAlone DEF vars, boardVars
<1>3. StepAssign
  BY <1>2, MessageInv, DistributeInv, DetectInv, BreakInv DEF JobNext, SameAgents
<1> DEFINE u == Head(job).task
<1>4. u \in Tasks /\ task \in TaskMaps
  BY <1>3, NextStep, LiveTasks DEF StepAssign, Sound
<1>5. \/ /\ Distributable(u)
         /\ task' = [task EXCEPT ![u].state = "blocked", ![u].blockedBy = Unmet(task, live, u)]
      \/ /\ Distributable(u) /\ Unmet(task, live, u) = {}
         /\ \E a \in Agents : task' = [task EXCEPT ![u].agent = a, ![u].state = "assigned"]
  BY <1>1, <1>3 DEF StepAssign, boardVars
<1> HIDE DEF u
<1>6. t = u /\ Unmet(task, live, u) = {} /\ Distributable(u)
  <2>1. ASSUME task' = [task EXCEPT ![u].state = "blocked", ![u].blockedBy = Unmet(task, live, u)]
        PROVE  FALSE
    BY <1>4, <2>1 DEF TaskMaps, TaskRecords
  <2>2. ASSUME NEW a \in Agents, task' = [task EXCEPT ![u].agent = a, ![u].state = "assigned"]
        PROVE  t = u
    BY <1>4, <2>2 DEF TaskMaps, TaskRecords
  <2> QED BY <1>5, <2>1, <2>2
<1> QED BY <1>6 DEF Distributable, Unmet

\* No assignment of the PM or of run() comes before its prerequisites or while
\* the board is paused.
THEOREM NoEarlyAssignments == TasksSafetySpec => NothingAssignedEarly
<1>1. Sound /\ RecordedDeadlocksPause /\ [TasksNext]_vars
        => [\A t \in Tasks : job # <<>> /\ task[t].agent = NoAgent /\ task'[t].agent # NoAgent
              => \A d \in ToSet(task[t].deps) : Completed(task, live, d)]_vars
  BY EarlyStep
<1>2. Sound /\ RecordedDeadlocksPause /\ [TasksNext]_vars
        => [job # <<>> /\ paused # "no" => \A t \in Tasks : task'[t].agent = task[t].agent]_vars
  BY EarlyStep
<1> QED BY <1>1, <1>2, BoardInvHolds, PTL
    DEF TasksSafetySpec, NothingAssignedEarly, AssignedAfterPrerequisites, NothingAssignedWhilePaused
==============================================================================
