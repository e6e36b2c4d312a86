--------------------------- MODULE ArtifactLocking ---------------------------
(***************************************************************************)
(* The artifact lock service of the collective agents                      *)
(* (assistant-worker, artifact-locking.service.ts).                        *)
(*                                                                         *)
(* A client is one call of acquireLock together with the code that awaits  *)
(* it.  Its token is unique, so the client itself stands for its token.    *)
(* The service keeps one lock record per artifact and one FIFO of waiting  *)
(* requests.  Dates are abstracted to whether a granted lease is over.     *)
(***************************************************************************)
EXTENDS Naturals, Sequences, SequencesExt

CONSTANTS
  Clients,     \* concurrent callers of acquireLock
  Artifacts,   \* artifact identifiers
  NoLock       \* "no entry in activeLocks"

ASSUME NoLockAssumption == NoLock \notin Clients

VARIABLES
  activeLocks,  \* artifact -> the client whose token is recorded, or NoLock
  lockQueues,   \* artifact -> waiting clients, oldest first
  request,      \* client -> the artifact and lock type it asked for
  phase,        \* client -> state of the promise acquireLock returned
  leaseOver     \* client -> its expiresAt has passed

lockVars == <<activeLocks, lockQueues, request, phase, leaseOver>>

LockTypes == {"READ", "WRITE"}
Requests  == [artifact : Artifacts, lockType : LockTypes]
Phases    == {"idle", "queued", "granted"}

LockTypeOK ==
  /\ activeLocks \in [Artifacts -> Clients \cup {NoLock}]
  /\ lockQueues \in [Artifacts -> Seq(Clients)]
  /\ request \in [Clients -> Requests]
  /\ phase \in [Clients -> Phases]
  /\ leaseOver \in [Clients -> BOOLEAN]

LockInit ==
  /\ activeLocks = [a \in Artifacts |-> NoLock]
  /\ lockQueues = [a \in Artifacts |-> <<>>]
  /\ request \in [Clients -> Requests]
  /\ phase = [c \in Clients |-> "idle"]
  /\ leaseOver = [c \in Clients |-> FALSE]

-----------------------------------------------------------------------------
(***************************************************************************)
(* The helpers of the service.                                             *)
(***************************************************************************)

\* The record of artifact a is missing or past its expiresAt.
Expired(a) == activeLocks[a] # NoLock /\ leaseOver[activeLocks[a]]

\* Mutated form: the lock types are compared with each other, not with READ.
CanGrantSameType(a, lockType) ==
  \/ activeLocks[a] = NoLock
  \/ Expired(a)
  \/ request[activeLocks[a]].lockType = lockType

\* Mutated form: only the recorded type is looked at.
CanGrantOverRead(a, lockType) ==
  \/ activeLocks[a] = NoLock
  \/ Expired(a)
  \/ "READ" \in {lockType, request[activeLocks[a]].lockType}

\* canGrantLock: no record, an expired one (which it deletes), or READ on READ.
CanGrantLock(a, lockType) ==
  \/ activeLocks[a] = NoLock
  \/ Expired(a)
  \/ /\ lockType = "READ"
     /\ request[activeLocks[a]].lockType = "READ"

\* Mutated form: queue[0] is used without looking at the length.
NextHolderUnchecked(a) == Head(Append(lockQueues[a], "undefined"))

\* processLockQueue, called once the record of a is gone: only the first
\* request is looked at, and with no record it can always be granted.
NextHolder(a) ==
  IF lockQueues[a] = <<>> THEN NoLock ELSE Head(lockQueues[a])

\* Delete the records of the artifacts in S and process their queues.
FreeAll(S) ==
  /\ activeLocks' = [a \in Artifacts |->
                       IF a \in S THEN NextHolder(a) ELSE activeLocks[a]]
  /\ lockQueues' = [a \in Artifacts |->
                      IF a \in S /\ lockQueues[a] # <<>>
                        THEN Tail(lockQueues[a]) ELSE lockQueues[a]]

\* The clients whose promise FreeAll(S) resolves with a token.
Granted(S) == {c \in Clients : \E a \in S : lockQueues[a] # <<>> /\ c = Head(lockQueues[a])}

-----------------------------------------------------------------------------
(***************************************************************************)
(* The operations.                                                         *)
(***************************************************************************)

\* acquireLock: grant at once, overwriting the record, or queue the request.
AcquireLock(c, a, lockType) ==
  /\ phase[c] = "idle"
  /\ request' = [request EXCEPT ![c] = [artifact |-> a, lockType |-> lockType]]
  /\ IF CanGrantLock(a, lockType)
       THEN /\ activeLocks' = [activeLocks EXCEPT ![a] = c]
            /\ phase' = [phase EXCEPT ![c] = "granted"]
            /\ UNCHANGED lockQueues
       ELSE /\ lockQueues' = [lockQueues EXCEPT ![a] = Append(@, c)]
            /\ phase' = [phase EXCEPT ![c] = "queued"]
            /\ UNCHANGED activeLocks
  /\ leaseOver' = [leaseOver EXCEPT ![c] = FALSE]

\* Mutated form: the record is deleted and the queue is not processed.
ReleaseLockQuietly(c) ==
  /\ phase[c] = "granted"
  /\ activeLocks' = [a \in Artifacts |-> IF activeLocks[a] = c THEN NoLock ELSE activeLocks[a]]
  /\ phase' = [phase EXCEPT ![c] = "idle"]
  /\ UNCHANGED <<lockQueues, request, leaseOver>>

\* releaseLock: a token that is not the recorded one is refused without effect.
ReleaseLock(c) ==
  /\ phase[c] = "granted"
  /\ LET a == request[c].artifact
         S == IF activeLocks[a] = c THEN {a} ELSE {}
     IN  /\ FreeAll(S)
         /\ phase' = [d \in Clients |-> IF d = c THEN "idle"
                                        ELSE IF d \in Granted(S) THEN "granted"
                                        ELSE phase[d]]
  /\ UNCHANGED <<request, leaseOver>>

\* Mutated form: the promise is resolved and the request stays in the queue.
QueueTimeoutKeepsEntry(c) ==
  /\ phase[c] = "queued"
  /\ phase' = [phase EXCEPT ![c] = "idle"]
  /\ UNCHANGED <<activeLocks, lockQueues, request, leaseOver>>

\* The MAX_LOCK_WAIT_MS timer: leave the queue, resolve the promise with null.
QueueTimeout(c) ==
  /\ phase[c] = "queued"
  /\ LET a == request[c].artifact
     IN  \E k \in 1..Len(lockQueues[a]) :
           /\ lockQueues[a][k] = c
           /\ lockQueues' = [lockQueues EXCEPT ![a] = RemoveAt(@, k)]
  /\ phase' = [phase EXCEPT ![c] = "idle"]
  /\ UNCHANGED <<activeLocks, request, leaseOver>>

\* timeoutMs passes after the grant; nothing runs in the service.
LeaseExpires(c) ==
  /\ phase[c] = "granted" /\ ~leaseOver[c]
  /\ leaseOver' = [leaseOver EXCEPT ![c] = TRUE]
  /\ UNCHANGED <<activeLocks, lockQueues, request, phase>>

\* Mutated form: only artifacts that somebody waits for are looked at.
CleanupOfAwaited ==
  LET S == {a \in Artifacts : Expired(a) /\ lockQueues[a] # <<>>}
  IN  /\ S # {}
      /\ FreeAll(S)
      /\ phase' = [d \in Clients |-> IF d \in Granted(S) THEN "granted" ELSE phase[d]]
      /\ UNCHANGED <<request, leaseOver>>

\* startLockCleanup: one tick of the interval deletes every expired record
\* and processes the queue of each.
Cleanup ==
  LET S == {a \in Artifacts : Expired(a)}
  IN  /\ S # {}
      /\ FreeAll(S)
      /\ phase' = [d \in Clients |-> IF d \in Granted(S) THEN "granted" ELSE phase[d]]
      /\ UNCHANGED <<request, leaseOver>>

LockNext ==
  \/ \E c \in Clients, a \in Artifacts, t \in LockTypes : AcquireLock(c, a, t)
  \/ \E c \in Clients : ReleaseLock(c)
  \/ \E c \in Clients : QueueTimeout(c)
  \/ \E c \in Clients : LeaseExpires(c)
  \/ Cleanup

\* The interval and every wait timer fire; callers need never release.
LockFairness ==
  /\ WF_lockVars(Cleanup)
  /\ \A c \in Clients : WF_lockVars(QueueTimeout(c))

LockSpec == LockInit /\ [][LockNext]_lockVars /\ LockFairness

-----------------------------------------------------------------------------
(***************************************************************************)
(* Properties.                                                             *)
(***************************************************************************)

\* Client c has a token whose lease is still running.
Holds(c) == phase[c] = "granted" /\ ~leaseOver[c]

\* Two clients never hold running WRITE leases on one artifact: the promise
\* of canGrantLock that WRITE locks are exclusive, among writers.
WritersExclusive ==
  \A c, d \in Clients :
    /\ Holds(c) /\ request[c].lockType = "WRITE"
    /\ Holds(d) /\ request[d].lockType = "WRITE"
    /\ request[c].artifact = request[d].artifact
    => c = d

\* While a WRITE lease runs nobody is granted anything on that artifact, from
\* the queue or past it: what canGrantLock does keep of its comment.
NoGrantWhileWriting ==
  [][\A c, d \in Clients :
       /\ Holds(c) /\ request[c].lockType = "WRITE"
       /\ phase[d] # "granted" /\ phase'[d] = "granted"
       /\ request'[d].artifact = request[c].artifact
       => phase'[c] # "granted"]_lockVars

\* Nobody waits for an artifact that nobody has: every path that deletes a
\* record hands the artifact to the first waiter in the same step.
NoLostWakeup ==
  \A a \in Artifacts : activeLocks[a] = NoLock => lockQueues[a] = <<>>

\* A waiting promise has exactly one entry in the queue of its artifact, and
\* a queue entry belongs to a promise that is still waiting, so that no grant
\* goes to a caller that has already been answered.
QueueMatchesWaiters ==
  /\ \A c \in Clients : phase[c] = "queued" =>
       \E k \in 1..Len(lockQueues[request[c].artifact]) :
         lockQueues[request[c].artifact][k] = c
  /\ \A a \in Artifacts : \A k \in 1..Len(lockQueues[a]) :
       /\ phase[lockQueues[a][k]] = "queued"
       /\ request[lockQueues[a][k]].artifact = a
       /\ \A j \in 1..Len(lockQueues[a]) :
            lockQueues[a][j] = lockQueues[a][k] => j = k

\* Locks, queues and promises fit each other: the three conditions above, which
\* every grant from a queue takes on trust.
LocksAreSound == LockTypeOK /\ NoLostWakeup /\ QueueMatchesWaiters

\* The service, seen from its callers, is a lock service with leases: on every
\* artifact one lease begins at a time and none while a writer is left.
RunningLeases ==
  [a \in Artifacts |->
     {[user |-> c, type |-> request[c].lockType] :
        c \in {d \in Clients : Holds(d) /\ request[d].artifact = a}}]
Access == INSTANCE ExclusiveAccess WITH Users <- Clients, Things <- Artifacts, leases <- RunningLeases
GivesExclusiveAccess == Access!AccessSpec

\* The lock of a holder that never releases it is taken away: an expired
\* record does not stay (the cleanup interval).
ExpiredLockFreed ==
  \A a \in Artifacts, c \in Clients :
    (activeLocks[a] = c /\ leaseOver[c]) ~> (activeLocks[a] # c)
=============================================================================
