---------------------------- MODULE SharedMemory ----------------------------
(***************************************************************************)
(* The artifact board of a collective (assistant-worker,                   *)
(* shared-memory.service.ts with artifact-versioning.service.ts): create,  *)
(* update and delete under a WRITE lock of ArtifactLocking, and the locks  *)
(* users take themselves.                                                  *)
(*                                                                         *)
(* A client is one call of the service.  What follows the await of a       *)
(* granted lock, the release included, awaits nothing else: it is one      *)
(* step, and nothing but such steps happens while one is due.              *)
(***************************************************************************)
EXTENDS ArtifactLocking

CONSTANTS
  NoArtifact,  \* "no entry in artifacts"
  MaxWrites    \* bound: create and update calls

ASSUME WritesAssumption == MaxWrites \in Nat

VARIABLES
  artifacts,  \* artifact id -> its version and content, or NoArtifact
  versions,   \* artifact id -> its version history
  named,      \* the artifact ids handed out, each is generated once
  call,       \* client -> the operation it runs and what it has read or brings
  writes      \* create and update calls so far; the last one brings this content

memVars == <<artifacts, versions, named, call, writes>>
allVars == <<lockVars, memVars>>

Contents == 0..MaxWrites
ArtifactRecords == [version : 1..(MaxWrites + 1), content : Contents]
WriteOps == {"create", "update", "delete"}
NoCall == [op |-> "none", read |-> NoArtifact, content |-> 0]
Calls == [op : WriteOps \cup {"none", "lock"},
          read : ArtifactRecords \cup {NoArtifact}, content : Contents]

MemTypeOK ==
  /\ LockTypeOK
  /\ artifacts \in [Artifacts -> ArtifactRecords \cup {NoArtifact}]
  /\ versions \in [Artifacts -> Seq(ArtifactRecords)]
  /\ named \in SUBSET Artifacts
  /\ call \in [Clients -> Calls]
  /\ writes \in Contents

MemInit ==
  /\ LockInit
  /\ artifacts = [a \in Artifacts |-> NoArtifact]
  /\ versions = [a \in Artifacts |-> <<>>]
  /\ named = {}
  /\ call = [c \in Clients |-> NoCall]
  /\ writes = 0

-----------------------------------------------------------------------------
Resuming(c) == phase[c] = "granted" /\ call[c].op \in WriteOps
Settled == \A c \in Clients : ~Resuming(c)

\* createVersion: the content of x, under the number after that of x.
CreateVersion(a, x) ==
  versions' = [versions EXCEPT ![a] = Append(@, [x EXCEPT !.version = @ + 1])]

\* The calls up to the await of acquireLock.
CreateArtifact(c, a) ==
  /\ Settled /\ writes < MaxWrites /\ a \notin named
  /\ AcquireLock(c, a, "WRITE")
  /\ named' = named \cup {a}
  /\ writes' = writes + 1
  /\ call' = [call EXCEPT ![c] = [op |-> "create", read |-> NoArtifact, content |-> writes + 1]]
  /\ UNCHANGED <<artifacts, versions>>

UpdateArtifact(c, a) ==
  /\ Settled /\ writes < MaxWrites /\ artifacts[a] # NoArtifact
  /\ AcquireLock(c, a, "WRITE")
  /\ writes' = writes + 1
  /\ call' = [call EXCEPT ![c] = [op |-> "update", read |-> artifacts[a], content |-> writes + 1]]
  /\ UNCHANGED <<artifacts, versions, named>>

DeleteArtifact(c, a) ==
  /\ Settled /\ artifacts[a] # NoArtifact
  /\ AcquireLock(c, a, "WRITE")
  /\ call' = [call EXCEPT ![c] = [op |-> "delete", read |-> artifacts[a], content |-> 0]]
  /\ UNCHANGED <<artifacts, versions, named, writes>>

LockArtifact(c, a, lockType) ==
  /\ Settled /\ artifacts[a] # NoArtifact
  /\ AcquireLock(c, a, lockType)
  /\ call' = [call EXCEPT ![c] = [op |-> "lock", read |-> artifacts[a], content |-> 0]]
  /\ UNCHANGED <<artifacts, versions, named, writes>>

\* The rest of the calls, from the grant to the release in their finally.
FinishCreate(c) ==
  LET a == request[c].artifact
  IN  /\ Resuming(c) /\ call[c].op = "create"
      /\ IF artifacts[a] = NoArtifact THEN UNCHANGED versions ELSE CreateVersion(a, artifacts[a])
      /\ artifacts' = [artifacts EXCEPT ![a] = [version |-> 1, content |-> call[c].content]]

FinishUpdate(c) ==
  LET a == request[c].artifact
      artifact == call[c].read
  IN  /\ Resuming(c) /\ call[c].op = "update"
      /\ CreateVersion(a, artifact)
      /\ artifacts' = [artifacts EXCEPT ![a] =
                         [version |-> artifact.version + 1, content |-> call[c].content]]

FinishDelete(c) ==
  /\ Resuming(c) /\ call[c].op = "delete"
  /\ artifacts' = [artifacts EXCEPT ![request[c].artifact] = NoArtifact]
  /\ UNCHANGED versions

\* Mutated form: the token is given back only when the call brings content.
FinishKeepingLock(c) ==
  /\ FinishCreate(c) \/ FinishUpdate(c) \/ FinishDelete(c)
  /\ IF call[c].op = "delete" THEN UNCHANGED lockVars ELSE ReleaseLock(c)
  /\ call' = [call EXCEPT ![c] = NoCall]
  /\ UNCHANGED <<named, writes>>

Finish(c) ==
  /\ FinishCreate(c) \/ FinishUpdate(c) \/ FinishDelete(c)
  /\ ReleaseLock(c)
  /\ call' = [call EXCEPT ![c] = NoCall]
  /\ UNCHANGED <<named, writes>>

\* unlockArtifact by the user or with the token of c: refused for an artifact
\* that is gone; without effect once the record is gone or of somebody else.
UnlockArtifact(c) ==
  LET a == request[c].artifact
  IN  /\ Settled /\ call[c].op = "lock"
      /\ activeLocks[a] = c => artifacts[a] # NoArtifact
      /\ ReleaseLock(c)
      /\ call' = [call EXCEPT ![c] = NoCall]
      /\ UNCHANGED <<artifacts, versions, named, writes>>

\* Mutated form: whoever is first in line has no wait timer any more.
GiveUpBehindFirst(c) ==
  /\ Settled /\ QueueTimeout(c) /\ Head(lockQueues[request[c].artifact]) # c
  /\ call' = [call EXCEPT ![c] = NoCall]
  /\ UNCHANGED <<artifacts, versions, named, writes>>

\* The wait for the lock times out and the call throws.
GiveUp(c) ==
  /\ Settled /\ QueueTimeout(c)
  /\ call' = [call EXCEPT ![c] = NoCall]
  /\ UNCHANGED <<artifacts, versions, named, writes>>

LockTimePasses ==
  /\ Settled
  /\ Cleanup \/ \E c \in Clients : LeaseExpires(c)
  /\ UNCHANGED memVars

MemNext ==
  \/ \E c \in Clients, a \in Artifacts :
       \/ CreateArtifact(c, a) \/ UpdateArtifact(c, a) \/ DeleteArtifact(c, a)
       \/ \E t \in LockTypes : LockArtifact(c, a, t)
  \/ \E c \in Clients : Finish(c)
  \/ \E c \in Clients : UnlockArtifact(c)
  \/ \E c \in Clients : GiveUp(c)
  \/ LockTimePasses

\* A call with its lock goes on; a wait timer is served when it is due, however
\* many calls run before it.
MemFairness ==
  \A c \in Clients : WF_allVars(Finish(c)) /\ SF_allVars(GiveUp(c))

MemSpec == MemInit /\ [][MemNext]_allVars /\ MemFairness

-----------------------------------------------------------------------------
(***************************************************************************)
(* Properties.                                                             *)
(***************************************************************************)

\* The locks that outlive a step are those users asked for: no operation of
\* the service leaves its own lock behind, however it got it.
OnlyUserLocksRemain ==
  /\ MemTypeOK
  /\ Settled => \A a \in Artifacts : activeLocks[a] # NoLock => call[activeLocks[a]].op = "lock"

\* While a user holds a running WRITE lock nobody changes the artifact.
LockedIsUndisturbed ==
  [][\A c \in Clients :
       call[c].op = "lock" /\ Holds(c) /\ request[c].lockType = "WRITE"
         => artifacts'[request[c].artifact] = artifacts[request[c].artifact]]_allVars

\* Every create, update and delete is answered, even when the holder of the
\* lock never unlocks.
CallsAreAnswered ==
  \A c \in Clients : (call[c].op \in WriteOps) ~> (call[c].op = "none")

\* "Prevents concurrent modification conflicts": an update changes the
\* artifact there is, not one read before somebody else wrote or deleted it.
UpdatesBuildOnCurrent ==
  [][\A a \in Artifacts :
       (artifacts'[a] # artifacts[a] /\ artifacts'[a] # NoArtifact /\ versions'[a] # versions[a])
         => artifacts[a] # NoArtifact /\ artifacts'[a].version = artifacts[a].version + 1]_allVars
=============================================================================
