------------------------------- MODULE MCPools -------------------------------
(***************************************************************************)
(* Model checking of the two worker pools.  They share nothing: one run    *)
(* asks the same questions of both, `subject` naming the pool that moves.  *)
(***************************************************************************)
EXTENDS WorkerPool

CONSTANTS
  Calls, UrgentCalls,  \* the tasks of the assistant pool and its urgent ones
  NoTask,
  MaxFailures          \* bound: worker threads of the assistant pool that fail

ASSUME AssistantAssumption ==
  IsFiniteSet(Calls) /\ UrgentCalls \subseteq Calls /\ NoTask \notin Calls /\ MaxFailures \in Nat

VARIABLES
  subject,
  workers, available, taskQueue, running, activeTasks, created, exits,
  answer, failures, closing  \* promise, crashes and shutdown of the assistant pool

Assistant ==
  INSTANCE AssistantPool WITH Tasks <- Calls, Urgent <- UrgentCalls, MaxCrashes <- MaxFailures,
                              promise <- answer, crashes <- failures, shutdown <- closing

assistantVars ==
  <<workers, available, taskQueue, running, answer, activeTasks, created, failures, exits, closing>>

PoolsInit == subject \in {"shared", "assistant"} /\ PoolInit /\ Assistant!PoolInit

PoolsNext ==
  /\ UNCHANGED subject
  /\ \/ subject = "shared" /\ PoolNext /\ UNCHANGED assistantVars
     \/ subject = "assistant" /\ Assistant!PoolNext /\ UNCHANGED poolVars

PoolsSpec ==
  PoolsInit /\ [][PoolsNext]_<<subject, poolVars, assistantVars>>
    /\ PoolFairness /\ Assistant!PoolFairness

-----------------------------------------------------------------------------
\* No task waits beside a worker that is free: in the shared pool while no worker
\* has failed, in the assistant pool but for one worker just created.
NoIdleBacklog ==
  /\ PoolTypeOK /\ WorkConserving
  /\ Assistant!PoolTypeOK /\ Assistant!WorkConserving

\* In the assistant pool, which is one message to a worker, no worker is booked
\* twice, and no task is twice with a worker or in the queue.
BookedOnce == Assistant!BookedOnce

\* The pools keep their workers at work, and each at one thing.
PoolsAreSound == NoIdleBacklog /\ BookedOnce

\* While no worker fails and nobody shuts the pool down, every call is answered.
EveryCallSettles == CallsAreSettled /\ Assistant!CallsAreSettled

-----------------------------------------------------------------------------
(***************************************************************************)
(* What a comment of the code says and the code does not do.  The runs do  *)
(* not include these formulas; TLC reports each of them as violated when   *)
(* it replaces the properties in the configuration of this module.         *)
(***************************************************************************)

\* "Active thread pool tasks": activeTaskCount counts the messages that a
\* living worker still has to answer.
ActiveCountsRunning ==
  ~shutdown => pool.active <= Cardinality({t \in Tasks : \E w \in pool.workers : t \in ToSet(pool.posted[w])})

\* "New worker will process queue automatically": no task waits in the queue
\* while a worker is available.
NewWorkerTakesTask == taskQueue # <<>> => available = <<>>
=============================================================================
