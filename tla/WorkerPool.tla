----------------------------- MODULE WorkerPool -----------------------------
(***************************************************************************)
(* The worker thread pool that news-worker, worker-template and seven more *)
(* workers carry a copy of (threading/worker-thread-pool.ts; the lines are *)
(* those of news-worker).  assistant-worker has a pool of its own, see     *)
(* AssistantPool.                                                          *)
(*                                                                         *)
(* The pool is one record and its methods map a pool to a pool, because    *)
(* one event of a worker runs several of them.  A worker thread answers    *)
(* the messages posted to it in order; an event of a worker calls every    *)
(* listener attached to the worker when the event arrives.                 *)
(***************************************************************************)
EXTENDS Naturals, FiniteSets, Sequences, SequencesExt, Subsequences

CONSTANTS
  Tasks,       \* calls of executeTask
  Urgent,      \* those of high priority
  NoResult,    \* "the promise has not been resolved"
  MinWorkers, MaxWorkers,
  MaxCrashes   \* bound: worker threads that fail

ASSUME PoolAssumption ==
  /\ Urgent \subseteq Tasks /\ NoResult \notin Tasks
  /\ MinWorkers \in Nat /\ MaxWorkers \in Nat \ {0} /\ MinWorkers <= MaxWorkers
  /\ MaxCrashes \in Nat

VARIABLES
  pool,     \* the fields of WorkerThreadPool and what its workers hold
  promise,  \* task -> state of the promise executeTask returned
  result,   \* task -> the task whose answer its promise was resolved with
  crashes,  \* worker failures so far
  shutdown  \* shutdownRequested

poolVars == <<pool, promise, result, crashes, shutdown>>

\* Workers are numbered in the order of their creation.
WorkerIds == 1..(MaxWorkers + MaxCrashes)
Pools ==
  [created : 0..(MaxWorkers + MaxCrashes), workers : SUBSET WorkerIds, dead : SUBSET WorkerIds,
   available : Seq(WorkerIds), queue : Seq(Tasks), active : Nat,
   listeners : [WorkerIds -> Seq(Tasks)],  \* message handlers, by the task of each
   posted : [WorkerIds -> Seq(Tasks)]]     \* messages the thread has not answered

PoolTypeOK ==
  /\ pool \in Pools
  /\ promise \in [Tasks -> {"none", "pending", "resolved", "rejected"}]
  /\ result \in [Tasks -> Tasks \cup {NoResult}]
  /\ crashes \in 0..MaxCrashes
  /\ shutdown \in BOOLEAN

-----------------------------------------------------------------------------
(***************************************************************************)
(* The methods, from a pool to a pool.                                     *)
(***************************************************************************)
CreateWorker(p) ==
  [p EXCEPT !.created = @ + 1, !.workers = @ \cup {p.created + 1},
            !.available = Append(@, p.created + 1)]

\* Mutated form: no sort after the push.
PushUnsorted(queue, t) == Append(queue, t)

\* taskQueue.push and the stable sort by priority.
Push(queue, t) ==
  LET behind == {i \in DOMAIN queue : t \in Urgent /\ queue[i] \notin Urgent}
  IN  IF behind = {} THEN Append(queue, t)
      ELSE InsertAt(queue, CHOOSE i \in behind : \A j \in behind : i <= j, t)

\* assignTaskToWorkerWithWorker
AssignWith(p, w) ==
  IF p.queue = <<>> THEN [p EXCEPT !.available = Append(@, w)]
  ELSE [p EXCEPT !.queue = Tail(@), !.active = @ + 1,
                 !.listeners[w] = Append(@, Head(p.queue)),
                 !.posted[w] = Append(@, Head(p.queue))]

\* Mutated form: a backlog does not scale the pool up.
AssignToAvailable(p) ==
  IF p.queue = <<>> \/ p.available = <<>> THEN p
  ELSE AssignWith([p EXCEPT !.available = Tail(@)], Head(p.available))

\* assignTaskToWorker.  A new worker is entered in availableWorkers by
\* createWorker and is used all the same.
Assign(p) ==
  IF p.queue = <<>> THEN p
  ELSE IF p.available # <<>>
    THEN AssignWith([p EXCEPT !.available = Tail(@)], Head(p.available))
  ELSE IF Cardinality(p.workers) < MaxWorkers
    THEN AssignWith(CreateWorker(p), p.created + 1)
  ELSE p

\* Mutated form: the worker is put back and the queue is not looked at.
ListenOnly(p, w, t) ==
  [p EXCEPT !.listeners[w] = Without(@, {t}),
            !.available = Append(@, w), !.active = @ - 1]

\* One listener of w gets the answer: it detaches itself, puts the worker back
\* and assigns the next task.
Listen(p, w, t) ==
  Assign([p EXCEPT !.listeners[w] = Without(@, {t}),
                   !.available = Append(@, w), !.active = @ - 1])

\* The event of the first answer of w, after each of the listeners attached
\* before it.
Delivered(p, w) ==
  LET q[i \in 0..Len(p.listeners[w])] ==
        IF i = 0 THEN [p EXCEPT !.posted[w] = Tail(@)] ELSE Listen(q[i - 1], w, p.listeners[w][i])
  IN  q

Deliver(p, w) == Delivered(p, w)[Len(p.listeners[w])]

NoWorkers ==
  [created |-> 0, workers |-> {}, dead |-> {}, available |-> <<>>, queue |-> <<>>, active |-> 0,
   listeners |-> [w \in WorkerIds |-> <<>>], posted |-> [w \in WorkerIds |-> <<>>]]

PoolInit ==
  /\ pool = [NoWorkers EXCEPT !.created = MinWorkers, !.workers = 1..MinWorkers,
                              !.available = [i \in 1..MinWorkers |-> i]]
  /\ promise = [t \in Tasks |-> "none"]
  /\ result = [t \in Tasks |-> NoResult]
  /\ crashes = 0 /\ shutdown = FALSE

-----------------------------------------------------------------------------
(***************************************************************************)
(* Calls, events and timers.                                               *)
(***************************************************************************)

\* executeTask, also after the shutdown.
ExecuteTask(t) ==
  /\ promise[t] = "none"
  /\ promise' = [promise EXCEPT ![t] = "pending"]
  /\ pool' = Assign([pool EXCEPT !.queue = Push(@, t)])
  /\ UNCHANGED <<result, crashes, shutdown>>

\* A worker answers, with success or failure.
WorkerAnswers(w) ==
  /\ w \in WorkerIds \ pool.dead /\ pool.posted[w] # <<>>
  /\ pool' = Deliver(pool, w)
  /\ LET heard == ToSet(pool.listeners[w])
     IN  /\ promise' = [t \in Tasks |-> IF t \in heard THEN "resolved" ELSE promise[t]]
         /\ result' = [t \in Tasks |-> IF t \in heard THEN Head(pool.posted[w]) ELSE result[t]]
  /\ UNCHANGED <<crashes, shutdown>>

\* The taskTimeout of a task that is still queued.
TaskTimeout(t) ==
  /\ t \in ToSet(pool.queue)
  /\ pool' = [pool EXCEPT !.queue = Without(@, {t})]
  /\ promise' = [promise EXCEPT ![t] = "rejected"]
  /\ UNCHANGED <<result, crashes, shutdown>>

\* A worker thread fails: handleWorkerFailure, on its error and on its exit.
WorkerFails(w) ==
  /\ crashes < MaxCrashes /\ ~shutdown /\ w \in pool.workers
  /\ crashes' = crashes + 1
  /\ LET without == [pool EXCEPT !.workers = @ \ {w}, !.dead = @ \cup {w},
                                 !.available = Without(@, {w})]
     IN  pool' = IF Cardinality(without.workers) < MinWorkers THEN CreateWorker(without) ELSE without
  /\ UNCHANGED <<promise, result, shutdown>>

\* onModuleDestroy: reject what is queued and terminate the workers, which
\* stay in the lists.
OnModuleDestroy ==
  /\ ~shutdown
  /\ shutdown' = TRUE
  /\ promise' = [t \in Tasks |-> IF t \in ToSet(pool.queue) THEN "rejected" ELSE promise[t]]
  /\ pool' = [pool EXCEPT !.queue = <<>>, !.dead = @ \cup pool.workers]
  /\ UNCHANGED <<result, crashes>>

PoolNext ==
  \/ \E t \in Tasks : ExecuteTask(t) \/ TaskTimeout(t)
  \/ \E w \in WorkerIds : WorkerAnswers(w) \/ WorkerFails(w)
  \/ OnModuleDestroy

\* Threads that live answer what is posted to them.  Timers may be far away.
PoolFairness == \A w \in WorkerIds : WF_poolVars(WorkerAnswers(w))

PoolSpec == PoolInit /\ [][PoolNext]_poolVars /\ PoolFairness

-----------------------------------------------------------------------------
(***************************************************************************)
(* Properties.                                                             *)
(***************************************************************************)

\* While no worker has failed, a task waits only when the pool is as large as
\* it may be and no worker is on the list, after every sequence of calls and
\* answers, doubly booked workers included.
WorkConserving ==
  crashes = 0 /\ pool.queue # <<>> =>
    pool.available = <<>> /\ (Cardinality(pool.workers) >= MaxWorkers)

\* A task that starts is at least as urgent as those left in the queue.
MostUrgentFirst ==
  [][\A t \in ToSet(pool'.queue), w \in WorkerIds :
       \A u \in ToSet(pool'.posted[w]) \ ToSet(pool.posted[w]) : t \in Urgent => u \in Urgent]_poolVars

\* While no worker fails and nobody shuts the pool down, every call of
\* executeTask is answered, even by a worker that has been booked twice.
CallsAreSettled ==
  \A t \in Tasks : promise[t] = "pending" ~> (promise[t] # "pending" \/ crashes > 0 \/ shutdown)

\* "Set up message handler for this task": a promise is resolved with the
\* answer to its own task.
AnswersReachTheirTask == \A t \in Tasks : result[t] \in {t, NoResult}
=============================================================================
