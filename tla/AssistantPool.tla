---------------------------- MODULE AssistantPool ----------------------------
(***************************************************************************)
(* The worker thread pool of assistant-worker                              *)
(* (infrastructure/threading/worker-thread-pool.ts).  Unlike WorkerPool it *)
(* serves its queue in a loop and again when a worker fails, creates a     *)
(* worker for a backlog without giving it a task, and refuses calls once   *)
(* it shuts down.                                                          *)
(*                                                                         *)
(* A worker is busy with one task at most, so a function from workers to   *)
(* tasks stands for both the message posted and its handler.               *)
(***************************************************************************)
EXTENDS Naturals, FiniteSets, Sequences, SequencesExt, Subsequences

CONSTANTS
  Tasks,       \* calls of execute, with task ids of their own
  Urgent,      \* those of high priority
  NoTask,      \* the worker has nothing to answer
  MinWorkers, MaxWorkers,
  MaxCrashes   \* bound: worker threads that fail

VARIABLES
  workers,      \* the workers list
  available,    \* availableWorkers
  taskQueue,    \* tasks not handed to a worker, in order of service
  running,      \* worker -> the task it has to answer
  promise,      \* task -> state of the promise execute returned
  activeTasks,  \* activeTaskCount
  created,      \* workers created so far
  crashes,      \* worker failures so far
  exits,        \* failed workers whose exit event is still to come
  shutdown      \* "no", "requested" or "complete"

poolVars == <<workers, available, taskQueue, running, promise, activeTasks, created, crashes, exits, shutdown>>

WorkerIds == 1..(MaxWorkers + MaxCrashes)

PoolTypeOK ==
  /\ workers \in SUBSET WorkerIds
  /\ available \in Seq(WorkerIds)
  /\ taskQueue \in Seq(Tasks)
  /\ running \in [WorkerIds -> Tasks \cup {NoTask}]
  /\ promise \in [Tasks -> {"none", "pending", "resolved", "rejected"}]
  /\ activeTasks \in 0..Cardinality(Tasks)
  /\ created \in 0..(MaxWorkers + MaxCrashes)
  /\ crashes \in 0..MaxCrashes /\ exits \in 0..MaxCrashes
  /\ shutdown \in {"no", "requested", "complete"}

PoolInit ==
  /\ workers = 1..MinWorkers
  /\ available = [i \in 1..MinWorkers |-> i]
  /\ taskQueue = <<>>
  /\ running = [w \in WorkerIds |-> NoTask]
  /\ promise = [t \in Tasks |-> "none"]
  /\ activeTasks = 0 /\ created = MinWorkers
  /\ crashes = 0 /\ exits = 0
  /\ shutdown = "no"

-----------------------------------------------------------------------------
\* taskQueue.push and the stable sort by priority.
Push(queue, t) ==
  LET behind == {i \in DOMAIN queue : t \in Urgent /\ queue[i] \notin Urgent}
  IN  IF behind = {} THEN Append(queue, t)
      ELSE InsertAt(queue, CHOOSE i \in behind : \A j \in behind : i <= j, t)

\* processQueue: the first tasks go to the first available workers; a backlog
\* then creates one worker.  The result says how many and whether it grows.
Process(queue, avail, ws) ==
  LET n == IF Len(queue) <= Len(avail) THEN Len(queue) ELSE Len(avail)
      grow == Len(queue) > n /\ Len(avail) = n /\ Cardinality(ws) < MaxWorkers
  IN  [taken |-> n, grow |-> grow]

\* processQueue, on the lists the caller has left; next is the number of the
\* worker it would create and free the workers that have just answered.
ProcessQueue(queue, avail, ws, next, free, activeNow) ==
  LET s == Process(queue, avail, ws)
      rest == SubSeq(avail, s.taken + 1, Len(avail))
  IN  /\ taskQueue' = SubSeq(queue, s.taken + 1, Len(queue))
      /\ available' = IF s.grow THEN Append(rest, next) ELSE rest
      /\ workers' = IF s.grow THEN ws \cup {next} ELSE ws
      /\ created' = IF s.grow THEN next ELSE next - 1
      /\ running' = [w \in WorkerIds |->
                       IF \E i \in 1..s.taken : avail[i] = w
                         THEN queue[CHOOSE i \in 1..s.taken : avail[i] = w]
                       ELSE IF w \in free THEN NoTask ELSE running[w]]
      /\ activeTasks' = activeNow + s.taken

\* execute
Execute(t) ==
  /\ promise[t] = "none" /\ shutdown = "no"
  /\ promise' = [promise EXCEPT ![t] = "pending"]
  /\ ProcessQueue(Push(taskQueue, t), available, workers, created + 1, {}, activeTasks)
  /\ UNCHANGED <<crashes, exits, shutdown>>

\* Mutated form: the handler leaves the queue alone.
AnswersOnly(w) ==
  /\ running[w] # NoTask /\ w \in workers
  /\ promise' = [promise EXCEPT ![running[w]] = "resolved"]
  /\ running' = [running EXCEPT ![w] = NoTask]
  /\ available' = Append(available, w) /\ activeTasks' = activeTasks - 1
  /\ UNCHANGED <<workers, taskQueue, created, crashes, exits, shutdown>>

\* The message handler of executeTask, on success or failure.
WorkerAnswers(w) ==
  /\ running[w] # NoTask /\ w \in workers
  /\ promise' = [promise EXCEPT ![running[w]] = "resolved"]
  /\ ProcessQueue(taskQueue, Append(available, w), workers, created + 1, {w}, activeTasks - 1)
  /\ UNCHANGED <<crashes, exits, shutdown>>

\* The taskTimeout of a task that is still queued.
TaskTimeout(t) ==
  /\ t \in ToSet(taskQueue)
  /\ taskQueue' = Without(taskQueue, {t})
  /\ promise' = [promise EXCEPT ![t] = "rejected"]
  /\ UNCHANGED <<workers, available, running, activeTasks, created, crashes, exits, shutdown>>

\* Mutated form: the queue is left to the next call or answer.
FailsQuietly(w) ==
  LET ws == workers \ {w}
      avail == Without(available, {w})
      replace == Cardinality(ws) < MinWorkers /\ shutdown = "no"
  IN  /\ crashes < MaxCrashes /\ w \in workers
      /\ crashes' = crashes + 1 /\ exits' = exits + 1
      /\ running' = [running EXCEPT ![w] = NoTask]
      /\ workers' = IF replace THEN ws \cup {created + 1} ELSE ws
      /\ available' = IF replace THEN Append(avail, created + 1) ELSE avail
      /\ created' = IF replace THEN created + 1 ELSE created
      /\ UNCHANGED <<taskQueue, promise, activeTasks, shutdown>>

\* Mutated form: the failed worker stays in availableWorkers.
FailsStillListed(w) ==
  LET ws == workers \ {w}
      avail == available
      replace == Cardinality(ws) < MinWorkers /\ shutdown = "no"
  IN  /\ crashes < MaxCrashes /\ w \in workers
      /\ crashes' = crashes + 1 /\ exits' = exits + 1
      /\ IF replace
           THEN ProcessQueue(taskQueue, Append(avail, created + 1), ws \cup {created + 1}, created + 2, {w}, activeTasks)
           ELSE ProcessQueue(taskQueue, avail, ws, created + 1, {w}, activeTasks)
      /\ UNCHANGED <<promise, shutdown>>

\* handleWorkerFailure on the error of a worker: what it ran is forgotten.
WorkerFails(w) ==
  LET ws == workers \ {w}
      avail == Without(available, {w})
      replace == Cardinality(ws) < MinWorkers /\ shutdown = "no"
  IN  /\ crashes < MaxCrashes /\ w \in workers
      /\ crashes' = crashes + 1 /\ exits' = exits + 1
      /\ IF replace
           THEN ProcessQueue(taskQueue, Append(avail, created + 1), ws \cup {created + 1}, created + 2, {w}, activeTasks)
           ELSE ProcessQueue(taskQueue, avail, ws, created + 1, {w}, activeTasks)
      /\ UNCHANGED <<promise, shutdown>>

\* The exit of a failed worker, after its error: handleWorkerFailure again.
\* The worker is out of the lists, so what is left is processQueue.
WorkerExits ==
  /\ exits > 0 /\ shutdown = "no"
  /\ exits' = exits - 1
  /\ ProcessQueue(taskQueue, available, workers, created + 1, {}, activeTasks)
  /\ UNCHANGED <<promise, crashes, shutdown>>

\* onModuleDestroy sets the flag, waits until nothing is active or its own
\* timeout is over, then terminates the workers and drops the lists.
RequestShutdown ==
  /\ shutdown = "no" /\ shutdown' = "requested"
  /\ UNCHANGED <<workers, available, taskQueue, running, promise, activeTasks, created, crashes, exits>>

CompleteShutdown ==
  /\ shutdown = "requested" /\ shutdown' = "complete"
  /\ workers' = {} /\ available' = <<>> /\ taskQueue' = <<>>
  /\ running' = [w \in WorkerIds |-> NoTask]
  /\ UNCHANGED <<promise, activeTasks, created, crashes, exits>>

PoolNext ==
  \/ \E t \in Tasks : Execute(t) \/ TaskTimeout(t)
  \/ \E w \in WorkerIds : WorkerAnswers(w) \/ WorkerFails(w)
  \/ WorkerExits
  \/ RequestShutdown \/ CompleteShutdown

\* Threads that live answer, failed ones exit, the wait of the shutdown ends.
PoolFairness ==
  /\ \A w \in WorkerIds : WF_poolVars(WorkerAnswers(w))
  /\ WF_poolVars(WorkerExits) /\ WF_poolVars(CompleteShutdown)

PoolSpec == PoolInit /\ [][PoolNext]_poolVars /\ PoolFairness

-----------------------------------------------------------------------------
(***************************************************************************)
(* Properties.                                                             *)
(***************************************************************************)

\* A worker is booked at most once: it is available or has one task, it is one
\* of the pool, and no task is with two workers or with one and in the queue.
BookedOnce ==
  /\ IsInjective(available) /\ ToSet(available) \subseteq workers
  /\ \A w \in WorkerIds : running[w] # NoTask =>
       /\ w \in workers \ ToSet(available)
       /\ running[w] \notin ToSet(taskQueue)
       /\ \A v \in WorkerIds : running[v] = running[w] => v = w

\* A backlog means a pool of full size or one worker just created for it,
\* after every sequence of calls, answers, timeouts and failures.
WorkConserving ==
  taskQueue # <<>> =>
    Len(available) <= 1 /\ (available = <<>> => Cardinality(workers) >= MaxWorkers)

\* While no worker fails and nobody shuts the pool down, every call of execute
\* is answered.
CallsAreSettled ==
  \A t \in Tasks : promise[t] = "pending" ~> (promise[t] # "pending" \/ crashes > 0 \/ shutdown # "no")
=============================================================================
