# A verification project for enginedge-workers

TLA+ models of the concurrent parts of this repository, the TLC runs that
check them and the TLAPS proofs about them. Paths below are relative to the
repository; `assistant` stands for `assistant-worker/src`, `scheduling` for
`scheduling-worker/src`.

1. The system · 2. The modules · 3. The runs · 4. The proofs ·
5. What the code does not keep · 6. Not modelled · 7. Plan

## 1. The system

Eleven services of one platform, most of them NestJS workers that serve HTTP
and Kafka requests: `assistant-worker` (agents and their coordination),
`interview-worker`, `agent-tool-worker`, `data-processing-worker`,
`identity-worker`, `latex-worker`, `news-worker`, `resume-worker`,
`scheduling-worker`, `spacy-service` (Python) and `worker-template`.

A worker is one Node process. Code runs to the next `await` without
interruption; between two awaits every other request, timer and message may
run. That, timers that race with answers, and state that lives partly in the
process and partly in a database or another service are what is hard here; so
nearly all hazards in `PROJECT.json` are about what happens between two awaits.

### Inventory

| Component | State | Operations | Hard behaviour | Status |
|---|---|---|---|---|
| artifact locking, `assistant/application/services/collective/artifact-locking.service.ts` | one lock record and one queue per artifact | acquire, release, wait timer, lease expiry, cleanup interval | grants race with wait timers; leases end under a waiting queue | modelled, proved |
| shared memory and versions, `collective/shared-memory.service.ts`, `artifact-versioning.service.ts` | artifacts, history | create, update, delete, lock, unlock | read before the lock, write after it; every path must give the lock back | core modelled, proved |
| message queue, `collective/message-queue.service.ts` | messages, sorted inboxes, timers | send, broadcast, take, deliver, retry, expire, periodic check | one-shot timers, an inbox shared by all PM loops, retries in any order | core modelled, proved |
| deadlock detection, `collective/deadlock-detection.service.ts` | none (pure search) | search `blockedBy` for cycles, rate them | a search stops at what another branch of it has seen, and tasks of a reported cycle start none | modelled, proved |
| collective agent, `assistant/domain/agents/collective-agent/collective-agent.ts` with `task-assignment.service.ts` | the task board, agent loads, pending assignments, pause, recorded deadlocks | the HTTP task operations, `run()`, PM loop, deadlock check, execution and results | timers and requests between the steps of `run()`; several books for one fact | core modelled, proved |
| graph agent, `assistant/domain/agents/graph-agent/graph-agent.ts`, called through `agent.service.ts`, `agent-execution.service.ts`, `checkpoint.service.ts` | one graph state for all calls, edge queues, histories, checkpoints | execute, time out, pause, resume, restore, continue, update edges and joins | a second call or a restore replaces the state under an execution that goes on | core modelled, proved |
| workflow graph algorithms, same file | none | order of execution, cyclic edges | searches that cut each other short | modelled, proved |
| expert pool, `assistant/domain/services/expert-pool-manager.service.ts` | a semaphore, executions by id, timers, totals | allocate, execute, time out, release, abort, change the limit | timers that start before admission, ids drawn twice, a limit that changes under waiters | core modelled, proved |
| human in the loop, `assistant/application/services/hitl.service.ts` | requests, pending lists, timers | create, respond, time out, cancel, clear, wait | answer, timeout and cancellation race; no timer is cleared | modelled, proved |
| scheduled learning, `scheduled-learning-manager.service.ts` | schedules, cron tasks, runs in flight | schedule, cancel, update, pause, resume, run | updates that fail half-way; runs that outlive the object they count in | core modelled, proved |
| manager runtime, `manager/manager-runtime.service.ts` | plan, assignments, metrics, aggregate | decompose, coordinate, aggregate, pause, reassign, retry | retries and reassignments change two books apart | modelled, proved |
| day planning, `scheduling/application/services/scheduling.service.ts`, `time-slot.service.ts`, `task-scheduler.service.ts`, the event repository and the Google adapter | events in the store, their copies at Google | commit, place by hand, reschedule, complete | plan without sight of what is stored, write to two stores, one event at a time | core modelled, proved |
| resume editing and versions, `resume-worker/src/application/services/resume-editing.service.ts`, `resume-versioning.service.ts` | the document in Mongo, an undo and a redo stack per resume in memory | edit, edit with version, undo, redo, rollback, rewrite | the stacks change between the load and the save; stacks and document are two stores | modelled, proved |
| resume requests to the language service, `bullet-evaluator.service.ts`, `job-posting.service.ts`, the Kafka adapter, same worker, and the consumer `spacy-service/src/kafka_consumer.py` | pending requests by correlation id, timers | ask, send, answer, time out | answers that are late, lost, never sent, or of no use when they come | core modelled, proved |
| worker pool of nine workers, `*/infrastructure/threading/worker-thread-pool.ts` | threads, free list, queue, promises | execute, answer, timeout, failure, shutdown | an answer listener per task, workers that fail, scaling | modelled, proved |
| worker pool of the assistant, same path there | the same, other bookkeeping | the same | error and exit events of one failure | modelled, proved |
| interview session, `interview-worker/src/application/services/session.service.ts`, `time-limit.service.ts`, `phase-transition.service.ts` | the session document, two maps of intervals | start, pause, resume, skip, submit, end, timer callbacks | whole documents saved from stale reads; timers armed after awaits | core modelled, proved |
| interview voice gateway, `interview-worker/src/infrastructure/gateways/interview-websocket.gateway.ts` with the speech adapters | per session a buffer of audio, a recognizer, a mute flag | init, audio, mute, disconnect, transcription | the maps are read before an await and cleared after it; sockets of one session overlap | core modelled, proved |
| agent state machine, `assistant/domain/services/state-machine.service.ts` | a table | transitions | nobody who moves an agent consults it | not modelled |
| other agents (expert, genius, interview, manager, react) | per call | loops of prompts | driven by LLM answers | not modelled |
| application services of the assistant (conversations, knowledge graph, validation, ...) | Mongo, Neo4j | CRUD | in the database | not modelled |
| request queue and agent store, `assistant/infrastructure/threading` | queue, locks | enqueue, fail, lock | nothing calls them, metrics aside | not modelled |
| tool rate limiting, `agent-tool-worker/src/infrastructure/services/rate-limiting.service.ts` | time stamps per tool | check, record | nothing calls it but its tests | not modelled |
| tools; interview webhooks; data processing, identity, latex, news and the rest of the resume and scheduling workers; spaCy, template; Kafka, Mongo, Neo4j, SSE and LLM adapters | mostly external | transformations and calls to stores, compilers and models | mostly I/O | not modelled |

### How they interact

`SharedMemoryService` awaits `ArtifactLockingService.acquireLock` and releases
in the same call. `CollectiveAgent` runs two intervals, the PM loop and the
deadlock check; the HTTP controller calls its task operations; sub-agents send
messages through `CommunicationService` into `MessageQueueService`, from where
the PM loop takes them. The deadlock check calls `DeadlockDetectionService`
and then edits the board. `AgentService` keeps one instance per agent and lets
every request run, pause, restore or change it; `AgentExecutionService` races
each run with a timer and does not stop the run. The graph agent orders its
nodes and chooses the edges with a queue by two searches of its own. Expert
pool, human in the loop, scheduled learning and manager runtime are singletons
with maps of their own and share nothing. In the interview worker
`SessionService` arms `TimeLimitService` and the phase check, whose callbacks
call back into `SessionService.endSession`. The voice gateway only reads
sessions; its sockets share the maps of a session with one another.
`SchedulingService` reads the
habits and the goals, asks its own store for the events of the day (which never
finds any, see section 2), plans, and writes each event to the store and then to
Google Calendar. The resume worker asks the Python
language service over Kafka and keeps the caller until an answer with its
correlation id, a failed send or a timer settles it. Each worker has a thread
pool.

### What makes each of them correct

*Locks*: writers exclude each other, and a free artifact has no waiters.
*Memory*: no operation keeps a lock, and a lock protects. *Queue*: the inbox is
exact and nothing is pending for ever. *Board*: the books agree, and tasks are
assigned after their prerequisites. *Graph agent*: state, checkpoints and
queues account for every node and item, whatever replaces the state. *Expert
pool*, *manager*, *schedules*: the maps, timers and totals agree with what
runs. *Humans*: what is answered stays answered and every waiter hears. *Pools*:
no task waits beside a free worker, and every call settles. *Interview*: timers
follow the status and an end is final. *Voice*: audio that is kept is transcribed
once, and recognizers end with their session. *Resumes*: text and stacks are one walk
through what was written, versions are numbered without gaps, every caller is
settled, or left over a posting alone. *Day planning*: a plan uses free time
and wastes none that it is offered, the store holds what the plan said, and the two
calendars differ only where somebody failed.

## 2. The modules

An action is a handler, or the part of one between two awaits that can take
time. Awaits on promises that are already settled do not let anything in, so
such stretches are one action. Wall-clock time is left out: a deadline is an
action that may happen at any moment the timer is armed. Every counter that
the code lets grow is bounded by a constant named `Max...`.

**Subsequences.** Lists lose entries by their places (`EntriesAt` and the
filters and deletions made from it) and loops over lists are recursive functions
on numbers (`Visits`, `Delivered`), where the library's `SelectSeq` and folds
take operators as parameters, which the provers cannot expand. The board, the
message queue, both pools and the planning of a day (`MergeRounds`,
`SubtractRounds`, `ScheduleRounds`) extend it.

**ArtifactLocking.** `activeLocks` and `lockQueues` are the two maps of the
service, `phase` and `request` the promise of each call of `acquireLock`,
`leaseOver` the clock having passed `expiresAt`. Actions: `AcquireLock`,
`ReleaseLock` (with the hand-over in the same step), `QueueTimeout`,
`LeaseExpires`, `Cleanup`. A caller is identified with its call.

**ExclusiveAccess** is what such a service promises, without records, queues,
timers or calls: leases end at any time, and one begins only where no writer is
left. `ArtifactLocking` implements it under the mapping `RunningLeases` (the
granted requests whose lease runs).

**SharedMemory** extends the locks: each call of the service is a lock call plus
the work before and after. `Finish` is the continuation of the await, `GiveUp`
the answer after a failed wait. The artifact is read where the code reads it,
which for an update and a deletion is before the await.

**MessageQueue.** `message` (status, retry count, priority), `messageQueues`
(inboxes sorted by priority), `overdue`, armed timers and paused PM loops.
All collectives share the inbox of the project manager, as `'pm_agent'` does.
`PMMainLoop` is one iteration with everything it takes.

**DeadlockDetection.** The depth-first search as a recursive function of the task,
the visited set and the path (`Detected` is one call of it, `Explored` its loop),
run over every graph of the bound. `CollectiveTasks` takes the detector as a constant
operator and is proved for any; `MCCollectiveTasks` passes in the real one.

**CollectiveTasks.** The board (`task`, `live`, `created`), `load` and
`pending` of the assignment service, the `inbox` of the PM as message copies
(lost, duplicated and reordered messages included), `planning` and `executing`
for the two places where the LLM is awaited, `paused`, `detected`. A handler
that does not await anything slow is a `job`, a list of steps that nothing
interrupts; `run()` is cut where it awaits the LLM. A deletion with its subtasks
follows the child lists as the code's search does, deleted tasks that a list still
names included (`Below`), and takes each task off the list of its parent only while
that parent is on the board: on a cycle of parents one is not (`KeptIn`), and
`run()` may put its stale list back.

**WorkflowGraph.** `topologicalSort`, `computeReachability` and
`findCyclicEdges` with the visited sets and the cache the code threads through
them, on records `[nodes, edges, start]`. Both searches are recursive functions whose
arguments hold what the code threads through the calls; `Visited` and `ReachableFrom`
are one call of them, `EachVisited` and `EachReached` their loops.

**GraphAgent.** `state` is the one `graphState` of the instance; `lists` are
the arrays an execution took at its start and goes on writing to when another
call, a restore or a resume has replaced the state; `at`, `attempt`, `outcome`
and `call` are where each execution and its caller are. `Proceed` runs one node
(routing, queues, checkpoints on edges, joins), `AwaitBackoff`, `RetryNode` and
`FailNode` are its failures, `TimeOut` the timer of the call. `Manage` is pause,
resume, restore and continue; `Update` the bulk updates of queues, checkpoints
and joins. The inputs of a join are put in order before they are counted
(`Ordered`), in that of the edges or by keys, and with `includeDuplicates` an input
that a key has named comes again (`repeat`). Order and cyclic edges are constants; `MCGraphAgent` states as an
assumption that they are what `WorkflowGraph` computes.

**ExpertPool.** The pool of ids, executions and timers by id, `aborted`
controllers, and every semaphore ever made (p-limit, external: first come first
served), since `updateConfig` replaces it under experts that wait in the old
one. An id is drawn from the clock, so two experts may have the same.
`Finally` is the `finally` block with the report.

**HumanInTheLoop.** Requests, pending lists, timers that nobody clears, and the
polling waiters; `CreateRequest` is cut at the notification it awaits before it
arms the timer.

**LearningSchedules.** Schedules, the cron tasks that tick for each (`mapped`
is the one the map remembers), runs in flight, and the counters in the schedule
object, which an update replaces.

**ManagerRuntime.** One plan in the hands of requests: `coordinateExecution`
visits the subtasks in order and completes what is ready in waves;
`aggregateResults`, `reassignAssignment` and `retrySubtask` as they are.

**TimeSlots.** Pure operators for the free slots of a day and the greedy placing
of tasks (merging, cutting, parts, preferences, scores): one operator for a round
of each loop (`Merged`, `SlotsWithout`, `Placed`) and a recursive function that
repeats it. Sorting takes the order as a set of pairs of places (`Sorted`). The
reference `PlanIsRight` treats free time as a set of units, and the minutes of a task
as a set too (`Portions`). A unit is any number of minutes, and stretches below the
15 minutes of `minSlotDuration` are dropped (`IsLong`): with the default buffer of 5
minutes, a habit of 10 or the last 10 minutes of a goal of 130 can be left out beside
a free gap of 10. The reference says so too: it compares with the free time in
stretches of 15 minutes and more (`UsableUnits`), and `FreeTimeIsOffered` of section 5
with all of it.

**DayPlanning.** `events` is the store and `copies` the calendar at Google. A
request plans (`Plan`, in every order the database may return the tasks), and then
saves and copies one event after the other; each of those may fail, and the answer
of Google may be lost after it has taken the event. It plans around nothing: `save`
stores `toObject()`, whose times are ISO strings, `findInTimeRange` asks for them
with Dates, and MongoDB compares values of one type only, so that the query returns
no event, whatever is stored (`FindInTimeRange`). For the same reason a reschedule has
nothing to delete. Working hours and buffer are options of each request in the code
and constants here; since no request sees the events of another, requests with other
options would not meet either.

**ResumeEditing.** `latexContent`, `currentVersion` and `versions` are the
document, `undoStack` and `redoStacks` the arrays in memory (every array that
was the redo stack is kept, since a redo pops the one it found at its start),
`editing` each request with what it loaded and will write. A handler is cut at
its load and its save; texts are members of a small set. `history` is the
timeline a reader of the code would expect, kept while calls do not overlap.

**ResumeRequests.** `stage` is where the caller of each request is,
`pendingCalls` and `armedTimers` the entries and timers, `answers` the topic. `Answer`
is `_process_message` of the Python consumer, which sends a result or, when the
evaluation raises, nothing (`start` logs it). What it can evaluate decides the rest
(`asks`): a bullet without fixes is answered; one with fixes, the default of
`evaluateBullet`, is not, since the consumer calls `generate_fixes`, which
`BulletEvaluator` does not have, nor is one with the LLM, since `use_llm` is passed
in the place of the keywords; the result for a posting has no `rawText`, so that
`handleResponse` throws when it computes the checksum, behind the deletion of the
entry. Hence no posting is ever stored, and the look-up before a request, `delete` and
`update` have none to work on. The broker is external: sends fail or are reported as
failed although they went through, answers come late, twice, or never. That both
services of the worker share one consumer, on which only the first `run` may
subscribe, is one more way of an answer that never comes.

**WorkerPool**, **AssistantPool.** Threads, the free list as the code keeps it,
the sorted queue, promises and listeners. In the shared pool every task adds a
listener of its own to its worker, and one message calls all of them; in the
assistant pool a worker is tied to one task.

**InterviewSession.** One session document, the requests in flight with the
document they read and the await they are in (`call`), and for each of the two
families of timers the one the map remembers and all that are alive. `Save`
writes the whole document, `Complete` and `Advance` set fields, as `save` and
`update` of the repository do. `alone` is a history variable: no two requests
have overlapped.

**InterviewVoice.** The audio of one session. A message names its session, or else
has that of its socket, so that audio and mutes may come from any socket that is open;
only one that said init for the session (`Joined`) cleans up when it closes. A socket
may say init again, for this session (`HandleInit`, which replaces the recognizer) or
for another (`InitElsewhere`). `arrival` is where each audio message is (converted
with an await, then kept or dropped), `audioBuffer`, `recognizer` and `muted` the maps
of the gateway at this session, `streams` every recognizer ever made, `batches` the
transcriptions under way. The three kinds of sessions (`speech`) are those without
recognizer, with one that streams, and with one that collects. The properties use two
history variables: `crossed`, the audio that another message, an init or a disconnect
met in the buffer behind its back, and `calm`: sockets took turns, and nothing came
while none of the session was there.

`MC*` modules extend a component for the runs. `MCPools`, `MCServices` and
`MCAlgorithms` explore components that share nothing in one run: `subject`
names the one that moves, the others stay as they start. That is one question
after the other, not a composition; where components do interact (memory over
locks, board over detection, graph agent over its algorithms) the modules
extend or instantiate each other.

## 3. The runs

| Run | Question and bounds |
|---|---|
| `locks` | Three calls, two artifacts. Writers exclude each other while their leases run; an artifact without a record has no waiters and queues hold the waiting calls, each once; the service implements `ExclusiveAccess`; an expired record goes away. |
| `queue` | Two messages, two collectives, one agent, two priorities, three retries: pending messages are in their inbox once, inboxes hold nothing else and stay sorted; finished messages stay finished; nothing stays pending. |
| `board` | Two tasks, one agent, three requests with everything else in between: whatever a step does to the tree leaves both ends of its links in agreement, pending assignments are of live tasks, a recorded deadlock pauses the board, `run()` assigns after prerequisites and never while paused, low deadlocks are broken, tasks nobody has are served. |
| `memory` | Three calls on one artifact: only locks that a user asked for outlive a call, a user's WRITE lock protects the artifact, every call is answered. |
| `pools` | The shared pool with five tasks and one failure, the assistant pool with four and two failures; two priorities, one thread that scales to two, timeouts and shutdown: no task waits beside a free worker, urgent tasks first, no worker of the assistant is booked twice (`PoolsAreSound`), every call settles while nothing fails. |
| `interview` | Four requests, two at a time, one timer callback in flight, two phases, one failure or restart. Without overlap or failure pausing leaves no timer and no family has two; an end that has settled is final; an overdue session that is watched ends. |
| `algorithms` | Deadlocks: all graphs of three tasks with up to two blockers each, in every order and with every choice of two priorities. Workflows: four nodes, every sequence of up to four edges, every start. Days: two hours in units of ten minutes with a buffer of one, any two events of ten, thirty and sixty minutes, a task in two parts (the last of ten minutes, so that gaps below 15 minutes matter) and one with a deadline. Commits: three requests of any kind, one completion, failures at every await. Resumes: two requests at a time, three texts, stacks of two, three calls that overlap or five in a row. Voice: two sockets, two inits or recognizers, three audio messages from any socket, transcribed two at a time. Reports are cycles, stuck tasks lead to a report, severity follows priority; orders are topological and queued edges cut every cycle; plans are right (`AlgorithmsAreRight`); what a commit has stored is its plan, whole or up to where it stopped; every difference between the calendars has its request; undo and redo walk along the timeline, versions are numbered without gaps; audio that nothing crossed is transcribed exactly once, the recognizer in use is open, and nothing outlives a calm session (`VoiceIsSound`). |
| `graph_agent` | Two executions of a workflow with a cycle and a join, one retry, and two requests that pause, resume, restore, continue or update, an order of the join's inputs with and without duplicates included: no node is lost, queues agree with histories, joins got what their configuration asked for, an execution nobody disturbs is in order and reports itself rightly, every call is answered. |
| `services` | Three experts with two ids and limits one and two; two requests of two askers; two schedules with two tasks and two runs; plans of up to three subtasks with one retry; two calls of the resume worker, for a posting, a bullet, or a bullet with fixes. The books agree, finished experts are reported, answers stand, waiters hear, tasks follow schedules, an aggregate is what the subtasks are; a caller over Kafka is settled, or abandoned over the answer to a posting and nothing else. |
| `memory_updates` | Violation: an update undoes the write it waited for. |
| `pool_answers` | Violation: a promise resolved with the answer to another task. |
| `graph_continue` | Violation: a workflow that is continued from a checkpoint executes again what the checkpoint has results of. |

The bounds are the smallest at which the cases the properties speak of occur
and at which every mutant in `PROJECT.json` is caught: two callers are enough
for a race and a third to wait behind it; two tasks make a cycle, three a cycle
with a tail; a pool of at most two threads scales once and loses one; four
requests suffice to start, pause and resume with one left that overlaps; a
cycle of two nodes with a join in it and an edge that passes it gives a queue
that fills, drains and drops; a third expert waits while two have one id; the
parts of the day planning make a free slot that is cut in front, behind and in
the middle, one task that does not fit, and gaps that are too short to be offered; the third audio message comes
while the first two are transcribed.

`algorithms` is the one run with symmetry. Requests, editors and sockets are
model values that no definition chooses among, the run has no liveness property,
and one subject runs at a time, so that one group of permutations, which exchanges
editors and sockets along with two requests, serves all three (`MCSymmetry`).

Where a property speaks only of undisturbed actors (`UndisturbedExecutions`,
parts of `TimersFollowSession` and `VoiceIsSound`), a
history variable records the overlap (`mixed`, `alone`, `history.serial`,
`crossed`, `calm`), the model explores the overlaps, and section 5 lists what
goes wrong in them.

### Fairness

A timer that is armed fires and a `setInterval` that is not cleared keeps
firing: weak fairness for wait timers, expiry, cleanup, the periodic check, the
timers of experts, of requests to humans, of requests over Kafka and of calls to
agents, and the polls of waiters. Where something else can switch an action off and on again (the PM loop
and deadlock check between two other handlers, the wait timer of a queued call
that becomes holder and waiter again, a monitor whose callback finds the slot
of the model taken) the event loop serves it among the others: strong
fairness. A handler that has begun and waits for the database, and an execution
that is between two awaits, goes on. A worker thread that runs a task answers,
unless it fails. Nothing is assumed of users, of the LLM, of messages, of
failures or of restarts. `ExecutionsAreReported` is conditional: if the work of
every expert ends, all are reported. `CallersSettle` assumes that the
store returns and timers fire, and nothing of the broker. No fairness is stated
for learning schedules, plans, days, voices and the editing of resumes: no
liveness is claimed of them.

## 4. The proofs

Every safety property the runs check is proved. The proofs hold for every
value of the constants under the named assumptions of the modules; TLC evaluates
those on every run. `PROJECT.json` lists the theorems.

In general there is one lemma per action under each invariant, and one step per
conjunct that the action can disturb; what several actions share is a lemma of
its own. Where the modules use lists, filters and loops, they are written so
that the provers can expand them:

- `Subsequences` removes entries by their places (`EntriesAt`), and
  **SubsequenceProofs** states what that leaves: an increasing map onto the
  places that stay (`WithoutProperties`). From this follow what a filter, an
  insertion, a push, a tail and a prefix do to the members of a list and to its
  being without repetition.
- A loop over a list is a recursive function on numbers, and its result is
  found by induction over a *set* of numbers (`InductOn`), since the library's
  induction takes a predicate, which the provers cannot instantiate;
  `IterationExists` gives the function to be equal to.
- A search is a recursive function on a set of arguments, of which it has to be
  shown that it exists: a definition by recursion is a `CHOOSE` and may choose
  anything. `RecursionExists` gives a solution when what the body makes of its
  answers depends only on answers of a lesser measure (`Descends`), and is proved by
  iterating the body more often than the measure can fall: the number of nodes
  that are not on the path, not visited, or not on the stack.
- `Flattens` says what `FlattenSeq` makes of lists, round by round.

**CollectiveProofs**, locks (`NoLockAssumption`): `LocksAreAlwaysSound`
(types, `NoLostWakeup`, `QueueMatchesWaiters`), `WritersAreExclusive`,
`NothingGrantedWhileWriting` and `ImplementsExclusiveAccess`.
`WritersExclusive` is not inductive: nothing in it says that a grant of
somebody else cannot push a running WRITE lease out of the record. `LockInv`
adds `RecordIsCurrent` (the record of an artifact points to a granted call for
that artifact) and `WriterRecorded` (a WRITE lease that runs is the record). A
READ lease has no such guarantee, which is what `WriteLocksAreExclusive` of
section 5 shows. The queue invariants are needed because the hand-over takes the head
of a queue on trust. `FreeAllInv` is the hand-over shared by release and cleanup,
`RemoveAtProperties` what deleting one entry of a queue leaves. The refinement
rests on the same invariant: `GrantIsRecorded` and `LeaseIsKept` say that a lease
that begins is the new record, so that no writer is beside it, and
`StepIsAbstract` that every step is one of `AccessNext`.

**CollectiveProofs**, memory: `LockInv` is an invariant of the composition, since
every step of the memory is a step of the locks or leaves them alone;
`MemoryKeepsAccessExclusive` follows in the same way. `MemInv` adds that a call
in work has its lock, that locks of operations belong to writes, and that the
history is bounded by the version. From it `OnlyUserLocksEverRemain` and
`LockedIsNeverDisturbed`.

**QueuesProofs**, messages (`QueueAssumption`): `InboxesAreAlwaysExact` and
`NothingReopensAMessage`. `InboxesAreExact` is inductive as it stands; the work is in
the insertion behind the entries of the same priority, which is at a place only
because the inbox is sorted, and in the broadcasts, which enter several inboxes.

**QueuesProofs**, pools (`PoolAssumption`, `AssistantAssumption`): `PoolsAreAlwaysSound`
and `UrgentTasksStartFirst`. Nothing in the properties says that a task is in the
queue or has one listener, and once (`EachOnce`), that as many workers live as
were created and have not failed (`Staffed`), or that the queue is sorted;
`SharedInv` adds them, with the count of active tasks as that of the listeners.
One answer of a worker calls every listener the worker has, and each takes a task
from the queue: the invariant is carried through the listeners one by one, and
`MovesOn` is the relation between the pool before and after that makes
`MostUrgentFirst` hold of the whole event (each listener takes the head of a
sorted queue, and no listener adds to it). In the assistant pool one lemma,
`ProcessKeeps`, says what `processQueue` makes of whatever lists its four callers
hand it; a worker that fails keeps its task in `activeTaskCount` for ever, so the
count is that of the calls that wait outside the queue (`Handed`), not that of
the workers at work.

**CollectiveProofs**, board (`TaskAssumption`, `DetectAssumption`):
`BoardIsAlwaysSound`, `DeadlocksPauseTheBoard`, `NoEarlyAssignments`, whatever the
detector reports. That the links of the tree agree is not an invariant: a deletion on
a cycle of parents leaves a deleted child in a list, and `run()` may put the root with
that list back on the board (`ChildrenAreOnBoard` of section 5, which takes four
requests). `BoardIsSound` says of every step instead that it makes no other stale
entry (`LinksStaySound`), and a handler that is half-way through may only name tasks
that were created (`OnlyCreated`). What a cascading deletion collects is the least
set closed under child lists; it need not be on the board.

**GraphAgentProofs** (`GraphAssumption`): `NodesAreAccountedFor`, `QueuesKeepCount`,
`JoinsWaitForTheirInputs`, `ExecutionsRunInOrder`. `GraphInv` has two halves. The data
half says the same of the state with its arrays, of every runtime checkpoint
in it and of every saved state, whoever writes to them (`StateOK`,
`SnapshotSound`, `KeptSound`): since a restore makes a state of a snapshot, and an
execution goes on writing to arrays that a restore has replaced, the properties of
one of them are inductive only together with those of all. The other half is about
executions that shared nothing: while one is in flight it owns the state and no
other is there (`Apart`), its list is the beginning of the order up to its place
(`InStep`), and the one entry of the history that runs is its node
(`HistoryFollows`). For joins, `OrderedSays` states what
putting inputs in order returns: all of them and nothing else, and each once unless
the order repeats. It rests on the rounds over the keys (`PickSays`,
`PickRoundsSay`) and on `EdgeOrderLists`, since the order of the edges is a `CHOOSE`
of an increasing list; `InjectiveLists` counts lists without repetition, and
`JoinTakesArrived` concludes that a join which waits for all has all.

**ServicesProofs**, human in the loop: `PendingAreAlwaysListed` is inductive as it
stands; `AnswersAlwaysStand` is an action property from it.

**ServicesProofs**, schedules: `TasksAlwaysFollowSchedules`, shown for each
schedule apart, since a step touches one of them only.

**ServicesProofs**, requests of the resume worker: `RequestsAreAlwaysConsistent`.
The property alone does not exclude that a send fails, or an answer comes, for a call
that has not asked yet, or that a bullet is answered whose evaluation raises:
`RequestInv` adds that it does not happen (`SentBefore`).

**ServicesProofs**, plans: `ManagerBooksAlwaysAgree` and `AggregatesAreAlwaysFair`.
What makes `ManagerInv` inductive is `PlanSound`: the first assignments are those of
the subtasks, in their order; only these are ever completed, and that of a
completed subtask is. Without it the aggregate, which counts assignments, could
report a success over an unfinished subtask after a retry has added one. A pass of
`coordinateExecution` is followed visit by visit (`PassStates`).

**ServicesProofs**, experts: `PoolBooksAlwaysAgree`; with the plans it makes
`BooksAlwaysAgree`. The property counts who runs and waits in a semaphore; the
invariant says instead at which place of which semaphore each expert is (`At`,
`PlacesSound`), that phases and places match, and that nobody is in two places,
across the semaphores that a change of the limit has left behind. Ids may repeat,
so `TrackingSound` speaks of an expert or of one that was given the same id, and
`TotalsSound` counts the reports by outcome (`Reported`).

**DayPlanningProofs**, slots: `PlansUseFreeTimeOnce`, for any events and tasks. It rests on
what sorting returns (`SortedProperties`: a rearrangement, nothing before what
it comes behind), on merging losing no busy time (`MergeCovers`), and on what
cutting leaves of a slot lying in it and beside what is used
(`SlotsWithoutKeepsWithin`). Each loop keeps a set of states: what is free of the
first `k` busy slots (`FreeBeside`), or plans whose entries and remaining slots
are all disjoint (`PlanStates`).

**DayPlanningProofs**, plans (`SlotsAssumption`, `PlanningAssumption`): `PlanOfDayIsRight`,
for any events that last and any tasks no two of which have one identity, in any unit of
time; of all plans of tasks of the day by `PlansOfTasksAreRight`. Two things can go wrong where a plan takes too
little: free time can get lost before the placing starts, and tasks on the way
through it. For the first, `AvailableSlotsAreAll` shows that whatever slot of 15 minutes
or more is free of all events with their buffer lies in one of the slots handed on: merging makes
nothing busy that was not (`MergeAddsNone`) and cutting drops nothing that is free
(`SubtractLosesNone`). For the second, `Progress` is carried through the rounds of
`scheduleTasks`: what lies beside everything placed is still in a slot (`LosesNone`),
every placed entry is one of the tasks at its full length (`FromTasks`), the
minutes of each task so far are placed or left out (`AllMinutes`), and a part that
was left out fits nowhere beside what is as important (`FitNowhere`), which later
rounds keep because they only place what is at most as important
(`PrioritiesAreOrdered`). `Minutes` counts a set of units, so that splitting, flattening
and sorting are shown to leave it alone one by one.

**DayPlanningProofs**, requests: `CommitsAlwaysFollowPlans` and
`DifferencesAlwaysHaveACause`, from one invariant. Neither is inductive: nothing in
them says that events and copies came in the order of the plan. `FollowInv` says how
far each request has come (`Follows(c, k)`: the first `k` entries of its plan are its
events, all copied but perhaps the last, and its step fits `k`), and that the plans of
commits are free of overlaps and in the working hours (`CommitsArePlans`), which
`PlansUseFreeTimeOnce` gives. `PlanningStepInv` serves the steps of one request.

**AlgorithmsProofs**, deadlocks (`DetectionAssumption`): `DeadlockReportsAreAlwaysRight`,
for any graph of any number of tasks. A call of the search that finds nothing is of
no use to its caller unless one knows why: `GoodOutcome` says that then every task it
has visited is *finished*, on no cycle and with blockers that are finished
(`Finished`), apart from those on the path. `ExploredIsGood` carries this through the
loop over the blockers, `SearchesAreGood` through the recursion, by induction over the
measure. A repetition on the path is a cycle (`RepetitionIsCycle`) because each entry
blocks the one before it. A search from a blocked task begins with nothing
visited, so if it finds nothing, all it has reached is finished and no cycle is behind
it (`CycleFromFinds`).

**AlgorithmsProofs**, workflows: `OrdersAreTopological` and `CyclicEdgesAreQueued`, for
any workflow. In `topologicalSort` the nodes that are visited but not yet in the order
(`open`) all lie above the node that is being visited (`AreAbove`): were a neighbour
one of them, there would be a cycle. So the neighbours of a node come into the order
before it does, and it is put in front of them (`GoodAcc`, `InFront`).
`computeReachability` is subtler, since it caches what a search returned although the
search was cut short at the stack; `AllCyclicEdgesQueued` of section 5 shows that edges on
cycles are missed for it. That the edges it does find break every cycle rests on a
rank of the nodes that is nowhere in the code (`Ranked`), the order in which they
came into the cache: an edge of a cached node leads down in it, or will be found
cyclic, or leads to a node that is still open. `CanBeRanked` is kept by every call
(`DescendIsGood`); at the end nothing is open, and no cycle lies in edges along which a
number falls.

**AlgorithmsProofs**, all of them: `SearchesAreAlwaysRight` and, with the plans,
`AlgorithmsAreAlwaysRight`. `AlgorithmsInv` says only that a report is that of the
last round, that what has been grown is a workflow, and that the events of a day last;
the theorems about any graph, workflow and day do the rest.

**AlgorithmsProofs**, resumes: `ResumeIsAlwaysConsistent`. That versions are numbered
without gaps holds whatever overlaps, because the number a call has drawn is one
above a number there is (`NumberFollows`). That calls one after the other walk
one timeline is stated as `Walk`: the undo stack is the timeline before the
cursor, the redo stack what is behind it, turned round; a call under way has applied
its step to the stacks and not yet to the text (`Turn`).

**InterviewProofs**, voice: `VoiceIsAlwaysSound` and `RecognizedAudioIsHeardOnce`: what a
recognizer holds or transcribes is nowhere else, whatever overlaps. `VoiceInv` needs
that audio which is not kept is nowhere (`UnkeptIsNowhere`) and that the last
batch of a recognizer belongs to one that ends (`LastIsOfEnding`), so that
closing it closes no recognizer in use. Of the audio in the buffer this is false
(`AudioIsHeardOnce` in section 5); what nothing crossed there is in exactly one of
four places (`Accounted`: it waits, travels, is held or has been heard), and
`CalmInv` says what sockets that take turns leave behind.

**InterviewProofs**, session (`SessionAssumption`): `TimersAlwaysFollowSession` and
`SettledEndsAreFinal` (`EndedStaysEnded`). That pausing leaves no timer is not inductive,
since nothing in it says what a resume finds when it arms the timers, nor that
the maps remember the timers they are to stop. `UndisturbedOK` adds both
(`ArmingFindsNone`, `OnlyCurrent`), that no two requests are in flight, and which
timers a pause on its way has still to stop. That an end is final follows from
`Settled`: once a completed session is quiet, only further ends pass the checks at
the entries, and an end writes nothing but the same status. One lemma,
`ShrinkingInv`, serves the eleven actions that arm nothing.

Only model-checked:

- All liveness, since fairness and ENABLED are out of the prover's reach:
  `ExpiredLockFreed`, `PendingSettles`, `LowDeadlocksAreBroken`,
  `ReadyTasksAreServed`, `CallsAreAnswered` (memory and graph agent),
  `EveryCallSettles`, `OverdueSessionsEnd`, `ExecutionsAreReported`, `WaitersHear`,
  `CallersSettle`.
- The three disagreements of section 5, which TLC refutes.

## 5. What the code does not keep

Three runs expect a violation; `findings` quotes the line each of them
contradicts. Other formulas state what a comment of the code says, with the
words quoted, and the code does not do. They belong to no run; TLC reports each of
them as violated when it replaces the properties of the configuration of its module.

- `MCArtifactLocking` `WriteLocksAreExclusive`: a WRITE lock beside a reader
  whose record a later reader has replaced.
- `MCSharedMemory` `VersionsAreTrue`: the history files old content under the
  new number.
- `MCMessageQueue` `TakenIsFinished`: a message taken as the second CRITICAL one of an
  iteration stays IN_PROGRESS. `ExpiresAfterRetries`: the periodic check
  expires without retrying.
- `MCCollectiveTasks` `BlockedByIsCurrent`, `LoadCountsActive`, `ResultsOnlyUnblock`,
  `DeletedHaveNoChildren`, `ChildrenAreOnBoard` (the third and the last with
  `MaxRequests = 4`): completion by hand, assignment over another agent,
  late results, decomposition and deletion on a cycle of parents each leave one of the
  books behind.
  `BreakRemovesCycleEdge`, `DeadlocksAreResolved`, `PendingTasksAreAssigned`: a
  cycle is broken at an edge outside it, an escalated deadlock waits for a PM
  that is paused, and an unblocked task that kept its agent is distributed by
  nobody.
- `MCPools` `ActiveCountsRunning`, `NewWorkerTakesTask`: the pools after a
  failure and after scaling up.
- `MCInterviewSession` `CompletedIsTerminal`, `EndClearsTimers`,
  `RunningIsMonitored`, `SkippedStaysSkipped`: requests on a session that overlap.
- `MCServices`: `LimitIsGlobal` (experts under the old semaphore run beside
  those under the new one) and, in `ExpertPool`, `ExpertsEndInTime` (nobody
  reads the signal that the timer aborts); `PausedHasNoTask` and
  `EnabledIsScheduled` (a schedule resumed twice has two tasks, one with an
  expression that a rejected update left invalid has none); `SuccessIsComplete`,
  `BlockedForAReason`, `WaitingIsCurrent` (a plan after retries and
  reassignments).
- `MCServices`, resumes: `NobodyAbandoned` (the answer to a posting has no text to
  make a posting of, and the `catch` looks for the entry that is already deleted, so
  that the caller waits for ever).
- `MCGraphAgent` `JoinsWaitForAll`: an order that repeats inputs makes up for a
  predecessor that failed.
- `MCAlgorithms`, resumes: `RedoKeepsTheRest` (a redo clears the redo stack),
  `UndoFindsText` (two undos that overlap pop an empty stack), `NumbersAreUnique`
  and `CurrentIsNewest` (versions made side by side take the same number, or
  turn it back).
- `MCAlgorithms`, voice: `AudioIsKept` (audio that comes while the buffer is
  transcribed is cleared with it, untranscribed), `AudioIsHeardOnce` (the next
  message or a disconnect sends the buffer again before it is cleared),
  `MutedAudioIsIgnored` (the flag is read behind the conversion, so that audio from
  before an unmute is kept), `RecognizersAreFinalized` (a second init replaces a
  recognizer that nobody finalizes, and so does an init that ends behind the
  disconnect make one).
- `MCAlgorithms`: `AllDeadlocksDetected` (tasks of a reported
  cycle start no search, which hides a second cycle through one of them), `AllCyclicEdgesQueued` (reachability cached although its search was
  cut short), `FreeTimeIsOffered` (a part of ten minutes is left out beside a gap of
  ten), `NoDoubleBooking` (a commit does not see the events of the one before it),
  `RescheduleFindsEvents` (nor does a request to reschedule, which removes nothing).

## 6. Not modelled

The map covers about a sixteenth of the repository, nearly all of the code that
keeps state across awaits. What is left out, and why:

- Texts and prompts, wording, logging, metrics, search and statistics, in every
  component; previews of a day; the update of graph nodes, user interactions
  and memory groups; node collisions of the expert pool; the Mongo mirror of
  the shared memory; warnings, webhooks, text messages and code execution of the
  interview.
- The agents that are loops around an LLM: what they do next is what a model
  answers, and they keep nothing between two calls.
- Request-to-database services and controllers (conversations, validation,
  knowledge graph, habits, goals, tasks, experience bank, identity, news, activity
  models, most of the 970 files): each is a read or a write of one document,
  and a model of it would repeat the assignments of the code.
- Adapters (Kafka, Redis, Mongo, Neo4j, SSE, compilers, scrapers, LLM clients)
  and the Python service but for its consumer: I/O around libraries.
- Code that nothing runs: the request queue and agent store of the assistant,
  the rate limiting of the tools, the calendar sync of the scheduling worker,
  the queue of tailoring jobs of the resume worker (no processor takes from
  it), agent audio and response times of the voice gateway (nothing starts them), the agent state machine (a table nobody consults). A model would have
  to invent its callers.
- A restart is modelled where something survives it (the interview session);
  the other maps are lost with the process and nothing reads them back.

## 7. Plan

1. An abstract mailbox for `MessageQueue` and an abstract calendar for
   `DayPlanning`, with the detailed modules shown to implement them.
2. Larger instances of the graph agent: two joins, and a retry inside the cycle
   during a restore.
3. The node locks of the expert pool, and the memory groups of the graph agent; the
   reconnection of the Kafka adapter.
