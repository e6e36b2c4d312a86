--------------------------- MODULE CollectiveTasks ---------------------------
(***************************************************************************)
(* The task board of one collective agent (assistant-worker,               *)
(* collective-agent.ts): the project manager (PM) loop, the deadlock       *)
(* check, the run() of a request and the operations of its HTTP API, with  *)
(* the agent loads of task-assignment.service.ts.                          *)
(*                                                                         *)
(* A handler that only awaits settled promises runs without another timer  *)
(* or request in between.  Such a handler is a job: a list of steps during *)
(* which nothing else happens.  run() is cut where it awaits the LLM.      *)
(***************************************************************************)
EXTENDS Integers, FiniteSets, Sequences, SequencesExt, Subsequences

CONSTANTS
  MaxTasks,     \* bound: tasks ever created
  Agents,       \* registered, active sub-agents
  NoAgent,      \* assignedAgentId is undefined
  Saturation,   \* load at which the assignment score of an agent is 0
  ManualBonus,  \* further tasks an agent takes when a user picks it
  MaxRequests,  \* bound: requests of the HTTP API
  MaxCopies,    \* bound: copies of one message in the PM inbox
  Detect(_, _, _)  \* the DeadlockInfo list for given blockedBy lists, BLOCKED
                   \* tasks and tasks of high priority

ASSUME TaskAssumption ==
  /\ MaxTasks \in Nat \ {0}
  /\ NoAgent \notin Agents
  /\ Saturation \in Nat \ {0} /\ ManualBonus \in Nat
  /\ MaxRequests \in Nat /\ MaxCopies \in Nat \ {0}

VARIABLES
  task,       \* the task objects, by creation order
  created,    \* how many tasks have been created
  live,       \* the keys of the tasks map
  load,       \* agentTaskCounts
  pending,    \* task -> number of its pendingAssignments
  inbox,      \* the messages for the PM, as copies of <<type, task>>
  planning,   \* root tasks whose decomposition the LLM is computing
  executing,  \* tasks whose execution the LLM is computing
  paused,     \* "no" or the pauseReason
  detected,   \* the cycles in lastDetectedDeadlocks
  job,        \* the steps left of the handler that is running
  requests    \* HTTP requests so far

boardVars == <<task, created, live, load, pending, inbox>>
runVars   == <<planning, executing>>
vars      == <<boardVars, runVars, paused, detected, job, requests>>

Tasks    == 1..MaxTasks
NoTask   == 0
States   == {"unassigned", "assigned", "in_progress", "blocked", "completed", "failed"}
Levels   == {"low", "high"}   \* priority below 80, or 80 and above
Messages == {"result", "started", "blocked"} \X Tasks
ListsOf(S) == UNION {{s \in [1..n -> S] : IsInjective(s)} : n \in 0..2}
Lists    == ListsOf(Tasks)
Severities == {"low", "medium", "high"}
Reports  == [cycle : Seq(Tasks), severity : Severities]

ASSUME DetectAssumption ==
  \A graph \in [Tasks -> Lists], stuck, critical \in SUBSET Tasks :
    Detect(graph, stuck, critical) \in Seq(Reports)

TaskRecords ==
  [state : States, agent : Agents \cup {NoAgent}, deps : Lists, blockedBy : SUBSET Tasks,
   parent : Tasks \cup {NoTask}, children : SUBSET Tasks, priority : Levels]
Steps ==
  [step : {"message", "distribute", "detect"}]
    \cup [step : {"assign"}, task : Tasks, run : BOOLEAN]
    \cup [step : {"break"}, cycle : Seq(Tasks)]

TasksTypeOK ==
  /\ task \in [Tasks -> TaskRecords]
  /\ created \in 0..MaxTasks
  /\ live \in SUBSET (1..created)
  /\ load \in [Agents -> Nat]
  /\ pending \in [Tasks -> Nat]
  /\ inbox \in [Messages -> 0..MaxCopies]
  /\ planning \in SUBSET Tasks /\ executing \in SUBSET Tasks
  /\ paused \in {"no", "manual", "deadlock"}
  /\ job \in Seq(Steps)
  /\ requests \in 0..MaxRequests

NewTask(p, parent, deps, agent) ==
  [state |-> "unassigned", agent |-> agent, deps |-> deps, blockedBy |-> {},
   parent |-> parent, children |-> {}, priority |-> p]

\* A task the LLM may propose, which refers to those before it in its answer.
Proposals(before) ==
  {NewTask(p, parent, deps, NoAgent) :
     p \in Levels, parent \in before \cup {NoTask}, deps \in ListsOf(before)}

TasksInit ==
  /\ task = [t \in Tasks |-> NewTask("low", NoTask, <<>>, NoAgent)]
  /\ created = 0 /\ live = {}
  /\ load = [a \in Agents |-> 0]
  /\ pending = [t \in Tasks |-> 0]
  /\ inbox = [m \in Messages |-> 0]
  /\ planning = {} /\ executing = {}
  /\ paused = "no" /\ detected = {}
  /\ job = <<>> /\ requests = 0

-----------------------------------------------------------------------------
(***************************************************************************)
(* Helpers.  T is a task function, L the keys of the tasks map.            *)
(***************************************************************************)
Completed(T, L, d) == d \in L /\ T[d].state = "completed"

BlockedTasks(T, L) == {t \in L : T[t].state = "blocked"}

\* Mutated form: dependencies that were blocking when last looked at.
UnmetAsRecorded(T, L, t) == T[t].blockedBy

Unmet(T, L, t) == {d \in ToSet(T[t].deps) : ~Completed(T, L, d)}

\* refreshTaskDependencyStatus
Refresh(T, L, t) ==
  LET unmet == Unmet(T, L, t)
      state == IF unmet # {} /\ T[t].state # "completed" THEN "blocked"
               ELSE IF unmet = {} /\ T[t].state = "blocked" THEN "unassigned"
               ELSE T[t].state
  IN  [T EXCEPT ![t].blockedBy = unmet, ![t].state = state]

\* Mutated form: the child stays in the list of its old parent.
UnlinkNothing(T, L, p, t) == T

\* linkChildToParent, unlinkChildFromParent: nothing without a live parent.
Link(T, L, p, t) == IF p \in L THEN [T EXCEPT ![p].children = @ \cup {t}] ELSE T
Unlink(T, L, p, t) == IF p \in L THEN [T EXCEPT ![p].children = @ \ {t}] ELSE T

\* Mutated form: the count is decremented whatever it is.
ReleaseUnchecked(ld, a, n) == IF a \in Agents THEN [ld EXCEPT ![a] = @ - n] ELSE ld

\* releaseTask, n times: the count does not go below 0.
Release(ld, a, n) == IF a \in Agents THEN [ld EXCEPT ![a] = IF @ > n THEN @ - n ELSE 0] ELSE ld

\* assignTask: any agent whose score is above 0 may be the best one.
CanTake(a) == load[a] < Saturation
Take(t, a) ==
  /\ load' = [load EXCEPT ![a] = @ + 1]
  /\ pending' = [pending EXCEPT ![t] = @ + 1]

\* markAssignmentCompleted: the first pending assignment of the task.
SettleOne(t) == [pending EXCEPT ![t] = IF @ > 0 THEN @ - 1 ELSE 0]

\* Mutated form: one pending assignment of each task is removed.
RemoveOnePending(S) == [t \in Tasks |-> IF t \in S /\ pending[t] > 0 THEN pending[t] - 1 ELSE pending[t]]

\* removePendingAssignment of each task in S
RemovePending(S) == [t \in Tasks |-> IF t \in S THEN 0 ELSE pending[t]]

\* breakDeadlockCycle: the first task of lowest priority in the cycle loses
\* its first dependency.
Weakest(T, c) ==
  LET least == {i \in DOMAIN c : T[c[i]].priority = "low"
                                  \/ \A j \in DOMAIN c : T[c[j]].priority = "high"}
  IN  c[CHOOSE i \in least : \A j \in least : i <= j]
BreakCycle(T, L, c) ==
  LET alive == Without(c, Tasks \ L)
      w == Weakest(T, alive)
      blockers == T[w].blockedBy \ {Head(T[w].deps)}
  IN  IF alive = <<>> THEN T
      ELSE IF T[w].deps = <<>> THEN T
      ELSE [T EXCEPT ![w].deps = Tail(@), ![w].blockedBy = blockers,
                     ![w].state = IF blockers = {} THEN "unassigned" ELSE @]

-----------------------------------------------------------------------------
\* What deadlock-detection.service.ts finds on the board, see DeadlockDetection.
Deadlocks(T, L) ==
  Detect([t \in Tasks |-> IF t \in L THEN Without(T[t].deps, Tasks \ T[t].blockedBy) ELSE <<>>],
         BlockedTasks(T, L),
         {t \in L : T[t].priority = "high"})
CyclesIn(r) == {r[i].cycle : i \in DOMAIN r}

-----------------------------------------------------------------------------
(***************************************************************************)
(* Steps of the jobs.                                                      *)
(***************************************************************************)
Idle == job = <<>>
Turn(step) == job # <<>> /\ Head(job).step = step

\* handleTaskResult: complete, release the agent, unblock the dependents.
HandleResult(t) ==
  IF t \notin live \/ task[t].agent = NoAgent THEN UNCHANGED <<task, load, pending>>
  ELSE LET done == [task EXCEPT ![t].state = "completed"]
       IN  /\ task' = [d \in Tasks |->
                 IF d \in live /\ t \in ToSet(done[d].deps)
                   THEN [done[d] EXCEPT
                           !.blockedBy = @ \ {t},
                           !.state = IF done[d].blockedBy \subseteq {t} THEN "unassigned" ELSE @]
                   ELSE done[d]]
           /\ load' = Release(load, task[t].agent, 1)
           /\ pending' = SettleOne(t)

\* handleStatusUpdate
HandleStatus(t, state) ==
  /\ task' = IF t \in live THEN [task EXCEPT ![t].state = state] ELSE task
  /\ UNCHANGED <<load, pending>>

\* getNextMessage, handlePMessage, markDelivered.  The sender picks the
\* priority of a message, so any message may be the next.
StepMessage ==
  /\ Turn("message")
  /\ job' = Tail(job)
  /\ IF \A m \in Messages : inbox[m] = 0
       THEN UNCHANGED boardVars
       ELSE \E m \in Messages :
              /\ inbox[m] > 0
              /\ inbox' = [inbox EXCEPT ![m] = @ - 1]
              /\ CASE m[1] = "result"  -> HandleResult(m[2])
                   [] m[1] = "started" -> HandleStatus(m[2], "in_progress")
                   [] m[1] = "blocked" -> HandleStatus(m[2], "blocked")
              /\ UNCHANGED <<created, live>>
  /\ UNCHANGED <<runVars, paused, detected, requests>>

OfLevel(T, s, p) == Without(s, {t \in Tasks : T[t].priority # p})

\* Mutated form: only the first task of the list is looked at.
FirstByPriority(T, s) == SubSeq(OfLevel(T, s, "high") \o s, 1, IF s = <<>> THEN 0 ELSE 1)

\* distributeTasksIntelligently: one step per task, highest priority first.
ByPriority(T, s) == OfLevel(T, s, "high") \o OfLevel(T, s, "low")

AssignSteps(s, run) == [i \in DOMAIN s |-> [step |-> "assign", task |-> s[i], run |-> run]]

StepDistribute ==
  /\ Turn("distribute")
  /\ LET ready == {t \in live : task[t].state = "unassigned"}
     IN  job' = AssignSteps(ByPriority(task, EntriesAt([t \in Tasks |-> t], ready)), FALSE) \o Tail(job)
  /\ UNCHANGED <<boardVars, runVars, paused, detected, requests>>

\* Mutated form: a distribution under way does not look at the pause.
DistributableAnyway(t) == task[t].agent = NoAgent /\ task[t].state = "unassigned"

\* The pause is looked at once per distribution, which nothing can interrupt.
Distributable(t) == paused = "no" /\ task[t].agent = NoAgent /\ task[t].state = "unassigned"

\* The body of the loop: skip, mark BLOCKED or assign.  tasks.set puts the
\* object (back) into the map.
StepAssign ==
  /\ Turn("assign")
  /\ job' = Tail(job)
  /\ LET t == Head(job).task
         unmet == Unmet(task, live, t)
     IN  \/ /\ ~Distributable(t)
            /\ UNCHANGED <<boardVars, executing>>
         \/ /\ Distributable(t) /\ unmet # {}
            /\ task' = [task EXCEPT ![t].state = "blocked", ![t].blockedBy = unmet]
            /\ live' = live \cup {t}
            /\ UNCHANGED <<created, load, pending, inbox, executing>>
         \/ /\ Distributable(t) /\ unmet = {}
            /\ \E a \in Agents :
                 /\ CanTake(a)
                 /\ task' = [task EXCEPT ![t].agent = a, ![t].state = "assigned"]
                 /\ Take(t, a)
            /\ live' = live \cup {t}
            /\ executing' = IF Head(job).run THEN executing \cup {t} ELSE executing
            /\ UNCHANGED <<created, inbox>>
         \/ /\ Distributable(t) /\ unmet = {}
            /\ \A a \in Agents : ~CanTake(a)
            /\ UNCHANGED <<boardVars, executing>>
  /\ UNCHANGED <<planning, paused, detected, requests>>

\* Mutated form: no check either while a deadlock has the board paused.
StepDetectUnlessPaused ==
  /\ Turn("detect")
  /\ IF paused # "no"
       THEN job' = Tail(job) /\ UNCHANGED <<paused, detected>>
       ELSE \E r \in {Deadlocks(task, live)} :
              LET low == EntriesAt(r, {i \in DOMAIN r : r[i].severity # "high"})
              IN
                /\ detected' = CyclesIn(r)
                /\ paused' = IF r = <<>> THEN paused ELSE "deadlock"
                /\ job' = [i \in DOMAIN low |-> [step |-> "break", cycle |-> low[i].cycle]] \o Tail(job)
  /\ UNCHANGED <<boardVars, runVars, requests>>

\* checkAndResolveDeadlocks up to the loop: pause, then one step per cycle of
\* low severity.  A cycle of high severity only sends the PM a help request
\* without task, which its loop delivers without effect.
StepDetect ==
  /\ Turn("detect")
  /\ IF paused = "manual"
       THEN job' = Tail(job) /\ UNCHANGED <<paused, detected>>
       ELSE \E r \in {Deadlocks(task, live)} :
              LET low == EntriesAt(r, {i \in DOMAIN r : r[i].severity # "high"})
              IN
                /\ detected' = CyclesIn(r)
                /\ paused' = IF r = <<>> THEN paused ELSE "deadlock"
                /\ job' = [i \in DOMAIN low |-> [step |-> "break", cycle |-> low[i].cycle]] \o Tail(job)
  /\ UNCHANGED <<boardVars, runVars, requests>>

StepBreak ==
  /\ Turn("break")
  /\ job' = Tail(job)
  /\ task' = BreakCycle(task, live, Head(job).cycle)
  /\ UNCHANGED <<created, live, load, pending, inbox, runVars, paused, detected, requests>>

-----------------------------------------------------------------------------
(***************************************************************************)
(* What starts the jobs, and the LLM calls of run().                       *)
(***************************************************************************)

\* runPMMainLoop, every second.
PMMainLoop ==
  /\ Idle /\ paused = "no"
  /\ \/ \E m \in Messages : inbox[m] > 0
     \/ \E t \in live : task[t].state = "unassigned" /\ task[t].agent = NoAgent
  /\ job' = <<[step |-> "message"], [step |-> "distribute"], [step |-> "message"]>>
  /\ UNCHANGED <<boardVars, runVars, paused, detected, requests>>

\* checkAndResolveDeadlocks, every deadlockCheckInterval.
DeadlockCheck ==
  /\ Idle /\ (BlockedTasks(task, live) # {} \/ detected # {})
  /\ job' = <<[step |-> "detect"]>>
  /\ UNCHANGED <<boardVars, runVars, paused, detected, requests>>

\* A message expires, the PM loop of another collective takes it, or it is the
\* second of its iteration and CRITICAL (see MessageQueue).
LoseMessage(m) ==
  /\ Idle /\ inbox[m] > 0
  /\ inbox' = [inbox EXCEPT ![m] = @ - 1]
  /\ UNCHANGED <<task, created, live, load, pending, runVars, paused, detected, job, requests>>

\* decomposeTaskHierarchy after the LLM answered: up to two tasks, each with
\* its parent pointer set and not entered in the list of the parent; then the
\* deadlock check and the distribution of the hierarchy, the root being of the
\* highest priority.
RunDecomposed(root) ==
  /\ Idle /\ root \in planning
  /\ planning' = planning \ {root}
  /\ \E n \in 0..2, one \in Proposals({root}), two \in Proposals({root, created + 1}) :
       LET proposed == <<one, two>>
           new == [i \in 1..n |-> created + i]
       IN  /\ created + n <= MaxTasks
           /\ task' = [t \in Tasks |-> IF t - created \in 1..n THEN proposed[t - created] ELSE task[t]]
           /\ created' = created + n
           /\ live' = live \cup ToSet(new)
           /\ job' = <<[step |-> "detect"]>>
                      \o AssignSteps(<<root>> \o ByPriority(task', new), TRUE)
  /\ UNCHANGED <<load, pending, inbox, executing, paused, detected, requests>>

\* The call of the LLM fails, and with it run().
RunFailed(root) ==
  /\ Idle /\ root \in planning
  /\ planning' = planning \ {root}
  /\ UNCHANGED <<boardVars, executing, paused, detected, job, requests>>

\* executeTask: the LLM answered and the result is sent to the PM, or the call
\* or the lookup of the context failed, which only counts in the statistics.
ExecuteTask(t) ==
  /\ Idle /\ t \in executing
  /\ executing' = executing \ {t}
  /\ \/ UNCHANGED inbox
     \/ /\ inbox[<<"result", t>>] < MaxCopies
        /\ inbox' = [inbox EXCEPT ![<<"result", t>>] = @ + 1]
  /\ UNCHANGED <<task, created, live, load, pending, planning, paused, detected, job, requests>>

-----------------------------------------------------------------------------
(***************************************************************************)
(* The HTTP API.                                                           *)
(***************************************************************************)
Request ==
  /\ Idle /\ requests < MaxRequests
  /\ requests' = requests + 1
  /\ UNCHANGED job

\* run(): create the root task, then await the LLM.
RunStart ==
  /\ Request /\ created < MaxTasks
  /\ created' = created + 1 /\ live' = live \cup {created + 1}
  /\ task' = [task EXCEPT ![created + 1] = NewTask("high", NoTask, <<>>, NoAgent)]
  /\ planning' = planning \cup {created + 1}
  /\ UNCHANGED <<load, pending, inbox, executing, paused, detected>>

CreateTask(p, parent, deps, agent) ==
  /\ Request /\ created < MaxTasks
  /\ LET t == created + 1
         L == live \cup {t}
         new == [NewTask(p, parent, deps, agent) EXCEPT
                   !.state = IF agent = NoAgent THEN "unassigned" ELSE "assigned"]
         T == [task EXCEPT ![t] = new]
     IN  /\ task' = Refresh(Link(T, L, parent, t), L, t)
         /\ created' = t /\ live' = L
  /\ UNCHANGED <<load, pending, inbox, runVars, paused, detected>>

\* updateTask with one of the fields that matter here.
UpdateWith(T, t) ==
  /\ Request /\ t \in live
  /\ task' = Refresh(T, live, t)
  /\ UNCHANGED <<created, live, load, pending, inbox, runVars, paused, detected>>
UpdateDependencies(t, deps) == UpdateWith([task EXCEPT ![t].deps = deps], t)
UpdateState(t, state) == UpdateWith([task EXCEPT ![t].state = state], t)
UpdateAgent(t, agent) ==
  UpdateWith([task EXCEPT ![t].agent = agent,
                          ![t].state = IF agent # NoAgent THEN "assigned"
                                       ELSE IF @ = "assigned" THEN "unassigned" ELSE @], t)
UpdateParent(t, parent) ==
  LET T == [Unlink(task, live, task[t].parent, t) EXCEPT ![t].parent = parent]
  IN  UpdateWith(Link(T, live, parent, t), t)

\* assignTaskManually: the agent is saturated or takes the task as well as
\* whoever has it.
AssignManually(t, a) ==
  /\ Request /\ t \in live /\ load[a] < Saturation + ManualBonus
  /\ task' = [task EXCEPT ![t].agent = a, ![t].state = "assigned"]
  /\ Take(t, a)
  /\ UNCHANGED <<created, live, inbox, runVars, paused, detected>>

\* reassignTask: unassignTask, then assignTaskManually, which may fail.
Reassign(t, a) ==
  LET freed == IF task[t].agent = NoAgent THEN load ELSE Release(load, task[t].agent, 1)
      left  == RemovePending(IF task[t].agent = NoAgent THEN {} ELSE {t})
  IN  /\ Request /\ t \in live
      /\ IF freed[a] < Saturation + ManualBonus
           THEN /\ task' = [task EXCEPT ![t].agent = a, ![t].state = "assigned"]
                /\ load' = [freed EXCEPT ![a] = @ + 1]
                /\ pending' = [left EXCEPT ![t] = @ + 1]
           ELSE /\ task' = [task EXCEPT ![t].agent = NoAgent,
                     ![t].state = IF task[t].agent # NoAgent /\ @ \in {"assigned", "in_progress"}
                                    THEN "unassigned" ELSE @]
                /\ load' = freed
                /\ pending' = left
      /\ UNCHANGED <<created, live, inbox, runVars, paused, detected>>

\* completeTaskManually
CompleteManually(t) ==
  /\ Request /\ t \in live /\ task[t].state # "completed"
  /\ task' = [task EXCEPT ![t].state = "completed"]
  /\ load' = Release(load, task[t].agent, 1)
  /\ pending' = SettleOne(t)
  /\ UNCHANGED <<created, live, inbox, runVars, paused, detected>>

\* What is listed below a task, the tasks that are no longer on the board included
\* and, like those in `closed`, not looked into.
Below(t, closed) ==
  {u \in Tasks : \A S \in SUBSET Tasks :
     t \in S /\ (\A p \in (S \cap live) \ closed : task[p].children \subseteq S) => u \in S}

\* collectTaskIdsForDeletion: the task and, cascading, all below it.
Collected(t, cascade) == IF cascade THEN Below(t, {}) ELSE {t}

\* A task that stays, without its references to the deleted ones.
Survivor(T, R, s) ==
  [T[s] EXCEPT !.deps = Without(@, R),
               !.blockedBy = @ \ R,
               !.children = @ \ R,
               !.parent = IF @ \in R THEN NoTask ELSE @]

\* Tasks are deleted in the order in which the search leaves them.  One whose parent
\* is deleted before it stays in the list of the parent, which is off the board by
\* then: the search came to the child first and through it to the parent, on a cycle
\* of parents.  Where that depends on the order of the lists, it may or may not be.
KeptIn(R, t) ==
  LET onCycle(c) == /\ task[c].parent \in R \ {c} /\ task[c].parent \in Below(c, {})
                    /\ c \in Below(t, {task[c].parent})
      kept == {c \in R : onCycle(c)}
  IN  {K \in SUBSET kept : \A c \in kept : task[c].parent \notin Below(t, {c}) => c \in K}

\* deleteTask
DeleteTask(t, cascade) ==
  LET C == Collected(t, cascade)
      R == C \cap live
      left == live \ C
  IN  /\ Request /\ t \in live
      /\ cascade \/ task[t].children = {}
      /\ \E K \in KeptIn(R, t) :
           LET unlinked(s) == {c \in R \ K : task[c].parent = s}
               T == [s \in Tasks |-> IF s \in left THEN Survivor(task, C, s)
                                     ELSE IF s \in R THEN [task[s] EXCEPT !.children = @ \ unlinked(s)]
                                     ELSE task[s]]
               touched == {s \in left : \/ T[s].deps # task[s].deps
                                        \/ T[s].blockedBy # task[s].blockedBy}
           IN  task' = [s \in Tasks |-> IF s \in touched THEN Refresh(T, left, s)[s] ELSE T[s]]
      /\ live' = left
      /\ load' = [a \in Agents |->
                    Release(load, a, Cardinality({s \in R : task[s].agent = a}))[a]]
      /\ pending' = RemovePending(R)
      /\ UNCHANGED <<created, inbox, runVars, paused, detected>>

\* resolveDeadlock: break a cycle reported earlier, then detect again.
ResolveDeadlock(c) ==
  /\ Request /\ c \in detected
  /\ task' = BreakCycle(task, live, c)
  /\ detected' = CyclesIn(Deadlocks(BreakCycle(task, live, c), live))
  /\ UNCHANGED <<created, live, load, pending, inbox, runVars, paused>>

\* pause() keeps the reason of an earlier pause.
Pause ==
  /\ Request /\ paused = "no"
  /\ paused' = "manual"
  /\ UNCHANGED <<boardVars, runVars, detected>>

\* Mutated form: the deadlocks found before the pause stay on record.
ResumeOnly ==
  /\ Request /\ paused # "no"
  /\ paused' = "no"
  /\ UNCHANGED <<boardVars, runVars, detected>>

Resume ==
  /\ Request /\ paused # "no"
  /\ paused' = "no" /\ detected' = {}
  /\ UNCHANGED <<boardVars, runVars>>

\* sendCollectiveMessage to the PM, by a user or an external agent.
SendToPM(m) ==
  /\ Request /\ m[2] <= created /\ inbox[m] < MaxCopies
  /\ inbox' = [inbox EXCEPT ![m] = @ + 1]
  /\ UNCHANGED <<task, created, live, load, pending, runVars, paused, detected>>

-----------------------------------------------------------------------------
JobNext == StepMessage \/ StepDistribute \/ StepAssign \/ StepDetect \/ StepBreak

LiveLists == ListsOf(live)

ApiNext ==
  \/ RunStart \/ Pause \/ Resume
  \/ \E p \in Levels, parent \in live \cup {NoTask}, deps \in LiveLists, a \in Agents \cup {NoAgent} :
       CreateTask(p, parent, deps, a)
  \/ \E t \in live : \/ \E deps \in LiveLists : UpdateDependencies(t, deps)
                     \/ \E s \in States : UpdateState(t, s)
                     \/ \E a \in Agents \cup {NoAgent} : UpdateAgent(t, a)
                     \/ \E p \in live \cup {NoTask} : UpdateParent(t, p)
                     \/ \E a \in Agents : AssignManually(t, a) \/ Reassign(t, a)
                     \/ CompleteManually(t)
                     \/ \E cascade \in BOOLEAN : DeleteTask(t, cascade)
  \/ \E c \in detected : ResolveDeadlock(c)
  \/ \E m \in Messages : SendToPM(m)

TasksNext ==
  \/ JobNext
  \/ PMMainLoop
  \/ DeadlockCheck
  \/ \E m \in Messages : LoseMessage(m)
  \/ \E t \in Tasks : RunDecomposed(t) \/ RunFailed(t) \/ ExecuteTask(t)
  \/ ApiNext

\* A started handler finishes; the event loop serves an interval that is due
\* between two handlers, however many of these it runs, hence the strong
\* fairness.  The LLM may never answer.
TasksFairness == WF_vars(JobNext) /\ SF_vars(PMMainLoop) /\ SF_vars(DeadlockCheck)

TasksSafetySpec == TasksInit /\ [][TasksNext]_vars
TasksSpec == TasksSafetySpec /\ TasksFairness

-----------------------------------------------------------------------------
(***************************************************************************)
(* Properties.                                                             *)
(***************************************************************************)

\* The two ends of the task tree agree: a task that enters the list of another is
\* on the board and names that one as its parent, and a task that leaves the board or
\* its parent is taken off the list, whatever is moved or deleted.  A list that run()
\* brings back to the board with a deleted root may be out of date; no other is.
IsChild(p, c) == c \in live /\ task[c].parent = p
LinksStaySound ==
  \A p \in live \cap live' : \A c \in task'[p].children :
    IsChild(p, c)' \/ (c \in task[p].children /\ ~IsChild(p, c))

\* An assignment is pending for a task of the board only.
PendingIsLive == \A t \in Tasks : pending[t] > 0 => t \in live

\* Deadlocks on record keep the board paused until they are resolved or a
\* user resumes it.
RecordedDeadlocksPause == detected # {} => paused # "no"

\* The PM gives a task to an agent only when all its dependencies are on the
\* board and completed, even if they changed since it was last BLOCKED.
AssignedAfterPrerequisites ==
  [][\A t \in Tasks : job # <<>> /\ task[t].agent = NoAgent /\ task'[t].agent # NoAgent
       => \A d \in ToSet(task[t].deps) : Completed(task, live, d)]_vars

\* Neither the PM nor run() assigns anything while the board is paused, also
\* when the pause came from the deadlock check of the same run().
NothingAssignedWhilePaused ==
  [][job # <<>> /\ paused # "no" =>
       \A t \in Tasks : task'[t].agent = task[t].agent]_vars

\* A deadlock among tasks of low severity does not last, unless a user pauses
\* the board: the check repeats while it pauses the board itself.
LowDeadlocks ==
  IF paused # "manual" /\ \A t \in live : task[t].priority = "low"
    THEN ToSet(Deadlocks(task, live)) ELSE {}
LowDeadlocksAreBroken == LowDeadlocks # {} ~> LowDeadlocks = {}

\* A task that nobody has and nothing blocks is assigned while an agent has
\* room, whatever else is UNASSIGNED.
Ready ==
  {t \in live : /\ paused = "no" /\ task[t].state = "unassigned"
                /\ Unmet(task, live, t) = {}
                /\ \E a \in Agents : load[a] < Saturation}
Unserved == {t \in Ready : task[t].agent = NoAgent}
ReadyTasksAreServed == \A t \in Tasks : t \in Unserved ~> t \notin Unserved

\* The books of the board agree: the types, the pending assignments with the tasks
\* there are, and the two ends of the task tree.
BoardIsSound == [](TasksTypeOK /\ PendingIsLive) /\ [][LinksStaySound]_vars

\* No assignment of the PM or of run() is premature: neither before its
\* prerequisites nor while the board is paused.
NothingAssignedEarly == AssignedAfterPrerequisites /\ NothingAssignedWhilePaused

=============================================================================
