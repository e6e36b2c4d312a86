-------------------------- MODULE MCCollectiveTasks --------------------------
(***************************************************************************)
(* A small task board, with the detector of DeadlockDetection.             *)
(***************************************************************************)
EXTENDS CollectiveTasks

Detector(graph, stuck, critical) ==
  INSTANCE DeadlockDetection WITH
    MaxBlockers <- 2, Priorities <- {50, 80}, deadlocks <- "none",
    blockedBy <- graph, blocked <- stuck,
    priority <- [t \in Tasks |-> IF t \in critical THEN 80 ELSE 50]

\* The quantified set has one element: it makes TLC evaluate the arguments once.
MCDetect(graph, stuck, critical) ==
  IF stuck = {} THEN <<>>
  ELSE CHOOSE r \in {Detector(g, s, c)!DetectRounds[Cardinality(Tasks)].deadlocks :
                       g \in {graph}, s \in {stuck}, c \in {critical}} : TRUE

-----------------------------------------------------------------------------
(***************************************************************************)
(* What a comment of the code says and the code does not do.  The runs do  *)
(* not include these formulas; TLC reports each of them as violated when   *)
(* it replaces the properties in the configuration of this module,         *)
(* ResultsOnlyUnblock and ChildrenAreOnBoard with MaxRequests = 4.         *)
(***************************************************************************)

\* "blockedBy: Task IDs currently blocking this task": no task of the list
\* has completed.
BlockedByIsCurrent ==
  Idle => \A t \in live : \A d \in task[t].blockedBy : ~Completed(task, live, d)

\* "currentLoad: Number of active tasks" of an agent.
LoadCountsActive ==
  Idle => \A a \in Agents :
    load[a] = Cardinality({t \in live : task[t].agent = a /\ task[t].state \in {"assigned", "in_progress"}})

\* "Unblock dependent tasks": a result concerns dependents that are blocked,
\* not those that completed already.
ResultsOnlyUnblock ==
  [][Turn("message") => \A t \in live : task[t].state = "completed" => task'[t].state # "unassigned"]_vars

\* "Break deadlock cycle by removing lowest priority dependency": the
\* dependency removed is one of the cycle.
BreakRemovesCycleEdge ==
  [][Turn("break") =>
       LET c == Head(job).cycle
       IN  \A t \in Tasks : ToSet(task[t].deps) \ ToSet(task'[t].deps) \subseteq ToSet(c)]_vars

\* "childTaskIds": the tasks listed below a task are on the board.
ChildrenAreOnBoard == \A p \in live : task[p].children \subseteq live

\* "Task has child tasks. Delete children first or enable cascade deletion":
\* no task loses its parent by a deletion that does not cascade.
DeletedHaveNoChildren ==
  [][\A t \in live \ live' : \A c \in live' : c \in live => task[c].parent # t]_vars

\* "Resolve by escalating to PM or breaking cycle": no deadlock lasts, as long
\* as no user interferes.
Deadlocked == Deadlocks(task, live) # <<>>
DeadlocksAreResolved ==
  (paused # "manual" /\ Deadlocked) ~> (paused = "manual" \/ ~Deadlocked)

\* "Assign pending tasks to available agents": no UNASSIGNED task waits for
\* ever while an agent has room.
PendingTasksAreAssigned == \A t \in Tasks : t \in Ready ~> t \notin Ready
=============================================================================
