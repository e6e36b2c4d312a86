-------------------------- MODULE DeadlockDetection --------------------------
(***************************************************************************)
(* The deadlock detector of the collective agents (assistant-worker,       *)
(* deadlock-detection.service.ts): a depth-first search along blockedBy    *)
(* from every BLOCKED task, run on one snapshot of the task graph.         *)
(*                                                                         *)
(* The search is a recursive function of where it stands: the task it       *)
(* looks at, the tasks it has visited and the path it came.                *)
(***************************************************************************)
EXTENDS Naturals, Sequences, FiniteSets, SequencesExt

CONSTANTS
  Tasks,         \* task identifiers 1..n, in the order of the tasks map
  MaxBlockers,   \* bound on the length of blockedBy
  Priorities     \* task priorities in use, a subset of 0..100

ASSUME DetectionAssumption ==
  /\ IsFiniteSet(Tasks) /\ Tasks = 1..Cardinality(Tasks)
  /\ MaxBlockers \in Nat
  /\ Priorities \subseteq 0..100

VARIABLES
  blockedBy,   \* task -> the tasks blocking it, in order, without repetition
  blocked,     \* the tasks whose state is BLOCKED
  priority,    \* task -> priority
  deadlocks    \* the DeadlockInfo list detectDeadlocks returned, or "none"

detectVars == <<blockedBy, blocked, priority, deadlocks>>

-----------------------------------------------------------------------------
(***************************************************************************)
(* detectCycle.  found is the cycle or <<>>, visited the set it has grown. *)
(***************************************************************************)
Searches == Tasks \X (SUBSET Tasks) \X Seq(Tasks)
Outcomes == [found : Seq(Tasks), visited : SUBSET Tasks]

\* Mutated form: the path is returned from its start, not from the repetition.
WholePath(path, t) == path

\* The path from t on; it holds no task twice.
PathFrom(path, t) == SubSeq(path, CHOOSE i \in DOMAIN path : path[i] = t, Len(path))

\* Mutated form: only the first blocker of a task is followed.
FirstExplored(detect, blockers, visited, path) ==
  IF blockers = <<>> THEN [found |-> <<>>, visited |-> visited]
  ELSE detect[<<blockers[1], visited, path>>]

\* One blocker after the other is explored, until there is a cycle.
Explored(detect, blockers, visited, path) ==
  LET after[i \in 0..Len(blockers)] ==
        IF i = 0 THEN [found |-> <<>>, visited |-> visited]
        ELSE IF after[i - 1].found # <<>> THEN after[i - 1]
        ELSE detect[<<blockers[i], after[i - 1].visited, path>>]
  IN  after[Len(blockers)]

\* One call, detect answering the calls it makes.
Detected(detect, t, visited, path) ==
  IF t \in ToSet(path) THEN [found |-> PathFrom(path, t), visited |-> visited]
  ELSE IF t \in visited THEN [found |-> <<>>, visited |-> visited]
  ELSE Explored(detect, blockedBy[t], visited \cup {t}, Append(path, t))

\* A search from task t with a fresh visited set and an empty path.
CycleFrom(t) ==
  LET detect[q \in Searches] == Detected(detect, q[1], q[2], q[3])
  IN  detect[<<t, {}, <<>>>>].found

\* Mutated form: only the first task of the cycle is looked at.
SeverityOfFirst(cycle) ==
  IF priority[cycle[1]] >= 80 THEN "high"
  ELSE IF Len(cycle) > 3 THEN "medium"
  ELSE "low"

\* determineSeverity.  cycle holds no task twice.
Severity(cycle) ==
  IF \E i \in DOMAIN cycle : priority[cycle[i]] >= 80 THEN "high"
  ELSE IF Len(cycle) > 3 THEN "medium"
  ELSE "low"

\* The loop of detectDeadlocks over the tasks, seen = visitedGlobal, after each
\* round: a task that is not blocked, or in a cycle already, is passed over.
DetectRounds ==
  LET after[i \in 0..Cardinality(Tasks)] ==
        IF i = 0 THEN [deadlocks |-> <<>>, seen |-> {}]
        ELSE IF i \notin blocked \/ i \in after[i - 1].seen \/ CycleFrom(i) = <<>> THEN after[i - 1]
        ELSE [deadlocks |-> Append(after[i - 1].deadlocks,
                              [cycle |-> CycleFrom(i), severity |-> Severity(CycleFrom(i))]),
              seen |-> after[i - 1].seen \cup ToSet(CycleFrom(i))]
  IN  after

-----------------------------------------------------------------------------
(***************************************************************************)
(* Every graph of the given size is a snapshot some sequence of task       *)
(* operations leads to: dependencies may be set to any list of tasks.      *)
(***************************************************************************)
BlockerLists == UNION {{s \in [1..n -> Tasks] : IsInjective(s)} : n \in 0..MaxBlockers}

DetectInit ==
  /\ blockedBy \in [Tasks -> BlockerLists]
  /\ blocked \in SUBSET Tasks
  /\ priority \in [Tasks -> Priorities]
  /\ deadlocks = "none"

DetectDeadlocks ==
  /\ deadlocks = "none"
  /\ deadlocks' = DetectRounds[Cardinality(Tasks)].deadlocks
  /\ UNCHANGED <<blockedBy, blocked, priority>>

-----------------------------------------------------------------------------
(***************************************************************************)
(* Reference: cycles of the graph, by reachability.                        *)
(***************************************************************************)
Done == deadlocks # "none"
Cycles == {deadlocks[i].cycle : i \in DOMAIN deadlocks}

\* Tasks reachable from t in one step or more: the least set closed under edges.
Blockers(t) == ToSet(blockedBy[t])
Reach(t) ==
  {u \in Tasks : \A S \in SUBSET Tasks :
     Blockers(t) \subseteq S /\ (\A v \in S : Blockers(v) \subseteq S) => u \in S}
OnCycle(t) == t \in Reach(t)

\* Every list the detector returns is a cycle: each task is blocked by the
\* next one and the last by the first, and no task comes twice.
ReportsAreCycles ==
  Done => \A c \in Cycles :
    /\ Len(c) > 0 /\ IsInjective(c)
    /\ \A i \in DOMAIN c : c[IF i = Len(c) THEN 1 ELSE i + 1] \in Blockers(c[i])

\* A BLOCKED task that waits, directly or not, for tasks in a cycle leads to
\* a reported cycle: the visited sets never hide all the cycles behind a task.
StuckTasksLeadToReport ==
  Done => \A t \in blocked :
    (\E u \in Reach(t) : OnCycle(u)) =>
      \E c \in Cycles : ToSet(c) \cap (Reach(t) \cup {t}) # {}

\* A critical task in a reported cycle makes it one that is escalated and not
\* broken automatically, wherever in the cycle the search entered it.
CriticalCyclesEscalate ==
  Done => \A i \in DOMAIN deadlocks :
    (\E t \in ToSet(deadlocks[i].cycle) : priority[t] >= 80)
      <=> deadlocks[i].severity = "high"

\* What is reported is a cycle, rated by its highest priority, and whoever is
\* stuck for good is stuck behind something reported.
DeadlockReportsAreRight ==
  ReportsAreCycles /\ StuckTasksLeadToReport /\ CriticalCyclesEscalate
=============================================================================
