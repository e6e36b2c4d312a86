---------------------------- MODULE ManagerRuntime ----------------------------
(***************************************************************************)
(* The plan of one manager agent (assistant-worker,                        *)
(* manager-runtime.service.ts): its subtasks, assignments, waiting         *)
(* dependencies, metrics and aggregate, in the hands of HTTP requests that *)
(* none of the methods awaits in.                                          *)
(*                                                                         *)
(* Subtasks are numbered from 1 as in the plan; their ids are distinct.  A *)
(* plan from a description is a chain; a manual one names what it likes,   *)
(* itself, later subtasks and unknown ones included (0).  Texts, agents,   *)
(* workloads, results and events are left out.                             *)
(***************************************************************************)
EXTENDS Naturals, Sequences, FiniteSets

CONSTANTS
  ManualPlans,  \* plans users send: sequences of the dependencies of each subtask
  ChainLengths, \* lengths of the plans made from a description
  MaxRetries    \* bound: assignments that retries add to a plan

ASSUME ManagerAssumption ==
  /\ ManualPlans \subseteq Seq(SUBSET Nat)
  /\ \A p \in ManualPlans :
       p # <<>> /\ \A i \in DOMAIN p : p[i] \subseteq 0..Len(p)
  /\ ChainLengths \subseteq Nat \ {0} /\ MaxRetries \in Nat

VARIABLES
  subtasks,     \* the subtasks: [status, dependencies]
  assignments,  \* the assignments: [subtask, status]
  waitingDependencies,  \* the pairs <<subtask, dependency>> reported as unresolved
  metrics,      \* the counts reported
  aggregated,   \* status of the aggregated result, or none
  paused,
  completedOnce \* history: subtasks completed some time in this plan

managerVars == <<subtasks, assignments, waitingDependencies, metrics, aggregated, paused, completedOnce>>

SubtaskStatuses == {"pending", "in_progress", "blocked", "completed"}
AssignmentStatuses == {"pending", "assigned", "started", "completed"}

\* recomputeMetrics, computeWaitingDependencies
MetricsOf(st, as) ==
  [count |-> [s \in SubtaskStatuses |-> Cardinality({i \in DOMAIN st : st[i].status = s})],
   assignments |-> Len(as)]

IsComplete(st, d) == d \in DOMAIN st /\ st[d].status = "completed"

WaitingOf(st) ==
  {w \in (DOMAIN st) \X (0..Len(st)) : w[2] \in st[w[1]].dependencies /\ ~IsComplete(st, w[2])}

ManagerInit ==
  /\ subtasks = <<>> /\ assignments = <<>>
  /\ waitingDependencies = {}
  /\ metrics = MetricsOf(<<>>, <<>>)
  /\ aggregated = "none" /\ paused = FALSE /\ completedOnce = {}

Chain(n) == [i \in 1..n |-> IF i = 1 THEN {} ELSE {i - 1}]

\* The subtasks and assignments decomposeTask makes of a plan.
SubtasksOf(plan) == [i \in DOMAIN plan |-> [status |-> "pending", dependencies |-> plan[i]]]
AssignmentsOf(plan) == [i \in DOMAIN plan |-> [subtask |-> i, status |-> "pending"]]

DecomposeTask(plan) ==
  /\ subtasks' = SubtasksOf(plan)
  /\ assignments' = AssignmentsOf(plan)
  /\ waitingDependencies' = WaitingOf(subtasks')
  /\ metrics' = MetricsOf(subtasks', assignments')
  /\ aggregated' = "none" /\ paused' = FALSE /\ completedOnce' = {}

-----------------------------------------------------------------------------
(***************************************************************************)
(* coordinateExecution: one pass over the subtasks in their order, which   *)
(* starts what is ready, blocks what is not and completes what is in       *)
(* progress at every other place.                                          *)
(***************************************************************************)
\* Mutated form: the last assignment of a subtask.
LastOf(as, i) ==
  CHOOSE k \in DOMAIN as : as[k].subtask = i /\ \A j \in (k + 1)..Len(as) : as[j].subtask # i

FirstOf(as, i) ==
  CHOOSE k \in DOMAIN as : as[k].subtask = i /\ \A j \in 1..(k - 1) : as[j].subtask # i

Ready(st, i) == \A d \in st[i].dependencies : IsComplete(st, d)

Visited(plan, i) ==
  LET st == plan.subtasks
      status == IF st[i].status # "pending" THEN st[i].status
                ELSE IF Ready(st, i) THEN "in_progress" ELSE "blocked"
      completes == status = "in_progress" /\ i % 2 = 1
  IN  [subtasks |-> [st EXCEPT ![i].status = IF completes THEN "completed" ELSE status],
       assignments |-> IF completes
                       THEN [plan.assignments EXCEPT ![FirstOf(plan.assignments, i)].status = "completed"]
                       ELSE plan.assignments,
       started |-> IF st[i].status = "pending" /\ status = "in_progress"
                   THEN plan.started \cup {i} ELSE plan.started]

\* The plan after each visit of a pass.
Visits(st, as) ==
  LET v[i \in 0..Len(st)] ==
        IF i = 0 THEN [subtasks |-> st, assignments |-> as, started |-> {}]
        ELSE Visited(v[i - 1], i)
  IN  v

\* The pass; what it started leaves the pending assignments.
Coordinated(st, as) ==
  LET plan == Visits(st, as)[Len(st)]
  IN  [plan EXCEPT !.assignments =
         [k \in DOMAIN as |->
            LET a == plan.assignments[k]
            IN  IF a.subtask \in plan.started /\ a.status = "pending"
                  THEN [a EXCEPT !.status = "started"]
                ELSE a]]

\* A pause skips every subtask; a manager without a plan makes one first, which
\* ends the pause.
CoordinateExecution ==
  \E n \in ChainLengths :
    LET fresh == subtasks = <<>>
        st == IF fresh THEN SubtasksOf(Chain(n)) ELSE subtasks
        as == IF fresh THEN AssignmentsOf(Chain(n)) ELSE assignments
        plan == IF paused /\ ~fresh THEN [subtasks |-> st, assignments |-> as]
                ELSE Coordinated(st, as)
    IN  /\ subtasks' = plan.subtasks
        /\ assignments' = plan.assignments
        /\ waitingDependencies' = WaitingOf(subtasks')
        /\ metrics' = MetricsOf(subtasks', assignments')
        /\ paused' = (paused /\ ~fresh)
        /\ completedOnce' = completedOnce \cup {i \in DOMAIN subtasks' : IsComplete(subtasks', i)}
        /\ UNCHANGED aggregated

-----------------------------------------------------------------------------
\* Mutated form: the subtasks that are completed are counted.
AggregateSubtasks ==
  LET done == {i \in DOMAIN subtasks : subtasks[i].status # "pending"}
  IN  /\ subtasks # <<>>
      /\ aggregated' = IF Cardinality(done) = Len(subtasks) THEN "success"
                       ELSE IF done # {} THEN "partial" ELSE "failed"
      /\ metrics' = MetricsOf(subtasks, assignments)
      /\ UNCHANGED <<subtasks, assignments, waitingDependencies, paused, completedOnce>>

\* aggregateResults counts completed assignments against subtasks.
AggregateResults ==
  LET done == {k \in DOMAIN assignments : assignments[k].status = "completed"}
  IN  /\ subtasks # <<>>
      /\ aggregated' = IF Cardinality(done) = Len(subtasks) THEN "success"
                       ELSE IF done # {} THEN "partial" ELSE "failed"
      /\ metrics' = MetricsOf(subtasks, assignments)
      /\ UNCHANGED <<subtasks, assignments, waitingDependencies, paused, completedOnce>>

SetPaused(on) ==
  /\ paused' = on
  /\ UNCHANGED <<subtasks, assignments, waitingDependencies, metrics, aggregated, completedOnce>>

\* reassignAssignment takes the result of the assignment and starts its subtask
\* over; what waits for the subtask is not looked at.
ReassignAssignment(k) ==
  /\ k \in DOMAIN assignments
  /\ assignments' = [assignments EXCEPT ![k].status = "assigned"]
  /\ subtasks' = [subtasks EXCEPT ![assignments[k].subtask].status = "pending"]
  /\ metrics' = MetricsOf(subtasks', assignments')
  /\ UNCHANGED <<waitingDependencies, aggregated, paused, completedOnce>>

\* retrySubtask starts the subtask, ready or not, beside its old assignments.
RetrySubtask(i) ==
  /\ i \in DOMAIN subtasks /\ Len(assignments) < Len(subtasks) + MaxRetries
  /\ subtasks' = [subtasks EXCEPT ![i].status = "in_progress"]
  /\ assignments' = Append(assignments, [subtask |-> i, status |-> "started"])
  /\ metrics' = MetricsOf(subtasks', assignments')
  /\ UNCHANGED <<waitingDependencies, aggregated, paused, completedOnce>>

ManagerNext ==
  \/ \E plan \in ManualPlans : DecomposeTask(plan)
  \/ \E n \in ChainLengths : DecomposeTask(Chain(n))
  \/ CoordinateExecution
  \/ AggregateResults
  \/ \E on \in BOOLEAN : SetPaused(on)
  \/ \E k \in DOMAIN assignments : ReassignAssignment(k)
  \/ \E i \in DOMAIN subtasks : RetrySubtask(i)

ManagerSpec == ManagerInit /\ [][ManagerNext]_managerVars

-----------------------------------------------------------------------------
ManagerTypeOK ==
  /\ \A i \in DOMAIN subtasks : subtasks[i].status \in SubtaskStatuses
  /\ \A k \in DOMAIN assignments :
       assignments[k].subtask \in DOMAIN subtasks /\ assignments[k].status \in AssignmentStatuses
  /\ aggregated \in {"none", "success", "partial", "failed"}
  /\ paused \in BOOLEAN

\* The books of a plan agree after every sequence of requests: the metrics are
\* those of the subtasks, a completed subtask has a completed assignment, no
\* subtask has two, and nobody is reported to wait for a completed subtask.
ManagerBooksAgree ==
  /\ ManagerTypeOK
  /\ metrics = MetricsOf(subtasks, assignments)
  /\ \A i \in DOMAIN subtasks :
       LET own == {k \in DOMAIN assignments : assignments[k].subtask = i}
           completed == {k \in own : assignments[k].status = "completed"}
       IN  /\ Cardinality(completed) <= 1
           /\ subtasks[i].status = "completed" => completed # {}
  /\ \A w \in waitingDependencies : ~IsComplete(subtasks, w[2])

\* An aggregate says success only when every subtask of this plan has been
\* completed at some time, and always when every one is completed now; it says
\* failed only when none is.
AggregatesAreFair ==
  [][aggregated' # aggregated =>
       /\ aggregated' = "success" => completedOnce = DOMAIN subtasks
       /\ aggregated' = "failed" => \A i \in DOMAIN subtasks : ~IsComplete(subtasks, i)
       /\ aggregated' # "none" /\ (\A i \in DOMAIN subtasks : IsComplete(subtasks, i))
            => aggregated' = "success"]_managerVars
=============================================================================
