-------------------------- MODULE LearningSchedules --------------------------
(***************************************************************************)
(* The schedules of autonomous learning (assistant-worker,                 *)
(* scheduled-learning-manager.service.ts): schedules, their cron tasks and *)
(* the executions the tasks start.                                         *)
(*                                                                         *)
(* node-cron is external: a task ticks until it is stopped.  The tasks of  *)
(* one schedule are alike, so they are counted; the map remembers the last *)
(* one.  An execution keeps the schedule object it read before its await;  *)
(* an update replaces the object.  Times and the shutdown are left out.    *)
(***************************************************************************)
EXTENDS Naturals, FiniteSets

CONSTANTS
  Schedules,  \* schedule ids, each is drawn once
  MaxTicking, \* bound: live tasks of one schedule
  MaxRuns     \* bound: executions of one schedule

ASSUME SchedulesAssumption == MaxTicking \in Nat /\ MaxRuns \in Nat

VARIABLES
  schedules,  \* the ids in the map
  enabled,    \* those whose flag is set
  mapped,     \* those with an entry in cronTasks
  ticking,    \* id -> live tasks
  executing,  \* id -> executions in flight with the object that is in the map
  detached,   \* id -> executions, ended or not, with an object that left the map
  runCount,   \* id -> the count in the object
  runs,       \* history: executions started
  drawn,      \* history: ids that have been used
  doubled,    \* history: ids resumed while they had a task
  refused     \* history: ids with an update refused for its cron expression

scheduleVars == <<schedules, enabled, mapped, ticking, executing, detached, runCount,
                  runs, drawn, doubled, refused>>

SchedulesInit ==
  /\ schedules = {} /\ enabled = {} /\ mapped = {}
  /\ ticking = [s \in Schedules |-> 0]
  /\ executing = [s \in Schedules |-> 0] /\ detached = [s \in Schedules |-> 0]
  /\ runCount = [s \in Schedules |-> 0] /\ runs = [s \in Schedules |-> 0]
  /\ drawn = {} /\ doubled = {} /\ refused = {}

\* createCronTask, and the two statements that undo it where there is an entry.
CreateCronTask(s) ==
  /\ ticking[s] < MaxTicking
  /\ ticking' = [ticking EXCEPT ![s] = @ + 1] /\ mapped' = mapped \cup {s}

StopCronTask(s) ==
  /\ ticking' = IF s \in mapped THEN [ticking EXCEPT ![s] = @ - 1] ELSE ticking
  /\ mapped' = mapped \ {s}

\* The object of s leaves the map while executions hold it.
Detach(s) ==
  /\ detached' = [detached EXCEPT ![s] = @ + executing[s]]
  /\ executing' = [executing EXCEPT ![s] = 0]

ScheduleLearning(s, on) ==
  /\ s \notin drawn
  /\ drawn' = drawn \cup {s} /\ schedules' = schedules \cup {s}
  /\ IF on THEN CreateCronTask(s) /\ enabled' = enabled \cup {s}
     ELSE UNCHANGED <<ticking, mapped, enabled>>
  /\ UNCHANGED <<executing, detached, runCount, runs, doubled, refused>>

CancelScheduled(s) ==
  /\ s \in schedules
  /\ StopCronTask(s) /\ Detach(s)
  /\ schedules' = schedules \ {s} /\ enabled' = enabled \ {s}
  /\ UNCHANGED <<runCount, runs, drawn, doubled, refused>>

\* Mutated form: the task of before the update goes on.
UpdateBesideTask(s, on) ==
  /\ s \in schedules
  /\ Detach(s)
  /\ enabled' = IF on THEN enabled \cup {s} ELSE enabled \ {s}
  /\ IF on THEN CreateCronTask(s) ELSE UNCHANGED <<ticking, mapped>>
  /\ UNCHANGED <<schedules, runCount, runs, drawn, doubled, refused>>

\* updateSchedule stops the task, and starts one anew for an enabled schedule.
UpdateSchedule(s, on) ==
  /\ s \in schedules
  /\ Detach(s)
  /\ enabled' = IF on THEN enabled \cup {s} ELSE enabled \ {s}
  /\ mapped' = IF on THEN mapped \cup {s} ELSE mapped \ {s}
  /\ ticking' = [ticking EXCEPT ![s] =
                   (IF s \in mapped THEN @ - 1 ELSE @) + (IF on THEN 1 ELSE 0)]
  /\ ticking'[s] <= MaxTicking
  /\ UNCHANGED <<schedules, runCount, runs, drawn, doubled, refused>>

\* Its cron expression is invalid: it throws when the task is stopped already.
RefuseUpdate(s) ==
  /\ s \in schedules
  /\ StopCronTask(s)
  /\ refused' = refused \cup {s}
  /\ UNCHANGED <<schedules, enabled, executing, detached, runCount, runs, drawn, doubled>>

PauseSchedule(s) ==
  /\ s \in schedules
  /\ StopCronTask(s) /\ enabled' = enabled \ {s}
  /\ UNCHANGED <<schedules, executing, detached, runCount, runs, drawn, doubled, refused>>

\* resumeSchedule creates a task whether or not there is one.
ResumeSchedule(s) ==
  /\ s \in schedules
  /\ CreateCronTask(s) /\ enabled' = enabled \cup {s}
  /\ doubled' = IF s \in mapped THEN doubled \cup {s} ELSE doubled
  /\ UNCHANGED <<schedules, executing, detached, runCount, runs, drawn, refused>>

\* A task ticks: executeScheduledLearning up to the call of the orchestrator.
ExecuteScheduledLearning(s) ==
  /\ ticking[s] > 0 /\ s \in schedules \cap enabled /\ runs[s] < MaxRuns
  /\ executing' = [executing EXCEPT ![s] = @ + 1]
  /\ runs' = [runs EXCEPT ![s] = @ + 1]
  /\ UNCHANGED <<schedules, enabled, mapped, ticking, detached, runCount, drawn, doubled, refused>>

\* The orchestrator answers or throws; the run is counted in the object read.
ExecutionEnds(s) ==
  /\ executing[s] > 0
  /\ executing' = [executing EXCEPT ![s] = @ - 1]
  /\ runCount' = [runCount EXCEPT ![s] = @ + 1]
  /\ UNCHANGED <<schedules, enabled, mapped, ticking, detached, runs, drawn, doubled, refused>>

SchedulesNext ==
  \/ \E s \in Schedules, on \in BOOLEAN : ScheduleLearning(s, on) \/ UpdateSchedule(s, on)
  \/ \E s \in Schedules : CancelScheduled(s) \/ RefuseUpdate(s)
  \/ \E s \in Schedules : PauseSchedule(s) \/ ResumeSchedule(s)
  \/ \E s \in Schedules : ExecuteScheduledLearning(s) \/ ExecutionEnds(s)

SchedulesSpec == SchedulesInit /\ [][SchedulesNext]_scheduleVars

-----------------------------------------------------------------------------
SchedulesTypeOK ==
  /\ mapped \subseteq schedules /\ enabled \subseteq schedules /\ schedules \subseteq drawn
  /\ ticking \in [Schedules -> 0..MaxTicking]
  /\ {executing, detached, runCount, runs} \subseteq [Schedules -> 0..MaxRuns]

\* The tasks follow the schedules: a mapped task is alive and its schedule
\* enabled; only a schedule resumed while it had a task ever has a task that no
\* map remembers; only a refused update leaves an enabled schedule without one.
\* Every run is counted, but for those that an update or a cancellation detached.
TasksFollowSchedules ==
  /\ SchedulesTypeOK
  /\ \A s \in mapped : s \in enabled /\ ticking[s] > 0
  /\ \A s \in Schedules \ doubled : ticking[s] = IF s \in mapped THEN 1 ELSE 0
  /\ enabled \ mapped \subseteq refused
  /\ \A s \in Schedules : runs[s] = runCount[s] + executing[s] + detached[s]
=============================================================================
