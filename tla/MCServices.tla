----------------------------- MODULE MCServices -----------------------------
(***************************************************************************)
(* Model checking of services that share nothing: four of the assistant    *)
(* and one of the resume worker.  One run explores them one at a time:     *)
(* `subject` names the one that moves and the others stay as they start.   *)
(***************************************************************************)
EXTENDS ExpertPool, HumanInTheLoop, LearningSchedules, ManagerRuntime,
        ResumeRequests

VARIABLE subject

MCExperts == 1..3
MCLimits == {1, 2}

\* Manual plans: two that wait for each other, one that waits for a later and
\* an unknown subtask, three in a fan.
MCManualPlans == {<<{2}, {1}>>, <<{2}, {}, {0}>>, <<{}, {1}, {1}>>}
MCChainLengths == {1, 3}

servicesVars == <<subject, expertVars, hitlVars, scheduleVars, managerVars, requestVars>>

ServicesInit ==
  /\ subject \in {"experts", "humans", "schedules", "manager", "requests"}
  /\ PoolInit /\ SchedulesInit /\ ManagerInit
  /\ HitlInit /\ RequestsInit
  /\ subject # "humans" => owner = [r \in Requests |-> CHOOSE a \in Askers : TRUE] /\ timed = {}
  /\ subject # "requests" => asks = [c \in Calls |-> "bullet"]

ServicesNext ==
  /\ UNCHANGED subject
  /\ \/ /\ subject = "experts" /\ PoolNext
        /\ UNCHANGED <<hitlVars, scheduleVars, managerVars, requestVars>>
     \/ /\ subject = "humans" /\ HitlNext
        /\ UNCHANGED <<expertVars, scheduleVars, managerVars, requestVars>>
     \/ /\ subject = "schedules" /\ SchedulesNext
        /\ UNCHANGED <<expertVars, hitlVars, managerVars, requestVars>>
     \/ /\ subject = "manager" /\ ManagerNext
        /\ UNCHANGED <<expertVars, hitlVars, scheduleVars, requestVars>>
     \/ /\ subject = "requests" /\ RequestsNext
        /\ UNCHANGED <<expertVars, hitlVars, scheduleVars, managerVars>>

ServicesSpec ==
  ServicesInit /\ [][ServicesNext]_servicesVars /\ PoolFairness /\ HitlFairness
  /\ RequestsFairness

-----------------------------------------------------------------------------
\* The counts and lists of the expert pool and of the manager's plans agree with
\* what they count.
BooksAgree == PoolBooksAgree /\ ManagerBooksAgree

-----------------------------------------------------------------------------
(***************************************************************************)
(* What the code or a comment of it says and the code does not do.  The    *)
(* runs do not include these formulas; TLC reports each of them as         *)
(* violated when it replaces the properties in the configuration of this   *)
(* module (ExpertsEndInTime of ExpertPool likewise).                       *)
(***************************************************************************)

\* "Maximum number of experts that can run concurrently": also after updateConfig.
LimitIsGlobal ==
  Cardinality({e \in Experts : phase[e] = "running"}) <= maxConcurrentExperts

\* "Stop cron task": a paused schedule has no task that ticks.
PausedHasNoTask == \A s \in schedules \ enabled : ticking[s] = 0

\* Every schedule that getNextScheduledRuns lists is going to run.
EnabledIsScheduled == enabled \subseteq mapped

\* `success` of an aggregate: every subtask is completed.
SuccessIsComplete ==
  [][aggregated' # aggregated /\ aggregated' = "success"
       => \A i \in DOMAIN subtasks : IsComplete(subtasks, i)]_managerVars

\* 'dependency_unresolved': behind every blocked subtask there is one that a
\* coordination may still complete.
BlockedForAReason ==
  \A i \in DOMAIN subtasks :
    subtasks[i].status = "blocked" => \E d \in subtasks[i].dependencies : ~IsComplete(subtasks, d)

\* The waiting dependencies reported are those there are.
WaitingIsCurrent == waitingDependencies = WaitingOf(subtasks)

\* "promise that will be resolved when response arrives".
NobodyAbandoned == \A c \in Calls : ~Abandoned(c)
=============================================================================
