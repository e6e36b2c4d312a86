----------------------------- MODULE DayPlanning -----------------------------
(***************************************************************************)
(* The scheduling service (scheduling-worker, scheduling.service.ts): it   *)
(* plans the unmet habits and active goals of a user into the free time of *)
(* a day and commits the plan, one event after the other, to the store of  *)
(* the worker and to Google Calendar.  Requests run side by side: each of  *)
(* them is cut where it awaits one of the two.                             *)
(*                                                                         *)
(* A request has an identity and so have the events it makes: <<c, i>> is  *)
(* the i-th event of request c.  Google gives an event an identity of its  *)
(* own (mapEntityToGoogleEvent passes none), so the copy of <<c, i>> is    *)
(* known here by <<c, i>> and to Google under another name.  Previews read *)
(* and change nothing; they are left out.  Working hours, buffer and       *)
(* longest task are options of each request in the code and the same for   *)
(* all of them here: no request depends on the plan of another.            *)
(***************************************************************************)
EXTENDS TimeSlots

CONSTANTS
  DayTasks,     \* the habits and goals: records [id, duration, priority, deadline, prefers]
  Calls,        \* requests to commit, to reschedule and to place by hand
  ManualStarts, \* times a user asks for
  MaxCompleted  \* bound: tasks completed during a behaviour

ASSUME PlanningAssumption ==
  /\ IsFiniteSet(DayTasks)
  /\ \A t \in DayTasks :
       t \in [id : {t.id}, duration : Nat \ {0}, priority : Int, deadline : Int, prefers : STRING]
  /\ \A t, u \in DayTasks : t.id = u.id => t = u
  /\ ManualStarts \subseteq Nat
  /\ MaxCompleted \in Nat

VARIABLES
  events,   \* the store: event -> its slot
  copies,   \* events with a copy in Google Calendar
  unmet,    \* tasks that are still to be done
  kind,     \* request -> "none", "commit", "reschedule" or "manual"
  step,     \* request -> where it is
  plan,     \* request -> the tasks and slots it places
  current   \* request -> the event it works on

planVars == <<events, copies, unmet, kind, step, plan, current>>

NoEvent == <<>>
Ended == {"idle", "done", "unsaved", "unpushed"}
Running == {c \in Calls : step[c] \notin Ended}

PlanningInit ==
  /\ events = <<>> /\ copies = {}
  /\ unmet = DayTasks
  /\ kind = [c \in Calls |-> "none"]
  /\ step = [c \in Calls |-> "idle"]
  /\ plan = [c \in Calls |-> <<>>]
  /\ current = [c \in Calls |-> NoEvent]

Open(c, k, first) ==
  /\ step[c] = "idle"
  /\ kind' = [kind EXCEPT ![c] = k]
  /\ step' = [step EXCEPT ![c] = first]

\* The answer of findInTimeRange, whatever is in the store.  save keeps the times of
\* an event as text (toObject: toISOString), findInTimeRange compares them with
\* Dates, and to MongoDB no text is before or after a Date: no event matches.
FindInTimeRange == {}

-----------------------------------------------------------------------------
(***************************************************************************)
(* scheduleForDate, commitSchedule, manuallyScheduleTask.                  *)
(***************************************************************************)
\* scheduleAndCommit up to the answer with the events.
Commit(c) ==
  /\ Open(c, "commit", "planning")
  /\ UNCHANGED <<events, copies, unmet, plan, current>>

\* rescheduleForDate, which plans again and commits nothing.  It would delete the
\* events it finds first, and finds none.
Reschedule(c) ==
  /\ Open(c, "reschedule", "planning")
  /\ UNCHANGED <<events, copies, unmet, plan, current>>

\* The rest of scheduleForDate: the tasks are read, in whatever order the database
\* returns them, and placed around the events.  Only a commit goes on to save them.
Plan(c) ==
  /\ step[c] = "planning"
  /\ \E order \in SetToSeqs(unmet) :
       LET scheduled == PlanOfDay(SetToSeq(FindInTimeRange), order).scheduled
           commits == kind[c] = "commit" /\ scheduled # <<>>
       IN  /\ plan' = [plan EXCEPT ![c] = IF commits THEN scheduled ELSE <<>>]
           /\ step' = [step EXCEPT ![c] = IF commits THEN "saving" ELSE "done"]
  /\ UNCHANGED <<events, copies, unmet, kind, current>>

\* manuallyScheduleTask: the task is placed where the user says.
PlaceByHand(c, task, start) ==
  /\ Open(c, "manual", "saving")
  /\ plan' = [plan EXCEPT ![c] =
                <<[task |-> task, slot |-> Slot(start, start + task.duration)]>>]
  /\ UNCHANGED <<events, copies, unmet, current>>

NextEvent(c) == IF current[c] = NoEvent THEN <<c, 1>> ELSE <<c, current[c][2] + 1>>

\* The event is in the store.
Save(c) ==
  LET e == NextEvent(c)
  IN  /\ step[c] = "saving"
      /\ events' = [f \in DOMAIN events \cup {e} |->
                      IF f = e THEN plan[c][e[2]].slot ELSE events[f]]
      /\ current' = [current EXCEPT ![c] = e]
      /\ step' = [step EXCEPT ![c] = "pushing"]
      /\ UNCHANGED <<copies, unmet, kind, plan>>

\* Mutated form: an event that the store refuses is skipped.
SaveIsSkipped(c) ==
  /\ step[c] = "saving"
  /\ current' = [current EXCEPT ![c] = NextEvent(c)]
  /\ step' = [step EXCEPT ![c] = IF NextEvent(c)[2] < Len(plan[c]) THEN "saving" ELSE "done"]
  /\ UNCHANGED <<events, copies, unmet, kind, plan>>

\* The store refuses the event; the request rejects.
SaveFails(c) ==
  /\ step[c] = "saving"
  /\ step' = [step EXCEPT ![c] = "unsaved"]
  /\ UNCHANGED <<events, copies, unmet, kind, plan, current>>

\* The next event of the plan, if there is one.
GoOn(c) ==
  step' = [step EXCEPT ![c] = IF current[c][2] < Len(plan[c]) THEN "saving" ELSE "done"]

\* Google Calendar has the event too.
Push(c) ==
  /\ step[c] = "pushing"
  /\ copies' = copies \cup {current[c]}
  /\ GoOn(c)
  /\ UNCHANGED <<events, unmet, kind, plan, current>>

\* Mutated form: a copy that fails is skipped.
PushIsSkipped(c) ==
  /\ step[c] = "pushing"
  /\ GoOn(c)
  /\ UNCHANGED <<events, copies, unmet, kind, plan, current>>

\* Google Calendar refuses the event, or its answer is lost; the request rejects
\* where it is.
PushFails(c) ==
  /\ step[c] = "pushing"
  /\ copies' = copies \/ copies' = copies \cup {current[c]}
  /\ step' = [step EXCEPT ![c] = "unpushed"]
  /\ UNCHANGED <<events, unmet, kind, plan, current>>

\* completeTask: the habit has a completion of today, the goal its progress.
CompleteTask(t) ==
  /\ Cardinality(DayTasks \ unmet) < MaxCompleted
  /\ unmet' = unmet \ {t}
  /\ UNCHANGED <<events, copies, kind, step, plan, current>>

PlanningNext ==
  \/ \E c \in Calls :
       \/ Commit(c) \/ Reschedule(c)
       \/ Plan(c) \/ Save(c) \/ SaveFails(c) \/ Push(c) \/ PushFails(c)
       \/ \E t \in DayTasks, s \in ManualStarts : PlaceByHand(c, t, s)
  \/ \E t \in unmet : CompleteTask(t)

PlanningSpec == PlanningInit /\ [][PlanningNext]_planVars

-----------------------------------------------------------------------------
\* What a request to commit has brought into the store, wherever it stopped
\* (commitSchedule): the events of its plan up to one of them, all of them when it
\* is answered, in the working hours and apart from each other.  Two requests may
\* well plan the same time, and a user may place a task anywhere.
CommitsFollowPlans ==
  \A c \in Calls : kind[c] = "commit" =>
    LET made == {e[2] : e \in {f \in DOMAIN events : f[1] = c}}
    IN  /\ \E k \in 0..Len(plan[c]) : made = 1..k /\ (step[c] = "done" => k = Len(plan[c]))
        /\ \A i \in made : WorkStart <= events[<<c, i>>].start /\ events[<<c, i>>].end <= WorkEnd
        /\ \A i, j \in made : i # j => ~Overlap(events[<<c, i>>], events[<<c, j>>])

\* Google Calendar has no event that the store has not, and wherever the store has
\* one more, the request that made it is copying it or has rejected over it: however
\* many requests run and fail, at most one difference comes from each.
DifferencesHaveACause ==
  /\ copies \subseteq DOMAIN events
  /\ \A e \in DOMAIN events \ copies : current[e[1]] = e /\ step[e[1]] \in {"pushing", "unpushed"}
=============================================================================
