------------------------------ MODULE TimeSlots ------------------------------
(***************************************************************************)
(* The planning of a day (scheduling-worker): the free slots of a day      *)
(* (TimeSlotService, time-slot.value-object.ts) and the greedy placing of  *)
(* tasks into them (TaskSchedulerService).  Times are counted in units of  *)
(* UnitMinutes from midnight of the day that is planned; clocks run on     *)
(* UTC, so that the hours of the two services are the same.                *)
(***************************************************************************)
EXTENDS Integers, Subsequences, SequencesExt

CONSTANTS
  UnitMinutes,        \* minutes per unit of time
  WorkStart, WorkEnd, \* working hours of the day
  Buffer,             \* bufferMinutes, in units
  MaxTaskDuration     \* maxTaskDuration, in units

ASSUME SlotsAssumption ==
  /\ UnitMinutes \in Nat \ {0}
  /\ WorkStart \in Nat /\ WorkEnd \in Nat /\ WorkStart < WorkEnd
  /\ Buffer \in Nat /\ MaxTaskDuration \in Nat \ {0}

NoDeadline == -1
Slot(start, end) == [start |-> start, end |-> end]
Length(slot) == slot.end - slot.start
HourOf(time) == (time * UnitMinutes) \div 60
Overlap(a, b) == a.start < b.end /\ a.end > b.start

\* The least and the greatest of two times.
Earlier(t, u) == IF t < u THEN t ELSE u
Later(t, u) == IF t > u THEN t ELSE u

Places(s) == (DOMAIN s) \X (DOMAIN s)

\* A sequence sorted by a strict order on its places, equals as they stand (Array.sort).
Sorted(s, before) ==
  LET place(i) == Cardinality({j \in DOMAIN s :
                    <<j, i>> \in before \/ (j <= i /\ <<i, j>> \notin before)})
  IN  [k \in DOMAIN s |-> s[CHOOSE i \in DOMAIN s : place(i) = k]]

-----------------------------------------------------------------------------
(***************************************************************************)
(* Free slots.                                                             *)
(***************************************************************************)
ByStart(slots) == Sorted(slots, {p \in Places(slots) : slots[p[1]].start < slots[p[2]].start})

\* One round of mergeBusySlots: a slot that overlaps or touches the last one extends it.
Merged(slots, s) ==
  IF slots # <<>> /\ s.start <= Last(slots).end
    THEN [slots EXCEPT ![Len(slots)] = Slot(@.start, Later(@.end, s.end))]
  ELSE Append(slots, s)

\* mergeBusySlots, in order of their start; after each round.
MergeRounds(slots) ==
  LET merged[i \in 0..Len(slots)] ==
        IF i = 0 THEN <<>> ELSE Merged(merged[i - 1], slots[i])
  IN  merged

MergeBusySlots(slots) == MergeRounds(ByStart(slots))[Len(slots)]

\* Mutated form: events without the buffer.
BusySlotsUnbuffered(events) ==
  MergeBusySlots([i \in DOMAIN events |-> Slot(events[i].start, events[i].end)])

\* extractBusySlots
BusySlots(events) ==
  MergeBusySlots([i \in DOMAIN events |->
                    Slot(events[i].start - Buffer, events[i].end + Buffer)])

\* Mutated form: what is left after the used part is lost.
SplitKeepsFront(slot, used) ==
  IF slot.start < used.start THEN <<Slot(slot.start, Earlier(used.start, slot.end))>> ELSE <<>>

\* splitSlotByBusy, splitSlotByUsed: what is left of a slot that overlaps.
Split(slot, used) ==
  (IF slot.start < used.start THEN <<Slot(slot.start, Earlier(used.start, slot.end))>> ELSE <<>>)
    \o (IF slot.end > used.end THEN <<Slot(Later(used.end, slot.start), slot.end)>> ELSE <<>>)

\* removeUsedSlot, and one round of subtractBusySlots.
SlotsWithout(slots, used) ==
  FlattenSeq([i \in DOMAIN slots |->
                IF Overlap(slots[i], used) THEN Split(slots[i], used) ELSE <<slots[i]>>])

\* subtractBusySlots, after each round.
SubtractRounds(busy) ==
  LET free[i \in 0..Len(busy)] ==
        IF i = 0 THEN <<Slot(WorkStart, WorkEnd)>> ELSE SlotsWithout(free[i - 1], busy[i])
  IN  free

\* minSlotDuration
IsLong(slot) == Length(slot) * UnitMinutes >= 15

\* Mutated form: slots that are too short stay.
ShortSlotsToo(events) ==
  LET busy == BusySlots(events) IN SubtractRounds(busy)[Len(busy)]

\* findAvailableSlots on one working day: what is free, without the slots that are
\* too short, whatever the tasks are that will be placed.
AvailableSlots(events) ==
  LET busy == BusySlots(events)
      free == SubtractRounds(busy)[Len(busy)]
  IN  EntriesAt(free, {i \in DOMAIN free : IsLong(free[i])})

-----------------------------------------------------------------------------
(***************************************************************************)
(* Placing tasks.  A task is a record [id, duration, priority, deadline,   *)
(* prefers]: its habit or goal, its length, and what its place depends on. *)
(***************************************************************************)
\* Mutated form: the last part is as long as the others.
PartsOfOneLength(task) ==
  LET n == (task.duration + MaxTaskDuration - 1) \div MaxTaskDuration
  IN  IF task.duration <= MaxTaskDuration THEN <<task>>
      ELSE [i \in 1..n |-> [task EXCEPT !.duration = MaxTaskDuration]]

\* splitLargeTask
Parts(task) ==
  LET n == (task.duration + MaxTaskDuration - 1) \div MaxTaskDuration
  IN  IF task.duration <= MaxTaskDuration THEN <<task>>
      ELSE [i \in 1..n |-> [task EXCEPT !.duration =
                              Earlier(MaxTaskDuration, task.duration - (i - 1) * MaxTaskDuration)]]

\* Mutated form: the least important task first.
ComesBeforeReversed(t, u) ==
  IF t.priority # u.priority THEN t.priority < u.priority ELSE t.duration < u.duration

\* prioritizeTasks: by priority, then deadline, then length.
ComesBefore(t, u) ==
  IF t.priority # u.priority THEN t.priority > u.priority
  ELSE IF t.deadline # NoDeadline /\ u.deadline # NoDeadline THEN t.deadline < u.deadline
  ELSE IF (t.deadline = NoDeadline) # (u.deadline = NoDeadline) THEN u.deadline = NoDeadline
  ELSE t.duration < u.duration

\* filterByPreferredTime, of one slot.
Suits(task, slot) ==
  LET hour == HourOf(slot.start)
  IN  CASE task.prefers = "morning" -> hour \in 6..11
        [] task.prefers = "afternoon" -> hour \in 12..16
        [] task.prefers = "evening" -> hour \in 17..21
        [] OTHER -> TRUE

\* scoreSlot, with isDuringWorkingHours('09:00', '18:00').
Score(task, slot) ==
  LET days == ((task.deadline - slot.start) * UnitMinutes) \div 1440
  IN  100 - (Length(slot) - task.duration) * UnitMinutes + (24 - HourOf(slot.start)) * 2
      + (IF HourOf(slot.start) >= 9 /\ slot.end * UnitMinutes <= 1080 THEN 50 ELSE 0)
      + (IF Suits(task, slot) THEN 100 ELSE 0)
      - (IF task.deadline = NoDeadline THEN 0
         ELSE IF days < 0 THEN 1000 ELSE IF days > 7 THEN days * 5 ELSE 0)

\* findBestSlotForTask: the slots it may take, best first, or none.
BestSlots(task, slots) ==
  LET fitting == EntriesAt(slots, {i \in DOMAIN slots : Length(slots[i]) >= task.duration})
      preferred == EntriesAt(fitting, {i \in DOMAIN fitting : Suits(task, fitting[i])})
      best == IF preferred = <<>> THEN fitting ELSE preferred
  IN  Sorted(best, {p \in Places(best) : Score(task, best[p[1]]) > Score(task, best[p[2]])})

\* One round of scheduleTasks: a task goes to the start of its best slot, if it has one.
Placed(result, task) ==
  LET best == BestSlots(task, result.slots)
      used == Slot(best[1].start, best[1].start + task.duration)
  IN  IF best = <<>> THEN [result EXCEPT !.unscheduled = Append(@, task)]
      ELSE [result EXCEPT !.scheduled = Append(@, [task |-> task, slot |-> used]),
                          !.slots = SlotsWithout(@, used)]

\* scheduleTasks, after each round; tasks are placed in order of priority.
ScheduleRounds(tasks, slots) ==
  LET result[i \in 0..Len(tasks)] ==
        IF i = 0 THEN [scheduled |-> <<>>, unscheduled |-> <<>>, slots |-> slots]
        ELSE Placed(result[i - 1], tasks[i])
  IN  result

ByPriority(tasks) ==
  Sorted(tasks, {p \in Places(tasks) : ComesBefore(tasks[p[1]], tasks[p[2]])})

ScheduleTasks(tasks, slots) == ScheduleRounds(ByPriority(tasks), slots)[Len(tasks)]

\* scheduleForDate, once the events and the tasks are read.
PlanOfDay(events, tasks) ==
  ScheduleTasks(FlattenSeq([i \in DOMAIN tasks |-> Parts(tasks[i])]), AvailableSlots(events))

-----------------------------------------------------------------------------
(***************************************************************************)
(* Reference: free time as a set of units.                                 *)
(***************************************************************************)
Units(slot) == slot.start..(slot.end - 1)

FreeUnits(events) ==
  (WorkStart..(WorkEnd - 1))
    \ UNION {(e.start - Buffer)..(e.end + Buffer - 1) : e \in events}

\* The free time that is offered to tasks: stretches of at least 15 minutes.
UsableUnits(events) ==
  LET day == [start : WorkStart..WorkEnd, end : WorkStart..WorkEnd]
      free == FreeUnits(events)
  IN  UNION {Units(s) : s \in {t \in day : IsLong(t) /\ Units(t) \subseteq free}}

Fits(duration, units) == \E t \in units : t..(t + duration - 1) \subseteq units

\* The units of time of the tasks with an identity, each with the place of its task.
Portions(tasks, id) ==
  UNION {{i} \X (1..tasks[i].duration) : i \in {j \in DOMAIN tasks : tasks[j].id = id}}

\* For a set of events, a sequence of tasks and their plan.
\* A plan uses free time only, none in stretches that are too short, and no time
\* twice, and gives a task all its minutes or leaves parts of them out.  A part is
\* left out only when it fits nowhere in the usable time that parts of its priority
\* and above have left.
PlanIsRight(events, tasks, plan) ==
  LET taken(S) == UNION {Units(plan.scheduled[i].slot) : i \in S}
      before(u) == {i \in DOMAIN plan.scheduled : plan.scheduled[i].task.priority >= u.priority}
      parts(t) == {i \in DOMAIN plan.scheduled : plan.scheduled[i].task.id = t.id}
  IN  /\ taken(DOMAIN plan.scheduled) \subseteq UsableUnits(events)
      /\ \A i, j \in DOMAIN plan.scheduled :
           i # j => ~Overlap(plan.scheduled[i].slot, plan.scheduled[j].slot)
      /\ \A t \in ToSet(tasks) :
           Cardinality(taken(parts(t))) + Cardinality(Portions(plan.unscheduled, t.id)) = t.duration
      /\ \A u \in ToSet(plan.unscheduled) :
           ~Fits(u.duration, UsableUnits(events) \ taken(before(u)))
=============================================================================
