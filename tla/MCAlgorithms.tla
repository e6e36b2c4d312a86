---------------------------- MODULE MCAlgorithms ----------------------------
(***************************************************************************)
(* Model checking of six subjects, `subject` naming the one that runs:     *)
(* deadlock detection over every graph of three tasks, the order and the   *)
(* cyclic edges of workflows, which grow edge by edge in every order, the  *)
(* plans of days, which fill event by event, the requests that commit      *)
(* plans, the editing of a resume, and the voice of an interview.          *)
(***************************************************************************)
EXTENDS DeadlockDetection, WorkflowGraph, DayPlanning, ResumeEditing, InterviewVoice

CONSTANTS
  MaxEdges,  \* bound: edges of a workflow
  MaxBusy    \* bound: events of a day that is planned

VARIABLES
  subject,
  edges,     \* the edges of a workflow of four nodes
  busy       \* the events of a day, whoever made them

MCTasks == 1..3
MCPriorities == {50, 80}
MCNodes == <<1, 2, 3, 4>>

\* In units of ten minutes: 50 minutes in the afternoon and 40 minutes by half past
\* twelve, which come first and are split into 30 and 10.  The day of
\* MCAlgorithms.cfg is from eleven to one.
DayTask(n, units, rank, due, hours) ==
  [id |-> n, duration |-> units, priority |-> rank, deadline |-> due, prefers |-> hours]
MCDayTasks ==
  {DayTask(1, 5, 2, NoDeadline, "afternoon"), DayTask(2, 4, 3, 75, "anytime")}

\* The permutations of the calls; those that exchange two of them exchange the
\* editors and the sockets too.  Only the actors of one subject leave their
\* initial states, so that all the permutations of these are covered.
Exchanges(f) == Cardinality({c \in Calls : f[c] = c}) = 1
Moves(g, S) == \E x \in S : g[x] # x
MCSymmetry ==
  {p[1] @@ p[2] @@ p[3] : p \in
     {q \in Permutations(Calls) \X Permutations(Editors) \X Permutations(Sockets) :
        Exchanges(q[1]) = Moves(q[2], Editors) /\ Exchanges(q[1]) = Moves(q[3], Sockets)}}

algorithmsVars == <<subject, edges, busy, detectVars, planVars, editingVars, voiceVars>>

NoTasksWait ==
  /\ blocked = {} /\ deadlocks = "none"
  /\ \A t \in Tasks : blockedBy[t] = <<>> /\ priority[t] = 50

AddEdge ==
  /\ Len(edges) < MaxEdges
  /\ \E n, m \in ToSet(MCNodes) :
       /\ [from |-> n, to |-> m] \notin ToSet(edges)
       /\ edges' = Append(edges, [from |-> n, to |-> m])

\* An event of up to an hour that begins before the working hours or in them.
AddEvent ==
  /\ Cardinality(busy) < MaxBusy
  /\ \E t \in (WorkStart - 1)..(WorkEnd - 1), n \in {1, 3, 6} : busy' = busy \cup {Slot(t, t + n)}

AlgorithmsInit ==
  /\ subject \in {"deadlocks", "workflows", "plans", "commits", "editing", "voice"}
  /\ DetectInit /\ edges = <<>> /\ busy = {} /\ PlanningInit /\ EditingInit /\ VoiceInit
  /\ subject # "deadlocks" => NoTasksWait
  /\ subject # "voice" => speech = "text"

AlgorithmsNext ==
  /\ UNCHANGED subject
  /\ \/ /\ subject = "deadlocks" /\ DetectDeadlocks
        /\ UNCHANGED <<edges, busy, planVars, editingVars, voiceVars>>
     \/ /\ subject = "workflows" /\ AddEdge
        /\ UNCHANGED <<busy, detectVars, planVars, editingVars, voiceVars>>
     \/ /\ subject = "plans" /\ AddEvent
        /\ UNCHANGED <<edges, detectVars, planVars, editingVars, voiceVars>>
     \/ /\ subject = "commits" /\ PlanningNext
        /\ UNCHANGED <<edges, busy, detectVars, editingVars, voiceVars>>
     \/ /\ subject = "editing" /\ EditingNext
        /\ UNCHANGED <<edges, busy, detectVars, planVars, voiceVars>>
     \/ /\ subject = "voice" /\ VoiceNext
        /\ UNCHANGED <<edges, busy, detectVars, planVars, editingVars>>

AlgorithmsSpec == AlgorithmsInit /\ [][AlgorithmsNext]_algorithmsVars

Workflow(start) == [nodes |-> MCNodes, edges |-> edges, start |-> start]

\* Every workflow is put in an order that fits its edges, from whatever node
\* it starts (topologicalSort), and the edges with a queue break every cycle and
\* lie on one (findCyclicEdges).
WorkflowSearchesAreRight ==
  /\ \A n \in ToSet(MCNodes) : OrderIsTopological(Workflow(n))
  /\ CyclesAreQueued(Workflow(1))

\* The two searches of the assistant for cycles, of waiting tasks and of
\* workflow edges, find what they are meant to find.
SearchesAreRight ==
  /\ subject = "deadlocks" => DeadlockReportsAreRight
  /\ subject = "workflows" => WorkflowSearchesAreRight

\* Whatever events are in a day and in whatever order tasks come, their plan is
\* right (findAvailableSlots, splitLargeTask and scheduleTasks).
PlansAreRight ==
  \A tasks \in SUBSET DayTasks : \A order \in SetToSeqs(tasks) :
    PlanIsRight(busy, order, PlanOfDay(SetToSeq(busy), order))

\* The algorithms compute what they are meant to: the searches, and the plans of days.
AlgorithmsAreRight == SearchesAreRight /\ (subject = "plans" => PlansAreRight)

-----------------------------------------------------------------------------
(***************************************************************************)
(* What a comment of the code says and the code does not do.  The runs do  *)
(* not include these formulas; TLC reports each of them as violated when   *)
(* it replaces the properties in the configuration of this module.         *)
(***************************************************************************)

\* "Detect all deadlocks in a task graph": every BLOCKED task on a cycle is
\* in some reported cycle.
AllDeadlocksDetected ==
  Done => \A t \in blocked : OnCycle(t) => \E c \in Cycles : t \in ToSet(c)

\* "Provides visibility into queued payloads for cyclic edges": every edge on a
\* cycle has a queue.
AllCyclicEdgesQueued ==
  \A i \in DOMAIN edges :
    Reaches(Workflow(1), ToSet(edges), edges[i].to, edges[i].from)
      => i \in FindCyclicEdges(Workflow(1))

\* "Find available time slots in a date range, excluding busy times": a part of a
\* task that fits into free time is not left out.
FreeTimeIsOffered ==
  \A order \in SetToSeqs(DayTasks) :
    LET result == PlanOfDay(SetToSeq(busy), order)
    IN  \A u \in ToSet(result.unscheduled) :
          ~Fits(u.duration, FreeUnits(busy) \ UNION {Units(p.slot) : p \in ToSet(result.scheduled)})

\* "Schedule and commit tasks to calendar": no two events of a day overlap. One
\* commit after the other is enough.
NoDoubleBooking ==
  \A e, f \in DOMAIN events : e # f => ~Overlap(events[e], events[f])

\* "Find and delete existing auto-scheduled events": a request to reschedule that
\* runs alone plans a day without them.
RescheduleFindsEvents ==
  \A c \in Calls : kind[c] = "reschedule" /\ step[c] = "planning" /\ Running = {c} => events = <<>>

\* "Redo last undone edit": every edit undone can be redone until a new one is made.
RedoKeepsTheRest ==
  history.serial /\ AllIdle =>
    redoStack = Reversed(SubSeq(history.timeline, history.cursor + 1, Len(history.timeline)))

\* An undo or a redo finds a text on the stack it looked at.
UndoFindsText == \A p \in Editors : editing[p].stage = "saving" => editing[p].write # Absent

\* A version number names one version.
NumbersAreUnique ==
  \A i, j \in DOMAIN versions : versions[i].number = versions[j].number => i = j

\* The current version is the newest.
CurrentIsNewest == \A i \in DOMAIN versions : versions[i].number <= currentVersion

\* "Transcribe audio chunk and add to transcript": no audio that was kept is
\* cleared away untranscribed.
AudioIsKept == \A k \in Chunks : Kept(k) => Holders(k) > 0

\* Nor is any transcribed twice.
AudioIsHeardOnce == \A k \in Chunks : Holders(k) <= 1

\* "Ignore audio if muted": what arrives muted is not kept.
MutedAudioIsIgnored == \A k \in Chunks : arrival[k] # "keptMuted"

\* "Finalize streaming recognizer": none stays open behind the last disconnect.
RecognizersAreFinalized ==
  initing = 0 /\ (\A s \in Sockets : sockets[s] = "closed") =>
    \A i \in DOMAIN streams : streams[i].status # "open"
=============================================================================
