-------------------------- MODULE InterviewSession --------------------------
(***************************************************************************)
(* One interview session of the interview worker: the HTTP requests that   *)
(* start, pause, resume, end it, skip a question or submit an answer       *)
(* (SessionService and its use cases), and the two families of timers that *)
(* act on it by themselves: the phase check every ten seconds              *)
(* (PhaseTransitionService) and the time limit monitor every five          *)
(* (TimeLimitService).                                                     *)
(*                                                                         *)
(* The session lives in MongoDB.  A use case reads the whole document,     *)
(* builds the next one and saves it whole; ending and moving to the next   *)
(* phase set a few fields.  Every await lets other requests and timers in, *)
(* so a call is a record that remembers what it read and where it waits.   *)
(*                                                                         *)
(* A timer is named by the number of the request that armed it.  The maps  *)
(* of the services remember one timer of a family per session (current);   *)
(* live also holds those whose handle was overwritten.                     *)
(***************************************************************************)
EXTENDS Naturals, FiniteSets

CONSTANTS
    HttpSlots,      \* requests served at once
    TickSlots,      \* timer callbacks in flight at once
    Questions,      \* questions a candidate may skip
    Phases,         \* interview.phases.length
    MaxRequests,    \* bound on the requests sent
    MaxFaults       \* bound on failed calls and restarts

ASSUME SessionAssumption ==
    /\ Phases \in Nat \ {0}
    /\ MaxRequests \in Nat
    /\ MaxFaults \in Nat
    /\ HttpSlots \cap TickSlots = {}

VARIABLES
    session,    \* the document of the session, or NoSession
    known,      \* has the client learnt the id of the session?
    call,       \* call[s]: the request or timer callback that runs in slot s
    monitor,    \* the timers of TimeLimitService
    check,      \* the timers of SessionService.phaseCheckIntervals
    timeUp,     \* has the total time limit passed?
    requests,   \* number of requests sent
    faults,     \* number of faults so far
    alone       \* history: no two requests have overlapped so far

vars == <<session, known, call, monitor, check, timeUp, requests, faults, alone>>

Slots == HttpSlots \cup TickSlots

NoSession == [status |-> "none", phase |-> 0, skipped |-> {}]
NoTimer == 0
Timers == 1..MaxRequests

Document == [status: {"in-progress", "paused", "completed"},
             phase: 0..(Phases - 1), skipped: SUBSET Questions]

\* at: what the call does when the await it is in ends.
Call == [op: {"start", "pause", "resume", "skip", "submit", "end",
              "phase", "watch"},
         at: {"save", "saved", "look", "arm", "stop", "complete",
              "decide", "advance"},
         doc: Document,
         timer: Timers]

NoCall == [op |-> "none"]

Family == [live: SUBSET Timers, current: Timers \cup {NoTimer}]

-----------------------------------------------------------------------------
(* The documents the use cases compute. *)

New == [status |-> "in-progress", phase |-> 0, skipped |-> {}]

\* Mutated form: the state machine lets any session be resumed.
CanResumeAny(doc) == TRUE

CanPause(doc) == doc.status = "in-progress"
CanResume(doc) == doc.status = "paused"

Paused(doc) == [doc EXCEPT !.status = "paused"]
Resumed(doc) == [doc EXCEPT !.status = "in-progress"]
Skip(doc, q) == [doc EXCEPT !.skipped = @ \cup {q}]

-----------------------------------------------------------------------------
(* The maps of timers. *)

\* setInterval, and the map entry overwritten.
Armed(family, t) == [live |-> family.live \cup {t}, current |-> t]

\* Mutated form: the entry is deleted but its timer is not cleared.
StoppedEntry(family) == [family EXCEPT !.current = NoTimer]

\* clearInterval of the timer the map remembers, and the entry deleted.
Stopped(family) ==
    [live |-> family.live \ {family.current}, current |-> NoTimer]

-----------------------------------------------------------------------------
(* Calls. *)

Free(s) == call[s] = NoCall

Enter(s, op, at, doc, timer) ==
    call' = [call EXCEPT ![s] =
                [op |-> op, at |-> at, doc |-> doc, timer |-> timer]]

MoveTo(s, at) == call' = [call EXCEPT ![s].at = at]

Leave(s) == call' = [call EXCEPT ![s] = NoCall]

Waits(s, at) == call[s] # NoCall /\ call[s].at = at

Quiet == \A s \in Slots : Free(s)
NoRequest == \A s \in HttpSlots : Free(s)

Init ==
    /\ session = NoSession
    /\ known = FALSE
    /\ call = [s \in Slots |-> NoCall]
    /\ monitor = [live |-> {}, current |-> NoTimer]
    /\ check = [live |-> {}, current |-> NoTimer]
    /\ timeUp = FALSE
    /\ requests = 0
    /\ faults = 0
    /\ alone = TRUE

-----------------------------------------------------------------------------
(* Requests. *)

Arrive(s) ==
    /\ Free(s)
    /\ requests < MaxRequests
    /\ requests' = requests + 1
    /\ alone' = (alone /\ NoRequest)
    /\ UNCHANGED <<session, known, monitor, timeUp, faults>>

\* startSession: StartInterviewUseCase builds the document.
Start(s) ==
    /\ Arrive(s)
    /\ requests = 0
    /\ Enter(s, "start", "save", New, requests')
    /\ UNCHANGED check

\* A request on the session reads its document, checks its status and
\* computes the document to save.
Request(s) ==
    /\ Arrive(s)
    /\ known
    /\ \/ /\ CanPause(session)
          /\ Enter(s, "pause", "save", Paused(session), requests')
       \/ /\ CanResume(session)
          /\ Enter(s, "resume", "save", Resumed(session), requests')
       \/ /\ session.status = "in-progress"
          /\ \/ \E q \in Questions : Enter(s, "skip", "save", Skip(session, q), requests')
             \/ Enter(s, "submit", "save", session, requests')
    /\ UNCHANGED check

\* endSession from the controller: the phase check is cleared before the
\* session is read.
End(s) ==
    /\ Arrive(s)
    /\ known
    /\ Enter(s, "end", "stop", session, requests')
    /\ check' = Stopped(check)

\* sessionRepository.save: the whole document replaces the stored one.
Save(s) ==
    /\ Waits(s, "save")
    /\ session' = call[s].doc
    /\ IF call[s].op \in {"skip", "submit"} THEN Leave(s) ELSE MoveTo(s, "saved")
    /\ UNCHANGED <<known, monitor, check, timeUp, requests, faults, alone>>

\* The rest of pauseSession.
StopTimers(s) ==
    /\ Waits(s, "saved")
    /\ call[s].op = "pause"
    /\ monitor' = Stopped(monitor)
    /\ check' = Stopped(check)
    /\ Leave(s)
    /\ UNCHANGED <<session, known, timeUp, requests, faults, alone>>

\* startMonitoring, up to its read of the session.
StartMonitoring(s) ==
    /\ Waits(s, "saved")
    /\ call[s].op \in {"start", "resume"}
    /\ monitor' = Stopped(monitor)
    /\ MoveTo(s, "look")
    /\ UNCHANGED <<session, known, check, timeUp, requests, faults, alone>>

\* startSession and resumeSession once startMonitoring has returned.
ArmCheck(s) ==
    /\ check' = Armed(check, call[s].timer)
    /\ known' = TRUE
    /\ Leave(s)

\* startMonitoring reads the session and monitors only one in progress.
Look(s) ==
    /\ Waits(s, "look")
    /\ \/ /\ session.status = "in-progress"
          /\ MoveTo(s, "arm")
          /\ UNCHANGED <<known, check>>
       \/ /\ session.status # "in-progress"
          /\ ArmCheck(s)
    /\ UNCHANGED <<session, monitor, timeUp, requests, faults, alone>>

Arm(s) ==
    /\ Waits(s, "arm")
    /\ monitor' = Armed(monitor, call[s].timer)
    /\ ArmCheck(s)
    /\ UNCHANGED <<session, timeUp, requests, faults, alone>>

\* endSession after its read: the monitor is stopped, then the status set.
StopMonitoring(s) ==
    /\ Waits(s, "stop")
    /\ monitor' = Stopped(monitor)
    /\ MoveTo(s, "complete")
    /\ UNCHANGED <<session, known, check, timeUp, requests, faults, alone>>

\* The update sets the status only, whatever the session has become.  A
\* monitor that has ended the session remembers it (total-limit-reached) and
\* does nothing more.
Complete(s) ==
    /\ Waits(s, "complete")
    /\ session' = [session EXCEPT !.status = "completed"]
    /\ monitor' = IF call[s].op = "watch"
                  THEN [monitor EXCEPT !.live = @ \ {call[s].timer}]
                  ELSE monitor
    /\ Leave(s)
    /\ UNCHANGED <<known, check, timeUp, requests, faults, alone>>

-----------------------------------------------------------------------------
(* Timers. *)

\* A callback starts by reading the session, and ends there unless the
\* session is in progress.
PhaseTick(s) ==
    /\ Free(s)
    /\ session.status = "in-progress"
    /\ \E t \in check.live : Enter(s, "phase", "decide", session, t)
    /\ UNCHANGED <<session, known, monitor, check, timeUp, requests, faults, alone>>

WatchTick(s) ==
    /\ Free(s)
    /\ session.status = "in-progress"
    /\ timeUp
    /\ \E t \in monitor.live : Enter(s, "watch", "decide", session, t)
    /\ UNCHANGED <<session, known, monitor, check, timeUp, requests, faults, alone>>

\* Mutated form: the total time limit is only logged, like that of a phase.
StayWhateverEnds(s) ==
    /\ Waits(s, "decide")
    /\ Leave(s)
    /\ UNCHANGED <<session, known, monitor, check, timeUp, requests, faults, alone>>

\* The phase has neither run out of time nor of questions.
StayInPhase(s) ==
    /\ Waits(s, "decide")
    /\ call[s].op = "phase"
    /\ Leave(s)
    /\ UNCHANGED <<session, known, monitor, check, timeUp, requests, faults, alone>>

\* Mutated form: the check for a next phase is one off.
LeaveEveryPhase(s) ==
    /\ Waits(s, "decide")
    /\ call[s].op = "phase"
    /\ call[s].doc.phase + 1 <= Phases
    /\ MoveTo(s, "advance")
    /\ UNCHANGED <<session, known, monitor, check, timeUp, requests, faults, alone>>

\* The phase is over and there is a next one.
LeavePhase(s) ==
    /\ Waits(s, "decide")
    /\ call[s].op = "phase"
    /\ call[s].doc.phase + 1 < Phases
    /\ MoveTo(s, "advance")
    /\ UNCHANGED <<session, known, monitor, check, timeUp, requests, faults, alone>>

\* The last phase is over, or the total time: endSession begins.
TimerEnds(s) ==
    /\ Waits(s, "decide")
    /\ call[s].op = "watch" \/ call[s].doc.phase + 1 >= Phases
    /\ check' = Stopped(check)
    /\ MoveTo(s, "stop")
    /\ UNCHANGED <<session, known, monitor, timeUp, requests, faults, alone>>

\* The update of transitionToNextPhase: the phase read by the callback, plus
\* one.
Advance(s) ==
    /\ Waits(s, "advance")
    /\ session' = [session EXCEPT !.phase = call[s].doc.phase + 1]
    /\ Leave(s)
    /\ UNCHANGED <<known, monitor, check, timeUp, requests, faults, alone>>

\* External: time passes while the interview runs.
TimePasses ==
    /\ session.status = "in-progress"
    /\ ~timeUp
    /\ timeUp' = TRUE
    /\ UNCHANGED <<session, known, call, monitor, check, requests, faults, alone>>

-----------------------------------------------------------------------------
(* Faults. *)

Fault ==
    /\ faults < MaxFaults
    /\ faults' = faults + 1
    /\ UNCHANGED <<session, known, timeUp, requests, alone>>

\* A database call of a request is rejected: the client gets an error and
\* the rest of the handler does not run.
RequestFails(s) ==
    /\ Fault
    /\ ~Free(s)
    /\ Leave(s)
    /\ UNCHANGED <<monitor, check>>

\* The process ends, by itself or by a rejection in a timer callback that
\* nobody handles, and starts again: nothing re-arms the timers.
Restart ==
    /\ Fault
    /\ call' = [s \in Slots |-> NoCall]
    /\ monitor' = [live |-> {}, current |-> NoTimer]
    /\ check' = [live |-> {}, current |-> NoTimer]

-----------------------------------------------------------------------------
Continue(s) ==
    \/ Save(s)
    \/ StopTimers(s)
    \/ StartMonitoring(s)
    \/ Look(s)
    \/ Arm(s)
    \/ StopMonitoring(s)
    \/ Complete(s)
    \/ StayInPhase(s)
    \/ LeavePhase(s)
    \/ TimerEnds(s)
    \/ Advance(s)

Http(s) == Start(s) \/ Request(s) \/ End(s)
Tick(s) == PhaseTick(s) \/ WatchTick(s)

Next ==
    \/ \E s \in HttpSlots : Http(s) \/ RequestFails(s)
    \/ \E s \in TickSlots : Tick(s)
    \/ \E s \in Slots : Continue(s)
    \/ TimePasses
    \/ Restart

Spec == Init /\ [][Next]_vars

\* The database answers, and Node keeps firing an interval that is not
\* cleared: a monitor whose callback finds the slot taken fires again.
Fairness ==
    /\ \A s \in Slots : WF_vars(Continue(s))
    /\ \A s \in TickSlots : SF_vars(WatchTick(s))

LiveSpec == Spec /\ Fairness

-----------------------------------------------------------------------------
(* Properties. *)

\* Type invariant of the session, of the calls on it and of its timers; the
\* phase of the session is always one of the interview.
TypeOK ==
    /\ session \in Document \cup {NoSession}
    /\ known \in BOOLEAN
    /\ call \in [Slots -> Call \cup {NoCall}]
    /\ monitor \in Family
    /\ check \in Family
    /\ timeUp \in BOOLEAN
    /\ requests \in 0..MaxRequests
    /\ faults \in 0..MaxFaults
    /\ alone \in BOOLEAN

\* A session that is completed when no request and no timer callback is in
\* flight stays completed: every entry point reads the status first, and
\* timers left behind find nothing to do.
EndedStaysEnded ==
    [](session.status = "completed" /\ Quiet => [](session.status = "completed"))

\* A session whose time is up and that a monitor still watches does not stay
\* in progress, whatever requests overlap, fail or race with the callback.
OverdueSessionsEnd ==
    session.status = "in-progress" /\ timeUp /\ monitor.live # {}
        ~> session.status # "in-progress" \/ monitor.live = {}

\* As long as no request overlapped another and none failed, pausing is for
\* good: between requests no timer of either family is left on a paused
\* session, whatever the timer callbacks did meanwhile.
PausedIsUnwatched ==
    session.status = "paused" /\ NoRequest /\ alone /\ faults = 0
        => monitor.live = {} /\ check.live = {}

\* Under the same condition a session never has two timers of a family.
OneTimerEach ==
    alone /\ faults = 0
        => Cardinality(monitor.live) <= 1 /\ Cardinality(check.live) <= 1

\* The timers follow the session, on every path that one request after another
\* can take: the two conditions above, with the type invariant.
TimersFollowSession == TypeOK /\ PausedIsUnwatched /\ OneTimerEach

=============================================================================
