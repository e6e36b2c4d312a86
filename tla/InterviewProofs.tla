--------------------------- MODULE InterviewProofs ---------------------------
(***************************************************************************)
(* Proofs about interviews: first one session and its timers, then the     *)
(* voice of one session and its sockets.                                   *)
(***************************************************************************)
EXTENDS InterviewSession, InterviewVoice, SubsequenceProofs

-----------------------------------------------------------------------------
(***************************************************************************)
(* Proofs about one interview session, for any number of requests, slots,  *)
(* questions, phases and faults: its timers follow it, and an end that has *)
(* settled is final.                                                       *)
(*                                                                         *)
(* Timers follow the session only as long as requests came one after the   *)
(* other and none failed (Undisturbed).  Why they do needs to be said of   *)
(* the middle of a request: while a start or a resume is on its way to arm *)
(* the timers there are none (ArmingFindsNone), so that it makes the only  *)
(* ones, and a paused session has none unless the pause has still to stop  *)
(* them.                                                                   *)
(***************************************************************************)

Undisturbed == alone /\ faults = 0

Saving == {"save", "saved", "look", "arm"}
ArmingOps == {"start", "resume"}
SavingOps == ArmingOps \cup {"pause", "skip", "submit"}
TickOps == {"phase", "watch"}

\* Where the calls of each kind can be, and with which document.
CallOK(s) ==
  call[s] # NoCall =>
    /\ call[s].op \in SavingOps => s \in HttpSlots /\ call[s].at \in Saving
    /\ call[s].op = "end" => s \in HttpSlots /\ call[s].at \in {"stop", "complete"}
    /\ call[s].op \in TickOps =>
         s \in TickSlots /\ call[s].at \in {"decide", "advance", "stop", "complete"}
    /\ call[s].op \in SavingOps \ {"pause"} => call[s].doc.status = "in-progress"
    /\ call[s].at \in {"look", "arm"} => call[s].op \in ArmingOps
    /\ call[s].at = "advance" => call[s].doc.phase + 1 < Phases
    /\ session = NoSession => call[s].op = "start" /\ call[s].at = "save"

CallsOK == \A s \in Slots : CallOK(s)

\* Before the first request there is nothing.
FirstOK ==
  /\ requests = 0 => session = NoSession /\ monitor.live = {} /\ check.live = {} /\ Quiet
  /\ known => session # NoSession

\* The map remembers every timer there is.
OnlyCurrent == monitor.live \subseteq {monitor.current} /\ check.live \subseteq {check.current}

OneRequest == \A s, r \in HttpSlots : ~Free(s) /\ ~Free(r) => s = r

\* A start or a resume finds no timers.
ArmingFindsNone ==
  \A s \in Slots : ~Free(s) /\ call[s].op \in ArmingOps =>
    /\ monitor.live = {} /\ check.live = {}
    /\ call[s].at # "save" => session.status # "paused"

\* A paused session has none, or the pause has still to stop them.
PausedIsUnwatchedYet ==
  session.status = "paused" =>
    \/ monitor.live = {} /\ check.live = {}
    \/ \E s \in HttpSlots : ~Free(s) /\ call[s].op = "pause" /\ call[s].at = "saved"

UndisturbedOK == OnlyCurrent /\ OneRequest /\ ArmingFindsNone /\ PausedIsUnwatchedYet

SessionInv == TypeOK /\ CallsOK /\ FirstOK /\ (Undisturbed => UndisturbedOK)

\* What a completed session that was quiet is and stays: only ends come.
Settled ==
  /\ session.status = "completed" /\ session \in Document /\ requests # 0
  /\ \A s \in Slots : ~Free(s) => call[s].op = "end" /\ call[s].at \in {"stop", "complete"}

-----------------------------------------------------------------------------
(* What the helpers do to a call and to a family of timers. *)

Others(s) == \A r \in Slots : r # s => call'[r] = call[r]

LEMMA CallFields ==
  ASSUME TypeOK, NEW s \in Slots
  PROVE  ~Free(s) <=> call[s] \in Call
BY DEF TypeOK, Free, Call, NoCall

LEMMA Entered ==
  ASSUME TypeOK, NEW s \in Slots, NEW op, NEW at, NEW doc, NEW timer,
         Enter(s, op, at, doc, timer),
         [op |-> op, at |-> at, doc |-> doc, timer |-> timer] \in Call
  PROVE  /\ call' \in [Slots -> Call \cup {NoCall}] /\ Others(s) /\ ~Free(s)'
         /\ call'[s].op = op /\ call'[s].at = at /\ call'[s].doc = doc
<1> DEFINE new == [op |-> op, at |-> at, doc |-> doc, timer |-> timer]
<1>1. new.op = op /\ new.at = at /\ new.doc = doc
  OBVIOUS
<1> HIDE DEF new
<1>2. call' = [call EXCEPT ![s] = new]
  BY DEF Enter, new
<1>3. new \in Call /\ new # NoCall
  BY DEF new, Call, NoCall
<1> QED BY <1>1, <1>2, <1>3 DEF TypeOK, Others, Free

LEMMA Moved ==
  ASSUME TypeOK, NEW s \in Slots, ~Free(s), NEW at, MoveTo(s, at),
         at \in {"save", "saved", "look", "arm", "stop", "complete", "decide", "advance"}
  PROVE  /\ call' \in [Slots -> Call \cup {NoCall}] /\ Others(s) /\ ~Free(s)'
         /\ call'[s].op = call[s].op /\ call'[s].at = at /\ call'[s].doc = call[s].doc
<1> DEFINE new == [call[s] EXCEPT !.at = at]
<1>1. call[s] \in Call
  BY CallFields
<1>2. /\ new \in Call /\ new # NoCall
      /\ new.op = call[s].op /\ new.at = at /\ new.doc = call[s].doc
  BY <1>1 DEF Call, NoCall
<1> HIDE DEF new
<1>3. call' = [call EXCEPT ![s] = new]
  BY DEF MoveTo, new
<1> QED BY <1>2, <1>3 DEF TypeOK, Others, Free

LEMMA Left ==
  ASSUME TypeOK, NEW s \in Slots, Leave(s)
  PROVE  call' \in [Slots -> Call \cup {NoCall}] /\ Others(s) /\ Free(s)'
BY DEF TypeOK, Leave, Others, Free

LEMMA StoppedFamily ==
  ASSUME NEW f \in Family
  PROVE  /\ Stopped(f) \in Family /\ Stopped(f).live \subseteq f.live
         /\ f.live \subseteq {f.current} => Stopped(f).live = {}
BY DEF Stopped, Family

LEMMA ArmedFamily ==
  ASSUME NEW f \in Family, NEW t \in Timers
  PROVE  /\ Armed(f, t) \in Family
         /\ Armed(f, t).live = f.live \cup {t} /\ Armed(f, t).current = t
BY DEF Armed, Family

LEMMA DocumentFields ==
  /\ NoSession \notin Document /\ NoSession.status = "none"
  /\ \A d \in Document : d.status \in {"in-progress", "paused", "completed"}
BY DEF NoSession, Document

-----------------------------------------------------------------------------
(* The invariant. *)

LEMMA InitInv == Init => SessionInv
<1> SUFFICES ASSUME Init PROVE SessionInv
  OBVIOUS
<1>1. TypeOK
  <2>1. monitor \in Family /\ check \in Family
    BY DEF Init, Family
  <2>2. requests \in 0..MaxRequests /\ faults \in 0..MaxFaults
    BY SessionAssumption DEF Init
  <2> QED BY <2>1, <2>2 DEF Init, TypeOK
<1>2. CallsOK
  BY DEF Init, CallsOK, CallOK
<1>3. FirstOK
  BY DEF Init, FirstOK, Quiet, Free
<1>4. UndisturbedOK
  <2>1. \A s \in Slots : Free(s)
    BY DEF Init, Free
  <2>2. monitor.live = {} /\ check.live = {}
    BY DEF Init
  <2> QED BY <2>1, <2>2 DEF UndisturbedOK, OnlyCurrent, OneRequest, ArmingFindsNone,
                            PausedIsUnwatchedYet, Slots
<1> QED BY <1>1, <1>2, <1>3, <1>4 DEF SessionInv

\* The other calls are where they were.
LEMMA OthersOK ==
  ASSUME CallsOK, NEW s \in Slots, Others(s), CallOK(s)',
         session' = NoSession => session = NoSession
  PROVE  CallsOK'
BY DEF CallsOK, CallOK, Others

\* A call goes on, or a timer begins one, and at most stops timers.
LEMMA ShrinkingInv ==
  ASSUME SessionInv, NEW s \in Slots, Others(s), TypeOK', CallOK(s)',
         requests' # 0, UNCHANGED <<known, faults, alone>>,
         session' = NoSession => session = NoSession,
         session'.status = "paused" => session.status = "paused",
         monitor'.live \subseteq monitor.live, check'.live \subseteq check.live,
         OnlyCurrent => OnlyCurrent',
         s \in HttpSlots => ~Free(s),
         ~Free(s)' /\ call'[s].op \in ArmingOps =>
           /\ ~Free(s) /\ call[s].op \in ArmingOps
           /\ call'[s].at # "save" => call[s].at # "save",
         OnlyCurrent /\ ~Free(s) /\ call[s].op = "pause" /\ call[s].at = "saved" =>
           monitor'.live = {} /\ check'.live = {}
  PROVE  SessionInv'
<1>1. CallsOK'
  BY OthersOK DEF SessionInv
<1>2. FirstOK'
  BY DEF SessionInv, FirstOK
<1>3. ASSUME Undisturbed' PROVE UndisturbedOK'
  <2>1. UndisturbedOK
    BY <1>3 DEF Undisturbed, SessionInv
  <2>2. OneRequest'
    BY <2>1 DEF UndisturbedOK, OneRequest, Others, Free, Slots
  <2>3. ArmingFindsNone'
    BY <2>1 DEF UndisturbedOK, ArmingFindsNone, Others, Free
  <2>4. PausedIsUnwatchedYet'
    <3>1. CASE session'.status # "paused"
      BY <3>1 DEF PausedIsUnwatchedYet
    <3>2. CASE monitor.live = {} /\ check.live = {}
      BY <3>2 DEF PausedIsUnwatchedYet
    <3>3. ASSUME NEW r \in HttpSlots, ~Free(r), call[r].op = "pause", call[r].at = "saved"
          PROVE  PausedIsUnwatchedYet'
      <4>1. CASE r = s
        BY <2>1, <3>3, <4>1 DEF PausedIsUnwatchedYet, UndisturbedOK
      <4>2. CASE r # s
        BY <3>3, <4>2 DEF PausedIsUnwatchedYet, Others, Free, Slots
      <4> QED BY <4>1, <4>2
    <3> QED BY <2>1, <3>1, <3>2, <3>3 DEF PausedIsUnwatchedYet, UndisturbedOK
  <2> QED BY <2>1, <2>2, <2>3, <2>4 DEF UndisturbedOK
<1> QED BY <1>1, <1>2, <1>3 DEF SessionInv

-----------------------------------------------------------------------------
(* Calls that go on. *)

\* What holds in the middle of a call.
LEMMA InTheMiddle ==
  ASSUME SessionInv, NEW s \in Slots, NEW at, Waits(s, at)
  PROVE  /\ TypeOK /\ ~Free(s) /\ CallOK(s) /\ call[s].at = at /\ call[s] \in Call
         /\ call[s].doc \in Document /\ requests # 0
         /\ monitor \in Family /\ check \in Family
<1>1. TypeOK /\ ~Free(s) /\ CallOK(s) /\ call[s].at = at
  BY DEF SessionInv, CallsOK, Waits, Free
<1>2. call[s] \in Call
  BY <1>1, CallFields
<1>3. call[s].doc \in Document
  BY <1>2 DEF Call
<1> QED BY <1>1, <1>2, <1>3 DEF SessionInv, FirstOK, Quiet, TypeOK

LEMMA StopTimersInv ==
  ASSUME SessionInv, NEW s \in Slots, StopTimers(s)
  PROVE  SessionInv'
<1>1. Waits(s, "saved") /\ Leave(s) /\ monitor' = Stopped(monitor) /\ check' = Stopped(check)
      /\ UNCHANGED <<session, known, timeUp, requests, faults, alone>>
  BY DEF StopTimers
<1>2. TypeOK /\ ~Free(s) /\ requests # 0 /\ monitor \in Family /\ check \in Family
  BY <1>1, InTheMiddle
<1>3. call' \in [Slots -> Call \cup {NoCall}] /\ Others(s) /\ Free(s)'
  BY <1>1, <1>2, Left
<1>4. /\ monitor' \in Family /\ check' \in Family
      /\ monitor'.live \subseteq monitor.live /\ check'.live \subseteq check.live
      /\ OnlyCurrent => monitor'.live = {} /\ check'.live = {}
  BY <1>1, <1>2, StoppedFamily DEF OnlyCurrent
<1>5. TypeOK'
  BY <1>1, <1>2, <1>3, <1>4 DEF TypeOK
<1>6. CallOK(s)'
  BY <1>3 DEF CallOK, Free
<1>7. OnlyCurrent => OnlyCurrent'
  BY <1>4 DEF OnlyCurrent
<1> QED BY <1>1, <1>2, <1>3, <1>4, <1>5, <1>6, <1>7, ShrinkingInv

LEMMA StartMonitoringInv ==
  ASSUME SessionInv, NEW s \in Slots, StartMonitoring(s)
  PROVE  SessionInv'
<1>1. Waits(s, "saved") /\ call[s].op \in ArmingOps /\ MoveTo(s, "look")
      /\ monitor' = Stopped(monitor)
      /\ UNCHANGED <<session, known, check, timeUp, requests, faults, alone>>
  BY DEF StartMonitoring, ArmingOps
<1>2. TypeOK /\ ~Free(s) /\ CallOK(s) /\ call[s].at = "saved" /\ requests # 0 /\ monitor \in Family
  BY <1>1, InTheMiddle
<1>3. /\ call' \in [Slots -> Call \cup {NoCall}] /\ Others(s) /\ ~Free(s)'
      /\ call'[s].op = call[s].op /\ call'[s].at = "look" /\ call'[s].doc = call[s].doc
  BY <1>1, <1>2, Moved
<1>4. /\ monitor' \in Family /\ monitor'.live \subseteq monitor.live
      /\ OnlyCurrent => monitor'.live = {}
  BY <1>1, <1>2, StoppedFamily DEF OnlyCurrent
<1>5. TypeOK'
  BY <1>1, <1>2, <1>3, <1>4 DEF TypeOK
<1>6. CallOK(s)'
  BY <1>1, <1>2, <1>3 DEF CallOK, Free, Saving, SavingOps, ArmingOps, TickOps
<1>7. OnlyCurrent => OnlyCurrent'
  BY <1>1, <1>4 DEF OnlyCurrent
<1>8. call[s].op # "pause"
  BY <1>1 DEF ArmingOps
<1> QED BY <1>1, <1>2, <1>3, <1>4, <1>5, <1>6, <1>7, <1>8, ShrinkingInv

LEMMA StopMonitoringInv ==
  ASSUME SessionInv, NEW s \in Slots, StopMonitoring(s)
  PROVE  SessionInv'
<1>1. Waits(s, "stop") /\ MoveTo(s, "complete") /\ monitor' = Stopped(monitor)
      /\ UNCHANGED <<session, known, check, timeUp, requests, faults, alone>>
  BY DEF StopMonitoring
<1>2. TypeOK /\ ~Free(s) /\ CallOK(s) /\ call[s].at = "stop" /\ requests # 0 /\ monitor \in Family
  BY <1>1, InTheMiddle
<1>3. /\ call' \in [Slots -> Call \cup {NoCall}] /\ Others(s) /\ ~Free(s)'
      /\ call'[s].op = call[s].op /\ call'[s].at = "complete" /\ call'[s].doc = call[s].doc
  BY <1>1, <1>2, Moved
<1>4. /\ monitor' \in Family /\ monitor'.live \subseteq monitor.live
      /\ OnlyCurrent => monitor'.live = {}
  BY <1>1, <1>2, StoppedFamily DEF OnlyCurrent
<1>5. TypeOK'
  BY <1>1, <1>2, <1>3, <1>4 DEF TypeOK
<1>6. call[s].op \notin SavingOps
  BY <1>2 DEF CallOK, Free, Saving
<1>7. CallOK(s)'
  BY <1>1, <1>2, <1>3, <1>6 DEF CallOK, Free
<1>8. OnlyCurrent => OnlyCurrent'
  BY <1>1, <1>4 DEF OnlyCurrent
<1>9. call[s].op \notin ArmingOps
  BY <1>6 DEF SavingOps
<1> QED BY <1>1, <1>2, <1>3, <1>4, <1>5, <1>7, <1>8, <1>9, ShrinkingInv

LEMMA CompleteInv ==
  ASSUME SessionInv, NEW s \in Slots, Complete(s)
  PROVE  SessionInv'
<1>1. /\ Waits(s, "complete") /\ Leave(s)
      /\ session' = [session EXCEPT !.status = "completed"]
      /\ monitor' = IF call[s].op = "watch" THEN [monitor EXCEPT !.live = @ \ {call[s].timer}]
                    ELSE monitor
      /\ UNCHANGED <<known, check, timeUp, requests, faults, alone>>
  BY DEF Complete
<1>2. TypeOK /\ ~Free(s) /\ CallOK(s) /\ call[s].at = "complete" /\ requests # 0 /\ monitor \in Family
  BY <1>1, InTheMiddle
<1>3. call' \in [Slots -> Call \cup {NoCall}] /\ Others(s) /\ Free(s)'
  BY <1>1, <1>2, Left
<1>4. session \in Document
  BY <1>2 DEF CallOK, Free, TypeOK
<1>5. session' \in Document /\ session'.status = "completed"
  BY <1>1, <1>4 DEF Document
<1>6. monitor' \in Family /\ monitor'.live \subseteq monitor.live /\ monitor'.current = monitor.current
  BY <1>1, <1>2 DEF Family
<1>7. TypeOK'
  BY <1>1, <1>2, <1>3, <1>5, <1>6 DEF TypeOK
<1>8. CallOK(s)'
  BY <1>3 DEF CallOK, Free
<1>9. OnlyCurrent => OnlyCurrent'
  BY <1>1, <1>6 DEF OnlyCurrent
<1> QED BY <1>1, <1>2, <1>3, <1>5, <1>6, <1>7, <1>8, <1>9, DocumentFields, ShrinkingInv

\* A callback decides.
LEMMA DecideInv ==
  ASSUME SessionInv, NEW s \in Slots,
         StayInPhase(s) \/ LeavePhase(s) \/ TimerEnds(s)
  PROVE  SessionInv'
<1>1. Waits(s, "decide")
      /\ UNCHANGED <<session, known, monitor, timeUp, requests, faults, alone>>
  BY DEF StayInPhase, LeavePhase, TimerEnds
<1>2. /\ TypeOK /\ ~Free(s) /\ CallOK(s) /\ call[s].at = "decide" /\ requests # 0
      /\ check \in Family
  BY <1>1, InTheMiddle
<1>3. call[s].op \notin SavingOps /\ call[s].op # "end" /\ session # NoSession
  BY <1>2 DEF CallOK, Free, Saving
<1>4. call[s].op \notin ArmingOps /\ call[s].op # "pause"
  BY <1>3 DEF SavingOps
<1>5. CASE StayInPhase(s)
  <2>1. Leave(s) /\ check' = check
    BY <1>5 DEF StayInPhase
  <2>2. call' \in [Slots -> Call \cup {NoCall}] /\ Others(s) /\ Free(s)'
    BY <1>2, <2>1, Left
  <2>3. TypeOK' /\ CallOK(s)' /\ (OnlyCurrent => OnlyCurrent')
    BY <1>1, <1>2, <2>1, <2>2 DEF TypeOK, CallOK, Free, OnlyCurrent
  <2> QED BY <1>1, <1>2, <1>4, <2>1, <2>2, <2>3, ShrinkingInv
<1>6. CASE LeavePhase(s)
  <2>1. MoveTo(s, "advance") /\ check' = check /\ call[s].doc.phase + 1 < Phases
    BY <1>6 DEF LeavePhase
  <2>2. /\ call' \in [Slots -> Call \cup {NoCall}] /\ Others(s) /\ ~Free(s)'
        /\ call'[s].op = call[s].op /\ call'[s].at = "advance" /\ call'[s].doc = call[s].doc
    BY <1>2, <2>1, Moved
  <2>3. TypeOK' /\ (OnlyCurrent => OnlyCurrent')
    BY <1>1, <1>2, <2>1, <2>2 DEF TypeOK, OnlyCurrent
  <2>4. CallOK(s)'
    BY <1>1, <1>2, <1>3, <2>1, <2>2 DEF CallOK, Free
  <2> QED BY <1>1, <1>2, <1>4, <2>1, <2>2, <2>3, <2>4, ShrinkingInv
<1>7. CASE TimerEnds(s)
  <2>1. MoveTo(s, "stop") /\ check' = Stopped(check)
    BY <1>7 DEF TimerEnds
  <2>2. /\ call' \in [Slots -> Call \cup {NoCall}] /\ Others(s) /\ ~Free(s)'
        /\ call'[s].op = call[s].op /\ call'[s].at = "stop" /\ call'[s].doc = call[s].doc
    BY <1>2, <2>1, Moved
  <2>3. /\ check' \in Family /\ check'.live \subseteq check.live
        /\ OnlyCurrent => check'.live = {}
    BY <1>2, <2>1, StoppedFamily DEF OnlyCurrent
  <2>4. TypeOK' /\ (OnlyCurrent => OnlyCurrent')
    BY <1>1, <1>2, <2>2, <2>3 DEF TypeOK, OnlyCurrent
  <2>5. CallOK(s)'
    BY <1>1, <1>2, <1>3, <2>2 DEF CallOK, Free
  <2> QED BY <1>1, <1>2, <1>4, <2>2, <2>3, <2>4, <2>5, ShrinkingInv
<1> QED BY <1>5, <1>6, <1>7

LEMMA AdvanceInv ==
  ASSUME SessionInv, NEW s \in Slots, Advance(s)
  PROVE  SessionInv'
<1>1. /\ Waits(s, "advance") /\ Leave(s)
      /\ session' = [session EXCEPT !.phase = call[s].doc.phase + 1]
      /\ UNCHANGED <<known, monitor, check, timeUp, requests, faults, alone>>
  BY DEF Advance
<1>2. /\ TypeOK /\ ~Free(s) /\ CallOK(s) /\ call[s].at = "advance" /\ requests # 0
      /\ call[s].doc \in Document
  BY <1>1, InTheMiddle
<1>3. call' \in [Slots -> Call \cup {NoCall}] /\ Others(s) /\ Free(s)'
  BY <1>1, <1>2, Left
<1>4. session \in Document /\ call[s].doc.phase + 1 < Phases
  BY <1>2 DEF CallOK, Free, TypeOK
<1>5. call[s].doc.phase + 1 \in 0..(Phases - 1)
  BY <1>2, <1>4, SessionAssumption DEF Document
<1>6. session' \in Document /\ session'.status = session.status
  BY <1>1, <1>4, <1>5 DEF Document
<1>7. TypeOK' /\ CallOK(s)' /\ (OnlyCurrent => OnlyCurrent')
  BY <1>1, <1>2, <1>3, <1>6 DEF TypeOK, CallOK, Free, OnlyCurrent
<1> QED BY <1>1, <1>2, <1>3, <1>6, <1>7, DocumentFields, ShrinkingInv

LEMMA TickInv ==
  ASSUME SessionInv, NEW s \in TickSlots, Tick(s)
  PROVE  SessionInv'
<1>1. /\ Free(s) /\ session.status = "in-progress"
      /\ UNCHANGED <<session, known, monitor, check, timeUp, requests, faults, alone>>
      /\ \E op \in TickOps : \E t \in check.live \cup monitor.live : Enter(s, op, "decide", session, t)
  BY DEF Tick, PhaseTick, WatchTick, TickOps
<1>2. TypeOK /\ s \in Slots /\ s \notin HttpSlots
  BY SessionAssumption DEF SessionInv, Slots
<1>3. session \in Document
  BY <1>1, <1>2, DocumentFields DEF TypeOK
<1>4. requests # 0
  BY <1>3, DocumentFields DEF SessionInv, FirstOK
<1>5. PICK op \in TickOps, t \in check.live \cup monitor.live : Enter(s, op, "decide", session, t)
  BY <1>1
<1>6. [op |-> op, at |-> "decide", doc |-> session, timer |-> t] \in Call
  BY <1>2, <1>3, <1>5 DEF TypeOK, Family, Call, TickOps
<1>7. /\ call' \in [Slots -> Call \cup {NoCall}] /\ Others(s) /\ ~Free(s)'
      /\ call'[s].op = op /\ call'[s].at = "decide" /\ call'[s].doc = session
  BY <1>2, <1>5, <1>6, Entered
<1>8. op \notin SavingOps /\ op # "end" /\ op \notin ArmingOps
  BY DEF TickOps, SavingOps, ArmingOps
<1>9. CallOK(s)'
  BY <1>1, <1>3, <1>7, <1>8, DocumentFields DEF CallOK
<1>10. TypeOK' /\ (OnlyCurrent => OnlyCurrent')
  BY <1>1, <1>2, <1>7 DEF TypeOK, OnlyCurrent
<1> QED BY <1>1, <1>2, <1>4, <1>7, <1>8, <1>9, <1>10, ShrinkingInv

\* The timers are armed: they are the only ones.
LEMMA ArmedInv ==
  ASSUME SessionInv, NEW s \in Slots, ~Free(s), CallOK(s), call[s].op \in ArmingOps,
         call[s].at # "save", ArmCheck(s),
         UNCHANGED <<session, timeUp, requests, faults, alone>>,
         monitor' \in {monitor, Armed(monitor, call[s].timer)}
  PROVE  SessionInv'
<1>1. /\ TypeOK /\ call[s] \in Call /\ requests # 0 /\ session # NoSession
      /\ s \in HttpSlots /\ monitor \in Family /\ check \in Family
  BY CallFields DEF SessionInv, FirstOK, Quiet, TypeOK, CallOK, Free, SavingOps
<1>2. call[s].timer \in Timers
  BY <1>1 DEF Call
<1>3. /\ check' \in Family /\ check'.live = check.live \cup {call[s].timer}
      /\ check'.current = call[s].timer
      /\ known' = TRUE /\ Leave(s)
  BY <1>1, <1>2, ArmedFamily DEF ArmCheck
<1>4. monitor' \in Family /\ (monitor.live = {} => monitor'.live \subseteq {monitor'.current})
  BY <1>1, <1>2, ArmedFamily
<1>5. call' \in [Slots -> Call \cup {NoCall}] /\ Others(s) /\ Free(s)'
  BY <1>1, <1>3, Left
<1>6. TypeOK'
  BY <1>1, <1>3, <1>4, <1>5 DEF TypeOK
<1>7. CallsOK'
  BY <1>5, OthersOK DEF SessionInv, CallOK, Free
<1>8. FirstOK'
  BY <1>1 DEF FirstOK
<1>9. ASSUME Undisturbed' PROVE UndisturbedOK'
  <2>1. UndisturbedOK
    BY <1>9 DEF Undisturbed, SessionInv
  <2>2. monitor.live = {} /\ check.live = {} /\ session.status # "paused"
    BY <2>1 DEF UndisturbedOK, ArmingFindsNone
  <2>3. OnlyCurrent' /\ PausedIsUnwatchedYet'
    BY <1>3, <1>4, <2>2 DEF OnlyCurrent, PausedIsUnwatchedYet
  <2>4. \A r \in HttpSlots : Free(r)'
    BY <1>1, <1>5, <2>1 DEF UndisturbedOK, OneRequest, Others, Free, Slots
  <2>5. OneRequest'
    BY <2>4 DEF OneRequest
  <2>6. ArmingFindsNone'
    <3>1. CallsOK' => \A r \in Slots : ~Free(r)' /\ call'[r].op \in ArmingOps => r \in HttpSlots
      BY DEF CallsOK, CallOK, Free, SavingOps
    <3> QED BY <1>7, <2>4, <3>1 DEF ArmingFindsNone
  <2> QED BY <2>3, <2>5, <2>6 DEF UndisturbedOK
<1> QED BY <1>6, <1>7, <1>8, <1>9 DEF SessionInv

LEMMA LookOrArmInv ==
  ASSUME SessionInv, NEW s \in Slots, Look(s) \/ Arm(s)
  PROVE  SessionInv'
<1>1. CASE Arm(s)
  <2>1. Waits(s, "arm") /\ monitor' = Armed(monitor, call[s].timer) /\ ArmCheck(s)
        /\ UNCHANGED <<session, timeUp, requests, faults, alone>>
    BY <1>1 DEF Arm
  <2>2. ~Free(s) /\ CallOK(s) /\ call[s].at = "arm"
    BY <2>1, InTheMiddle
  <2>3. call[s].op \in ArmingOps
    BY <2>2 DEF CallOK, Free
  <2> QED BY <2>1, <2>2, <2>3, ArmedInv
<1>2. CASE Look(s)
  <2>1. Waits(s, "look") /\ UNCHANGED <<session, monitor, timeUp, requests, faults, alone>>
    BY <1>2 DEF Look
  <2>2. TypeOK /\ ~Free(s) /\ CallOK(s) /\ call[s].at = "look" /\ requests # 0
    BY <2>1, InTheMiddle
  <2>3. call[s].op \in ArmingOps
    BY <2>2 DEF CallOK, Free
  <2>4. CASE ArmCheck(s)
    BY <2>1, <2>2, <2>3, <2>4, ArmedInv
  <2>5. CASE MoveTo(s, "arm") /\ UNCHANGED <<known, check>>
    <3>1. /\ call' \in [Slots -> Call \cup {NoCall}] /\ Others(s) /\ ~Free(s)'
          /\ call'[s].op = call[s].op /\ call'[s].at = "arm" /\ call'[s].doc = call[s].doc
      BY <2>2, <2>5, Moved
    <3>2. TypeOK' /\ (OnlyCurrent => OnlyCurrent')
      BY <2>1, <2>2, <2>5, <3>1 DEF TypeOK, OnlyCurrent
    <3>3. CallOK(s)'
      BY <2>1, <2>2, <2>3, <3>1 DEF CallOK, Free, Saving, ArmingOps, SavingOps, TickOps
    <3>4. call[s].op # "pause"
      BY <2>3 DEF ArmingOps
    <3> QED BY <2>1, <2>2, <2>3, <2>5, <3>1, <3>2, <3>3, <3>4, ShrinkingInv
  <2> QED BY <1>2, <2>4, <2>5 DEF Look
<1> QED BY <1>1, <1>2

LEMMA SaveInv ==
  ASSUME SessionInv, NEW s \in Slots, Save(s)
  PROVE  SessionInv'
<1>1. /\ Waits(s, "save") /\ session' = call[s].doc
      /\ IF call[s].op \in {"skip", "submit"} THEN Leave(s) ELSE MoveTo(s, "saved")
      /\ UNCHANGED <<known, monitor, check, timeUp, requests, faults, alone>>
  BY DEF Save
<1>2. /\ TypeOK /\ ~Free(s) /\ CallOK(s) /\ call[s].at = "save" /\ call[s] \in Call
      /\ call[s].doc \in Document /\ requests # 0
  BY <1>1, InTheMiddle
<1>3. call[s].op \in SavingOps /\ s \in HttpSlots
  <2>1. call[s].op \in SavingOps \cup {"end"} \cup TickOps
    BY <1>2 DEF Call, SavingOps, ArmingOps, TickOps
  <2> QED BY <1>2, <2>1 DEF CallOK, Free
<1>4. call[s].op # "pause" => session'.status = "in-progress"
  BY <1>1, <1>2, <1>3 DEF CallOK, Free
<1>5. session' \in Document /\ session' # NoSession
  BY <1>1, <1>2, DocumentFields
<1>6. /\ call' \in [Slots -> Call \cup {NoCall}] /\ Others(s)
      /\ ~Free(s)' => /\ call'[s].op = call[s].op /\ call'[s].at = "saved"
                      /\ call'[s].doc = call[s].doc
      /\ call[s].op = "pause" => ~Free(s)'
  <2>1. CASE call[s].op \in {"skip", "submit"}
    BY <1>1, <1>2, <2>1, Left
  <2>2. CASE call[s].op \notin {"skip", "submit"}
    BY <1>1, <1>2, <2>2, Moved
  <2> QED BY <2>1, <2>2
<1>7. TypeOK'
  BY <1>1, <1>2, <1>5, <1>6 DEF TypeOK
<1>8. CallOK(s)'
  BY <1>2, <1>3, <1>5, <1>6 DEF CallOK, Free, Saving, SavingOps, ArmingOps, TickOps
<1>9. CallsOK'
  BY <1>5, <1>6, <1>8, OthersOK DEF SessionInv
<1>10. FirstOK'
  BY <1>1, <1>2, <1>5 DEF FirstOK
<1>11. ASSUME Undisturbed' PROVE UndisturbedOK'
  <2>1. UndisturbedOK
    BY <1>1, <1>11 DEF Undisturbed, SessionInv
  <2>2. OnlyCurrent'
    BY <1>1, <2>1 DEF UndisturbedOK, OnlyCurrent
  <2>3. \A r \in HttpSlots : ~Free(r)' => r = s
    BY <1>2, <1>3, <1>6, <2>1 DEF UndisturbedOK, OneRequest, Others, Free, Slots
  <2>4. OneRequest'
    BY <2>3 DEF OneRequest
  <2>5. ArmingFindsNone'
    <3>1. \A r \in Slots : ~Free(r)' /\ call'[r].op \in ArmingOps => r \in HttpSlots
      BY <1>9 DEF CallsOK, CallOK, Free, SavingOps
    <3>2. ~Free(s)' /\ call'[s].op \in ArmingOps =>
            monitor'.live = {} /\ check'.live = {} /\ session'.status # "paused"
      BY <1>1, <1>2, <1>4, <1>6, <2>1 DEF UndisturbedOK, ArmingFindsNone, ArmingOps
    <3> QED BY <2>3, <3>1, <3>2 DEF ArmingFindsNone
  <2>6. PausedIsUnwatchedYet'
    BY <1>3, <1>4, <1>6 DEF PausedIsUnwatchedYet
  <2> QED BY <2>2, <2>4, <2>5, <2>6 DEF UndisturbedOK
<1> QED BY <1>7, <1>9, <1>10, <1>11 DEF SessionInv

-----------------------------------------------------------------------------
(* Calls that begin, faults and time. *)

\* What a request needs to begin.
MayEnter(op, at, doc) ==
  /\ (op \in SavingOps /\ at = "save") \/ (op = "end" /\ at = "stop")
  /\ doc \in Document
  /\ op \in SavingOps \ {"pause"} => doc.status = "in-progress"
  /\ op # "start" => session # NoSession
  /\ op \in ArmingOps /\ NoRequest /\ UndisturbedOK => monitor.live = {} /\ check.live = {}

\* A request begins, and at most stops the phase check.
LEMMA ArrivalInv ==
  ASSUME SessionInv, NEW s \in HttpSlots, Arrive(s),
         NEW op, NEW at, NEW doc, Enter(s, op, at, doc, requests'),
         MayEnter(op, at, doc),
         check' = check \/ check' = Stopped(check)
  PROVE  SessionInv'
<1> USE DEF MayEnter
<1>1. /\ TypeOK /\ s \in Slots /\ s \in HttpSlots /\ Free(s)
      /\ requests' = requests + 1 /\ requests \in Nat /\ requests < MaxRequests
      /\ alone' = (alone /\ NoRequest)
      /\ UNCHANGED <<session, known, monitor, timeUp, faults>>
      /\ monitor \in Family /\ check \in Family
  BY SessionAssumption DEF SessionInv, TypeOK, Arrive, Slots
<1>2. requests' \in Timers /\ requests' \in 0..MaxRequests /\ requests' # 0
  BY <1>1, SessionAssumption DEF Timers
<1>3. [op |-> op, at |-> at, doc |-> doc, timer |-> requests'] \in Call
  BY <1>2 DEF Call, SavingOps, ArmingOps
<1>4. /\ call' \in [Slots -> Call \cup {NoCall}] /\ Others(s) /\ ~Free(s)'
      /\ call'[s].op = op /\ call'[s].at = at /\ call'[s].doc = doc
  BY <1>1, <1>3, Entered
<1>5. /\ check' \in Family /\ check'.live \subseteq check.live
      /\ OnlyCurrent => OnlyCurrent'
  BY <1>1, StoppedFamily DEF OnlyCurrent
<1>6. TypeOK'
  BY <1>1, <1>2, <1>4, <1>5 DEF TypeOK
<1>7. CallOK(s)'
  BY <1>1, <1>4 DEF CallOK, Saving, SavingOps, ArmingOps, TickOps
<1>8. CallsOK'
  BY <1>1, <1>4, <1>7, OthersOK DEF SessionInv
<1>9. FirstOK'
  BY <1>1, <1>2 DEF SessionInv, FirstOK
<1>10. ASSUME Undisturbed' PROVE UndisturbedOK'
  <2>1. UndisturbedOK /\ NoRequest
    BY <1>1, <1>10 DEF Undisturbed, SessionInv
  <2>2. \A r \in HttpSlots : r # s => Free(r)'
    BY <1>1, <1>4, <2>1 DEF NoRequest, Others, Free, Slots
  <2>3. OneRequest'
    BY <2>2 DEF OneRequest
  <2>4. ArmingFindsNone'
    <3>1. \A r \in Slots : ~Free(r)' /\ call'[r].op \in ArmingOps => r \in HttpSlots
      BY <1>8 DEF CallsOK, CallOK, Free, SavingOps
    <3>2. op \in ArmingOps => monitor'.live = {} /\ check'.live = {} /\ at = "save"
      BY <1>1, <1>5, <2>1 DEF ArmingOps
    <3> QED BY <1>4, <2>2, <3>1, <3>2 DEF ArmingFindsNone
  <2>5. PausedIsUnwatchedYet'
    BY <1>1, <1>5, <2>1 DEF UndisturbedOK, PausedIsUnwatchedYet, NoRequest
  <2> QED BY <1>5, <2>1, <2>3, <2>4, <2>5 DEF UndisturbedOK
<1> QED BY <1>6, <1>8, <1>9, <1>10 DEF SessionInv

LEMMA HttpInv ==
  ASSUME SessionInv, NEW s \in HttpSlots, Http(s)
  PROVE  SessionInv'
<1> USE DEF SavingOps, ArmingOps, MayEnter
<1>1. CASE Start(s)
  <2>1. Arrive(s) /\ requests = 0 /\ Enter(s, "start", "save", New, requests') /\ check' = check
    BY <1>1 DEF Start
  <2>2. New \in Document /\ New.status = "in-progress"
    BY SessionAssumption DEF New, Document
  <2>3. monitor.live = {} /\ check.live = {}
    BY <2>1 DEF SessionInv, FirstOK
  <2>4. MayEnter("start", "save", New)
    BY <2>2, <2>3
  <2> QED BY <2>1, <2>4, ArrivalInv
<1>2. CASE Request(s)
  <2>1. Arrive(s) /\ known /\ check' = check
    BY <1>2 DEF Request
  <2>2. session \in Document /\ session # NoSession
    BY <2>1 DEF SessionInv, FirstOK, TypeOK
  <2>3. CASE CanPause(session) /\ Enter(s, "pause", "save", Paused(session), requests')
    <3>1. Paused(session) \in Document
      BY <2>2 DEF Paused, Document
    <3>2. MayEnter("pause", "save", Paused(session))
      BY <2>2, <3>1
    <3> QED BY <2>1, <2>3, <3>2, ArrivalInv
  <2>4. CASE CanResume(session) /\ Enter(s, "resume", "save", Resumed(session), requests')
    <3>1. Resumed(session) \in Document /\ Resumed(session).status = "in-progress"
      BY <2>2 DEF Resumed, Document
    <3>2. NoRequest /\ UndisturbedOK => monitor.live = {} /\ check.live = {}
      BY <2>4 DEF CanResume, UndisturbedOK, PausedIsUnwatchedYet, NoRequest
    <3>3. MayEnter("resume", "save", Resumed(session))
      BY <2>2, <3>1, <3>2
    <3> QED BY <2>1, <2>4, <3>3, ArrivalInv
  <2>5. ASSUME session.status = "in-progress", NEW q \in Questions,
               Enter(s, "skip", "save", Skip(session, q), requests')
        PROVE  SessionInv'
    <3>1. Skip(session, q) \in Document /\ Skip(session, q).status = "in-progress"
      BY <2>2, <2>5 DEF Skip, Document
    <3>2. MayEnter("skip", "save", Skip(session, q))
      BY <2>2, <3>1
    <3> QED BY <2>1, <2>5, <3>2, ArrivalInv
  <2>6. CASE session.status = "in-progress" /\ Enter(s, "submit", "save", session, requests')
    <3>1. MayEnter("submit", "save", session)
      BY <2>2, <2>6
    <3> QED BY <2>1, <2>6, <3>1, ArrivalInv
  <2> QED BY <1>2, <2>3, <2>4, <2>5, <2>6 DEF Request
<1>3. CASE End(s)
  <2>1. Arrive(s) /\ known /\ Enter(s, "end", "stop", session, requests') /\ check' = Stopped(check)
    BY <1>3 DEF End
  <2>2. session \in Document /\ session # NoSession
    BY <2>1 DEF SessionInv, FirstOK, TypeOK
  <2>3. MayEnter("end", "stop", session)
    BY <2>2
  <2> QED BY <2>1, <2>3, ArrivalInv
<1> QED BY <1>1, <1>2, <1>3 DEF Http

\* After a fault nothing is claimed but types and where the calls are.
LEMMA FaultInv ==
  ASSUME SessionInv, Restart \/ \E s \in HttpSlots : RequestFails(s)
  PROVE  SessionInv'
<1>1. /\ TypeOK /\ faults \in Nat /\ faults < MaxFaults /\ faults' = faults + 1
      /\ UNCHANGED <<session, known, timeUp, requests, alone>>
  BY SessionAssumption DEF Restart, RequestFails, Fault, SessionInv, TypeOK
<1>2. faults' \in 0..MaxFaults /\ ~Undisturbed'
  BY <1>1, SessionAssumption DEF Undisturbed
<1>3. CASE Restart
  <2>1. /\ call' = [s \in Slots |-> NoCall]
        /\ monitor' = [live |-> {}, current |-> NoTimer]
        /\ check' = [live |-> {}, current |-> NoTimer]
    BY <1>3 DEF Restart
  <2>2. monitor' \in Family /\ check' \in Family
    BY <2>1 DEF Family
  <2>3. TypeOK' /\ CallsOK' /\ FirstOK'
    BY <1>1, <1>2, <2>1, <2>2 DEF TypeOK, CallsOK, CallOK, SessionInv, FirstOK, Quiet, Free
  <2> QED BY <1>2, <2>3 DEF SessionInv
<1>4. ASSUME NEW s \in HttpSlots, RequestFails(s) PROVE SessionInv'
  <2>1. s \in Slots /\ Leave(s) /\ ~Free(s) /\ UNCHANGED <<monitor, check>>
    BY <1>4 DEF RequestFails, Slots
  <2>2. call' \in [Slots -> Call \cup {NoCall}] /\ Others(s) /\ Free(s)'
    BY <1>1, <2>1, Left
  <2>3. TypeOK'
    BY <1>1, <1>2, <2>1, <2>2 DEF TypeOK
  <2>4. CallsOK'
    BY <1>1, <2>1, <2>2, OthersOK DEF SessionInv, CallOK, Free
  <2>5. FirstOK'
    BY <1>1, <2>1 DEF SessionInv, FirstOK, Quiet
  <2> QED BY <1>2, <2>3, <2>4, <2>5 DEF SessionInv
<1> QED BY <1>3, <1>4

LEMMA NextInv == SessionInv /\ [Next]_vars => SessionInv'
<1> SUFFICES ASSUME SessionInv, [Next]_vars PROVE SessionInv'
  OBVIOUS
<1>1. ASSUME UNCHANGED <<session, known, call, monitor, check, requests, faults, alone>>,
             timeUp' \in BOOLEAN
      PROVE  SessionInv'
  <2>1. TypeOK' /\ CallsOK' /\ FirstOK'
    BY <1>1 DEF SessionInv, TypeOK, CallsOK, CallOK, FirstOK, Quiet, Free
  <2>2. Undisturbed' => UndisturbedOK'
    BY <1>1 DEF SessionInv, Undisturbed, UndisturbedOK, OnlyCurrent, OneRequest,
                ArmingFindsNone, PausedIsUnwatchedYet, Free
  <2> QED BY <2>1, <2>2 DEF SessionInv
<1>2. CASE TimePasses
  BY <1>1, <1>2 DEF TimePasses
<1>3. CASE UNCHANGED vars
  BY <1>1, <1>3 DEF vars, SessionInv, TypeOK
<1>4. ASSUME NEW s \in Slots, Continue(s) PROVE SessionInv'
  BY <1>4, SaveInv, StopTimersInv, StartMonitoringInv, LookOrArmInv, StopMonitoringInv,
     CompleteInv, DecideInv, AdvanceInv DEF Continue
<1> QED BY <1>2, <1>3, <1>4, HttpInv, TickInv, FaultInv DEF Next

-----------------------------------------------------------------------------
(* The theorems. *)

\* However requests, callbacks and faults interleave, the state is well typed;
\* and as long as requests come one after the other and none fails, a paused
\* session has no timers once the pause is over, and no family has two.
THEOREM TimersAlwaysFollowSession == Spec => []TimersFollowSession
<1>1. SessionInv => TimersFollowSession
  <2> SUFFICES ASSUME SessionInv PROVE TimersFollowSession
    OBVIOUS
  <2>1. TypeOK
    BY DEF SessionInv
  <2>2. PausedIsUnwatched
    BY DEF SessionInv, Undisturbed, UndisturbedOK, PausedIsUnwatchedYet, PausedIsUnwatched, NoRequest
  <2>3. OneTimerEach
    <3> SUFFICES ASSUME Undisturbed
                 PROVE  Cardinality(monitor.live) <= 1 /\ Cardinality(check.live) <= 1
      BY DEF OneTimerEach, Undisturbed
    <3>1. monitor.live \subseteq {monitor.current} /\ check.live \subseteq {check.current}
      BY DEF SessionInv, UndisturbedOK, OnlyCurrent
    <3>2. ASSUME NEW t, NEW S \in SUBSET {t} PROVE Cardinality(S) <= 1
      <4>1. IsFiniteSet({t}) /\ Cardinality({t}) = 1
        BY FS_Singleton
      <4> QED BY <4>1, FS_Subset
    <3> QED BY <3>1, <3>2
  <2> QED BY <2>1, <2>2, <2>3 DEF TimersFollowSession
<1> QED BY <1>1, InitInv, NextInv, PTL DEF Spec

LEMMA SettledStays ==
  ASSUME SessionInv, Settled, [Next]_vars
  PROVE  Settled'
<1>1. TypeOK /\ session \in Document /\ session.status = "completed" /\ requests # 0 /\ requests \in Nat
  BY SessionAssumption DEF Settled, SessionInv, TypeOK
<1>2. ASSUME NEW s \in Slots, Others(s), session' \in Document, session'.status = "completed",
             requests' # 0,
             ~Free(s)' => call'[s].op = "end" /\ call'[s].at \in {"stop", "complete"}
      PROVE  Settled'
  BY <1>2 DEF Settled, Others, Free
<1>3. ASSUME NEW s \in HttpSlots, Http(s) PROVE Settled'
  <2>1. End(s)
    BY <1>1, <1>3 DEF Http, Start, Request, CanPause, CanResume
  <2>2. Arrive(s) /\ Enter(s, "end", "stop", session, requests') /\ requests < MaxRequests
        /\ requests' = requests + 1 /\ session' = session /\ s \in Slots
    BY <2>1 DEF End, Arrive, Slots
  <2>3. requests' \in Timers
    BY <1>1, <2>2, SessionAssumption DEF Timers
  <2>4. [op |-> "end", at |-> "stop", doc |-> session, timer |-> requests'] \in Call
    BY <1>1, <2>3 DEF Call
  <2>5. Others(s) /\ call'[s].op = "end" /\ call'[s].at = "stop"
    BY <1>1, <2>2, <2>4, Entered
  <2> QED BY <1>1, <1>2, <2>2, <2>5
<1>4. ASSUME NEW s \in Slots, Continue(s) PROVE Settled'
  <2>1. StopMonitoring(s) \/ Complete(s)
    BY <1>4 DEF Settled, Continue, Waits, Free, Save, StopTimers, StartMonitoring, Look, Arm,
                StayInPhase, LeavePhase, TimerEnds, Advance
  <2>2. CASE StopMonitoring(s)
    <3>1. Waits(s, "stop") /\ MoveTo(s, "complete") /\ UNCHANGED <<session, requests>>
      BY <2>2 DEF StopMonitoring
    <3>2. ~Free(s) /\ call[s].op = "end"
      BY <3>1 DEF Waits, Free, Settled
    <3>3. Others(s) /\ call'[s].op = "end" /\ call'[s].at = "complete"
      BY <1>1, <3>1, <3>2, Moved
    <3> QED BY <1>1, <1>2, <3>1, <3>3
  <2>3. CASE Complete(s)
    <3>1. Leave(s) /\ session' = [session EXCEPT !.status = "completed"] /\ requests' = requests
      BY <2>3 DEF Complete
    <3>2. Others(s) /\ Free(s)'
      BY <1>1, <3>1, Left
    <3>3. session' \in Document /\ session'.status = "completed"
      BY <1>1, <3>1 DEF Document
    <3> QED BY <1>1, <1>2, <3>1, <3>2, <3>3
  <2> QED BY <2>1, <2>2, <2>3
<1>5. ASSUME NEW s \in HttpSlots, RequestFails(s) PROVE Settled'
  <2>1. s \in Slots /\ Leave(s) /\ UNCHANGED <<session, requests>>
    BY <1>5 DEF RequestFails, Fault, Slots
  <2>2. Others(s) /\ Free(s)'
    BY <1>1, <2>1, Left
  <2> QED BY <1>1, <1>2, <2>1, <2>2
<1>6. CASE Restart
  BY <1>6 DEF Restart, Fault, Settled, Free
<1>7. CASE UNCHANGED vars
  BY <1>7 DEF vars, Settled, Free
<1>8. ~TimePasses /\ \A s \in TickSlots : ~Tick(s)
  BY <1>1 DEF TimePasses, Tick, PhaseTick, WatchTick
<1> QED BY <1>3, <1>4, <1>5, <1>6, <1>7, <1>8 DEF Next

\* A session that is completed while nothing is in flight stays completed,
\* whatever is asked of it, fails or fires later.
THEOREM SettledEndsAreFinal == Spec => EndedStaysEnded
<1>1. SessionInv /\ session.status = "completed" /\ Quiet => Settled
  BY DocumentFields DEF SessionInv, TypeOK, FirstOK, Quiet, Settled
<1>2. Settled => session.status = "completed"
  BY DEF Settled
<1>3. SessionInv /\ Settled /\ [Next]_vars => Settled'
  BY SettledStays
<1> QED BY <1>1, <1>2, <1>3, InitInv, NextInv, PTL DEF Spec, EndedStaysEnded

-----------------------------------------------------------------------------
(***************************************************************************)
(* Proofs about the recognizers of an interview's voice, for any sockets,  *)
(* messages and sizes of batches, however sockets and handlers overlap.    *)
(*                                                                         *)
(* VoiceIsSound, in three steps.  First the recognizers: the one in the    *)
(* map takes audio, one that ends or is closed holds none, and audio on    *)
(* its way through a recognizer is in no other place.  Then the buffer,    *)
(* and the accounts of every chunk; then sessions whose sockets took turns.*)
(***************************************************************************)

Streams == [status : {"open", "ending", "closed"}, chunks : SUBSET Chunks]
Uses == {"chunk", "final", "stream", "last"}

VoiceTypeOK ==
  /\ arrival \in [Chunks -> {"unsent", "open", "muted", "kept", "keptMuted", "dropped"}]
  /\ transcribed \in [Chunks -> Nat]
  /\ audioBuffer \subseteq Chunks
  /\ streams \in Seq(Streams)
  /\ recognizer \in 0..Len(streams)
  /\ batches \subseteq [use : Uses, stream : 0..Len(streams), chunks : SUBSET Chunks]

\* The last batch of a recognizer belongs to one that is ending.
LastIsOfEnding ==
  \A b \in batches : b.use = "last" => b.stream # 0 /\ streams[b.stream].status # "open"

\* The other places of a chunk: the buffer and what is over.
Elsewhere(k) == k \in audioBuffer \/ transcribed[k] # 0

\* Audio that is not kept, or not yet, is nowhere.
UnkeptIsNowhere ==
  \A k \in Chunks : ~Kept(k) =>
    /\ ~Elsewhere(k)
    /\ \A b \in batches : k \notin b.chunks
    /\ \A i \in 1..Len(streams) : k \notin streams[i].chunks

\* A chunk that a recognizer holds is nowhere else.
HeldOnce ==
  \A i \in 1..Len(streams) : \A k \in streams[i].chunks :
    /\ ~Elsewhere(k)
    /\ \A b \in batches : k \notin b.chunks
    /\ \A j \in 1..Len(streams) : k \in streams[j].chunks => j = i

\* A chunk that a recognizer transcribes is nowhere else.
RecognizedOnce ==
  \A b \in batches : b.use \in {"stream", "last"} =>
    \A k \in b.chunks :
      /\ ~Elsewhere(k)
      /\ \A c \in batches : k \in c.chunks => c = b

VoiceInv ==
  /\ VoiceTypeOK
  /\ RecognizersAreOpen
  /\ LastIsOfEnding
  /\ UnkeptIsNowhere
  /\ HeldOnce
  /\ RecognizedOnce

LEMMA StreamsDomain ==
  ASSUME VoiceTypeOK
  PROVE  DOMAIN streams = 1..Len(streams) /\ Len(streams) \in Nat
BY DEF VoiceTypeOK

LEMMA WithChunks ==
  ASSUME NEW r \in Streams, NEW c
  PROVE  [r EXCEPT !.chunks = c] = [status |-> r.status, chunks |-> c]
BY DEF Streams

LEMMA VoiceInitInv == VoiceInit => VoiceInv
<1> SUFFICES ASSUME VoiceInit PROVE VoiceInv
  OBVIOUS
<1>1. streams \in Seq(Streams) /\ Len(streams) = 0
  BY EmptySeq DEF VoiceInit
<1>2. VoiceTypeOK
  BY <1>1 DEF VoiceInit, VoiceTypeOK
<1>3. RecognizersAreOpen /\ LastIsOfEnding /\ UnkeptIsNowhere /\ HeldOnce /\ RecognizedOnce
  BY <1>1 DEF VoiceInit, RecognizersAreOpen, LastIsOfEnding, UnkeptIsNowhere, HeldOnce, RecognizedOnce, Elsewhere
<1> QED BY <1>2, <1>3 DEF VoiceInv

\* Steps that move no audio: at most the buffer is emptied.
LEMMA QuietInv ==
  ASSUME VoiceInv,
         UNCHANGED <<recognizer, streams, batches, transcribed>>,
         audioBuffer' \subseteq audioBuffer,
         arrival' \in [Chunks -> {"unsent", "open", "muted", "kept", "keptMuted", "dropped"}],
         \A k \in Chunks : Kept(k) => Kept(k)'
  PROVE  VoiceInv'
<1>1. VoiceTypeOK' /\ RecognizersAreOpen' /\ LastIsOfEnding'
  BY DEF VoiceInv, VoiceTypeOK, RecognizersAreOpen, LastIsOfEnding
<1>2. \A k : Elsewhere(k)' => Elsewhere(k)
  BY DEF Elsewhere
<1>3. UnkeptIsNowhere' /\ HeldOnce' /\ RecognizedOnce'
  BY <1>2 DEF VoiceInv, UnkeptIsNowhere, HeldOnce, RecognizedOnce
<1> QED BY <1>1, <1>3 DEF VoiceInv

\* A new recognizer is open and holds nothing.
LEMMA InitCompletesInv ==
  ASSUME VoiceInv, InitCompletes
  PROVE  VoiceInv'
<1> DEFINE fresh == [status |-> "open", chunks |-> {}]
<1>1. UNCHANGED <<arrival, audioBuffer, batches, transcribed>>
  BY DEF InitCompletes
<1>2. CASE speech = "text"
  <2>1. UNCHANGED <<recognizer, streams>>
    BY <1>2 DEF InitCompletes
  <2> QED BY <1>1, <2>1, QuietInv DEF VoiceInv, VoiceTypeOK, Kept
<1>3. CASE speech # "text"
  <2>1. streams' = Append(streams, fresh) /\ recognizer' = Len(streams')
    BY <1>3 DEF InitCompletes
  <2>2. fresh \in Streams /\ streams \in Seq(Streams) /\ Len(streams) \in Nat
    BY StreamsDomain DEF Streams, VoiceInv, VoiceTypeOK
  <2>3. /\ streams' \in Seq(Streams) /\ Len(streams') = Len(streams) + 1
        /\ \A i \in 1..Len(streams) : streams'[i] = streams[i]
        /\ streams'[Len(streams')] = fresh
    BY <2>1, <2>2, AppendProperties
  <2> HIDE DEF fresh
  <2>4. fresh.status = "open" /\ fresh.chunks = {}
    BY DEF fresh
  <2>5. VoiceTypeOK'
    BY <1>1, <2>1, <2>2, <2>3 DEF VoiceInv, VoiceTypeOK
  <2>6. \A i \in 1..Len(streams') : i \in 1..Len(streams) \/ i = Len(streams')
    BY <2>2, <2>3
  <2>7. DOMAIN streams = 1..Len(streams) /\ DOMAIN streams' = 1..Len(streams')
    BY <2>2, <2>3
  <2>8. RecognizersAreOpen'
    BY <2>1, <2>3, <2>4, <2>6, <2>7 DEF VoiceInv, RecognizersAreOpen
  <2>9. LastIsOfEnding'
    <3>1. \A b \in batches : b.stream \in 0..Len(streams)
      BY DEF VoiceInv, VoiceTypeOK
    <3>2. \A b \in batches : b.stream # 0 => b.stream \in 1..Len(streams)
      BY <2>2, <3>1
    <3> QED BY <1>1, <2>3, <3>2 DEF VoiceInv, LastIsOfEnding
  <2>10. \A k : Elsewhere(k)' = Elsewhere(k)
    BY <1>1 DEF Elsewhere
  <2>11. \A k \in Chunks : Kept(k)' = Kept(k)
    BY <1>1 DEF Kept
  <2>12. UnkeptIsNowhere'
    BY <1>1, <2>3, <2>4, <2>6, <2>10, <2>11 DEF VoiceInv, UnkeptIsNowhere
  <2>13. HeldOnce'
    BY <1>1, <2>3, <2>4, <2>6, <2>10 DEF VoiceInv, HeldOnce
  <2>14. RecognizedOnce'
    BY <1>1, <2>10 DEF VoiceInv, RecognizedOnce
  <2> QED BY <2>5, <2>8, <2>9, <2>12, <2>13, <2>14 DEF VoiceInv
<1> QED BY <1>2, <1>3

\* A chunk that is kept comes from nowhere.
LEMMA KeptComesFromNowhere ==
  ASSUME VoiceInv, NEW k \in Chunks, Keep(k)
  PROVE  /\ ~Elsewhere(k)
         /\ \A b \in batches : k \notin b.chunks
         /\ \A i \in 1..Len(streams) : k \notin streams[i].chunks
         /\ arrival' \in [Chunks -> {"unsent", "open", "muted", "kept", "keptMuted", "dropped"}]
         /\ Kept(k)'
         /\ \A j \in Chunks : j # k => Kept(j)' = Kept(j)
<1>1. ~Kept(k)
  BY DEF Keep, Converting, Kept
<1>2. /\ arrival' \in [Chunks -> {"unsent", "open", "muted", "kept", "keptMuted", "dropped"}]
      /\ arrival'[k] \in {"kept", "keptMuted"}
      /\ \A j \in Chunks : j # k => arrival'[j] = arrival[j]
  BY DEF Keep, VoiceInv, VoiceTypeOK
<1> QED BY <1>1, <1>2 DEF VoiceInv, UnkeptIsNowhere, Kept

LEMMA BufferAudioInv ==
  ASSUME VoiceInv, NEW k \in Chunks, BufferAudio(k)
  PROVE  VoiceInv'
<1> DEFINE new == Batch("chunk", 0, audioBuffer')
<1>1. /\ Keep(k)
      /\ UNCHANGED <<recognizer, streams, transcribed>>
      /\ audioBuffer' = audioBuffer \cup {k}
      /\ batches' \subseteq batches \cup {new}
  BY DEF BufferAudio
<1>2. new.use = "chunk" /\ new.stream = 0 /\ new.chunks = audioBuffer \cup {k}
  BY <1>1 DEF Batch
<1>3. VoiceTypeOK'
  <2>1. new \in [use : Uses, stream : 0..Len(streams), chunks : SUBSET Chunks]
    BY <1>1, StreamsDomain DEF Batch, Uses, VoiceInv, VoiceTypeOK
  <2> QED BY <1>1, <2>1, KeptComesFromNowhere DEF VoiceInv, VoiceTypeOK
<1> HIDE DEF new
<1>4. RecognizersAreOpen' /\ LastIsOfEnding'
  BY <1>1, <1>2 DEF VoiceInv, RecognizersAreOpen, LastIsOfEnding
<1>5. \A j : Elsewhere(j)' => j = k \/ Elsewhere(j)
  BY <1>1 DEF Elsewhere
<1>6. \A j \in new.chunks : j = k \/ Elsewhere(j)
  BY <1>2 DEF Elsewhere
<1>7. UnkeptIsNowhere'
  BY <1>1, <1>5, <1>6, KeptComesFromNowhere DEF VoiceInv, UnkeptIsNowhere
<1>8. HeldOnce'
  BY <1>1, <1>5, <1>6, KeptComesFromNowhere DEF VoiceInv, HeldOnce
<1>9. RecognizedOnce'
  BY <1>1, <1>2, <1>5, <1>6, KeptComesFromNowhere DEF VoiceInv, RecognizedOnce
<1> QED BY <1>3, <1>4, <1>7, <1>8, <1>9 DEF VoiceInv

\* A recognizer is given a chunk, keeps it or transcribes all it has.
LEMMA StreamAudioInv ==
  ASSUME VoiceInv, NEW k \in Chunks, StreamAudio(k)
  PROVE  VoiceInv'
<1>1. /\ Keep(k) /\ recognizer # 0
      /\ UNCHANGED <<recognizer, audioBuffer>>
  BY DEF StreamAudio
<1>2. /\ recognizer \in 1..Len(streams)
      /\ streams \in Seq(Streams)
      /\ streams[recognizer] \in Streams
      /\ streams[recognizer].status = "open"
  BY <1>1, StreamsDomain, ElementOfSeq DEF VoiceInv, VoiceTypeOK, RecognizersAreOpen
<1>3. CASE speech = "sdk"
  <2>1. /\ transcribed' = [transcribed EXCEPT ![k] = @ + 1]
        /\ UNCHANGED <<streams, batches>>
    BY <1>3 DEF StreamAudio
  <2>2. /\ transcribed' \in [Chunks -> Nat]
        /\ \A j \in Chunks : j # k => transcribed'[j] = transcribed[j]
    BY <2>1 DEF VoiceInv, VoiceTypeOK
  <2>3. VoiceTypeOK' /\ RecognizersAreOpen' /\ LastIsOfEnding'
    BY <1>1, <2>1, <2>2, KeptComesFromNowhere DEF VoiceInv, VoiceTypeOK, RecognizersAreOpen, LastIsOfEnding
  <2>4. \A j \in Chunks : j # k => Elsewhere(j)' = Elsewhere(j)
    BY <1>1, <2>2 DEF Elsewhere
  <2>5. UnkeptIsNowhere'
    BY <1>1, <2>1, <2>4, KeptComesFromNowhere DEF VoiceInv, UnkeptIsNowhere
  <2>6. \A i \in 1..Len(streams) : streams[i].chunks \subseteq Chunks
    <3> TAKE i \in 1..Len(streams)
    <3>1. streams[i] \in Streams
      BY <1>2, ElementOfSeq
    <3> QED BY <3>1 DEF Streams
  <2>7. HeldOnce'
    BY <1>1, <2>1, <2>4, <2>6, KeptComesFromNowhere DEF VoiceInv, HeldOnce
  <2>8. \A b \in batches : b.chunks \subseteq Chunks
    BY DEF VoiceInv, VoiceTypeOK
  <2>9. RecognizedOnce'
    BY <1>1, <2>1, <2>4, <2>8, KeptComesFromNowhere DEF VoiceInv, RecognizedOnce
  <2> QED BY <2>3, <2>5, <2>7, <2>9 DEF VoiceInv
<1>4. CASE speech # "sdk"
  <2> DEFINE held == streams[recognizer].chunks \cup {k}
             new == Batch("stream", recognizer, held)
             left == IF Cardinality(held) < BatchSize THEN held ELSE {}
             given == [status |-> "open", chunks |-> left]
  <2>1. /\ streams' = [streams EXCEPT ![recognizer].chunks = left]
        /\ batches' = IF Cardinality(held) < BatchSize THEN batches ELSE batches \cup {new}
        /\ UNCHANGED transcribed
    BY <1>4 DEF StreamAudio
  <2>2. new.use = "stream" /\ new.stream = recognizer /\ new.chunks = held
    BY DEF Batch
  <2>3. held \subseteq Chunks /\ left \subseteq held
    BY <1>2 DEF Streams
  <2>4. /\ batches' \subseteq batches \cup {new}
        /\ new \in batches' /\ new \notin batches => left = {}
        /\ new \notin batches
    <3>1. new \notin batches
      BY <1>1, <2>2, KeptComesFromNowhere
    <3> QED BY <2>1, <3>1
  <2>5. /\ streams' \in Seq(Streams) /\ Len(streams') = Len(streams)
        /\ streams'[recognizer] = given
        /\ \A i \in 1..Len(streams) : i # recognizer => streams'[i] = streams[i]
    <3>1. given \in Streams
      BY <2>3 DEF Streams
    <3> HIDE DEF left
    <3>2. [streams[recognizer] EXCEPT !.chunks = left] = given
      BY <1>2, WithChunks
    <3> HIDE DEF given
    <3>3. streams' = [streams EXCEPT ![recognizer] = given]
      BY <2>1, <3>2
    <3> QED BY <1>2, <3>1, <3>3, ExceptSeq
  <2>6. new \in [use : Uses, stream : 0..Len(streams), chunks : SUBSET Chunks]
    BY <1>2, <2>3 DEF Batch, Uses
  <2>7. given.status = "open" /\ given.chunks = left
    OBVIOUS
  <2>8. \A j \in held : j = k \/ j \in streams[recognizer].chunks
    OBVIOUS
  <2> HIDE DEF held, new, left, given
  <2>9. VoiceTypeOK'
    BY <1>1, <2>1, <2>4, <2>5, <2>6, KeptComesFromNowhere DEF VoiceInv, VoiceTypeOK
  <2>10. RecognizersAreOpen'
    <3>1. DOMAIN streams' = 1..Len(streams) /\ DOMAIN streams = 1..Len(streams)
      BY <1>2, <2>5
    <3>2. \A i \in 1..Len(streams) : streams'[i].status # "open" => streams'[i].chunks = {}
      BY <2>5, <2>7, <3>1 DEF VoiceInv, RecognizersAreOpen
    <3> QED BY <1>1, <2>5, <2>7, <3>1, <3>2 DEF RecognizersAreOpen
  <2>11. LastIsOfEnding'
    <3>1. \A b \in batches : b.use = "last" =>
            b.stream \in 1..Len(streams) /\ streams[b.stream].status # "open"
      BY StreamsDomain DEF VoiceInv, VoiceTypeOK, LastIsOfEnding
    <3> QED BY <1>2, <2>2, <2>4, <2>5, <3>1 DEF LastIsOfEnding
  <2>12. \A j : Elsewhere(j)' = Elsewhere(j)
    BY <1>1, <2>1 DEF Elsewhere
  <2>13. \A i \in 1..Len(streams) : \A j \in streams'[i].chunks :
           j \in streams[i].chunks \/ (i = recognizer /\ j = k)
    BY <2>3, <2>5, <2>7, <2>8
  <2>14. UnkeptIsNowhere'
    BY <1>1, <1>2, <2>2, <2>4, <2>5, <2>8, <2>12, <2>13, KeptComesFromNowhere DEF VoiceInv, UnkeptIsNowhere
  <2>15. HeldOnce'
    <3> SUFFICES ASSUME NEW i \in 1..Len(streams), NEW j \in streams'[i].chunks
                 PROVE  /\ ~Elsewhere(j)
                        /\ \A b \in batches' : j \notin b.chunks
                        /\ \A h \in 1..Len(streams) : j \in streams'[h].chunks => h = i
      BY <2>5, <2>12 DEF HeldOnce
    <3>1. ~Elsewhere(j) /\ \A b \in batches : j \notin b.chunks
      BY <1>1, <2>13, KeptComesFromNowhere DEF VoiceInv, HeldOnce
    <3>2. \A h \in 1..Len(streams) : j \in streams'[h].chunks => h = i
      BY <1>1, <2>13, KeptComesFromNowhere DEF VoiceInv, HeldOnce
    <3>3. new \in batches' => j \notin new.chunks
      <4> SUFFICES ASSUME new \in batches', j \in held PROVE FALSE
        BY <2>2
      <4>1. streams'[recognizer].chunks = {}
        BY <2>4, <2>5, <2>7
      <4>2. i # recognizer /\ j \in streams[i].chunks
        BY <4>1, <2>5
      <4> QED BY <1>1, <1>2, <2>8, <4>2, KeptComesFromNowhere DEF VoiceInv, HeldOnce
    <3> QED BY <2>4, <3>1, <3>2, <3>3
  <2>16. RecognizedOnce'
    <3>1. \A j \in held : ~Elsewhere(j) /\ \A b \in batches : j \notin b.chunks
      BY <1>1, <1>2, <2>8, KeptComesFromNowhere DEF VoiceInv, HeldOnce
    <3> QED BY <2>2, <2>4, <2>12, <3>1 DEF VoiceInv, RecognizedOnce
  <2> QED BY <2>9, <2>10, <2>11, <2>14, <2>15, <2>16 DEF VoiceInv
<1> QED BY <1>3, <1>4

\* Streams that hold what they held, and are open if they were.
Alike ==
  /\ streams' \in Seq(Streams) /\ Len(streams') = Len(streams)
  /\ \A i \in 1..Len(streams) :
       /\ streams'[i].chunks = streams[i].chunks
       /\ streams'[i].status = "open" <=> streams[i].status = "open"

LEMMA ClosedIsAlike ==
  ASSUME VoiceTypeOK, NEW i \in 1..Len(streams), streams[i].status # "open",
         streams' = [streams EXCEPT ![i].status = "closed"]
  PROVE  Alike
<1> DEFINE shut == [status |-> "closed", chunks |-> streams[i].chunks]
<1>1. streams \in Seq(Streams) /\ streams[i] \in Streams
  BY ElementOfSeq DEF VoiceTypeOK
<1>2. shut \in Streams /\ [streams[i] EXCEPT !.status = "closed"] = shut
  BY <1>1 DEF Streams
<1>3. shut.status = "closed" /\ shut.chunks = streams[i].chunks
  OBVIOUS
<1> HIDE DEF shut
<1>4. streams' = [streams EXCEPT ![i] = shut]
  BY <1>2
<1>5. /\ streams' \in Seq(Streams) /\ Len(streams') = Len(streams)
      /\ streams'[i] = shut
      /\ \A j \in 1..Len(streams) : j # i => streams'[j] = streams[j]
  BY <1>1, <1>2, <1>4, ExceptSeq
<1> QED BY <1>3, <1>5 DEF Alike

\* What Alike streams leave true.
LEMMA AlikeInv ==
  ASSUME VoiceInv, Alike, recognizer' = recognizer, batches' \subseteq batches
  PROVE  RecognizersAreOpen' /\ LastIsOfEnding'
<1>1. DOMAIN streams' = 1..Len(streams) /\ DOMAIN streams = 1..Len(streams)
  BY DEF Alike, VoiceInv, VoiceTypeOK
<1>2. recognizer # 0 => recognizer \in 1..Len(streams)
  BY StreamsDomain DEF VoiceInv, VoiceTypeOK
<1>3. RecognizersAreOpen'
  BY <1>1, <1>2 DEF Alike, VoiceInv, RecognizersAreOpen
<1>4. \A b \in batches : b.use = "last" => b.stream \in 1..Len(streams)
  BY StreamsDomain DEF VoiceInv, VoiceTypeOK, LastIsOfEnding
<1>5. LastIsOfEnding'
  BY <1>4 DEF Alike, VoiceInv, LastIsOfEnding
<1> QED BY <1>3, <1>5

LEMMA StreamEndsInv ==
  ASSUME VoiceInv, NEW i \in DOMAIN streams, StreamEnds(i)
  PROVE  VoiceInv'
<1>1. /\ UNCHANGED <<arrival, audioBuffer, recognizer, batches, transcribed>>
      /\ i \in 1..Len(streams) /\ streams[i].status # "open"
      /\ streams' = [streams EXCEPT ![i].status = "closed"]
  BY StreamsDomain DEF StreamEnds, VoiceInv
<1>2. Alike
  BY <1>1, ClosedIsAlike DEF VoiceInv
<1>3. VoiceTypeOK'
  BY <1>1, <1>2 DEF Alike, VoiceInv, VoiceTypeOK
<1>4. \A k : Elsewhere(k)' = Elsewhere(k) /\ Kept(k)' = Kept(k)
  BY <1>1 DEF Elsewhere, Kept
<1>5. UnkeptIsNowhere' /\ HeldOnce' /\ RecognizedOnce'
  BY <1>1, <1>2, <1>4 DEF Alike, VoiceInv, UnkeptIsNowhere, HeldOnce, RecognizedOnce
<1> QED BY <1>1, <1>2, <1>3, <1>5, AlikeInv DEF VoiceInv

LEMMA TranscriptionEndsAlike ==
  ASSUME VoiceInv, NEW b \in batches, TranscriptionEnds(b)
  PROVE  Alike
<1>1. CASE b.use # "last"
  <2>1. streams' = streams
    BY <1>1 DEF TranscriptionEnds
  <2> QED BY <2>1 DEF Alike, VoiceInv, VoiceTypeOK
<1>2. CASE b.use = "last"
  <2>1. b.stream \in 1..Len(streams) /\ streams[b.stream].status # "open"
    BY <1>2, StreamsDomain DEF VoiceInv, VoiceTypeOK, LastIsOfEnding
  <2>2. streams' = [streams EXCEPT ![b.stream].status = "closed"]
    BY <1>2 DEF TranscriptionEnds
  <2> QED BY <2>1, <2>2, ClosedIsAlike DEF VoiceInv
<1> QED BY <1>1, <1>2

LEMMA TranscriptionEndsInv ==
  ASSUME VoiceInv, NEW b \in batches, TranscriptionEnds(b)
  PROVE  VoiceInv'
<1>1. /\ UNCHANGED <<arrival, recognizer>>
      /\ batches' = batches \ {b} /\ audioBuffer' \subseteq audioBuffer
      /\ transcribed' = [k \in Chunks |-> transcribed[k] + IF k \in b.chunks THEN 1 ELSE 0]
  BY DEF TranscriptionEnds
<1>2. Alike
  BY TranscriptionEndsAlike
<1>3. /\ transcribed' \in [Chunks -> Nat]
      /\ \A k \in Chunks : k \notin b.chunks => transcribed'[k] = transcribed[k]
  BY <1>1 DEF VoiceInv, VoiceTypeOK
<1>4. VoiceTypeOK'
  BY <1>1, <1>2, <1>3 DEF Alike, VoiceInv, VoiceTypeOK
<1>5. \A k \in Chunks : k \notin b.chunks => (Elsewhere(k)' => Elsewhere(k))
  BY <1>1, <1>3 DEF Elsewhere
<1>6. \A k : Kept(k)' = Kept(k)
  BY <1>1 DEF Kept
<1>7. UnkeptIsNowhere'
  BY <1>1, <1>2, <1>5, <1>6 DEF Alike, VoiceInv, UnkeptIsNowhere
<1>8. HeldOnce'
  <2>1. \A i \in 1..Len(streams) : streams[i].chunks \subseteq Chunks
    <3> TAKE i \in 1..Len(streams)
    <3>1. streams[i] \in Streams
      BY ElementOfSeq DEF VoiceInv, VoiceTypeOK
    <3> QED BY <3>1 DEF Streams
  <2> QED BY <1>1, <1>2, <1>5, <2>1 DEF Alike, VoiceInv, HeldOnce
<1>9. RecognizedOnce'
  <2>1. \A c \in batches : c.chunks \subseteq Chunks
    BY DEF VoiceInv, VoiceTypeOK
  <2> QED BY <1>1, <1>5, <2>1 DEF VoiceInv, RecognizedOnce
<1> QED BY <1>1, <1>2, <1>4, <1>7, <1>8, <1>9, AlikeInv DEF VoiceInv

\* All there is of the session goes: the buffer and what its recognizer holds.
LEMMA HandleDisconnectInv ==
  ASSUME VoiceInv, NEW s \in Sockets, HandleDisconnect(s)
  PROVE  VoiceInv'
<1> DEFINE rest == Batch("final", 0, audioBuffer)
           last == Batch("last", recognizer, streams[recognizer].chunks)
<1>1. /\ UNCHANGED <<arrival, transcribed>>
      /\ audioBuffer' = {} /\ recognizer' = 0
      /\ streams' = FinalizedStream
      /\ batches' \subseteq batches \cup FinalBatches
  BY DEF HandleDisconnect
<1>2. /\ rest.use = "final" /\ rest.stream = 0 /\ rest.chunks = audioBuffer
      /\ last.use = "last" /\ last.stream = recognizer
      /\ last.chunks = streams[recognizer].chunks
      /\ FinalBatches = {rest} \cup IF recognizer = 0 THEN {} ELSE {last}
  BY DEF Batch, FinalBatches
<1>3. rest \in [use : Uses, stream : 0..Len(streams), chunks : SUBSET Chunks]
  BY StreamsDomain DEF Batch, Uses, VoiceInv, VoiceTypeOK
<1>4. \A k : (Elsewhere(k)' => Elsewhere(k)) /\ (k \in audioBuffer => Elsewhere(k))
             /\ Kept(k)' = Kept(k)
  BY <1>1 DEF Elsewhere, Kept
<1>5. CASE recognizer = 0
  <2> HIDE DEF rest, last
  <2>1. streams' = streams /\ batches' \subseteq batches \cup {rest}
    BY <1>1, <1>2, <1>5 DEF FinalizedStream
  <2>2. VoiceTypeOK'
    BY <1>1, <1>3, <2>1, StreamsDomain DEF VoiceInv, VoiceTypeOK
  <2>3. RecognizersAreOpen' /\ LastIsOfEnding'
    BY <1>1, <1>2, <2>1 DEF VoiceInv, RecognizersAreOpen, LastIsOfEnding
  <2>4. UnkeptIsNowhere' /\ HeldOnce' /\ RecognizedOnce'
    BY <1>2, <1>4, <2>1 DEF VoiceInv, UnkeptIsNowhere, HeldOnce, RecognizedOnce
  <2> QED BY <2>2, <2>3, <2>4 DEF VoiceInv
<1>6. CASE recognizer # 0
  <2> DEFINE ended == [status |-> IF speech = "rest" /\ streams[recognizer].chunks = {}
                                  THEN "closed" ELSE "ending",
                       chunks |-> {}]
  <2>1. recognizer \in 1..Len(streams) /\ streams \in Seq(Streams) /\ streams[recognizer] \in Streams
    BY <1>6, StreamsDomain, ElementOfSeq DEF VoiceInv, VoiceTypeOK
  <2>2. last \in [use : Uses, stream : 0..Len(streams), chunks : SUBSET Chunks]
    BY <2>1 DEF Batch, Uses, Streams
  <2>3. ended \in Streams /\ ended.status # "open" /\ ended.chunks = {}
    BY DEF Streams
  <2>4. streams' = [streams EXCEPT ![recognizer] = ended]
    BY <1>1, <1>6 DEF FinalizedStream
  <2> HIDE DEF rest, last, ended
  <2>5. /\ streams' \in Seq(Streams) /\ Len(streams') = Len(streams)
        /\ streams'[recognizer] = ended
        /\ \A i \in 1..Len(streams) : i # recognizer => streams'[i] = streams[i]
    BY <2>1, <2>3, <2>4, ExceptSeq
  <2>6. batches' \subseteq batches \cup {rest, last}
    BY <1>1, <1>2, <1>6
  <2>7. VoiceTypeOK'
    <3>1. Len(streams) \in Nat /\ 0 \in 0..Len(streams)
      BY <2>1
    <3>2. batches' \subseteq [use : Uses, stream : 0..Len(streams'), chunks : SUBSET Chunks]
      BY <1>3, <2>2, <2>5, <2>6 DEF VoiceInv, VoiceTypeOK
    <3> QED BY <1>1, <2>5, <3>1, <3>2 DEF VoiceInv, VoiceTypeOK
  <2>8. RecognizersAreOpen'
    <3>1. DOMAIN streams' = 1..Len(streams) /\ DOMAIN streams = 1..Len(streams)
      BY <2>1, <2>5
    <3> QED BY <1>1, <2>3, <2>5, <3>1 DEF VoiceInv, RecognizersAreOpen
  <2>9. LastIsOfEnding'
    <3>1. \A b \in batches : b.use = "last" =>
            b.stream \in 1..Len(streams) /\ streams[b.stream].status # "open"
      BY StreamsDomain DEF VoiceInv, VoiceTypeOK, LastIsOfEnding
    <3>2. \A b \in batches : b.use = "last" => b.stream # 0 /\ streams'[b.stream].status # "open"
      BY <2>3, <2>5, <3>1 DEF VoiceInv, LastIsOfEnding
    <3> QED BY <1>2, <1>6, <2>3, <2>5, <2>6, <3>2 DEF LastIsOfEnding
  <2>10. \A i \in 1..Len(streams) : \A k \in streams'[i].chunks :
           i # recognizer /\ k \in streams[i].chunks
    BY <2>3, <2>5
  <2>11. UnkeptIsNowhere'
    BY <1>2, <1>4, <2>1, <2>5, <2>6, <2>10 DEF VoiceInv, UnkeptIsNowhere
  <2>12. HeldOnce'
    BY <1>2, <1>4, <2>1, <2>5, <2>6, <2>10 DEF VoiceInv, HeldOnce
  <2>13. RecognizedOnce'
    <3>1. \A k \in last.chunks : ~Elsewhere(k) /\ \A b \in batches : k \notin b.chunks
      BY <1>2, <2>1 DEF VoiceInv, HeldOnce
    <3> QED BY <1>2, <1>4, <2>6, <3>1 DEF VoiceInv, RecognizedOnce
  <2> QED BY <2>7, <2>8, <2>9, <2>11, <2>12, <2>13 DEF VoiceInv
<1> QED BY <1>5, <1>6

LEMMA VoiceNextInv == VoiceInv /\ [VoiceNext]_voiceVars => VoiceInv'
<1> SUFFICES ASSUME VoiceInv, [VoiceNext]_voiceVars PROVE VoiceInv'
  OBVIOUS
<1> DEFINE Arrivals == {"unsent", "open", "muted", "kept", "keptMuted", "dropped"}
<1>1. arrival \in [Chunks -> Arrivals]
  BY DEF VoiceInv, VoiceTypeOK
<1>2. ASSUME NEW s \in Sockets, HandleInit(s) PROVE VoiceInv'
  BY <1>1, <1>2, QuietInv DEF HandleInit, Kept
<1>3. ASSUME InitFails PROVE VoiceInv'
  BY <1>1, <1>3, QuietInv DEF InitFails, Kept
<1>4. ASSUME NEW s \in Sockets, NEW mute \in BOOLEAN, HandleMute(s, mute) PROVE VoiceInv'
  BY <1>1, <1>4, QuietInv DEF HandleMute, Kept
<1>5. ASSUME NEW s \in Sockets, NEW k \in Chunks, HandleAudio(s, k) PROVE VoiceInv'
  <2>1. arrival' \in [Chunks -> Arrivals] /\ \A j \in Chunks : Kept(j) => Kept(j)'
    BY <1>1, <1>5 DEF HandleAudio, Kept
  <2> QED BY <1>5, <2>1, QuietInv DEF HandleAudio
<1>6. ASSUME NEW k \in Chunks, DropAudio(k) PROVE VoiceInv'
  <2>1. arrival' \in [Chunks -> Arrivals] /\ \A j \in Chunks : Kept(j) => Kept(j)'
    BY <1>1, <1>6 DEF DropAudio, Converting, Kept
  <2> QED BY <1>6, <2>1, QuietInv DEF DropAudio
<1>7. ASSUME NEW s \in Sockets, InitElsewhere(s) \/ DisconnectApart(s) PROVE VoiceInv'
  BY <1>1, <1>7, QuietInv DEF InitElsewhere, DisconnectApart, Kept
<1>8. CASE UNCHANGED voiceVars
  BY <1>1, <1>8, QuietInv DEF voiceVars, Kept
<1> QED BY <1>2, <1>3, <1>4, <1>5, <1>6, <1>7, <1>8, InitCompletesInv, HandleDisconnectInv,
           StreamAudioInv, BufferAudioInv, TranscriptionEndsInv, StreamEndsInv
        DEF VoiceNext

\* What a recognizer holds or transcribes is in no buffer, in no other
\* recognizer or transcription, and was in none that is over: unlike audio of
\* the buffer, it is heard once.
THEOREM RecognizedAudioIsHeardOnce == VoiceSpec => [](HeldOnce /\ RecognizedOnce)
<1>1. VoiceInv => HeldOnce /\ RecognizedOnce
  BY DEF VoiceInv
<1> QED BY <1>1, VoiceInitInv, VoiceNextInv, PTL DEF VoiceSpec

(***************************************************************************)
(* The audio of the buffer.  A chunk that is kept and was not crossed is   *)
(* in exactly one place: it waits in the buffer, or travels with one       *)
(* transcription (which the buffer waits for, if it is still in there), or *)
(* is held by one recognizer, or was heard.                                *)
(***************************************************************************)
InNoBatch(k) == \A c \in batches : k \notin c.chunks
InNoStream(k) == \A i \in 1..Len(streams) : k \notin streams[i].chunks

ChunkWaits(k) ==
  /\ k \in audioBuffer /\ transcribed[k] = 0 /\ InNoBatch(k) /\ InNoStream(k)
  /\ \A c \in batches : c.use # "chunk"

Travels(k, b) ==
  /\ k \in b.chunks /\ transcribed[k] = 0 /\ InNoStream(k)
  /\ \A c \in batches : k \in c.chunks => c = b
  /\ k \in audioBuffer => b.use = "chunk" /\ \A c \in batches : c.use = "chunk" => c = b

Held(k, i) ==
  /\ k \in streams[i].chunks /\ transcribed[k] = 0 /\ InNoBatch(k) /\ k \notin audioBuffer
  /\ \A j \in 1..Len(streams) : k \in streams[j].chunks => j = i

Heard(k) ==
  transcribed[k] = 1 /\ InNoBatch(k) /\ InNoStream(k) /\ k \notin audioBuffer

Accounted(k) ==
  \/ ChunkWaits(k) \/ Heard(k)
  \/ \E b \in batches : Travels(k, b)
  \/ \E i \in 1..Len(streams) : Held(k, i)

AllAccounted == \A k \in Chunks \ crossed : Kept(k) => Accounted(k)

LEMMA AccountedIsHeldOnce ==
  ASSUME VoiceInv, NEW k \in Chunks, Accounted(k)
  PROVE  Holders(k) = 1
<1> DEFINE B == {b \in batches : k \in b.chunks}
           I == {i \in DOMAIN streams : k \in streams[i].chunks}
           n == IF k \in audioBuffer /\ \A b \in Clearing : k \notin b.chunks THEN 1 ELSE 0
<1>1. Holders(k) = transcribed[k] + Cardinality(B) + Cardinality(I) + n
  BY DEF Holders
<1>2. DOMAIN streams = 1..Len(streams)
  BY StreamsDomain DEF VoiceInv
<1>3. Cardinality({}) = 0 /\ \A x : Cardinality({x}) = 1
  BY FS_EmptySet, FS_Singleton
<1>4. /\ InNoBatch(k) => B = {}
      /\ InNoStream(k) => I = {}
  BY <1>2 DEF InNoBatch, InNoStream
<1>5. CASE ChunkWaits(k)
  <2>1. B = {} /\ I = {} /\ n = 1 /\ transcribed[k] = 0
    BY <1>4, <1>5 DEF ChunkWaits, Clearing
  <2> HIDE DEF B, I, n
  <2> QED BY <1>1, <1>3, <2>1
<1>6. CASE Heard(k)
  <2>1. B = {} /\ I = {} /\ n = 0 /\ transcribed[k] = 1
    BY <1>4, <1>6 DEF Heard
  <2> HIDE DEF B, I, n
  <2> QED BY <1>1, <1>3, <2>1
<1>7. ASSUME NEW b \in batches, Travels(k, b) PROVE Holders(k) = 1
  <2>1. B = {b} /\ I = {} /\ transcribed[k] = 0
    BY <1>4, <1>7 DEF Travels
  <2>2. n = 0
    BY <1>7 DEF Travels, Clearing
  <2>3. Cardinality(B) = 1 /\ Cardinality(I) = 0
    BY <2>1, FS_EmptySet, FS_Singleton
  <2> HIDE DEF B, I, n
  <2> QED BY <1>1, <2>1, <2>2, <2>3
<1>8. ASSUME NEW i \in 1..Len(streams), Held(k, i) PROVE Holders(k) = 1
  <2>1. B = {} /\ I = {i} /\ n = 0 /\ transcribed[k] = 0
    BY <1>2, <1>4, <1>8 DEF Held
  <2>2. Cardinality(B) = 0 /\ Cardinality(I) = 1
    BY <2>1, FS_EmptySet, FS_Singleton
  <2> HIDE DEF B, I, n
  <2> QED BY <1>1, <2>1, <2>2
<1> QED BY <1>5, <1>6, <1>7, <1>8 DEF Accounted

\* Steps that leave the places alone, but for a buffer that is emptied.
LEMMA SamePlaces ==
  ASSUME VoiceInv, AllAccounted,
         UNCHANGED <<batches, transcribed>>, Alike,
         audioBuffer' = audioBuffer \/ (audioBuffer' = {} /\ audioBuffer \subseteq crossed'),
         crossed \subseteq crossed', \A k \in Chunks : Kept(k)' => Kept(k)
  PROVE  AllAccounted'
<1> SUFFICES ASSUME NEW k \in Chunks \ crossed', Kept(k)' PROVE Accounted(k)'
  BY DEF AllAccounted
<1>1. Accounted(k)
  BY DEF AllAccounted
<1>2. k \in audioBuffer' <=> k \in audioBuffer
  OBVIOUS
<1>3. (InNoBatch(k)' <=> InNoBatch(k)) /\ (InNoStream(k)' <=> InNoStream(k))
  BY DEF InNoBatch, InNoStream, Alike
<1>4. CASE ChunkWaits(k) \/ Heard(k)
  BY <1>2, <1>3, <1>4 DEF Accounted, ChunkWaits, Heard
<1>5. ASSUME NEW b \in batches, Travels(k, b) PROVE Accounted(k)'
  <2>1. Travels(k, b)'
    BY <1>2, <1>3, <1>5 DEF Travels
  <2> QED BY <2>1 DEF Accounted
<1>6. ASSUME NEW i \in 1..Len(streams), Held(k, i) PROVE Accounted(k)'
  <2>1. Held(k, i)'
    BY <1>2, <1>3, <1>6 DEF Held, Alike
  <2> QED BY <2>1 DEF Accounted, Alike
<1> QED BY <1>1, <1>4, <1>5, <1>6 DEF Accounted

LEMMA InitCompletesAccounts ==
  ASSUME VoiceInv, AllAccounted, InitCompletes
  PROVE  AllAccounted'
<1>1. UNCHANGED <<arrival, audioBuffer, batches, transcribed, crossed>>
  BY DEF InitCompletes
<1>2. /\ streams \in Seq(Streams) /\ Len(streams) \in Nat
  BY StreamsDomain DEF VoiceInv, VoiceTypeOK
<1>3. CASE streams' = streams
  <2>1. Alike
    BY <1>2, <1>3 DEF Alike
  <2>2. \A k \in Chunks : Kept(k)' => Kept(k)
    BY <1>1 DEF Kept
  <2> QED BY <1>1, <2>1, <2>2, SamePlaces
<1>4. CASE streams' = Append(streams, [status |-> "open", chunks |-> {}])
  <2> DEFINE fresh == [status |-> "open", chunks |-> {}]
  <2>1. fresh \in Streams /\ fresh.chunks = {}
    BY DEF Streams
  <2> HIDE DEF fresh
  <2>2. /\ Len(streams') = Len(streams) + 1
        /\ \A i \in 1..Len(streams) : streams'[i] = streams[i]
        /\ streams'[Len(streams')] = fresh
    BY <1>2, <1>4, <2>1, AppendProperties DEF fresh
  <2>3. \A i \in 1..Len(streams') : i \in 1..Len(streams) \/ streams'[i].chunks = {}
    BY <1>2, <2>1, <2>2
  <2>4. \A i \in 1..Len(streams) : i \in 1..Len(streams')
    BY <1>2, <2>2
  <2> SUFFICES ASSUME NEW k \in Chunks \ crossed', Kept(k)' PROVE Accounted(k)'
    BY DEF AllAccounted
  <2>5. Accounted(k)
    BY <1>1 DEF AllAccounted, Kept
  <2>6. (InNoBatch(k) => InNoBatch(k)') /\ (InNoStream(k) => InNoStream(k)')
    BY <1>1, <2>2, <2>3 DEF InNoBatch, InNoStream
  <2>7. CASE ChunkWaits(k) \/ Heard(k)
    BY <1>1, <2>6, <2>7 DEF Accounted, ChunkWaits, Heard
  <2>8. ASSUME NEW b \in batches, Travels(k, b) PROVE Accounted(k)'
    <3>1. Travels(k, b)'
      BY <1>1, <2>6, <2>8 DEF Travels
    <3> QED BY <1>1, <3>1 DEF Accounted
  <2>9. ASSUME NEW i \in 1..Len(streams), Held(k, i) PROVE Accounted(k)'
    <3>1. Held(k, i)'
      BY <1>1, <2>2, <2>3, <2>6, <2>9 DEF Held
    <3> QED BY <2>4, <3>1 DEF Accounted
  <2> QED BY <2>5, <2>7, <2>8, <2>9 DEF Accounted
<1> QED BY <1>3, <1>4 DEF InitCompletes

\* A chunk enters the buffer.  If the buffer is about to be cleared, all that is
\* in it is crossed; if not, what is in it waits there and nowhere else.
LEMMA BufferAudioAccounts ==
  ASSUME VoiceInv, AllAccounted, NEW k \in Chunks, BufferAudio(k)
  PROVE  AllAccounted'
<1> DEFINE new == Batch("chunk", 0, audioBuffer')
<1>1. /\ Keep(k)
      /\ UNCHANGED <<recognizer, streams, transcribed>>
      /\ audioBuffer' = audioBuffer \cup {k}
      /\ batches' = batches \/ batches' = batches \cup {new}
      /\ crossed' = CrossedIfClearing(audioBuffer')
  BY DEF BufferAudio
<1>2. new.use = "chunk" /\ new.chunks = audioBuffer \cup {k}
  BY <1>1 DEF Batch
<1>3. /\ ~Elsewhere(k) /\ InNoBatch(k) /\ InNoStream(k)
      /\ \A j \in Chunks : j # k => Kept(j)' = Kept(j)
  BY <1>1, KeptComesFromNowhere DEF InNoBatch, InNoStream
<1> HIDE DEF new
<1> SUFFICES ASSUME NEW j \in Chunks \ crossed', Kept(j)' PROVE Accounted(j)'
  BY DEF AllAccounted
<1>4. CASE j \in audioBuffer'
  <2>1. crossed' = crossed /\ \A c \in batches : c.use # "chunk"
    BY <1>1, <1>4 DEF CrossedIfClearing, Clearing
  <2>2. transcribed[j] = 0 /\ InNoBatch(j) /\ InNoStream(j)
    <3>1. CASE j = k
      BY <1>3, <3>1 DEF Elsewhere
    <3>2. CASE j # k
      <4>1. j \in audioBuffer /\ Accounted(j)
        BY <1>1, <1>3, <1>4, <2>1, <3>2 DEF AllAccounted
      <4> QED BY <2>1, <4>1 DEF Accounted, ChunkWaits, Travels, Held, Heard
    <3> QED BY <3>1, <3>2
  <2>3. CASE batches' = batches
    <3>1. ChunkWaits(j)'
      BY <1>1, <1>4, <2>1, <2>2, <2>3 DEF ChunkWaits, InNoBatch, InNoStream
    <3> QED BY <3>1 DEF Accounted
  <2>4. CASE batches' = batches \cup {new}
    <3>1. j \in new.chunks /\ \A c \in batches' : j \in c.chunks \/ c.use = "chunk" => c = new
      BY <1>1, <1>2, <1>4, <2>1, <2>2, <2>4 DEF InNoBatch
    <3>2. \A c \in batches' : j \in c.chunks => c = new
      BY <3>1
    <3>3. \A c \in batches' : c.use = "chunk" => c = new
      BY <3>1
    <3>4. \A i \in 1..Len(streams') : j \notin streams'[i].chunks
      BY <1>1, <2>2 DEF InNoStream
    <3> QED BY <1>1, <1>2, <2>2, <2>4, <3>1, <3>2, <3>3, <3>4 DEF Accounted, Travels, InNoStream
  <2> QED BY <1>1, <2>3, <2>4
<1>5. CASE j \notin audioBuffer'
  <2>1. j # k /\ j \notin audioBuffer /\ Kept(j) /\ j \notin crossed
    BY <1>1, <1>3, <1>5 DEF CrossedIfClearing
  <2>2. Accounted(j) /\ \A c \in batches' : j \in c.chunks => c \in batches
    BY <1>1, <1>2, <2>1 DEF AllAccounted
  <2>3. (InNoBatch(j) => InNoBatch(j)') /\ (InNoStream(j) => InNoStream(j)')
    BY <1>1, <2>2 DEF InNoBatch, InNoStream
  <2>4. CASE ChunkWaits(j)
    BY <2>1, <2>4 DEF ChunkWaits
  <2>5. CASE Heard(j)
    BY <1>1, <1>5, <2>3, <2>5 DEF Heard, Accounted
  <2>6. ASSUME NEW b \in batches, Travels(j, b) PROVE Accounted(j)'
    <3>1. Travels(j, b)' /\ b \in batches'
      BY <1>1, <1>5, <2>2, <2>3, <2>6 DEF Travels
    <3> QED BY <3>1 DEF Accounted
  <2>7. ASSUME NEW i \in 1..Len(streams), Held(j, i) PROVE Accounted(j)'
    <3>1. Held(j, i)'
      BY <1>1, <1>5, <2>3, <2>7 DEF Held
    <3> QED BY <1>1, <3>1 DEF Accounted
  <2> QED BY <2>2, <2>4, <2>5, <2>6, <2>7 DEF Accounted
<1> QED BY <1>4, <1>5

\* A recognizer is given a chunk: it is heard, or held, or what is held travels.
LEMMA StreamAudioAccounts ==
  ASSUME VoiceInv, AllAccounted, NEW k \in Chunks, StreamAudio(k)
  PROVE  AllAccounted'
<1>1. /\ Keep(k) /\ recognizer # 0
      /\ UNCHANGED <<recognizer, audioBuffer, crossed>>
  BY DEF StreamAudio
<1>2. /\ recognizer \in 1..Len(streams)
      /\ streams \in Seq(Streams)
      /\ streams[recognizer] \in Streams
  BY <1>1, StreamsDomain, ElementOfSeq DEF VoiceInv, VoiceTypeOK
<1>3. /\ ~Elsewhere(k) /\ InNoBatch(k) /\ InNoStream(k)
      /\ \A j \in Chunks : j # k => Kept(j)' = Kept(j)
  BY <1>1, KeptComesFromNowhere DEF InNoBatch, InNoStream
<1>4. transcribed \in [Chunks -> Nat]
  BY DEF VoiceInv, VoiceTypeOK
<1> SUFFICES ASSUME NEW j \in Chunks \ crossed', Kept(j)' PROVE Accounted(j)'
  BY DEF AllAccounted
<1>5. j # k => Accounted(j)
  BY <1>1, <1>3 DEF AllAccounted
<1>6. CASE speech = "sdk"
  <2>1. /\ transcribed' = [transcribed EXCEPT ![k] = @ + 1]
        /\ UNCHANGED <<streams, batches>>
    BY <1>6 DEF StreamAudio
  <2>2. CASE j = k
    <3>1. transcribed'[k] = 1
      BY <1>3, <1>4, <2>1 DEF Elsewhere
    <3>2. Heard(k)'
      BY <1>1, <1>3, <2>1, <3>1 DEF Heard, InNoBatch, InNoStream, Elsewhere
    <3> QED BY <2>2, <3>2 DEF Accounted
  <2>3. CASE j # k
    <3>1. transcribed'[j] = transcribed[j]
      BY <1>4, <2>1, <2>3
    <3>2. (InNoBatch(j) => InNoBatch(j)') /\ (InNoStream(j) => InNoStream(j)')
      BY <2>1 DEF InNoBatch, InNoStream
    <3> QED BY <1>1, <1>5, <2>1, <2>3, <3>1, <3>2 DEF Accounted, ChunkWaits, Travels, Held, Heard
  <2> QED BY <2>2, <2>3
<1>7. CASE speech # "sdk"
  <2> DEFINE held == streams[recognizer].chunks \cup {k}
             new == Batch("stream", recognizer, held)
             left == IF Cardinality(held) < BatchSize THEN held ELSE {}
             given == [status |-> streams[recognizer].status, chunks |-> left]
  <2>1. /\ streams' = [streams EXCEPT ![recognizer].chunks = left]
        /\ batches' = IF Cardinality(held) < BatchSize THEN batches ELSE batches \cup {new}
        /\ UNCHANGED transcribed
    BY <1>7 DEF StreamAudio
  <2>2. new.use = "stream" /\ new.chunks = held
    BY DEF Batch
  <2>3. /\ Len(streams') = Len(streams)
        /\ streams'[recognizer] = given
        /\ \A i \in 1..Len(streams) : i # recognizer => streams'[i] = streams[i]
    <3>1. given \in Streams
      BY <1>2 DEF Streams
    <3> HIDE DEF left
    <3>2. [streams[recognizer] EXCEPT !.chunks = left] = given
      BY <1>2, WithChunks
    <3> HIDE DEF given
    <3>3. streams' = [streams EXCEPT ![recognizer] = given]
      BY <2>1, <3>2
    <3> QED BY <1>2, <3>1, <3>3, ExceptSeq
  <2>4. given.chunks = left /\ left \subseteq held
    OBVIOUS
  <2>5. \/ batches' = batches /\ left = held
        \/ batches' = batches \cup {new} /\ left = {}
    BY <2>1
  <2>6. j \in held =>
          /\ transcribed[j] = 0 /\ j \notin audioBuffer /\ InNoBatch(j)
          /\ \A i \in 1..Len(streams) : i # recognizer => j \notin streams[i].chunks
    BY <1>2, <1>3, KeptComesFromNowhere
       DEF VoiceInv, HeldOnce, Elsewhere, InNoBatch, InNoStream
  <2>7. j \notin held => j # k /\ j \notin streams[recognizer].chunks
    OBVIOUS
  <2> HIDE DEF held, new, left, given
  <2>8. CASE j \in held /\ left = held
    <3>1. Held(j, recognizer)'
      <4>1. j \in streams'[recognizer].chunks /\ transcribed'[j] = 0 /\ j \notin audioBuffer'
        BY <1>1, <2>1, <2>3, <2>4, <2>6, <2>8
      <4>2. \A i \in 1..Len(streams') : j \in streams'[i].chunks => i = recognizer
        BY <2>3, <2>6, <2>8
      <4>3. InNoBatch(j)'
        <5>1. CASE batches' = batches
          BY <2>6, <2>8, <5>1 DEF InNoBatch
        <5>2. CASE left = {}
          BY <2>8, <5>2
        <5> QED BY <2>5, <5>1, <5>2
      <4> QED BY <1>1, <4>1, <4>2, <4>3 DEF Held
    <3> QED BY <1>1, <1>2, <2>3, <3>1 DEF Accounted
  <2>9. CASE j \in held /\ batches' = batches \cup {new} /\ left = {}
    <3>1. \A i \in 1..Len(streams') : j \notin streams'[i].chunks
      BY <2>3, <2>4, <2>6, <2>9
    <3>2. \A c \in batches' : j \in c.chunks => c = new
      BY <2>6, <2>9 DEF InNoBatch
    <3>3. j \in new.chunks /\ new \in batches' /\ transcribed'[j] = 0 /\ j \notin audioBuffer'
      BY <1>1, <2>1, <2>2, <2>6, <2>9
    <3> QED BY <3>1, <3>2, <3>3 DEF Accounted, Travels, InNoStream
  <2>10. CASE j \notin held
    <3>1. Accounted(j) /\ \A c \in batches' : j \in c.chunks => c \in batches
      BY <1>5, <2>2, <2>5, <2>7, <2>10
    <3>2. \A i \in 1..Len(streams) : j \in streams'[i].chunks <=> j \in streams[i].chunks
      BY <2>3, <2>4, <2>7, <2>10
    <3>3. (InNoBatch(j) => InNoBatch(j)') /\ (InNoStream(j) => InNoStream(j)')
      BY <2>3, <3>1, <3>2 DEF InNoBatch, InNoStream
    <3>4. batches \subseteq batches' /\ \A c \in batches' : c.use = "chunk" => c \in batches
      BY <2>2, <2>5
    <3>5. CASE ChunkWaits(j) \/ Heard(j)
      BY <1>1, <2>1, <3>3, <3>4, <3>5 DEF Accounted, ChunkWaits, Heard
    <3>6. ASSUME NEW b \in batches, Travels(j, b) PROVE Accounted(j)'
      <4>1. Travels(j, b)' /\ b \in batches'
        BY <1>1, <2>1, <3>1, <3>3, <3>4, <3>6 DEF Travels
      <4> QED BY <4>1 DEF Accounted
    <3>7. ASSUME NEW i \in 1..Len(streams), Held(j, i) PROVE Accounted(j)'
      <4>1. Held(j, i)'
        BY <1>1, <2>1, <2>3, <3>2, <3>3, <3>7 DEF Held
      <4> QED BY <2>3, <4>1 DEF Accounted
    <3> QED BY <3>1, <3>5, <3>6, <3>7 DEF Accounted
  <2> QED BY <2>5, <2>8, <2>9, <2>10
<1> QED BY <1>6, <1>7

\* What was transcribed is heard; the end of a transcription of the buffer
\* clears it of what waited for that end, and of nothing else that is uncrossed.
LEMMA TranscriptionEndsAccounts ==
  ASSUME VoiceInv, AllAccounted, NEW b \in batches, TranscriptionEnds(b)
  PROVE  AllAccounted'
<1>1. /\ UNCHANGED <<arrival, recognizer, crossed>>
      /\ batches' = batches \ {b}
      /\ audioBuffer' = IF b.use = "chunk" THEN {} ELSE audioBuffer
      /\ transcribed' = [k \in Chunks |-> transcribed[k] + IF k \in b.chunks THEN 1 ELSE 0]
  BY DEF TranscriptionEnds
<1>2. Alike
  BY TranscriptionEndsAlike
<1> SUFFICES ASSUME NEW k \in Chunks \ crossed', Kept(k)' PROVE Accounted(k)'
  BY DEF AllAccounted
<1>3. Accounted(k)
  BY <1>1 DEF AllAccounted, Kept
<1>4. transcribed[k] \in Nat /\ transcribed'[k] = transcribed[k] + IF k \in b.chunks THEN 1 ELSE 0
  BY <1>1 DEF VoiceInv, VoiceTypeOK
<1>5. (InNoBatch(k) => InNoBatch(k)') /\ (InNoStream(k) => InNoStream(k)')
  BY <1>1, <1>2 DEF InNoBatch, InNoStream, Alike
<1>6. CASE k \in b.chunks
  <2>1. Travels(k, b)
    BY <1>3, <1>6 DEF Accounted, ChunkWaits, Heard, Held, Travels, InNoBatch
  <2>2. Heard(k)'
    <3>1. transcribed'[k] = 1
      BY <1>4, <1>6, <2>1 DEF Travels
    <3>2. k \notin audioBuffer' /\ \A c \in batches' : k \notin c.chunks
      BY <1>1, <2>1 DEF Travels
    <3> QED BY <1>5, <2>1, <3>1, <3>2 DEF Travels, Heard, InNoBatch
  <2> QED BY <2>2 DEF Accounted
<1>7. CASE k \notin b.chunks
  <2>1. transcribed'[k] = transcribed[k]
    BY <1>4, <1>7
  <2>2. CASE ChunkWaits(k)
    BY <1>1, <1>5, <2>1, <2>2 DEF Accounted, ChunkWaits
  <2>3. CASE Heard(k)
    BY <1>1, <1>5, <2>1, <2>3 DEF Accounted, Heard
  <2>4. ASSUME NEW c \in batches, Travels(k, c) PROVE Accounted(k)'
    <3>1. c \in batches' /\ Travels(k, c)'
      BY <1>1, <1>5, <1>7, <2>1, <2>4 DEF Travels
    <3> QED BY <3>1 DEF Accounted
  <2>5. ASSUME NEW i \in 1..Len(streams), Held(k, i) PROVE Accounted(k)'
    <3>1. Held(k, i)' /\ i \in 1..Len(streams')
      BY <1>1, <1>2, <1>5, <2>1, <2>5 DEF Held, Alike
    <3> QED BY <3>1 DEF Accounted
  <2> QED BY <1>3, <2>2, <2>3, <2>4, <2>5 DEF Accounted
<1> QED BY <1>6, <1>7

\* What waits in the buffer, or is held by the recognizer in the map, travels.
LEMMA HandleDisconnectAccounts ==
  ASSUME VoiceInv, AllAccounted, NEW s \in Sockets, HandleDisconnect(s)
  PROVE  AllAccounted'
<1> DEFINE rest == Batch("final", 0, audioBuffer)
           last == Batch("last", recognizer, streams[recognizer].chunks)
           sent == {b \in FinalBatches : b.chunks # {}}
<1>1. /\ UNCHANGED <<arrival, transcribed>>
      /\ audioBuffer' = {} /\ recognizer' = 0
      /\ streams' = FinalizedStream
      /\ batches' = batches \cup sent
      /\ crossed' = CrossedIfClearing(audioBuffer)
  BY DEF HandleDisconnect
<1>2. /\ rest.use = "final" /\ rest.chunks = audioBuffer
      /\ last.use = "last" /\ last.chunks = streams[recognizer].chunks
      /\ FinalBatches = {rest} \cup IF recognizer = 0 THEN {} ELSE {last}
  BY DEF Batch, FinalBatches
<1>3. /\ rest.chunks # {} => rest \in batches'
      /\ recognizer # 0 /\ last.chunks # {} => last \in batches'
      /\ \A c \in batches' : c \in batches \/ c = rest \/ (c = last /\ recognizer # 0)
      /\ batches \subseteq batches'
  BY <1>1, <1>2
<1>4. /\ Len(streams') = Len(streams)
      /\ \A i \in 1..Len(streams) :
           IF i = recognizer THEN streams'[i].chunks = {} ELSE streams'[i] = streams[i]
  <2>1. streams \in Seq(Streams) /\ recognizer \in 0..Len(streams) /\ Len(streams) \in Nat
    BY StreamsDomain DEF VoiceInv, VoiceTypeOK
  <2>2. CASE recognizer = 0
    BY <1>1, <2>1, <2>2 DEF FinalizedStream
  <2>3. CASE recognizer # 0
    <3> DEFINE ended == [status |-> IF speech = "rest" /\ streams[recognizer].chunks = {}
                                    THEN "closed" ELSE "ending",
                         chunks |-> {}]
    <3>1. recognizer \in 1..Len(streams)
      BY <2>1, <2>3
    <3>2. ended \in Streams /\ ended.chunks = {}
      BY DEF Streams
    <3>3. streams' = [streams EXCEPT ![recognizer] = ended]
      BY <1>1, <2>3 DEF FinalizedStream
    <3> HIDE DEF ended
    <3> QED BY <2>1, <3>1, <3>2, <3>3, ExceptSeq
  <2> QED BY <2>2, <2>3
<1> HIDE DEF rest, last, sent
<1> SUFFICES ASSUME NEW k \in Chunks \ crossed', Kept(k)' PROVE Accounted(k)'
  BY DEF AllAccounted
<1>5. Accounted(k) /\ k \notin crossed /\ (k \in audioBuffer => Clearing = {})
  BY <1>1 DEF AllAccounted, CrossedIfClearing, Kept
<1>6. recognizer # 0 => recognizer \in 1..Len(streams)
  BY StreamsDomain DEF VoiceInv, VoiceTypeOK
<1>7. InNoStream(k) => InNoStream(k)'
  BY <1>4, <1>6 DEF InNoStream
<1>8. InNoStream(k) /\ recognizer # 0 => k \notin last.chunks
  BY <1>2, <1>6 DEF InNoStream
<1>9. CASE k \in audioBuffer
  <2>1. ChunkWaits(k)
    BY <1>5, <1>9 DEF Accounted, ChunkWaits, Travels, Held, Heard, Clearing
  <2>2. rest \in batches' /\ k \in rest.chunks
    BY <1>2, <1>3, <1>9
  <2>3. \A c \in batches' : k \in c.chunks => c = rest
    BY <1>3, <1>8, <2>1 DEF ChunkWaits, InNoBatch
  <2>4. transcribed'[k] = 0 /\ InNoStream(k)' /\ k \notin audioBuffer'
    BY <1>1, <1>7, <2>1 DEF ChunkWaits
  <2> QED BY <2>2, <2>3, <2>4 DEF Accounted, Travels
<1>10. CASE k \notin audioBuffer
  <2>1. ~ChunkWaits(k) /\ k \notin rest.chunks /\ k \notin audioBuffer'
    BY <1>1, <1>2, <1>10 DEF ChunkWaits
  <2>2. InNoStream(k) => \A c \in batches' : k \in c.chunks => c \in batches
    BY <1>3, <1>8, <2>1
  <2>3. CASE Heard(k)
    <3>1. Heard(k)'
      BY <1>1, <1>7, <2>1, <2>2, <2>3 DEF Heard, InNoBatch
    <3> QED BY <3>1 DEF Accounted
  <2>4. ASSUME NEW b \in batches, Travels(k, b) PROVE Accounted(k)'
    <3>1. Travels(k, b)' /\ b \in batches'
      BY <1>1, <1>3, <1>7, <2>1, <2>2, <2>4 DEF Travels
    <3> QED BY <3>1 DEF Accounted
  <2>5. ASSUME NEW i \in 1..Len(streams), Held(k, i) PROVE Accounted(k)'
    <3>1. CASE i = recognizer
      <4>1. recognizer # 0 /\ last.chunks # {} /\ k \in last.chunks
        BY <1>2, <2>5, <3>1 DEF Held
      <4>2. last \in batches' /\ \A c \in batches' : k \in c.chunks => c = last
        BY <1>3, <2>1, <2>5, <4>1 DEF Held, InNoBatch
      <4>3. InNoStream(k)'
        BY <1>4, <2>5, <3>1 DEF Held, InNoStream
      <4>4. transcribed'[k] = 0 /\ k \notin audioBuffer'
        BY <1>1, <2>1, <2>5 DEF Held
      <4> QED BY <4>1, <4>2, <4>3, <4>4 DEF Accounted, Travels
    <3>2. CASE i # recognizer
      <4>1. \A c \in batches' : k \notin c.chunks
        <5>1. recognizer # 0 => k \notin last.chunks
          BY <1>2, <1>6, <2>5, <3>2 DEF Held
        <5> QED BY <1>3, <2>1, <2>5, <5>1 DEF Held, InNoBatch
      <4>2. Held(k, i)'
        BY <1>1, <1>4, <2>1, <2>5, <3>2, <4>1 DEF Held, InNoBatch
      <4> QED BY <1>4, <4>2 DEF Accounted
    <3> QED BY <3>1, <3>2
  <2> QED BY <1>5, <2>1, <2>3, <2>4, <2>5 DEF Accounted
<1> QED BY <1>9, <1>10

LEMMA NextAccounts ==
  ASSUME VoiceInv, AllAccounted, [VoiceNext]_voiceVars
  PROVE  AllAccounted'
<1>1. VoiceInv' /\ Len(streams) \in Nat /\ streams \in Seq(Streams)
  BY VoiceNextInv, StreamsDomain DEF VoiceInv, VoiceTypeOK
<1>2. streams' = streams => Alike
  BY <1>1 DEF Alike
<1>3. arrival \in [Chunks -> {"unsent", "open", "muted", "kept", "keptMuted", "dropped"}]
  BY DEF VoiceInv, VoiceTypeOK
<1>4. ASSUME NEW s \in Sockets, HandleInit(s) PROVE AllAccounted'
  <2>1. \A k \in Chunks : Kept(k)' => Kept(k)
    BY <1>4 DEF HandleInit, Kept
  <2> QED BY <1>2, <1>4, <2>1, SamePlaces DEF HandleInit
<1>5. ASSUME InitFails PROVE AllAccounted'
  <2>1. \A k \in Chunks : Kept(k)' => Kept(k)
    BY <1>5 DEF InitFails, Kept
  <2> QED BY <1>2, <1>5, <2>1, SamePlaces DEF InitFails
<1>6. ASSUME NEW s \in Sockets, NEW mute \in BOOLEAN, HandleMute(s, mute) PROVE AllAccounted'
  <2>1. \A k \in Chunks : Kept(k)' => Kept(k)
    BY <1>6 DEF HandleMute, Kept
  <2> QED BY <1>2, <1>6, <2>1, SamePlaces DEF HandleMute
<1>7. ASSUME NEW s \in Sockets, NEW k \in Chunks, HandleAudio(s, k) PROVE AllAccounted'
  <2>1. \A j \in Chunks : Kept(j)' => Kept(j)
    BY <1>3, <1>7 DEF HandleAudio, Kept
  <2> QED BY <1>2, <1>7, <2>1, SamePlaces DEF HandleAudio
<1>8. ASSUME NEW k \in Chunks, DropAudio(k) PROVE AllAccounted'
  <2>1. \A j \in Chunks : Kept(j)' => Kept(j)
    BY <1>3, <1>8 DEF DropAudio, Kept
  <2> QED BY <1>2, <1>8, <2>1, SamePlaces DEF DropAudio
<1>9. ASSUME NEW i \in DOMAIN streams, StreamEnds(i) PROVE AllAccounted'
  <2>1. Alike
    <3>1. /\ i \in 1..Len(streams) /\ streams[i].status # "open"
          /\ streams' = [streams EXCEPT ![i].status = "closed"]
      BY <1>9, StreamsDomain DEF StreamEnds, VoiceInv
    <3> QED BY <3>1, ClosedIsAlike DEF VoiceInv
  <2>2. \A k \in Chunks : Kept(k)' => Kept(k)
    BY <1>9 DEF StreamEnds, Kept
  <2> QED BY <1>9, <2>1, <2>2, SamePlaces DEF StreamEnds
<1>10. ASSUME NEW s \in Sockets, InitElsewhere(s) \/ DisconnectApart(s) PROVE AllAccounted'
  <2>1. \A k \in Chunks : Kept(k)' => Kept(k)
    BY <1>10 DEF InitElsewhere, DisconnectApart, Kept
  <2> QED BY <1>2, <1>10, <2>1, SamePlaces DEF InitElsewhere, DisconnectApart
<1>11. CASE UNCHANGED voiceVars
  <2>1. \A k \in Chunks : Kept(k)' => Kept(k)
    BY <1>11 DEF voiceVars, Kept
  <2> QED BY <1>2, <1>11, <2>1, SamePlaces DEF voiceVars
<1> QED BY <1>4, <1>5, <1>6, <1>7, <1>8, <1>9, <1>10, <1>11, InitCompletesAccounts,
           HandleDisconnectAccounts, StreamAudioAccounts, BufferAudioAccounts,
           TranscriptionEndsAccounts
        DEF VoiceNext

(***************************************************************************)
(* Sessions whose sockets took turns.  As long as they do, at most one is  *)
(* joined, an init is under way only then and alone, nothing is kept while *)
(* none is joined, and no recognizer is open but the one in the map, which *)
(* an init therefore never replaces.                                       *)
(***************************************************************************)
OpenIn(i) == streams[i].status = "open"

TakingTurns ==
  /\ \A r, s \in Sockets : Joined(r) /\ Joined(s) => r = s
  /\ initing # 0 => initing = 1 /\ SomeJoined /\ recognizer = 0
  /\ ~SomeJoined => audioBuffer = {} /\ recognizer = 0 /\ ~muted /\ Converting = {}
  /\ \A i \in 1..Len(streams) : OpenIn(i) => i = recognizer

CalmInv ==
  /\ sockets \in [Sockets -> {"apart", "joined", "closed"}]
  /\ calm => TakingTurns

\* What a handler of the one joined socket does, and what ends by itself.
LEMMA SameTurn ==
  ASSUME CalmInv, UNCHANGED <<sockets, recognizer>>, calm' => calm,
         initing' = initing \/ initing' = 0,
         Len(streams') = Len(streams), \A i \in 1..Len(streams) : OpenIn(i)' => OpenIn(i),
         \/ calm' => SomeJoined
         \/ audioBuffer' \subseteq audioBuffer /\ muted' = muted /\ Converting' \subseteq Converting
  PROVE  CalmInv'
<1>1. \A s : Joined(s)' = Joined(s)
  BY DEF Joined
<1>2. SomeJoined' <=> SomeJoined
  BY <1>1 DEF SomeJoined
<1> SUFFICES ASSUME calm' PROVE TakingTurns'
  BY DEF CalmInv
<1>3. TakingTurns
  BY DEF CalmInv
<1>4. ~SomeJoined' => audioBuffer' = {} /\ recognizer' = 0 /\ ~muted' /\ Converting' = {}
  BY <1>2, <1>3 DEF TakingTurns
<1> QED BY <1>1, <1>2, <1>3, <1>4 DEF TakingTurns

LEMMA InitIsCalm ==
  ASSUME CalmInv, NEW s \in Sockets, HandleInit(s)
  PROVE  CalmInv'
<1>1. /\ sockets' = [sockets EXCEPT ![s] = "joined"]
      /\ initing' = initing + 1
      /\ UNCHANGED <<recognizer, streams>>
      /\ calm' = (calm /\ ~SomeJoined)
  BY DEF HandleInit
<1>2. sockets' \in [Sockets -> {"apart", "joined", "closed"}]
  BY <1>1 DEF CalmInv
<1> SUFFICES ASSUME calm' PROVE TakingTurns'
  BY <1>2 DEF CalmInv
<1>3. TakingTurns /\ ~SomeJoined
  BY <1>1 DEF CalmInv
<1>4. \A r \in Sockets : Joined(r)' <=> r = s
  BY <1>1, <1>3 DEF CalmInv, SomeJoined, Joined
<1>5. SomeJoined' /\ recognizer' = 0
  BY <1>1, <1>3, <1>4 DEF TakingTurns, SomeJoined
<1>6. initing = 0
  BY <1>3 DEF TakingTurns
<1>7. initing' = 1
  BY <1>1, <1>6
<1>8. \A i \in 1..Len(streams') : OpenIn(i)' => i = recognizer'
  BY <1>1, <1>3 DEF TakingTurns, OpenIn
<1> QED BY <1>1, <1>4, <1>5, <1>7, <1>8 DEF TakingTurns

LEMMA InitCompletesInTurn ==
  ASSUME VoiceInv, CalmInv, InitCompletes
  PROVE  CalmInv'
<1>1. /\ initing > 0 /\ initing' = initing - 1
      /\ UNCHANGED <<sockets, muted, arrival, audioBuffer, calm>>
  BY DEF InitCompletes
<1>2. \A r : Joined(r)' = Joined(r)
  BY <1>1 DEF Joined
<1> SUFFICES ASSUME calm' PROVE TakingTurns'
  BY <1>1 DEF CalmInv
<1>3. TakingTurns
  BY <1>1 DEF CalmInv
<1>4. initing = 1 /\ SomeJoined /\ recognizer = 0
  BY <1>1, <1>3 DEF TakingTurns
<1>5. initing' = 0 /\ SomeJoined'
  BY <1>1, <1>2, <1>4 DEF SomeJoined
<1>6. \A i \in 1..Len(streams') : OpenIn(i)' => i = recognizer'
  <2>1. CASE speech = "text"
    <3>1. UNCHANGED <<streams, recognizer>>
      BY <2>1 DEF InitCompletes
    <3> QED BY <1>3, <3>1 DEF TakingTurns, OpenIn
  <2>2. CASE speech # "text"
    <3> DEFINE fresh == [status |-> "open", chunks |-> {}]
    <3>1. streams' = Append(streams, fresh) /\ recognizer' = Len(streams')
      BY <2>2 DEF InitCompletes
    <3>2. fresh \in Streams /\ streams \in Seq(Streams) /\ Len(streams) \in Nat
          /\ \A i \in 1..Len(streams) : i # 0
      BY StreamsDomain DEF Streams, VoiceInv, VoiceTypeOK
    <3> HIDE DEF fresh
    <3>3. /\ Len(streams') = Len(streams) + 1
          /\ \A i \in 1..Len(streams) : streams'[i] = streams[i]
      BY <3>1, <3>2, AppendProperties
    <3>4. \A i \in 1..Len(streams') : i \in 1..Len(streams) \/ i = Len(streams')
      BY <3>2, <3>3
    <3>5. \A i \in 1..Len(streams) : ~OpenIn(i)'
      BY <1>3, <1>4, <3>2, <3>3 DEF TakingTurns, OpenIn
    <3> QED BY <3>1, <3>4, <3>5
  <2> QED BY <2>1, <2>2
<1> QED BY <1>2, <1>3, <1>5, <1>6 DEF TakingTurns

LEMMA DisconnectIsCalm ==
  ASSUME VoiceInv, CalmInv, NEW s \in Sockets, HandleDisconnect(s)
  PROVE  CalmInv'
<1>1. /\ Joined(s)
      /\ sockets' = [sockets EXCEPT ![s] = "closed"]
      /\ streams' = FinalizedStream
      /\ audioBuffer' = {} /\ recognizer' = 0 /\ ~muted'
      /\ calm' = (calm /\ initing = 0 /\ Converting = {})
      /\ UNCHANGED <<initing, arrival>>
  BY DEF HandleDisconnect
<1>2. sockets' \in [Sockets -> {"apart", "joined", "closed"}]
  BY <1>1 DEF CalmInv
<1> SUFFICES ASSUME calm' PROVE TakingTurns'
  BY <1>2 DEF CalmInv
<1>3. TakingTurns /\ initing' = 0 /\ Converting' = {}
  BY <1>1 DEF CalmInv, Converting
<1>4. \A r \in Sockets : ~Joined(r)'
  <2> SUFFICES ASSUME NEW r \in Sockets PROVE ~Joined(r)'
    OBVIOUS
  <2>1. CASE r = s
    BY <1>1, <1>2, <2>1 DEF CalmInv, Joined
  <2>2. CASE r # s
    BY <1>1, <1>3, <2>2 DEF CalmInv, TakingTurns, Joined
  <2> QED BY <2>1, <2>2
<1>5. ~SomeJoined'
  BY <1>4 DEF SomeJoined
<1>6. \A i \in 1..Len(streams') : ~OpenIn(i)'
  <2>1. streams \in Seq(Streams) /\ recognizer \in 0..Len(streams) /\ Len(streams) \in Nat
    BY StreamsDomain DEF VoiceInv, VoiceTypeOK
  <2>2. CASE recognizer = 0
    <3>1. streams' = streams /\ \A i \in 1..Len(streams) : i # 0
      BY <1>1, <2>1, <2>2 DEF FinalizedStream
    <3> QED BY <1>3, <2>2, <3>1 DEF TakingTurns, OpenIn
  <2>3. CASE recognizer # 0
    <3> DEFINE ended == [status |-> IF speech = "rest" /\ streams[recognizer].chunks = {}
                                    THEN "closed" ELSE "ending",
                         chunks |-> {}]
    <3>1. recognizer \in 1..Len(streams)
      BY <2>1, <2>3
    <3>2. ended \in Streams /\ ended.status # "open"
      BY DEF Streams
    <3>3. streams' = [streams EXCEPT ![recognizer] = ended]
      BY <1>1, <2>3 DEF FinalizedStream
    <3> HIDE DEF ended
    <3>4. /\ Len(streams') = Len(streams) /\ streams'[recognizer] = ended
          /\ \A i \in 1..Len(streams) : i # recognizer => streams'[i] = streams[i]
      BY <2>1, <3>1, <3>2, <3>3, ExceptSeq
    <3> QED BY <1>3, <3>2, <3>4 DEF TakingTurns, OpenIn
  <2> QED BY <2>2, <2>3
<1> QED BY <1>1, <1>3, <1>4, <1>5, <1>6 DEF TakingTurns

LEMMA DisconnectApartInTurn ==
  ASSUME CalmInv, NEW s \in Sockets, DisconnectApart(s)
  PROVE  CalmInv'
<1>1. /\ ~Joined(s) /\ sockets' = [sockets EXCEPT ![s] = "closed"]
      /\ UNCHANGED <<initing, muted, arrival, audioBuffer, recognizer, streams, calm>>
  BY DEF DisconnectApart, Joined
<1>2. sockets' \in [Sockets -> {"apart", "joined", "closed"}]
  BY <1>1 DEF CalmInv
<1>3. \A r \in Sockets : Joined(r)' <=> Joined(r)
  BY <1>1 DEF CalmInv, Joined
<1>4. SomeJoined' <=> SomeJoined
  BY <1>3 DEF SomeJoined
<1>5. Converting' = Converting /\ \A i \in 1..Len(streams) : OpenIn(i)' <=> OpenIn(i)
  BY <1>1 DEF Converting, OpenIn
<1>6. TakingTurns => TakingTurns'
  BY <1>1, <1>3, <1>4, <1>5 DEF TakingTurns
<1> QED BY <1>1, <1>2, <1>6 DEF CalmInv

\* A conversion is under way only while a socket is joined, if sockets take turns;
\* and if they do not, nothing is said.
LEMMA StreamAudioInTurn ==
  ASSUME VoiceInv, CalmInv, NEW k \in Chunks, StreamAudio(k)
  PROVE  CalmInv'
<1>1. /\ k \in Converting /\ recognizer # 0
      /\ UNCHANGED <<sockets, initing, muted, audioBuffer, recognizer, calm>>
  BY DEF StreamAudio, Keep
<1>2. CASE ~calm
  BY <1>1, <1>2 DEF CalmInv
<1>3. CASE calm
  <2>1. SomeJoined
    BY <1>1, <1>3 DEF CalmInv, TakingTurns
  <2>2. Len(streams') = Len(streams) /\ \A i \in 1..Len(streams) : OpenIn(i)' => OpenIn(i)
    <3>1. /\ recognizer \in 1..Len(streams) /\ streams \in Seq(Streams)
          /\ streams[recognizer] \in Streams
      BY <1>1, StreamsDomain, ElementOfSeq DEF VoiceInv, VoiceTypeOK
    <3>2. CASE streams' = streams
      BY <3>2 DEF OpenIn
    <3>3. ASSUME NEW left \in SUBSET Chunks,
                 streams' = [streams EXCEPT ![recognizer].chunks = left]
          PROVE  Len(streams') = Len(streams) /\ \A i \in 1..Len(streams) : OpenIn(i)' => OpenIn(i)
      <4> DEFINE given == [status |-> streams[recognizer].status, chunks |-> left]
      <4>1. given \in Streams /\ given.status = streams[recognizer].status
        BY <3>1 DEF Streams
      <4>2. [streams[recognizer] EXCEPT !.chunks = left] = given
        BY <3>1, WithChunks
      <4> HIDE DEF given
      <4>3. streams' = [streams EXCEPT ![recognizer] = given]
        BY <3>3, <4>2
      <4>4. /\ Len(streams') = Len(streams) /\ streams'[recognizer] = given
            /\ \A i \in 1..Len(streams) : i # recognizer => streams'[i] = streams[i]
        BY <3>1, <4>1, <4>3, ExceptSeq
      <4> QED BY <4>1, <4>4 DEF OpenIn
    <3>4. \/ streams' = streams
          \/ \E left \in SUBSET Chunks : streams' = [streams EXCEPT ![recognizer].chunks = left]
      <4> DEFINE held == streams[recognizer].chunks \cup {k}
                 left == IF Cardinality(held) < BatchSize THEN held ELSE {}
      <4>1. left \in SUBSET Chunks
        BY <3>1 DEF Streams
      <4>2. streams' = streams \/ streams' = [streams EXCEPT ![recognizer].chunks = left]
        BY DEF StreamAudio
      <4> HIDE DEF left
      <4> QED BY <4>1, <4>2
    <3> QED BY <3>2, <3>3, <3>4
  <2> QED BY <1>1, <2>1, <2>2, SameTurn
<1> QED BY <1>2, <1>3

LEMMA NextIsCalm ==
  ASSUME VoiceInv, CalmInv, [VoiceNext]_voiceVars
  PROVE  CalmInv'
<1>1. UNCHANGED streams => \A i \in 1..Len(streams) : OpenIn(i)' => OpenIn(i)
  BY DEF OpenIn
<1>2. Alike => Len(streams') = Len(streams) /\ \A i \in 1..Len(streams) : OpenIn(i)' => OpenIn(i)
  BY DEF Alike, OpenIn
<1>3. UNCHANGED arrival => Converting' = Converting
  BY DEF Converting
<1>4. ASSUME InitFails PROVE CalmInv'
  <2>1. /\ initing > 0 /\ initing' = initing - 1
        /\ UNCHANGED <<sockets, muted, arrival, audioBuffer, recognizer, streams, calm>>
    BY <1>4 DEF InitFails
  <2>2. CASE ~calm
    BY <2>1, <2>2 DEF CalmInv
  <2>3. CASE calm
    <3>1. initing = 1
      BY <2>1, <2>3 DEF CalmInv, TakingTurns
    <3>2. initing' = 0
      BY <2>1, <3>1
    <3> QED BY <1>1, <1>3, <2>1, <3>2, SameTurn
  <2> QED BY <2>2, <2>3
<1>5. ASSUME NEW s \in Sockets, NEW mute \in BOOLEAN, HandleMute(s, mute) PROVE CalmInv'
  BY <1>1, <1>5, SameTurn DEF HandleMute
<1>6. ASSUME NEW s \in Sockets, NEW k \in Chunks, HandleAudio(s, k) PROVE CalmInv'
  BY <1>1, <1>6, SameTurn DEF HandleAudio
<1>7. ASSUME NEW k \in Chunks, DropAudio(k) PROVE CalmInv'
  <2>1. Converting' \subseteq Converting
    BY <1>7 DEF DropAudio, Converting, VoiceInv, VoiceTypeOK
  <2> QED BY <1>1, <1>7, <2>1, SameTurn DEF DropAudio
<1>8. ASSUME NEW k \in Chunks, BufferAudio(k) PROVE CalmInv'
  <2>1. k \in Converting /\ UNCHANGED <<sockets, initing, recognizer, streams, calm>>
    BY <1>8 DEF BufferAudio, Keep
  <2>2. CASE ~calm
    BY <2>1, <2>2 DEF CalmInv
  <2>3. CASE calm
    <3>1. SomeJoined
      BY <2>1, <2>3 DEF CalmInv, TakingTurns
    <3> QED BY <1>1, <2>1, <3>1, SameTurn
  <2> QED BY <2>2, <2>3
<1>9. ASSUME NEW b \in batches, TranscriptionEnds(b) PROVE CalmInv'
  <2>1. /\ UNCHANGED <<sockets, initing, muted, arrival, recognizer, calm>>
        /\ audioBuffer' \subseteq audioBuffer
    BY <1>9 DEF TranscriptionEnds
  <2> QED BY <1>2, <1>3, <1>9, <2>1, TranscriptionEndsAlike, SameTurn
<1>10. ASSUME NEW i \in DOMAIN streams, StreamEnds(i) PROVE CalmInv'
  <2>1. /\ i \in 1..Len(streams) /\ streams[i].status # "open"
        /\ streams' = [streams EXCEPT ![i].status = "closed"]
    BY <1>10, StreamsDomain DEF StreamEnds, VoiceInv
  <2>2. Alike
    BY <2>1, ClosedIsAlike DEF VoiceInv
  <2> QED BY <1>2, <1>3, <1>10, <2>2, SameTurn DEF StreamEnds
<1>11. ASSUME NEW s \in Sockets, InitElsewhere(s) PROVE CalmInv'
  BY <1>11 DEF InitElsewhere, CalmInv
<1>12. CASE UNCHANGED voiceVars
  BY <1>1, <1>3, <1>12, SameTurn DEF voiceVars
<1> QED BY <1>4, <1>5, <1>6, <1>7, <1>8, <1>9, <1>10, <1>11, <1>12, InitIsCalm,
           InitCompletesInTurn, DisconnectIsCalm, DisconnectApartInTurn, StreamAudioInTurn
        DEF VoiceNext

LEMMA VoiceBegins == VoiceInit => AllAccounted /\ CalmInv
<1> SUFFICES ASSUME VoiceInit PROVE AllAccounted /\ CalmInv
  OBVIOUS
<1>1. \A k \in Chunks : ~Kept(k) /\ k \notin Converting
  BY DEF VoiceInit, Kept, Converting
<1>2. (\A s \in Sockets : ~Joined(s)) /\ ~SomeJoined
  BY DEF VoiceInit, Joined, SomeJoined
<1>3. Len(streams) = 0 /\ Converting = {}
  BY <1>1, EmptySeq DEF VoiceInit, Converting
<1>4. TakingTurns
  BY <1>2, <1>3 DEF VoiceInit, TakingTurns
<1> QED BY <1>1, <1>4 DEF VoiceInit, AllAccounted, CalmInv

\* However many sockets a session has, whether they were initialized or not, and
\* however their handlers overlap: audio that is kept is transcribed exactly once
\* unless something crossed it in the buffer (handleAudio, handleDisconnect,
\* handleInit of the gateway), the mapped recognizer takes audio, and sockets that
\* took turns leave nothing behind.
THEOREM VoiceIsAlwaysSound == VoiceSpec => []VoiceIsSound
<1>1. VoiceInv /\ AllAccounted => AudioIsAccounted
  BY AccountedIsHeldOnce DEF AllAccounted, AudioIsAccounted
<1>2. VoiceInv => RecognizersAreOpen
  BY DEF VoiceInv
<1>3. VoiceInv /\ CalmInv => CalmSessionsLeaveNothing
  <2> SUFFICES ASSUME VoiceInv, CalmInv, calm, ~SomeJoined
               PROVE  /\ audioBuffer = {} /\ recognizer = 0 /\ ~muted
                      /\ \A i \in DOMAIN streams : streams[i].status # "open"
    BY DEF CalmSessionsLeaveNothing
  <2>1. TakingTurns
    BY DEF CalmInv
  <2>2. DOMAIN streams = 1..Len(streams) /\ \A i \in 1..Len(streams) : i # 0
    BY StreamsDomain DEF VoiceInv
  <2> QED BY <2>1, <2>2 DEF TakingTurns, OpenIn
<1>4. VoiceInv /\ AllAccounted /\ CalmInv => VoiceIsSound
  BY <1>1, <1>2, <1>3 DEF VoiceIsSound
<1>5. VoiceInit => VoiceInv /\ AllAccounted /\ CalmInv
  BY VoiceInitInv, VoiceBegins
<1>6. VoiceInv /\ AllAccounted /\ CalmInv /\ [VoiceNext]_voiceVars =>
        (VoiceInv /\ AllAccounted /\ CalmInv)'
  BY VoiceNextInv, NextAccounts, NextIsCalm
<1> QED BY <1>4, <1>5, <1>6, PTL DEF VoiceSpec

==============================================================================
