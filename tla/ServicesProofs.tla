---------------------------- MODULE ServicesProofs ----------------------------
(***************************************************************************)
(* Proofs about the services around the agents: the requests to a human,   *)
(* the schedules of autonomous learning, the requests of the resume worker *)
(* to the language service, the plan of a manager and the expert pool.     *)
(* They share no state; the last part puts them together.                  *)
(***************************************************************************)
EXTENDS MCServices, SubsequenceProofs

-----------------------------------------------------------------------------
(***************************************************************************)
(* Proofs about the requests to a human, for any sets of requests and      *)
(* agents.  PendingAreListed is inductive as it stands: the two maps and   *)
(* the timer of a request are only ever changed together.                  *)
(***************************************************************************)

\* Settling a pending request, with any status but "pending", keeps the lists
\* exact.  Answers, timers and cancellations share it.
LEMMA SettleKeepsLists ==
  ASSUME PendingAreListed,
         NEW r \in Requests, NEW s \in {"completed", "rejected", "timeout"},
         Settle(r, s), UNCHANGED owner
  PROVE  /\ requests' \in [Requests -> {"absent", "pending", "completed", "rejected", "timeout"}]
         /\ pendingRequests' \in [Askers -> SUBSET Requests]
         /\ requests'[r] # "pending"
         /\ \A q \in Requests : q # r => requests'[q] = requests[q]
         /\ \A a \in Askers :
              pendingRequests'[a] = {q \in Requests : owner'[q] = a /\ requests'[q] = "pending"}
<1>1. /\ requests' \in [Requests -> {"absent", "pending", "completed", "rejected", "timeout"}]
      /\ requests'[r] = s
      /\ \A q \in Requests : q # r => requests'[q] = requests[q]
  BY DEF PendingAreListed, HitlTypeOK, Settle
<1>2. pendingRequests' \in [Askers -> SUBSET Requests]
  BY DEF PendingAreListed, HitlTypeOK, Settle
<1>3. ASSUME NEW a \in Askers
      PROVE  pendingRequests'[a] = {q \in Requests : owner'[q] = a /\ requests'[q] = "pending"}
  <2>1. pendingRequests[a] = {q \in Requests : owner[q] = a /\ requests[q] = "pending"}
    BY DEF PendingAreListed
  <2>2. pendingRequests'[a] = IF a = owner[r] THEN pendingRequests[a] \ {r} ELSE pendingRequests[a]
    BY DEF PendingAreListed, HitlTypeOK, Settle
  <2> QED BY <1>1, <2>1, <2>2
<1> QED BY <1>1, <1>2, <1>3

LEMMA HitlInitInv == HitlInit => PendingAreListed
BY DEF HitlInit, PendingAreListed, HitlTypeOK

LEMMA CreateInv ==
  ASSUME PendingAreListed, NEW r \in Requests, NEW b \in BOOLEAN, CreateRequest(r, b)
  PROVE  PendingAreListed'
<1>1. /\ requests[r] = "absent"
      /\ requests' = [requests EXCEPT ![r] = "pending"]
      /\ owner' = owner /\ timed' = timed /\ waiting' = waiting
  BY DEF CreateRequest, New
<1>2. HitlTypeOK'
  BY DEF PendingAreListed, HitlTypeOK, CreateRequest
<1>3. ASSUME NEW a \in Askers
      PROVE  pendingRequests'[a] = {q \in Requests : owner'[q] = a /\ requests'[q] = "pending"}
  <2>1. pendingRequests[a] = {q \in Requests : owner[q] = a /\ requests[q] = "pending"}
    BY DEF PendingAreListed
  <2>2. pendingRequests'[a] = IF a = owner[r] THEN pendingRequests[a] \cup {r} ELSE pendingRequests[a]
    BY DEF PendingAreListed, HitlTypeOK, CreateRequest
  <2>3. \A q \in Requests : requests'[q] = IF q = r THEN "pending" ELSE requests[q]
    BY <1>1 DEF PendingAreListed, HitlTypeOK
  <2> QED BY <1>1, <2>1, <2>2, <2>3
<1>4. \A q \in timed' : requests'[q] = "pending" => q \in armed' \cup notifying'
  <2>1. armed \subseteq armed' /\ notifying \subseteq notifying'
    BY DEF CreateRequest
  <2>2. r \in timed => r \in armed' \cup notifying'
    BY DEF CreateRequest
  <2> QED BY <1>1, <2>1, <2>2 DEF PendingAreListed, HitlTypeOK
<1> QED BY <1>2, <1>3, <1>4 DEF PendingAreListed

\* The answers, the cancellation and the timer of a request.
LEMMA SettlingInv ==
  ASSUME PendingAreListed, NEW r \in Requests,
         \/ \E b \in BOOLEAN : RespondToRequest(r, b)
         \/ CancelRequest(r)
         \/ HandleTimeout(r)
  PROVE  PendingAreListed'
<1>1. UNCHANGED <<owner, timed, notifying, waiting>>
  BY DEF RespondToRequest, CancelRequest, HandleTimeout
<1>2. CASE \E s \in {"completed", "rejected", "timeout"} : Settle(r, s)
  <2>1. PICK s \in {"completed", "rejected", "timeout"} : Settle(r, s)
    BY <1>2
  <2>2. armed' \subseteq armed /\ armed \ {r} \subseteq armed'
    BY DEF RespondToRequest, CancelRequest, HandleTimeout
  <2>3. HitlTypeOK'
    BY <1>1, <2>1, <2>2, SettleKeepsLists DEF PendingAreListed, HitlTypeOK
  <2>4. \A a \in Askers :
          pendingRequests'[a] = {q \in Requests : owner'[q] = a /\ requests'[q] = "pending"}
    BY <1>1, <2>1, SettleKeepsLists
  <2>5. \A q \in timed' : requests'[q] = "pending" => q \in armed' \cup notifying'
    BY <1>1, <2>1, <2>2, SettleKeepsLists DEF PendingAreListed, HitlTypeOK
  <2> QED BY <2>3, <2>4, <2>5 DEF PendingAreListed
<1>3. CASE /\ requests[r] # "pending" /\ armed' = armed \ {r}
           /\ UNCHANGED <<requests, pendingRequests>>
  BY <1>1, <1>3 DEF PendingAreListed, HitlTypeOK
<1> QED BY <1>2, <1>3 DEF RespondToRequest, CancelRequest, HandleTimeout

LEMMA ClearInv ==
  ASSUME PendingAreListed, NEW a \in Askers, ClearAgentRequests(a)
  PROVE  PendingAreListed'
<1>1. UNCHANGED <<owner, timed, notifying, armed, waiting>>
  BY DEF ClearAgentRequests
<1>2. \A q \in Requests : requests'[q] = IF owner[q] = a THEN "absent" ELSE requests[q]
  BY DEF ClearAgentRequests
<1>3. HitlTypeOK'
  BY <1>1 DEF ClearAgentRequests, PendingAreListed, HitlTypeOK
<1>4. ASSUME NEW b \in Askers
      PROVE  pendingRequests'[b] = {q \in Requests : owner'[q] = b /\ requests'[q] = "pending"}
  <2>1. pendingRequests[b] = {q \in Requests : owner[q] = b /\ requests[q] = "pending"}
    BY DEF PendingAreListed
  <2>2. pendingRequests'[b] = IF b = a THEN {} ELSE pendingRequests[b]
    BY DEF ClearAgentRequests, PendingAreListed, HitlTypeOK
  <2> QED BY <1>1, <1>2, <2>1, <2>2
<1>5. \A q \in timed' : requests'[q] = "pending" => q \in armed' \cup notifying'
  BY <1>1, <1>2 DEF PendingAreListed, HitlTypeOK
<1> QED BY <1>3, <1>4, <1>5 DEF PendingAreListed

LEMMA HitlInductive == PendingAreListed /\ [HitlNext]_hitlVars => PendingAreListed'
<1> SUFFICES ASSUME PendingAreListed, [HitlNext]_hitlVars
             PROVE  PendingAreListed'
  OBVIOUS
<1>1. ASSUME NEW r \in Requests, NEW b \in BOOLEAN, CreateRequest(r, b)
      PROVE  PendingAreListed'
  BY <1>1, CreateInv
<1>2. ASSUME NEW r \in Requests, NEW b \in BOOLEAN, RespondToRequest(r, b)
      PROVE  PendingAreListed'
  BY <1>2, SettlingInv
<1>3. ASSUME NEW r \in Requests, CancelRequest(r) \/ HandleTimeout(r)
      PROVE  PendingAreListed'
  BY <1>3, SettlingInv
\* The timer is armed when the notification is over.
<1>4. ASSUME NEW r \in Requests, NotificationEnds(r)
      PROVE  PendingAreListed'
  BY <1>4 DEF NotificationEnds, PendingAreListed, HitlTypeOK
<1>5. ASSUME NEW r \in Requests, WaitForResponse(r) \/ Poll(r) \/ ExceedWait(r)
      PROVE  PendingAreListed'
  BY <1>5 DEF WaitForResponse, Poll, ExceedWait, PendingAreListed, HitlTypeOK
<1>6. ASSUME NEW a \in Askers, ClearAgentRequests(a)
      PROVE  PendingAreListed'
  BY <1>6, ClearInv
<1>7. CASE UNCHANGED hitlVars
  BY <1>7 DEF hitlVars, PendingAreListed, HitlTypeOK
<1> QED BY <1>1, <1>2, <1>3, <1>4, <1>5, <1>6, <1>7 DEF HitlNext

\* The list of an agent is exactly its pending requests, and a pending request
\* with a timeout has its timer or is about to get it, whatever order answers,
\* timers, cancellations and clearing come in.
THEOREM PendingAreAlwaysListed == HitlSpec => []PendingAreListed
BY HitlInitInv, HitlInductive, PTL DEF HitlSpec

\* No timer, second answer or cancellation that comes late changes an answer, and
\* a waiter is told "answered" of answered requests only.
THEOREM AnswersAlwaysStand == HitlSpec => AnswersStand
<1> DEFINE A == \A r \in Requests :
                  /\ requests[r] \notin {"absent", "pending"} => requests'[r] \in {requests[r], "absent"}
                  /\ waiting[r] = "waiting" /\ waiting'[r] = "resolved"
                       => requests'[r] \in {"completed", "rejected"}
<1>1. PendingAreListed /\ [HitlNext]_hitlVars => [A]_hitlVars
  <2> SUFFICES ASSUME PendingAreListed, HitlNext, NEW r \in Requests
               PROVE  /\ requests[r] \notin {"absent", "pending"}
                           => requests'[r] \in {requests[r], "absent"}
                      /\ waiting[r] = "waiting" /\ waiting'[r] = "resolved"
                           => requests'[r] \in {"completed", "rejected"}
    OBVIOUS
  <2> USE DEF PendingAreListed, HitlTypeOK
  <2>1. ASSUME NEW q \in Requests, NEW b \in BOOLEAN, CreateRequest(q, b) \/ RespondToRequest(q, b)
        PROVE  /\ requests[r] \in {"absent", "pending"} \/ requests'[r] = requests[r]
               /\ waiting' = waiting
    BY <2>1 DEF CreateRequest, New, RespondToRequest, Settle
  <2>2. ASSUME NEW q \in Requests,
               NotificationEnds(q) \/ CancelRequest(q) \/ HandleTimeout(q)
        PROVE  /\ requests[r] \in {"absent", "pending"} \/ requests'[r] = requests[r]
               /\ waiting' = waiting
    BY <2>2 DEF NotificationEnds, CancelRequest, HandleTimeout, Settle
  <2>3. ASSUME NEW q \in Requests, WaitForResponse(q) \/ Poll(q) \/ ExceedWait(q)
        PROVE  /\ requests' = requests
               /\ waiting[r] = "waiting" /\ waiting'[r] = "resolved"
                    => requests[r] \in {"completed", "rejected"}
    BY <2>3 DEF WaitForResponse, Poll, ExceedWait
  <2>4. ASSUME NEW a \in Askers, ClearAgentRequests(a)
        PROVE  requests'[r] \in {requests[r], "absent"} /\ waiting' = waiting
    BY <2>4 DEF ClearAgentRequests
  <2> QED BY <2>1, <2>2, <2>3, <2>4 DEF HitlNext
<1> QED BY <1>1, PendingAreAlwaysListed, PTL DEF HitlSpec, AnswersStand

-----------------------------------------------------------------------------
(***************************************************************************)
(* Proofs about the schedules of autonomous learning, for any set of       *)
(* schedules and any bounds.                                               *)
(***************************************************************************)

USE SchedulesAssumption

\* The ids in the histories are ids of schedules: all that TasksFollowSchedules
\* needs to be inductive.
SchedulesInv == TasksFollowSchedules /\ drawn \cup doubled \cup refused \subseteq Schedules

\* What the invariant says of one schedule, which one action is about.
Sound(s) ==
  /\ s \in mapped => s \in schedules /\ s \in enabled /\ ticking[s] > 0
  /\ s \in enabled => s \in schedules
  /\ s \in schedules => s \in drawn
  /\ s \in doubled \/ ticking[s] = (IF s \in mapped THEN 1 ELSE 0)
  /\ s \in enabled => s \in mapped \/ s \in refused
  /\ ticking[s] \in 0..MaxTicking
  /\ executing[s] \in 0..MaxRuns /\ detached[s] \in 0..MaxRuns
  /\ runCount[s] \in 0..MaxRuns /\ runs[s] \in 0..MaxRuns
  /\ runs[s] = runCount[s] + executing[s] + detached[s]

\* The shape of the state, which says nothing of a single schedule.
Shaped ==
  /\ DOMAIN ticking = Schedules /\ ticking = [s \in Schedules |-> ticking[s]]
  /\ DOMAIN executing = Schedules /\ executing = [s \in Schedules |-> executing[s]]
  /\ DOMAIN detached = Schedules /\ detached = [s \in Schedules |-> detached[s]]
  /\ DOMAIN runCount = Schedules /\ runCount = [s \in Schedules |-> runCount[s]]
  /\ DOMAIN runs = Schedules /\ runs = [s \in Schedules |-> runs[s]]
  /\ mapped \cup enabled \cup schedules \cup drawn \cup doubled \cup refused \subseteq Schedules

AllSound == \A s \in Schedules : Sound(s)

LEMMA InvIsPointwise == SchedulesInv <=> Shaped /\ AllSound
<1>1. SchedulesInv => Shaped /\ AllSound
  <2> SUFFICES ASSUME SchedulesInv PROVE Shaped /\ AllSound
    OBVIOUS
  <2>1. /\ ticking \in [Schedules -> 0..MaxTicking]
        /\ executing \in [Schedules -> 0..MaxRuns] /\ detached \in [Schedules -> 0..MaxRuns]
        /\ runCount \in [Schedules -> 0..MaxRuns] /\ runs \in [Schedules -> 0..MaxRuns]
    BY DEF SchedulesInv, TasksFollowSchedules, SchedulesTypeOK
  <2>2. mapped \subseteq schedules /\ enabled \subseteq schedules /\ schedules \subseteq drawn
    BY DEF SchedulesInv, TasksFollowSchedules, SchedulesTypeOK
  <2>3. Shaped
    BY <2>1, <2>2 DEF Shaped, SchedulesInv
  <2>4. AllSound
    BY <2>1, <2>2 DEF AllSound, Sound, SchedulesInv, TasksFollowSchedules
  <2> QED BY <2>3, <2>4
<1>2. Shaped /\ AllSound => SchedulesInv
  <2> SUFFICES ASSUME Shaped, AllSound PROVE SchedulesInv
    OBVIOUS
  <2>1. ticking \in [Schedules -> 0..MaxTicking]
    BY DEF Shaped, AllSound, Sound
  <2>2. executing \in [Schedules -> 0..MaxRuns] /\ detached \in [Schedules -> 0..MaxRuns]
    BY DEF Shaped, AllSound, Sound
  <2>3. runCount \in [Schedules -> 0..MaxRuns] /\ runs \in [Schedules -> 0..MaxRuns]
    BY DEF Shaped, AllSound, Sound
  <2>4. mapped \subseteq schedules /\ enabled \subseteq schedules /\ schedules \subseteq drawn
    BY DEF Shaped, AllSound, Sound
  <2>5. /\ \A s \in mapped : s \in enabled /\ ticking[s] > 0
        /\ \A s \in Schedules \ doubled : ticking[s] = IF s \in mapped THEN 1 ELSE 0
        /\ enabled \ mapped \subseteq refused
        /\ \A s \in Schedules : runs[s] = runCount[s] + executing[s] + detached[s]
    BY DEF Shaped, AllSound, Sound
  <2>6. drawn \cup doubled \cup refused \subseteq Schedules
    BY DEF Shaped
  <2> QED BY <2>1, <2>2, <2>3, <2>4, <2>5, <2>6
          DEF SchedulesInv, TasksFollowSchedules, SchedulesTypeOK
<1> QED BY <1>1, <1>2

LEMMA SchedulesInitInv == SchedulesInit => SchedulesInv
<1> SUFFICES ASSUME SchedulesInit PROVE Shaped /\ AllSound
  BY InvIsPointwise
<1> QED BY DEF SchedulesInit, Shaped, AllSound, Sound

\* An action on s leaves every other schedule as it was.
Others(s) ==
  \A t \in Schedules \ {s} :
    /\ (t \in mapped') = (t \in mapped) /\ (t \in enabled') = (t \in enabled)
    /\ (t \in schedules') = (t \in schedules) /\ (t \in drawn') = (t \in drawn)
    /\ (t \in doubled') = (t \in doubled) /\ (t \in refused') = (t \in refused)
    /\ ticking'[t] = ticking[t] /\ executing'[t] = executing[t]
    /\ detached'[t] = detached[t] /\ runCount'[t] = runCount[t] /\ runs'[t] = runs[t]

LEMMA OneIsEnough ==
  ASSUME SchedulesInv, NEW s \in Schedules, Shaped', Others(s), Sound(s)'
  PROVE  SchedulesInv'
<1>1. AllSound'
  <2>1. ASSUME NEW t \in Schedules \ {s} PROVE Sound(t)'
    BY <2>1, InvIsPointwise DEF AllSound, Others, Sound
  <2> QED BY <2>1 DEF AllSound
<1>2. (Shaped /\ AllSound)' => SchedulesInv'
  BY InvIsPointwise, PTL
<1> QED BY <1>1, <1>2

\* Detaching moves the executions of s, and of no other schedule.
LEMMA DetachEffect ==
  ASSUME Shaped, NEW s \in Schedules, Sound(s), Detach(s)
  PROVE  /\ DOMAIN detached' = Schedules /\ detached' = [t \in Schedules |-> detached'[t]]
         /\ DOMAIN executing' = Schedules /\ executing' = [t \in Schedules |-> executing'[t]]
         /\ detached'[s] = detached[s] + executing[s] /\ executing'[s] = 0
         /\ \A t \in Schedules \ {s} : detached'[t] = detached[t] /\ executing'[t] = executing[t]
BY DEF Shaped, Sound, Detach

LEMMA StopEffect ==
  ASSUME Shaped, NEW s \in Schedules, Sound(s), StopCronTask(s)
  PROVE  /\ DOMAIN ticking' = Schedules /\ ticking' = [t \in Schedules |-> ticking'[t]]
         /\ ticking'[s] = IF s \in mapped THEN ticking[s] - 1 ELSE ticking[s]
         /\ mapped' = mapped \ {s}
         /\ \A t \in Schedules \ {s} : ticking'[t] = ticking[t]
BY DEF Shaped, Sound, StopCronTask

LEMMA ScheduleInv ==
  ASSUME SchedulesInv, NEW s \in Schedules, NEW on \in BOOLEAN, ScheduleLearning(s, on)
  PROVE  SchedulesInv'
<1>1. Shaped /\ Sound(s)
  BY InvIsPointwise DEF AllSound
<1>2. Shaped' /\ Others(s)
  BY <1>1 DEF ScheduleLearning, CreateCronTask, Shaped, Others
<1>3. Sound(s)'
  BY <1>1 DEF ScheduleLearning, CreateCronTask, Shaped, Sound
<1> QED BY <1>2, <1>3, OneIsEnough

LEMMA CancelInv ==
  ASSUME SchedulesInv, NEW s \in Schedules, CancelScheduled(s)
  PROVE  SchedulesInv'
<1>1. Shaped /\ Sound(s) /\ StopCronTask(s) /\ Detach(s)
  BY InvIsPointwise DEF AllSound, CancelScheduled
<1>2. Shaped'
  BY <1>1, DetachEffect, StopEffect DEF CancelScheduled, Shaped
<1>3. Others(s)
  BY <1>1, DetachEffect, StopEffect DEF CancelScheduled, Others
<1>4. Sound(s)'
  BY <1>1, DetachEffect, StopEffect DEF CancelScheduled, Sound
<1> QED BY <1>2, <1>3, <1>4, OneIsEnough

LEMMA UpdateInv ==
  ASSUME SchedulesInv, NEW s \in Schedules, NEW on \in BOOLEAN, UpdateSchedule(s, on)
  PROVE  SchedulesInv'
<1>1. Shaped /\ Sound(s) /\ Detach(s)
  BY InvIsPointwise DEF AllSound, UpdateSchedule
<1>2. /\ DOMAIN ticking' = Schedules /\ ticking' = [t \in Schedules |-> ticking'[t]]
      /\ ticking'[s] = (IF s \in mapped THEN ticking[s] - 1 ELSE ticking[s]) + (IF on THEN 1 ELSE 0)
      /\ ticking'[s] <= MaxTicking
      /\ \A t \in Schedules \ {s} : ticking'[t] = ticking[t]
  BY <1>1 DEF UpdateSchedule, Shaped, Sound
<1>3. Shaped'
  BY <1>1, <1>2, DetachEffect DEF UpdateSchedule, Shaped
<1>4. Others(s)
  BY <1>1, <1>2, DetachEffect DEF UpdateSchedule, Others
<1>5. Sound(s)'
  BY <1>1, <1>2, DetachEffect DEF UpdateSchedule, Sound
<1> QED BY <1>3, <1>4, <1>5, OneIsEnough

LEMMA RefuseInv ==
  ASSUME SchedulesInv, NEW s \in Schedules, RefuseUpdate(s)
  PROVE  SchedulesInv'
<1>1. Shaped /\ Sound(s)
  BY InvIsPointwise DEF AllSound
<1>2. Shaped' /\ Others(s)
  BY <1>1 DEF RefuseUpdate, StopCronTask, Shaped, Others
<1>3. Sound(s)'
  BY <1>1 DEF RefuseUpdate, StopCronTask, Shaped, Sound
<1> QED BY <1>2, <1>3, OneIsEnough

LEMMA PauseInv ==
  ASSUME SchedulesInv, NEW s \in Schedules, PauseSchedule(s)
  PROVE  SchedulesInv'
<1>1. Shaped /\ Sound(s)
  BY InvIsPointwise DEF AllSound
<1>2. Shaped' /\ Others(s)
  BY <1>1 DEF PauseSchedule, StopCronTask, Shaped, Others
<1>3. Sound(s)'
  BY <1>1 DEF PauseSchedule, StopCronTask, Shaped, Sound
<1> QED BY <1>2, <1>3, OneIsEnough

LEMMA ResumeInv ==
  ASSUME SchedulesInv, NEW s \in Schedules, ResumeSchedule(s)
  PROVE  SchedulesInv'
<1>1. Shaped /\ Sound(s)
  BY InvIsPointwise DEF AllSound
<1>2. Shaped' /\ Others(s)
  BY <1>1 DEF ResumeSchedule, CreateCronTask, Shaped, Others
<1>3. Sound(s)'
  BY <1>1 DEF ResumeSchedule, CreateCronTask, Shaped, Sound
<1> QED BY <1>2, <1>3, OneIsEnough

\* A tick and the end of an execution: what starts is counted or in flight.
LEMMA ExecutionInv ==
  ASSUME SchedulesInv, NEW s \in Schedules, ExecuteScheduledLearning(s) \/ ExecutionEnds(s)
  PROVE  SchedulesInv'
<1>1. Shaped /\ Sound(s)
  BY InvIsPointwise DEF AllSound
<1>2. Shaped' /\ Others(s)
  BY <1>1 DEF ExecuteScheduledLearning, ExecutionEnds, Shaped, Others
<1>3. Sound(s)'
  BY <1>1 DEF ExecuteScheduledLearning, ExecutionEnds, Shaped, Sound
<1> QED BY <1>2, <1>3, OneIsEnough

LEMMA SchedulesInductive == SchedulesInv /\ [SchedulesNext]_scheduleVars => SchedulesInv'
<1> SUFFICES ASSUME SchedulesInv, [SchedulesNext]_scheduleVars
             PROVE  SchedulesInv'
  OBVIOUS
<1>1. CASE UNCHANGED scheduleVars
  BY <1>1 DEF scheduleVars, SchedulesInv, TasksFollowSchedules, SchedulesTypeOK
<1>2. CASE SchedulesNext
  BY <1>2, ScheduleInv, CancelInv, UpdateInv, RefuseInv, PauseInv, ResumeInv, ExecutionInv
     DEF SchedulesNext
<1> QED BY <1>1, <1>2

\* A mapped task is alive and its schedule enabled; only a schedule resumed while
\* it had a task ever has one that no map remembers; only a refused update leaves
\* an enabled schedule without one; and every run is counted or accounted for.
THEOREM TasksAlwaysFollowSchedules == SchedulesSpec => []TasksFollowSchedules
<1>1. SchedulesSpec => []SchedulesInv
  BY SchedulesInitInv, SchedulesInductive, PTL DEF SchedulesSpec
<1>2. SchedulesInv => TasksFollowSchedules
  BY DEF SchedulesInv
<1> QED BY <1>1, <1>2, PTL

-----------------------------------------------------------------------------
(***************************************************************************)
(* Proofs about the requests of the resume worker, for any calls and       *)
(* whatever the broker loses, delays or reports wrongly.                   *)
(*                                                                         *)
(* RequestsAreConsistent is not inductive.  Nothing in it says that a send *)
(* that fails belongs to a call that has an entry or had one, which the    *)
(* failure then settles, nor that what has an answer is a posting or a     *)
(* bullet the service can evaluate.  RequestInv adds both.                 *)
(***************************************************************************)

Stages == {"idle", "checking", "connecting", "waiting", "resolved", "rejected", "failed"}

RequestsTypeOK ==
  /\ asks \in [Calls -> Asks] /\ stage \in [Calls -> Stages]
  /\ pendingCalls \subseteq Calls /\ sending \subseteq Calls /\ answers \subseteq Calls

\* A call whose send is under way or whose answer has come is past the check of
\* the store; what raises has no answer.
SentBefore ==
  /\ \A c \in sending \cup answers : stage[c] \notin {"idle", "checking", "connecting"}
  /\ \A c \in answers : ~Raises(c)

RequestInv ==
  /\ RequestsTypeOK
  /\ RequestsAreConsistent
  /\ SentBefore

LEMMA RequestsInitInv == RequestsInit => RequestInv
BY DEF RequestsInit, RequestInv, RequestsTypeOK, Stages, RequestsAreConsistent, SentBefore, Abandoned

\* A step that changes the stage of one call.
LEMMA OneCallMoves ==
  ASSUME RequestInv, NEW c \in Calls, NEW s \in Stages, stage' = [stage EXCEPT ![c] = s]
  PROVE  /\ stage' \in [Calls -> Stages] /\ stage'[c] = s
         /\ \A d \in Calls : d # c => stage'[d] = stage[d]
BY DEF RequestInv, RequestsTypeOK

\* A call of which nothing is recorded yet moves on, or gets its entry.
LEMMA EarlyStepInv ==
  ASSUME RequestInv, NEW c \in Calls,
         Call(c) \/ CheckExisting(c) \/ CheckFails(c) \/ Send(c)
  PROVE  RequestInv'
<1>1. stage[c] \in {"idle", "checking", "connecting"} /\ UNCHANGED <<asks, answers>>
  BY DEF Call, CheckExisting, CheckFails, Send
<1>2. c \notin pendingCalls \cup armedTimers \cup sending \cup answers
  BY <1>1 DEF RequestInv, RequestsAreConsistent, SentBefore
<1>3. CASE Call(c) \/ CheckExisting(c) \/ CheckFails(c)
  <2>1. /\ UNCHANGED <<pendingCalls, armedTimers, sending>>
        /\ \E s \in {"checking", "connecting", "failed"} : stage' = [stage EXCEPT ![c] = s]
    BY <1>3 DEF Call, CheckExisting, CheckFails
  <2>2. /\ stage' \in [Calls -> Stages] /\ stage'[c] \in {"checking", "connecting", "failed"}
        /\ \A d \in Calls : d # c => stage'[d] = stage[d]
    BY <2>1, OneCallMoves DEF Stages
  <2>3. RequestsTypeOK' /\ SentBefore'
    BY <1>1, <1>2, <2>1, <2>2 DEF RequestInv, RequestsTypeOK, SentBefore, Raises
  <2>4. RequestsAreConsistent'
    BY <1>1, <1>2, <2>1, <2>2
    DEF RequestInv, RequestsTypeOK, RequestsAreConsistent, Abandoned, IsPosting
  <2> QED BY <2>3, <2>4 DEF RequestInv
<1>4. CASE Send(c)
  <2>1. /\ pendingCalls' = pendingCalls \cup {c} /\ armedTimers' = armedTimers \cup {c}
        /\ sending' = sending \cup {c} /\ stage' = [stage EXCEPT ![c] = "waiting"]
    BY <1>4 DEF Send
  <2>2. /\ stage' \in [Calls -> Stages] /\ stage'[c] = "waiting"
        /\ \A d \in Calls : d # c => stage'[d] = stage[d]
    BY <2>1, OneCallMoves DEF Stages
  <2>3. RequestsTypeOK' /\ SentBefore'
    BY <1>1, <1>2, <2>1, <2>2 DEF RequestInv, RequestsTypeOK, SentBefore, Raises
  <2>4. RequestsAreConsistent'
    BY <1>1, <1>2, <2>1, <2>2
    DEF RequestInv, RequestsTypeOK, RequestsAreConsistent, Abandoned, IsPosting
  <2> QED BY <2>3, <2>4 DEF RequestInv
<1> QED BY <1>3, <1>4

\* The broker: a message has gone out, or an answer comes back.
LEMMA BrokerInv ==
  ASSUME RequestInv, NEW c \in Calls, SendSucceeds(c) \/ Answer(c)
  PROVE  RequestInv'
<1>1. /\ UNCHANGED <<asks, stage, pendingCalls, armedTimers>> /\ sending' \subseteq sending
      /\ answers \subseteq answers' /\ answers' \subseteq answers \cup {c}
      /\ c \in answers' \ answers => stage[c] \in {"waiting", "rejected"} /\ ~Raises(c)
  BY DEF SendSucceeds, Answer
<1>2. RequestsTypeOK' /\ SentBefore'
  BY <1>1 DEF RequestInv, RequestsTypeOK, SentBefore, Raises
<1>3. RequestsAreConsistent'
  BY <1>1 DEF RequestInv, RequestsAreConsistent, Abandoned, IsPosting
<1> QED BY <1>2, <1>3 DEF RequestInv

\* A failed send, the timer and an answer drop the entry and settle the caller,
\* except that the answer to a posting leaves it waiting.
LEMMA SettleInv ==
  ASSUME RequestInv, NEW c \in Calls,
         SendFails(c) \/ Timeout(c) \/ HandleResponse(c)
  PROVE  RequestInv'
<1>1. /\ UNCHANGED <<asks, answers>> /\ sending' \subseteq sending
      /\ pendingCalls' = pendingCalls \ {c} /\ armedTimers' = armedTimers \ {c}
  BY DEF SendFails, Timeout, HandleResponse
<1>2. stage[c] \notin {"idle", "checking", "connecting"}
  BY DEF SendFails, Timeout, HandleResponse, RequestInv, RequestsAreConsistent, SentBefore
<1>3. CASE UNCHANGED stage
  <2>1. stage[c] = "waiting" => IsPosting(c) /\ c \in answers
    <3>1. CASE SendFails(c) \/ Timeout(c)
      BY <1>3, <3>1 DEF SendFails, Timeout, SettleCaller, Settled, RequestInv, RequestsTypeOK
    <3>2. CASE HandleResponse(c)
      BY <1>3, <3>2 DEF HandleResponse, SettleCaller, Settled, RequestInv, RequestsTypeOK
    <3> QED BY <3>1, <3>2
  <2>2. RequestsTypeOK' /\ SentBefore'
    BY <1>1, <1>3 DEF RequestInv, RequestsTypeOK, SentBefore, Raises
  <2>3. RequestsAreConsistent'
    BY <1>1, <1>3, <2>1 DEF RequestInv, RequestsAreConsistent, Abandoned, IsPosting
  <2> QED BY <2>2, <2>3 DEF RequestInv
<1>4. CASE stage' # stage
  <2>1. PICK s \in {"resolved", "rejected"} :
          /\ stage' = [stage EXCEPT ![c] = s]
          /\ s = "resolved" => ~IsPosting(c) /\ c \in answers
    BY <1>4 DEF SendFails, Timeout, HandleResponse, SettleCaller
  <2>2. /\ stage' \in [Calls -> Stages] /\ stage'[c] = s
        /\ \A d \in Calls : d # c => stage'[d] = stage[d]
    BY <2>1, OneCallMoves DEF Stages
  <2>3. s = "resolved" => asks[c] = "bullet"
    BY <2>1 DEF RequestInv, RequestsTypeOK, SentBefore, Raises, IsPosting, Asks
  <2>4. RequestsTypeOK' /\ SentBefore'
    BY <1>1, <2>2 DEF RequestInv, RequestsTypeOK, SentBefore, Raises
  <2>5. RequestsAreConsistent'
    BY <1>1, <2>1, <2>2, <2>3
    DEF RequestInv, RequestsTypeOK, RequestsAreConsistent, Abandoned, IsPosting
  <2> QED BY <2>4, <2>5 DEF RequestInv
<1> QED BY <1>3, <1>4

\* The requests of the resume worker stay consistent: an entry has its timer and
\* its waiting caller, a caller is abandoned over the answer to a posting and
\* nothing else, and what resolves is the answer to a bullet.
THEOREM RequestsAreAlwaysConsistent == RequestsSpec => []RequestsAreConsistent
<1>1. RequestInv /\ [RequestsNext]_requestVars => RequestInv'
  <2> SUFFICES ASSUME RequestInv, [RequestsNext]_requestVars PROVE RequestInv'
    OBVIOUS
  <2>1. CASE UNCHANGED requestVars
    BY <2>1 DEF requestVars, RequestInv, RequestsTypeOK, RequestsAreConsistent, Abandoned,
                IsPosting, SentBefore, Raises
  <2>2. ASSUME NEW c \in Calls,
               \/ Call(c) \/ CheckExisting(c) \/ CheckFails(c)
               \/ Send(c) \/ SendSucceeds(c) \/ SendFails(c) \/ Timeout(c)
               \/ Answer(c) \/ HandleResponse(c)
        PROVE  RequestInv'
    BY <2>2, EarlyStepInv, BrokerInv, SettleInv
  <2> QED BY <2>1, <2>2 DEF RequestsNext
<1>2. RequestInv => RequestsAreConsistent
  BY DEF RequestInv
<1> QED BY <1>1, <1>2, RequestsInitInv, PTL DEF RequestsSpec

-----------------------------------------------------------------------------
(***************************************************************************)
(* Proofs about the plan of a manager, for any plans users send, of any    *)
(* length.  A pass is followed visit by visit: InductOn over the states    *)
(* of PassStates.  That no subtask has two completed assignments rests on  *)
(* the order of the list: the first assignments are those of the subtasks, *)
(* and find() takes the first of a subtask, so that no other is ever       *)
(* completed.                                                              *)
(***************************************************************************)
Subtask == [status : SubtaskStatuses, dependencies : SUBSET Nat]
Assignment == [subtask : Nat, status : AssignmentStatuses]

\* The first assignments are those of the subtasks, in order; only they are ever
\* completed, and that of a completed subtask is.
PlanSound(st, as) ==
  /\ st \in Seq(Subtask) /\ as \in Seq(Assignment)
  /\ Len(st) <= Len(as)
  /\ \A i \in 1..Len(st) : as[i].subtask = i
  /\ \A k \in 1..Len(as) : as[k].subtask \in 1..Len(st)
  /\ \A k \in 1..Len(as) : as[k].status = "completed" => k <= Len(st)
  /\ \A i \in 1..Len(st) : st[i].status = "completed" => as[i].status = "completed"

\* The inductive invariant.
ManagerInv ==
  /\ PlanSound(subtasks, assignments)
  /\ metrics = MetricsOf(subtasks, assignments)
  /\ \A w \in waitingDependencies : ~IsComplete(subtasks, w[2])
  /\ aggregated \in {"none", "success", "partial", "failed"}
  /\ paused \in BOOLEAN
  /\ completedOnce \subseteq DOMAIN subtasks
  /\ \A k \in DOMAIN assignments : assignments[k].status = "completed" => k \in completedOnce

\* A state of a pass over st and as: the plan is sound and as long as before, and
\* what has been completed since belongs to completed subtasks.
PassSound(q, st, as) ==
  /\ PlanSound(q.subtasks, q.assignments)
  /\ Len(q.subtasks) = Len(st) /\ Len(q.assignments) = Len(as)
  /\ \A k \in 1..Len(as) : q.assignments[k].status = "completed" =>
       as[k].status = "completed" \/ q.subtasks[k].status = "completed"

PassStates(st, as) ==
  {q \in [subtasks : Seq(Subtask), assignments : Seq(Assignment), started : SUBSET Nat] :
     PassSound(q, st, as)}

\* Types of a sound plan.
LEMMA PlanShape ==
  ASSUME NEW st, NEW as, PlanSound(st, as)
  PROVE  /\ Len(st) \in Nat /\ Len(as) \in Nat /\ Len(st) <= Len(as)
         /\ DOMAIN st = 1..Len(st) /\ DOMAIN as = 1..Len(as)
         /\ \A i \in 1..Len(st) : st[i] \in Subtask /\ i \in 1..Len(as)
         /\ \A k \in 1..Len(as) : as[k] \in Assignment
<1>1. st \in Seq(Subtask) /\ as \in Seq(Assignment) /\ Len(st) <= Len(as)
  BY DEF PlanSound
<1>2. Len(st) \in Nat /\ Len(as) \in Nat /\ DOMAIN st = 1..Len(st) /\ DOMAIN as = 1..Len(as)
  BY <1>1, LenProperties
<1>3. /\ \A i \in 1..Len(st) : st[i] \in Subtask
      /\ \A k \in 1..Len(as) : as[k] \in Assignment
  BY <1>1, ElementOfSeq
<1>4. ASSUME NEW m \in Nat, NEW n \in Nat, m <= n, NEW i \in 1..m PROVE i \in 1..n
  BY ONLY <1>4
<1>5. \A i \in 1..Len(st) : i \in 1..Len(as)
  BY <1>1, <1>2, <1>4
<1> QED BY <1>1, <1>2, <1>3, <1>5

\* find() gives a subtask of a sound plan the assignment at its own place.
LEMMA FirstIsOwn ==
  ASSUME NEW st, NEW as, PlanSound(st, as), NEW i \in 1..Len(st)
  PROVE  FirstOf(as, i) = i
<1>0. i \in 1..Len(as) /\ DOMAIN as = 1..Len(as) /\ Len(as) \in Nat /\ Len(st) \in Nat
  BY PlanShape
<1>1. \A j \in 1..Len(st) : as[j].subtask = j
  BY DEF PlanSound
<1>2. \A j \in 1..(i - 1) : as[j].subtask # i
  <2>1. \A j \in 1..(i - 1) : j \in 1..Len(st) /\ j # i
    BY <1>0
  <2> QED BY <1>1, <2>1
<1>3. ASSUME NEW k \in DOMAIN as, as[k].subtask = i, \A j \in 1..(k - 1) : as[j].subtask # i
      PROVE  k = i
  <2>1. ~(k < i)
    <3>1. k < i => k \in 1..(i - 1)
      BY <1>0
    <3> QED BY <1>2, <1>3, <3>1
  <2>2. ~(i < k)
    <3>1. i < k => i \in 1..(k - 1)
      BY <1>0
    <3> QED BY <1>1, <1>3, <3>1
  <2> QED BY <1>0, <2>1, <2>2
<1> QED BY <1>0, <1>1, <1>2, <1>3 DEF FirstOf

\* One visit of a sound plan.
LEMMA VisitIsSound ==
  ASSUME NEW st, NEW as, NEW q \in PassStates(st, as), NEW i \in 1..Len(st)
  PROVE  Visited(q, i) \in PassStates(st, as)
<1> DEFINE s == q.subtasks
           a == q.assignments
           stat == IF s[i].status # "pending" THEN s[i].status
                   ELSE IF Ready(s, i) THEN "in_progress" ELSE "blocked"
           completes == stat = "in_progress" /\ i % 2 = 1
           new == IF completes THEN "completed" ELSE stat
           s2 == [s EXCEPT ![i].status = new]
           a2 == IF completes THEN [a EXCEPT ![i].status = "completed"] ELSE a
           started2 == IF s[i].status = "pending" /\ stat = "in_progress"
                       THEN q.started \cup {i} ELSE q.started
<1>1. /\ PlanSound(s, a) /\ Len(s) = Len(st) /\ Len(a) = Len(as)
      /\ \A k \in 1..Len(as) : a[k].status = "completed" =>
           as[k].status = "completed" \/ s[k].status = "completed"
      /\ q.started \in SUBSET Nat
  BY DEF PassStates, PassSound
<1>2. /\ s \in Seq(Subtask) /\ a \in Seq(Assignment)
      /\ Len(s) \in Nat /\ Len(a) \in Nat /\ Len(s) <= Len(a)
      /\ i \in 1..Len(s) /\ i \in 1..Len(a)
      /\ \A k \in 1..Len(s) : k \in 1..Len(a)
  BY <1>1, PlanShape DEF PlanSound
<1>2a. /\ \A k \in 1..Len(s) : a[k].subtask = k
       /\ \A k \in 1..Len(a) : a[k].subtask \in 1..Len(s)
       /\ \A k \in 1..Len(a) : a[k].status = "completed" => k <= Len(s)
       /\ \A k \in 1..Len(s) : s[k].status = "completed" => a[k].status = "completed"
  BY <1>1 DEF PlanSound
<1>3. Visited(q, i) = [subtasks |-> s2, assignments |-> a2, started |-> started2]
  <2>1. FirstOf(a, i) = i
    BY <1>1, <1>2, FirstIsOwn
  <2> QED BY <2>1 DEF Visited
<1>4. s[i] \in Subtask /\ stat \in SubtaskStatuses /\ new \in SubtaskStatuses
  <2>1. s[i] \in Subtask
    BY <1>2, ElementOfSeq
  <2> QED BY <2>1 DEF Subtask, SubtaskStatuses
<1>5. a[i] \in Assignment /\ a[i].subtask = i
  <2>1. a[i] \in Assignment
    BY <1>2, ElementOfSeq
  <2> QED BY <2>1, <1>1, <1>2 DEF PlanSound
<1>6. started2 \in SUBSET Nat
  BY <1>1, <1>2
<1>7. s[i].status = "completed" => ~completes /\ new = "completed"
  OBVIOUS
<1>8. new = "completed" => completes \/ s[i].status = "completed"
  OBVIOUS
<1>9. completes => new = "completed"
  OBVIOUS
<1> HIDE DEF stat, completes, new, started2
<1>10. /\ s2 \in Seq(Subtask) /\ Len(s2) = Len(s)
       /\ s2[i].status = new
       /\ \A k \in 1..Len(s) : k # i => s2[k] = s[k]
  <2>1. [s[i] EXCEPT !.status = new] \in Subtask /\ [s[i] EXCEPT !.status = new].status = new
    BY <1>4 DEF Subtask
  <2>2. s2 = [s EXCEPT ![i] = [s[i] EXCEPT !.status = new]]
    OBVIOUS
  <2> HIDE DEF s2
  <2> QED BY <1>2, <2>1, <2>2, ExceptSeq
<1>11. /\ a2 \in Seq(Assignment) /\ Len(a2) = Len(a)
       /\ \A k \in 1..Len(a) : k # i => a2[k] = a[k]
       /\ a2[i].subtask = i
       /\ completes => a2[i].status = "completed"
       /\ ~completes => a2[i] = a[i]
  <2>1. CASE completes
    <3>1. /\ [a[i] EXCEPT !.status = "completed"] \in Assignment
          /\ [a[i] EXCEPT !.status = "completed"].status = "completed"
          /\ [a[i] EXCEPT !.status = "completed"].subtask = i
      BY <1>5 DEF Assignment, AssignmentStatuses
    <3>2. a2 = [a EXCEPT ![i] = [a[i] EXCEPT !.status = "completed"]]
      BY <2>1
    <3> DEFINE c == [a[i] EXCEPT !.status = "completed"]
    <3> HIDE DEF a2, c
    <3>3. /\ a2 \in Seq(Assignment) /\ Len(a2) = Len(a)
          /\ \A k \in 1..Len(a) : a2[k] = IF k = i THEN c ELSE a[k]
      BY <1>2, <3>1, <3>2, ExceptSeq DEF c
    <3> QED BY <1>2, <2>1, <3>1, <3>3 DEF c
  <2>2. CASE ~completes
    BY <2>2, <1>2, <1>5
  <2> QED BY <2>1, <2>2
<1> HIDE DEF s2, a2
<1>12. PlanSound(s2, a2)
  <2>1. \A k \in 1..Len(s) : a2[k].subtask = k
    BY <1>2, <1>2a, <1>11
  <2>2. \A k \in 1..Len(a) : a2[k].subtask \in 1..Len(s)
    BY <1>2, <1>2a, <1>11
  <2>3. \A k \in 1..Len(a) : a2[k].status = "completed" => k <= Len(s)
    <3>1. i <= Len(s)
      BY <1>2
    <3> QED BY <1>2, <1>2a, <1>11, <3>1
  <2>4. \A k \in 1..Len(s) : s2[k].status = "completed" => a2[k].status = "completed"
    BY <1>2, <1>2a, <1>8, <1>10, <1>11
  <2> QED BY <1>2, <1>10, <1>11, <2>1, <2>2, <2>3, <2>4 DEF PlanSound
<1>13. \A k \in 1..Len(as) : a2[k].status = "completed" =>
         as[k].status = "completed" \/ s2[k].status = "completed"
  <2> SUFFICES ASSUME NEW k \in 1..Len(as), a2[k].status = "completed",
                      as[k].status # "completed"
               PROVE  s2[k].status = "completed"
    OBVIOUS
  <2>1. CASE k = i
    BY <2>1, <1>1, <1>2, <1>2a, <1>7, <1>8, <1>9, <1>10, <1>11
  <2>2. CASE k # i
    <3>1. a2[k] = a[k] /\ s[k].status = "completed"
      BY <2>2, <1>1, <1>11
    <3>2. k <= Len(s)
      BY <3>1, <1>1 DEF PlanSound
    <3> QED BY <2>2, <3>1, <3>2, <1>10
  <2> QED BY <2>1, <2>2
<1> DEFINE r == [subtasks |-> s2, assignments |-> a2, started |-> started2]
<1>14. r \in [subtasks : Seq(Subtask), assignments : Seq(Assignment), started : SUBSET Nat]
  BY <1>6, <1>10, <1>11
<1>15. PassSound(r, st, as)
  BY <1>1, <1>10, <1>11, <1>12, <1>13 DEF PassSound
<1> QED BY <1>3, <1>14, <1>15 DEF PassStates

\* A pass goes from one sound state of it to the next.
LEMMA VisitsAreSound ==
  ASSUME NEW st, NEW as, PlanSound(st, as)
  PROVE  Visits(st, as)[Len(st)] \in PassStates(st, as)
<1> DEFINE S == PassStates(st, as)
           n == Len(st)
           base == [subtasks |-> st, assignments |-> as, started |-> {}]
           step == [p \in S \X (1..n) |-> Visited(p[1], p[2])]
           Pass(v) == [i \in 0..n |-> IF i = 0 THEN base ELSE Visited(v[i - 1], i)]
           v == Visits(st, as)
<1>1. n \in Nat /\ base \in S
  <2>1. PassSound(base, st, as)
    BY DEF PassSound
  <2>2. base \in [subtasks : Seq(Subtask), assignments : Seq(Assignment), started : SUBSET Nat]
    BY DEF PlanSound
  <2> QED BY <2>1, <2>2, PlanShape DEF PassStates
<1>2. \A q \in S, i \in 1..n : Visited(q, i) \in S
  BY VisitIsSound
<1>3. v = CHOOSE w : w = Pass(w)
  BY DEF Visits
<1> HIDE DEF S, n, base, v
<1>4. PICK g \in [0..n -> S] : g[0] = base /\ \A i \in 1..n : g[i] = step[<<g[i - 1], i>>]
  <2>1. step \in [S \X (1..n) -> S]
    BY <1>2
  <2> HIDE DEF step
  <2> QED BY <1>1, <2>1, IterationExists
<1>5. g = Pass(g)
  <2>1. ASSUME NEW i \in 0..n PROVE g[i] = IF i = 0 THEN base ELSE Visited(g[i - 1], i)
    <3>1. CASE i = 0
      BY <3>1, <1>4
    <3>2. CASE i # 0
      <4>1. i \in 1..n /\ i - 1 \in 0..n
        BY <3>2, <1>1
      <4>2. g[i - 1] \in S /\ g[i] = step[<<g[i - 1], i>>]
        BY <4>1, <1>4
      <4> QED BY <3>2, <4>1, <4>2
    <3> QED BY <3>1, <3>2
  <2> QED BY <1>4, <2>1
<1>6. v = Pass(v)
  BY <1>3, <1>5
<1> DEFINE T == {k \in Nat : k <= n => v[k] \in S}
<1>7. 0 \in T
  BY <1>1, <1>6
<1>8. ASSUME NEW k \in T PROVE k + 1 \in T
  <2> SUFFICES ASSUME k + 1 <= n PROVE v[k + 1] \in S
    OBVIOUS
  <2>1. k \in Nat /\ k + 1 \in 0..n /\ k + 1 \in 1..n /\ k + 1 # 0 /\ (k + 1) - 1 = k /\ k <= n
    BY <1>1
  <2>2. v[k] \in S
    BY <2>1
  <2>3. v[k + 1] = Visited(v[k], k + 1)
    BY <1>6, <2>1
  <2> QED BY <1>2, <2>1, <2>2, <2>3
<1> HIDE DEF T
<1>9. T = Nat
  <2>1. T \in SUBSET Nat
    BY DEF T
  <2> QED BY <1>7, <1>8, <2>1, InductOn
<1>10. v[n] \in S
  BY <1>1, <1>9 DEF T
<1> QED BY <1>10 DEF v, n, S

\* A pass keeps a plan sound, and what it completes belongs to completed subtasks.
LEMMA CoordinationIsSound ==
  ASSUME NEW st, NEW as, PlanSound(st, as)
  PROVE  LET plan == Coordinated(st, as)
         IN  /\ PlanSound(plan.subtasks, plan.assignments)
             /\ Len(plan.subtasks) = Len(st) /\ Len(plan.assignments) = Len(as)
             /\ \A k \in 1..Len(as) : plan.assignments[k].status = "completed" =>
                  as[k].status = "completed" \/ plan.subtasks[k].status = "completed"
<1> DEFINE q == Visits(st, as)[Len(st)]
           Marked(a) == IF a.subtask \in q.started /\ a.status = "pending"
                        THEN [a EXCEPT !.status = "started"] ELSE a
           as2 == [k \in DOMAIN as |-> Marked(q.assignments[k])]
<1>1. q \in PassStates(st, as)
  BY VisitsAreSound
<1> HIDE DEF q
<1>2. Coordinated(st, as) = [q EXCEPT !.assignments = as2]
  BY DEF Coordinated, q
<1>3. /\ PlanSound(q.subtasks, q.assignments)
      /\ Len(q.subtasks) = Len(st) /\ Len(q.assignments) = Len(as)
      /\ \A k \in 1..Len(as) : q.assignments[k].status = "completed" =>
           as[k].status = "completed" \/ q.subtasks[k].status = "completed"
  BY <1>1 DEF PassStates, PassSound
<1>4. /\ DOMAIN as = 1..Len(as) /\ Len(as) \in Nat
      /\ \A k \in 1..Len(as) : q.assignments[k] \in Assignment
  <2>1. \A k \in 1..Len(q.assignments) : q.assignments[k] \in Assignment
    BY <1>3, PlanShape
  <2> QED BY <1>3, <2>1, PlanShape
<1>5. ASSUME NEW k \in 1..Len(as)
      PROVE  /\ as2[k] \in Assignment
             /\ as2[k].subtask = q.assignments[k].subtask
             /\ as2[k].status = "completed" <=> q.assignments[k].status = "completed"
  <2>1. as2[k] = Marked(q.assignments[k]) /\ q.assignments[k] \in Assignment
    BY <1>4
  <2>2. ASSUME NEW a \in Assignment
        PROVE  /\ Marked(a) \in Assignment /\ Marked(a).subtask = a.subtask
               /\ Marked(a).status = "completed" <=> a.status = "completed"
    BY DEF Assignment, AssignmentStatuses
  <2> HIDE DEF as2
  <2> QED BY <2>1, <2>2
<1> HIDE DEF as2
<1>6. as2 \in Seq(Assignment) /\ Len(as2) = Len(as)
  <2>1. as2 \in [1..Len(as) -> Assignment]
    BY <1>4, <1>5 DEF as2
  <2> QED BY <2>1, <1>4, FunctionIsList
<1>7. PlanSound(q.subtasks, as2)
  <2>1. /\ q.subtasks \in Seq(Subtask) /\ Len(q.subtasks) <= Len(as)
        /\ \A k \in 1..Len(q.subtasks) : q.assignments[k].subtask = k
        /\ \A k \in 1..Len(as) : q.assignments[k].subtask \in 1..Len(q.subtasks)
        /\ \A k \in 1..Len(as) : q.assignments[k].status = "completed" => k <= Len(q.subtasks)
        /\ \A k \in 1..Len(q.subtasks) :
             q.subtasks[k].status = "completed" => q.assignments[k].status = "completed"
    BY <1>3 DEF PlanSound
  <2>2. \A k \in 1..Len(q.subtasks) : k \in 1..Len(as)
    BY <1>3, PlanShape
  <2> QED BY <1>5, <1>6, <2>1, <2>2 DEF PlanSound
<1>8. /\ [q EXCEPT !.assignments = as2].subtasks = q.subtasks
      /\ [q EXCEPT !.assignments = as2].assignments = as2
  BY <1>1 DEF PassStates
<1> QED BY <1>2, <1>3, <1>5, <1>6, <1>7, <1>8

\* The plan of a decomposition is sound.
LEMMA FreshIsSound ==
  ASSUME NEW plan \in Seq(SUBSET Nat)
  PROVE  /\ PlanSound(SubtasksOf(plan), AssignmentsOf(plan))
         /\ Len(SubtasksOf(plan)) = Len(plan) /\ Len(AssignmentsOf(plan)) = Len(plan)
         /\ \A k \in 1..Len(plan) : AssignmentsOf(plan)[k].status = "pending"
<1> DEFINE st == SubtasksOf(plan)
           as == AssignmentsOf(plan)
<1>1. DOMAIN plan = 1..Len(plan) /\ Len(plan) \in Nat /\ \A i \in 1..Len(plan) : plan[i] \in SUBSET Nat
  BY LenProperties, ElementOfSeq
<1>2. st \in [1..Len(plan) -> Subtask] /\ \A i \in 1..Len(plan) : st[i].status = "pending"
  BY <1>1 DEF SubtasksOf, Subtask, SubtaskStatuses
<1>3. /\ as \in [1..Len(plan) -> Assignment]
      /\ \A i \in 1..Len(plan) : as[i].status = "pending" /\ as[i].subtask = i
  BY <1>1 DEF AssignmentsOf, Assignment, AssignmentStatuses
<1> HIDE DEF st, as
<1>4. /\ st \in Seq(Subtask) /\ Len(st) = Len(plan)
      /\ as \in Seq(Assignment) /\ Len(as) = Len(plan)
  BY <1>1, <1>2, <1>3, FunctionIsList
<1>5. PlanSound(st, as)
  <2>1. /\ \A k \in 1..Len(as) : as[k].subtask = k /\ as[k].status # "completed"
        /\ \A k \in 1..Len(st) : st[k].status # "completed"
    BY <1>2, <1>3, <1>4
  <2>2. Len(as) = Len(st) /\ Len(st) <= Len(as)
    BY <1>1, <1>4
  <2> QED BY <1>4, <2>1, <2>2 DEF PlanSound
<1> QED BY <1>3, <1>4, <1>5 DEF st, as

LEMMA ChainIsAPlan ==
  ASSUME ManagerAssumption, NEW n \in ChainLengths
  PROVE  Chain(n) \in Seq(SUBSET Nat) /\ Chain(n) # <<>>
<1>1. n \in Nat \ {0}
  BY DEF ManagerAssumption
<1>2. Chain(n) \in [1..n -> SUBSET Nat]
  BY <1>1 DEF Chain
<1>3. Chain(n) \in Seq(SUBSET Nat)
  BY <1>1, <1>2, FunctionIsList
<1>4. DOMAIN Chain(n) # {}
  <2>1. 1 \in 1..n
    BY <1>1
  <2>2. DOMAIN Chain(n) = 1..n
    BY <1>2
  <2> QED BY ONLY <2>1, <2>2
<1>5. Chain(n) # <<>>
  BY <1>4
<1> QED BY <1>3, <1>5

LEMMA ManagerInitInv == ManagerInit => ManagerInv
<1> SUFFICES ASSUME ManagerInit PROVE ManagerInv
  OBVIOUS
<1>1. /\ subtasks = <<>> /\ assignments = <<>> /\ waitingDependencies = {}
      /\ metrics = MetricsOf(subtasks, assignments)
      /\ aggregated = "none" /\ paused = FALSE /\ completedOnce = {}
  BY DEF ManagerInit
<1>2. PlanSound(<<>>, <<>>)
  BY DEF PlanSound
<1>3. PlanSound(subtasks, assignments) /\ DOMAIN assignments = {} /\ DOMAIN subtasks = {}
  BY <1>1, <1>2
<1>4. completedOnce \subseteq DOMAIN subtasks /\ paused \in BOOLEAN
  BY <1>1
<1> QED BY <1>1, <1>3, <1>4 DEF ManagerInv

LEMMA WaitingAreIncomplete ==
  ASSUME NEW st, NEW w \in WaitingOf(st)
  PROVE  ~IsComplete(st, w[2])
BY DEF WaitingOf

LEMMA DecomposeInv ==
  ASSUME NEW plan \in Seq(SUBSET Nat), DecomposeTask(plan)
  PROVE  ManagerInv'
<1>1. /\ subtasks' = SubtasksOf(plan) /\ assignments' = AssignmentsOf(plan)
      /\ waitingDependencies' = WaitingOf(subtasks')
      /\ metrics' = MetricsOf(subtasks', assignments')
      /\ aggregated' = "none" /\ paused' = FALSE /\ completedOnce' = {}
  BY DEF DecomposeTask
<1>2. /\ PlanSound(subtasks', assignments')
      /\ \A k \in 1..Len(assignments') : assignments'[k].status = "pending"
  BY <1>1, FreshIsSound
<1>3. DOMAIN assignments' = 1..Len(assignments')
  BY <1>2, PlanShape
<1>4. \A w \in waitingDependencies' : ~IsComplete(subtasks', w[2])
  BY <1>1, WaitingAreIncomplete
<1>5. \A k \in DOMAIN assignments' : assignments'[k].status = "completed" => k \in completedOnce'
  BY <1>2, <1>3
<1> QED BY <1>1, <1>2, <1>4, <1>5 DEF ManagerInv

LEMMA CoordinateInv ==
  ASSUME ManagerAssumption, ManagerInv, CoordinateExecution
  PROVE  ManagerInv'
<1> DEFINE fresh == subtasks = <<>>
<1>1. PICK n \in ChainLengths :
        LET st == IF fresh THEN SubtasksOf(Chain(n)) ELSE subtasks
            as == IF fresh THEN AssignmentsOf(Chain(n)) ELSE assignments
            plan == IF paused /\ ~fresh THEN [subtasks |-> st, assignments |-> as]
                    ELSE Coordinated(st, as)
        IN  /\ subtasks' = plan.subtasks
            /\ assignments' = plan.assignments
            /\ waitingDependencies' = WaitingOf(subtasks')
            /\ metrics' = MetricsOf(subtasks', assignments')
            /\ paused' = (paused /\ ~fresh)
            /\ completedOnce' = completedOnce \cup {i \in DOMAIN subtasks' : IsComplete(subtasks', i)}
            /\ UNCHANGED aggregated
  BY DEF CoordinateExecution
<1> DEFINE st == IF fresh THEN SubtasksOf(Chain(n)) ELSE subtasks
           as == IF fresh THEN AssignmentsOf(Chain(n)) ELSE assignments
<1>2. /\ subtasks' = (IF paused /\ ~fresh THEN [subtasks |-> st, assignments |-> as]
                      ELSE Coordinated(st, as)).subtasks
      /\ assignments' = (IF paused /\ ~fresh THEN [subtasks |-> st, assignments |-> as]
                         ELSE Coordinated(st, as)).assignments
      /\ waitingDependencies' = WaitingOf(subtasks')
      /\ metrics' = MetricsOf(subtasks', assignments')
      /\ paused' = (paused /\ ~fresh) /\ aggregated' = aggregated
      /\ completedOnce' = completedOnce \cup {i \in DOMAIN subtasks' : IsComplete(subtasks', i)}
  BY <1>1
<1>3. /\ PlanSound(st, as)
      /\ completedOnce \subseteq DOMAIN st
      /\ \A k \in 1..Len(as) : as[k].status = "completed" => k \in completedOnce
  <2>1. CASE fresh
    <3>1. PlanSound(st, as) /\ \A k \in 1..Len(as) : as[k].status = "pending"
      BY <2>1, ChainIsAPlan, FreshIsSound
    <3>2. completedOnce = {}
      BY <2>1 DEF ManagerInv
    <3> QED BY <3>1, <3>2
  <2>2. CASE ~fresh
    <3>1. st = subtasks /\ as = assignments /\ PlanSound(subtasks, assignments)
      BY <2>2 DEF ManagerInv
    <3>2. DOMAIN as = 1..Len(as)
      BY <3>1, PlanShape
    <3> QED BY <3>1, <3>2 DEF ManagerInv
  <2> QED BY <2>1, <2>2
<1> HIDE DEF st, as
<1>4. /\ PlanSound(subtasks', assignments')
      /\ Len(subtasks') = Len(st) /\ Len(assignments') = Len(as)
      /\ \A k \in 1..Len(as) : assignments'[k].status = "completed" =>
           as[k].status = "completed" \/ subtasks'[k].status = "completed"
  <2>1. CASE paused /\ ~fresh
    <3>1. subtasks' = st /\ assignments' = as
      BY <1>2, <2>1
    <3> QED BY <3>1, <1>3
  <2>2. CASE ~(paused /\ ~fresh)
    <3>1. subtasks' = Coordinated(st, as).subtasks /\ assignments' = Coordinated(st, as).assignments
      BY <1>2, <2>2
    <3> QED BY <3>1, <1>3, CoordinationIsSound
  <2> QED BY <2>1, <2>2
<1>5. /\ DOMAIN subtasks' = 1..Len(st) /\ DOMAIN st = 1..Len(st)
      /\ DOMAIN assignments' = 1..Len(as)
  BY <1>3, <1>4, PlanShape
<1>6. \A w \in waitingDependencies' : ~IsComplete(subtasks', w[2])
  BY <1>2, WaitingAreIncomplete
<1>7. completedOnce' \subseteq DOMAIN subtasks'
  BY <1>2, <1>3, <1>5
<1>8. ASSUME NEW k \in DOMAIN assignments', assignments'[k].status = "completed"
      PROVE  k \in completedOnce'
  <2>1. k \in 1..Len(st)
    <3>1. k \in 1..Len(as) /\ Len(as) \in Nat /\ Len(st) \in Nat
      BY <1>3, <1>5, <1>8, PlanShape
    <3>2. k <= Len(st)
      BY <1>4, <1>8, <3>1 DEF PlanSound
    <3> QED BY <3>1, <3>2
  <2>2. CASE as[k].status = "completed"
    BY <2>2, <1>2, <1>3, <1>5
  <2>3. CASE subtasks'[k].status = "completed"
    BY <2>1, <2>3, <1>2, <1>5 DEF IsComplete
  <2> QED BY <2>2, <2>3, <1>4, <1>5, <1>8
<1>9. paused' \in BOOLEAN /\ aggregated' \in {"none", "success", "partial", "failed"}
  BY <1>2 DEF ManagerInv
<1> QED BY <1>2, <1>4, <1>6, <1>7, <1>8, <1>9 DEF ManagerInv

LEMMA AggregateInv ==
  ASSUME ManagerInv, AggregateResults
  PROVE  ManagerInv'
<1>1. /\ UNCHANGED <<subtasks, assignments, waitingDependencies, paused, completedOnce>>
      /\ metrics' = MetricsOf(subtasks, assignments)
      /\ aggregated' \in {"none", "success", "partial", "failed"}
  BY DEF AggregateResults
<1> QED BY <1>1 DEF ManagerInv, MetricsOf, IsComplete, PlanSound

\* A step that gives one subtask another status than completed keeps the rest of the
\* books; reassignment and retry share it.
LEMMA ReopenInv ==
  ASSUME ManagerInv, NEW i \in 1..Len(subtasks), NEW s \in SubtaskStatuses \ {"completed"},
         subtasks' = [subtasks EXCEPT ![i].status = s],
         assignments' \in Seq(Assignment), Len(assignments) <= Len(assignments'),
         \A k \in 1..Len(assignments') : assignments'[k].subtask \in 1..Len(subtasks),
         \A k \in 1..Len(assignments) : assignments'[k].subtask = assignments[k].subtask,
         \A k \in 1..Len(assignments') : assignments'[k].status = "completed" =>
           k \in 1..Len(assignments) /\ assignments[k].status = "completed",
         \A k \in 1..Len(subtasks) : k # i /\ assignments[k].status = "completed" =>
           assignments'[k].status = "completed",
         metrics' = MetricsOf(subtasks', assignments'),
         UNCHANGED <<waitingDependencies, aggregated, paused, completedOnce>>
  PROVE  ManagerInv'
<1>1. /\ PlanSound(subtasks, assignments)
      /\ subtasks \in Seq(Subtask)
      /\ DOMAIN subtasks = 1..Len(subtasks) /\ DOMAIN assignments = 1..Len(assignments)
      /\ Len(subtasks) \in Nat /\ Len(assignments) \in Nat
      /\ Len(subtasks) <= Len(assignments)
      /\ subtasks[i] \in Subtask
      /\ \A k \in 1..Len(subtasks) : k \in 1..Len(assignments)
  BY PlanShape DEF ManagerInv, PlanSound
<1>2. /\ subtasks' \in Seq(Subtask) /\ Len(subtasks') = Len(subtasks)
      /\ subtasks'[i].status # "completed"
      /\ \A k \in 1..Len(subtasks) : k # i => subtasks'[k] = subtasks[k]
  <2> DEFINE c == [subtasks[i] EXCEPT !.status = s]
  <2>1. c \in Subtask /\ c.status = s
    BY <1>1 DEF Subtask
  <2>2. subtasks' = [subtasks EXCEPT ![i] = c]
    OBVIOUS
  <2> HIDE DEF c
  <2>3. /\ subtasks' \in Seq(Subtask) /\ Len(subtasks') = Len(subtasks)
        /\ \A k \in 1..Len(subtasks) : subtasks'[k] = IF k = i THEN c ELSE subtasks[k]
    <3>1. subtasks \in Seq(Subtask) /\ i \in 1..Len(subtasks) /\ c \in Subtask
      BY <1>1, <2>1
    <3> QED BY ONLY <3>1, <2>2, ExceptSeq
  <2> QED BY <2>1, <2>3
<1>3. DOMAIN subtasks' = 1..Len(subtasks) /\ DOMAIN assignments' = 1..Len(assignments')
  BY <1>2, LenProperties
<1>4. Len(subtasks) <= Len(assignments')
  <2>1. Len(assignments') \in Nat
    BY LenProperties
  <2> QED BY <1>1, <2>1
<1>5. PlanSound(subtasks', assignments')
  <2>1. \A k \in 1..Len(subtasks) : assignments'[k].subtask = k
    BY <1>1 DEF PlanSound
  <2>2. \A k \in 1..Len(assignments') : assignments'[k].status = "completed" => k <= Len(subtasks)
    BY <1>1 DEF PlanSound
  <2>3. \A k \in 1..Len(subtasks) :
          subtasks'[k].status = "completed" => assignments'[k].status = "completed"
    BY <1>1, <1>2 DEF PlanSound
  <2> QED BY <1>2, <1>4, <2>1, <2>2, <2>3 DEF PlanSound
<1>6. \A w \in waitingDependencies' : ~IsComplete(subtasks', w[2])
  BY <1>1, <1>2, <1>3 DEF ManagerInv, IsComplete
<1>7. /\ completedOnce' \subseteq DOMAIN subtasks'
      /\ \A k \in DOMAIN assignments' : assignments'[k].status = "completed" => k \in completedOnce'
      /\ aggregated' \in {"none", "success", "partial", "failed"} /\ paused' \in BOOLEAN
  BY <1>1, <1>3 DEF ManagerInv
<1> QED BY <1>5, <1>6, <1>7 DEF ManagerInv

LEMMA ReassignInv ==
  ASSUME ManagerInv, NEW k, ReassignAssignment(k)
  PROVE  ManagerInv'
<1>1. /\ k \in 1..Len(assignments) /\ assignments \in Seq(Assignment)
      /\ assignments[k] \in Assignment /\ assignments[k].subtask \in 1..Len(subtasks)
      /\ Len(assignments) \in Nat
      /\ PlanSound(subtasks, assignments)
      /\ \A j \in 1..Len(subtasks) : assignments[j].subtask = j /\ j \in 1..Len(assignments)
      /\ \A j \in 1..Len(assignments) : assignments[j].subtask \in 1..Len(subtasks)
      /\ \A j \in 1..Len(assignments) : assignments[j].status = "completed" => j <= Len(subtasks)
  BY PlanShape DEF ManagerInv, PlanSound, ReassignAssignment
<1> DEFINE c == [assignments[k] EXCEPT !.status = "assigned"]
           i == assignments[k].subtask
<1>2. c \in Assignment /\ c.status = "assigned" /\ c.subtask = i
  BY <1>1 DEF Assignment, AssignmentStatuses
<1>3. assignments' = [assignments EXCEPT ![k] = c]
  BY DEF ReassignAssignment
<1>4. /\ subtasks' = [subtasks EXCEPT ![i].status = "pending"]
      /\ metrics' = MetricsOf(subtasks', assignments')
      /\ UNCHANGED <<waitingDependencies, aggregated, paused, completedOnce>>
  BY DEF ReassignAssignment
<1> HIDE DEF c, i
<1>5. /\ assignments' \in Seq(Assignment) /\ Len(assignments') = Len(assignments)
      /\ \A j \in 1..Len(assignments) : assignments'[j] = IF j = k THEN c ELSE assignments[j]
  BY <1>1, <1>2, <1>3, ExceptSeq
<1>6. \A j \in 1..Len(subtasks) : j # i => j # k
  BY <1>1 DEF i
<1>7. i \in 1..Len(subtasks)
  BY <1>1 DEF i
<1>8. \A j \in 1..Len(assignments) : assignments'[j].subtask = assignments[j].subtask
  BY <1>2, <1>5 DEF i
<1>9. \A j \in 1..Len(assignments') : assignments'[j].status = "completed" =>
         j \in 1..Len(assignments) /\ assignments[j].status = "completed"
  BY <1>2, <1>5
<1>10. \A j \in 1..Len(subtasks) : j # i /\ assignments[j].status = "completed" =>
          assignments'[j].status = "completed"
  BY <1>1, <1>5, <1>6
<1>11. "pending" \in SubtaskStatuses \ {"completed"}
  BY DEF SubtaskStatuses
<1>12. Len(assignments) <= Len(assignments')
  BY <1>1, <1>5
<1>13. \A j \in 1..Len(assignments') : assignments'[j].subtask \in 1..Len(subtasks)
  BY <1>1, <1>5, <1>8
<1> QED BY <1>4, <1>5, <1>7, <1>8, <1>9, <1>10, <1>11, <1>12, <1>13, ReopenInv

LEMMA RetryInv ==
  ASSUME ManagerInv, NEW i, RetrySubtask(i)
  PROVE  ManagerInv'
<1> DEFINE c == [subtask |-> i, status |-> "started"]
<1>1. /\ i \in 1..Len(subtasks) /\ assignments \in Seq(Assignment)
      /\ Len(assignments) \in Nat /\ Len(subtasks) \in Nat
      /\ \A j \in 1..Len(subtasks) : j \in 1..Len(assignments)
      /\ \A j \in 1..Len(assignments) : assignments[j].subtask \in 1..Len(subtasks)
  BY PlanShape DEF ManagerInv, PlanSound, RetrySubtask
<1>2. c \in Assignment /\ c.subtask = i /\ c.status = "started"
  BY <1>1 DEF Assignment, AssignmentStatuses
<1>3. /\ assignments' = Append(assignments, c)
      /\ subtasks' = [subtasks EXCEPT ![i].status = "in_progress"]
      /\ metrics' = MetricsOf(subtasks', assignments')
      /\ UNCHANGED <<waitingDependencies, aggregated, paused, completedOnce>>
  BY DEF RetrySubtask
<1> HIDE DEF c
<1>4. /\ assignments' \in Seq(Assignment) /\ Len(assignments') = Len(assignments) + 1
      /\ \A j \in 1..Len(assignments) : assignments'[j] = assignments[j]
      /\ assignments'[Len(assignments) + 1] = c
  <2> DEFINE a == Append(assignments, c)
  <2>1. assignments \in Seq(Assignment) /\ c \in Assignment
    BY <1>1, <1>2
  <2>2. /\ a \in Seq(Assignment) /\ Len(a) = Len(assignments) + 1
        /\ \A j \in 1..Len(assignments) : a[j] = assignments[j]
        /\ a[Len(assignments) + 1] = c
    BY ONLY <2>1, AppendProperties
  <2>3. a = assignments'
    BY <1>3
  <2> HIDE DEF a
  <2> QED BY ONLY <2>2, <2>3
<1>5. \A j \in 1..Len(assignments') : j \in 1..Len(assignments) \/ j = Len(assignments) + 1
  <2> DEFINE long == Len(assignments')
  <2>1. Len(assignments) \in Nat /\ long = Len(assignments) + 1
    BY <1>1, <1>4
  <2> HIDE DEF long
  <2>2. \A j \in 1..long : j \in 1..Len(assignments) \/ j = Len(assignments) + 1
    BY ONLY <2>1
  <2> QED BY ONLY <2>2 DEF long
<1>6. \A j \in 1..Len(assignments') : assignments'[j].subtask \in 1..Len(subtasks)
  BY <1>1, <1>2, <1>4, <1>5
<1>7. \A j \in 1..Len(assignments') : assignments'[j].status = "completed" =>
         j \in 1..Len(assignments) /\ assignments[j].status = "completed"
  BY <1>2, <1>4, <1>5
<1>8. "in_progress" \in SubtaskStatuses \ {"completed"}
  BY DEF SubtaskStatuses
<1>9. Len(assignments) <= Len(assignments')
  BY <1>1, <1>4
<1> QED BY <1>1, <1>3, <1>4, <1>6, <1>7, <1>8, <1>9, ReopenInv

LEMMA ManagerInductive ==
  ASSUME ManagerAssumption
  PROVE  ManagerInv /\ [ManagerNext]_managerVars => ManagerInv'
<1> SUFFICES ASSUME ManagerInv, [ManagerNext]_managerVars PROVE ManagerInv'
  OBVIOUS
<1>1. ASSUME NEW plan \in ManualPlans, DecomposeTask(plan) PROVE ManagerInv'
  BY <1>1, DecomposeInv DEF ManagerAssumption
<1>2. ASSUME NEW n \in ChainLengths, DecomposeTask(Chain(n)) PROVE ManagerInv'
  BY <1>2, DecomposeInv, ChainIsAPlan
<1>3. ASSUME NEW on \in BOOLEAN, SetPaused(on) PROVE ManagerInv'
  BY <1>3 DEF SetPaused, ManagerInv, PlanSound, MetricsOf, IsComplete
<1>4. CASE UNCHANGED managerVars
  BY <1>4 DEF managerVars, ManagerInv, PlanSound, MetricsOf, IsComplete
<1> QED BY <1>1, <1>2, <1>3, <1>4, CoordinateInv, AggregateInv, ReassignInv, RetryInv
        DEF ManagerNext

LEMMA BooksOfPlan == ManagerInv => ManagerBooksAgree
<1> SUFFICES ASSUME ManagerInv PROVE ManagerBooksAgree
  OBVIOUS
<1>1. /\ PlanSound(subtasks, assignments)
      /\ DOMAIN subtasks = 1..Len(subtasks) /\ DOMAIN assignments = 1..Len(assignments)
      /\ \A k \in 1..Len(subtasks) : subtasks[k] \in Subtask /\ k \in 1..Len(assignments)
      /\ \A k \in 1..Len(assignments) : assignments[k] \in Assignment
      /\ Len(subtasks) \in Nat
  BY PlanShape DEF ManagerInv
<1>2. ManagerTypeOK
  BY <1>1 DEF ManagerInv, ManagerTypeOK, PlanSound, Subtask, Assignment
<1>3. ASSUME NEW i \in DOMAIN subtasks
      PROVE  LET own == {k \in DOMAIN assignments : assignments[k].subtask = i}
                 completed == {k \in own : assignments[k].status = "completed"}
             IN  /\ Cardinality(completed) <= 1
                 /\ subtasks[i].status = "completed" => completed # {}
  <2> DEFINE completed == {k \in {j \in DOMAIN assignments : assignments[j].subtask = i} :
                             assignments[k].status = "completed"}
  <2>1. completed \in SUBSET {i}
    <3> SUFFICES ASSUME NEW k \in completed PROVE k = i
      OBVIOUS
    <3>1. k \in 1..Len(assignments) /\ k <= Len(subtasks)
      BY <1>1 DEF PlanSound
    <3>2. k \in 1..Len(subtasks)
      BY <1>1, <3>1
    <3> QED BY <3>2, <1>1 DEF PlanSound
  <2>2. subtasks[i].status = "completed" => i \in completed
    BY <1>1 DEF PlanSound
  <2> HIDE DEF completed
  <2>3. Cardinality(completed) <= 1
    <3>1. IsFiniteSet({i}) /\ Cardinality({i}) = 1
      BY FS_Singleton
    <3>2. Cardinality(completed) <= Cardinality({i})
      BY <2>1, <3>1, FS_Subset
    <3> QED BY <3>1, <3>2
  <2> QED BY <2>2, <2>3 DEF completed
<1> QED BY <1>2, <1>3 DEF ManagerInv, ManagerBooksAgree

\* Whatever requests decompose, coordinate, reassign and retry, the metrics are those of
\* the plan, a completed subtask has exactly one completed assignment, and nobody is
\* reported to wait for a completed subtask (manager-runtime.service.ts).
THEOREM ManagerBooksAlwaysAgree == ManagerSpec => []ManagerBooksAgree
<1>1. ManagerInv /\ [ManagerNext]_managerVars => ManagerInv'
  BY ManagerInductive, ManagerAssumption
<1> QED BY <1>1, ManagerInitInv, BooksOfPlan, PTL DEF ManagerSpec

\* What an aggregation says of a sound plan.
LEMMA AggregationIsFair ==
  ASSUME ManagerInv, AggregateResults
  PROVE  /\ aggregated' = "success" => completedOnce = DOMAIN subtasks
         /\ aggregated' = "failed" => \A i \in DOMAIN subtasks : ~IsComplete(subtasks, i)
         /\ (\A i \in DOMAIN subtasks : IsComplete(subtasks, i)) => aggregated' = "success"
<1> DEFINE done == {k \in DOMAIN assignments : assignments[k].status = "completed"}
<1>1. /\ DOMAIN subtasks = 1..Len(subtasks) /\ DOMAIN assignments = 1..Len(assignments)
      /\ Len(subtasks) \in Nat
      /\ \A k \in 1..Len(subtasks) : k \in 1..Len(assignments)
      /\ \A k \in 1..Len(assignments) : assignments[k].status = "completed" => k <= Len(subtasks)
      /\ \A k \in 1..Len(subtasks) : subtasks[k].status = "completed" => assignments[k].status = "completed"
  BY PlanShape DEF ManagerInv, PlanSound
<1>2. /\ completedOnce \subseteq DOMAIN subtasks
      /\ done \subseteq completedOnce
  BY DEF ManagerInv
<1>3. aggregated' = IF Cardinality(done) = Len(subtasks) THEN "success"
                    ELSE IF done # {} THEN "partial" ELSE "failed"
  BY DEF AggregateResults
<1>4. done \in SUBSET (1..Len(subtasks))
  BY <1>1
<1>5. \A k \in 1..Len(subtasks) : IsComplete(subtasks, k) => k \in done
  BY <1>1 DEF IsComplete
<1> HIDE DEF done
<1>6. Cardinality(done) = Len(subtasks) <=> done = 1..Len(subtasks)
  <2>1. IsFiniteSet(1..Len(subtasks)) /\ Cardinality(1..Len(subtasks)) = Len(subtasks)
    <3>1. ASSUME NEW n \in Nat PROVE IsFiniteSet(1..n) /\ Cardinality(1..n) = n
      BY FS_Interval
    <3> QED BY <1>1, <3>1
  <2>2. Cardinality(1..Len(subtasks)) = Cardinality(done) => 1..Len(subtasks) = done
    BY <1>4, <2>1, FS_Subset
  <2> QED BY <2>1, <2>2
<1> QED BY <1>1, <1>2, <1>3, <1>4, <1>5, <1>6

\* aggregateResults counts assignments, which retries and reassignments move apart from
\* the subtasks: its success still means that every subtask was completed once, its
\* failure that none is, and a plan that is completed is reported so.
THEOREM AggregatesAreAlwaysFair == ManagerSpec => AggregatesAreFair
<1> DEFINE Fair == aggregated' # aggregated =>
             /\ aggregated' = "success" => completedOnce = DOMAIN subtasks
             /\ aggregated' = "failed" => \A i \in DOMAIN subtasks : ~IsComplete(subtasks, i)
             /\ aggregated' # "none" /\ (\A i \in DOMAIN subtasks : IsComplete(subtasks, i))
                  => aggregated' = "success"
<1>1. ManagerInv /\ [ManagerNext]_managerVars => [Fair]_managerVars
  <2> SUFFICES ASSUME ManagerInv, ManagerNext, aggregated' # aggregated PROVE Fair
    OBVIOUS
  <2>1. CASE AggregateResults
    BY <2>1, AggregationIsFair
  <2>2. CASE \E plan : DecomposeTask(plan)
    BY <2>2 DEF DecomposeTask
  <2>3. ASSUME ~AggregateResults, ~\E plan : DecomposeTask(plan) PROVE FALSE
    BY <2>3 DEF ManagerNext, CoordinateExecution, SetPaused, ReassignAssignment, RetrySubtask
  <2> QED BY <2>1, <2>2, <2>3
<1>2. ManagerInv /\ [ManagerNext]_managerVars => ManagerInv'
  BY ManagerInductive, ManagerAssumption
<1> QED BY <1>1, <1>2, ManagerInitInv, PTL DEF ManagerSpec, AggregatesAreFair

-----------------------------------------------------------------------------
(***************************************************************************)
(* Proofs about the expert pool, for any number of experts, ids, limits    *)
(* and changes of the limit.  The counts of AdmissionIsExact are replaced  *)
(* by places: an expert has at most one place in one semaphore, and the    *)
(* phases are what the places say.                                         *)
(***************************************************************************)
Limiter == [limit : Nat \ {0}, queue : Seq(Experts), running : SUBSET Experts]

\* e is at place k of a semaphore: 0 while it runs, else its place in the queue.
At(l, k, e) ==
  IF k = 0 THEN e \in l.running ELSE k \in 1..Len(l.queue) /\ l.queue[k] = e

Placed(ls, e) == \E n \in 1..Len(ls), k \in Nat : At(ls[n], k, e)

SlotsTaken(l) ==
  /\ Cardinality(l.running) <= l.limit
  /\ l.queue # <<>> => Cardinality(l.running) = l.limit

OncePlaced(l) == \A f \in Experts, k, j \in Nat : At(l, k, f) /\ At(l, j, f) => k = j

\* The semaphores: no free slot beside a queue, and nobody in two places.
PlacesSound(ls) ==
  /\ ls \in Seq(Limiter) /\ Len(ls) # 0
  /\ \A n \in 1..Len(ls) : SlotsTaken(ls[n]) /\ OncePlaced(ls[n])
  /\ \A f \in Experts, n, m \in 1..Len(ls), k, j \in Nat :
       At(ls[n], k, f) /\ At(ls[m], j, f) => n = m

\* The phases are those the places give.
PhasesMatch(ls, ph) ==
  \A f \in Experts :
    /\ ph[f] = "running" <=> \E n \in 1..Len(ls) : At(ls[n], 0, f)
    /\ ph[f] = "waiting" <=> \E n \in 1..Len(ls), k \in Nat \ {0} : At(ls[n], k, f)

LEMMA LimiterShape ==
  ASSUME NEW l \in Limiter
  PROVE  /\ l.limit \in Nat \ {0} /\ l.queue \in Seq(Experts) /\ l.running \in SUBSET Experts
         /\ Len(l.queue) \in Nat /\ DOMAIN l.queue = 1..Len(l.queue)
         /\ \A k \in 1..Len(l.queue) : l.queue[k] \in Experts
         /\ ExpertAssumption => IsFiniteSet(l.running) /\ Cardinality(l.running) \in Nat
<1>1. l.limit \in Nat \ {0} /\ l.queue \in Seq(Experts) /\ l.running \in SUBSET Experts
  BY DEF Limiter
<1>2. ExpertAssumption => IsFiniteSet(l.running) /\ Cardinality(l.running) \in Nat
  BY <1>1, FS_Subset, FS_CardinalityType DEF ExpertAssumption
<1> QED BY <1>1, <1>2, LenProperties, ElementOfSeq

\* A slot that is given up goes to the head of the queue, if there is one.
LEMMA VacateProperties ==
  ASSUME ExpertAssumption, NEW l \in Limiter, SlotsTaken(l), OncePlaced(l),
         NEW e \in Experts, e \in l.running
  PROVE  /\ Vacate(l, e) \in Limiter /\ SlotsTaken(Vacate(l, e)) /\ OncePlaced(Vacate(l, e))
         /\ \A k \in Nat : ~At(Vacate(l, e), k, e)
         /\ \A f \in Experts : f # e =>
              ((\E k \in Nat : At(Vacate(l, e), k, f)) <=> \E k \in Nat : At(l, k, f))
<1> DEFINE r == Vacate(l, e)
<1>1. /\ l.limit \in Nat \ {0} /\ l.queue \in Seq(Experts) /\ l.running \in SUBSET Experts
      /\ Len(l.queue) \in Nat
      /\ \A k \in 1..Len(l.queue) : l.queue[k] \in Experts
      /\ IsFiniteSet(l.running) /\ Cardinality(l.running) \in Nat
  BY LimiterShape
<1>2. IsFiniteSet(l.running \ {e}) /\ Cardinality(l.running \ {e}) = Cardinality(l.running) - 1
  BY <1>1, FS_RemoveElement
<1>3. At(l, 0, e) /\ \A k \in 1..Len(l.queue) : l.queue[k] # e
  <2>1. At(l, 0, e)
    BY DEF At
  <2>2. ASSUME NEW k \in 1..Len(l.queue), l.queue[k] = e PROVE FALSE
    <3>1. At(l, k, e) /\ k \in Nat /\ k # 0
      BY <2>2 DEF At
    <3> QED BY <2>1, <3>1 DEF OncePlaced
  <2> QED BY <2>1, <2>2
<1>4. CASE l.queue = <<>>
  <2>1. r = [l EXCEPT !.running = l.running \ {e}]
    BY <1>4 DEF Vacate
  <2>2. r \in Limiter /\ r.running = l.running \ {e} /\ r.queue = l.queue /\ r.limit = l.limit
    BY <1>1, <2>1 DEF Limiter
  <2> HIDE DEF r
  <2>3. \A f \in Experts, k \in Nat : At(r, k, f) <=> At(l, k, f) /\ f # e
    BY <2>2, <1>3 DEF At
  <2>4. SlotsTaken(r)
    BY <1>1, <1>2, <1>4, <2>2 DEF SlotsTaken
  <2>5. OncePlaced(r)
    BY <2>3 DEF OncePlaced
  <2> QED BY <2>2, <2>3, <2>4, <2>5 DEF r
<1>5. CASE l.queue # <<>>
  <2> DEFINE h == Head(l.queue)
             q == Tail(l.queue)
  <2>1. /\ Len(l.queue) # 0 /\ h = l.queue[1] /\ h \in Experts
        /\ q \in Seq(Experts) /\ Len(q) = Len(l.queue) - 1
        /\ \A k \in 1..Len(q) : q[k] = l.queue[k + 1]
    BY <1>1, <1>5, EmptySeq, HeadTailProperties
  <2>2. r = [l EXCEPT !.running = (l.running \ {e}) \cup {h}, !.queue = q]
    BY <1>5 DEF Vacate
  <2> HIDE DEF h, q
  <2>3. /\ r \in Limiter /\ r.running = (l.running \ {e}) \cup {h} /\ r.queue = q
        /\ r.limit = l.limit
    <3> DEFINE R == (l.running \ {e}) \cup {h}
    <3>1. R \in SUBSET Experts
      BY <1>1, <2>1
    <3> HIDE DEF R
    <3>2. r = [[l EXCEPT !.running = R] EXCEPT !.queue = q]
      BY <2>2 DEF R
    <3>3. [l EXCEPT !.running = R] \in Limiter
      BY <3>1 DEF Limiter
    <3> HIDE DEF r
    <3>4. r \in Limiter /\ r.running = R /\ r.queue = q /\ r.limit = l.limit
      BY <2>1, <3>1, <3>2, <3>3 DEF Limiter
    <3> QED BY <3>4 DEF R
  <2> HIDE DEF r
  <2>4. At(l, 1, h) /\ h \notin l.running /\ h # e
    <3>1. At(l, 1, h)
      <4>1. 1 \in 1..Len(l.queue) /\ h = l.queue[1]
        BY <1>1, <2>1
      <4> QED BY ONLY <4>1 DEF At
    <3>2. ASSUME h \in l.running PROVE FALSE
      <4>1. At(l, 0, h)
        BY <3>2 DEF At
      <4>2. 0 \in Nat /\ 1 \in Nat /\ 0 # 1 /\ h \in Experts
        BY <2>1
      <4>3. OncePlaced(l)
        BY <1>1
      <4> QED BY ONLY <3>1, <4>1, <4>2, <4>3 DEF OncePlaced
    <3> QED BY <3>1, <3>2
  <2>5. SlotsTaken(r)
    <3>1. Cardinality(r.running) = Cardinality(l.running)
      <4>1. Cardinality((l.running \ {e}) \cup {h}) = Cardinality(l.running \ {e}) + 1
        BY <1>2, <2>4, FS_AddElement
      <4> QED BY <1>1, <1>2, <2>3, <4>1
    <3>2. Cardinality(l.running) = l.limit
      BY <1>5 DEF SlotsTaken
    <3> QED BY <1>1, <2>3, <3>1, <3>2 DEF SlotsTaken
  <2>6. \A f \in Experts : At(r, 0, f) <=> (At(l, 0, f) /\ f # e) \/ f = h
    BY <2>3 DEF At
  <2>7. ASSUME NEW f \in Experts, NEW k \in Nat \ {0}
        PROVE  At(r, k, f) <=> At(l, k + 1, f)
    <3>1. k \in 1..Len(q) <=> k + 1 \in 1..Len(l.queue)
      BY <1>1, <2>1
    <3>2. k + 1 # 0
      OBVIOUS
    <3> QED BY <2>1, <2>3, <3>1, <3>2 DEF At
  <2>8. ASSUME NEW f \in Experts, f # e
        PROVE  (\E k \in Nat : At(r, k, f)) <=> \E k \in Nat : At(l, k, f)
    <3>1. ASSUME NEW k \in Nat, At(r, k, f) PROVE \E j \in Nat : At(l, j, f)
      <4>1. CASE k = 0
        <5>1. At(l, 0, f) \/ f = h
          BY <3>1, <4>1, <2>6
        <5>2. 0 \in Nat /\ 1 \in Nat
          OBVIOUS
        <5>3. CASE At(l, 0, f)
          BY ONLY <5>2, <5>3
        <5>4. CASE f = h
          <6>1. At(l, 1, f)
            BY ONLY <5>4, <2>4
          <6> QED BY ONLY <5>2, <6>1
        <5> QED BY ONLY <5>1, <5>3, <5>4
      <4>2. CASE k # 0
        <5>1. k \in Nat \ {0} /\ k + 1 \in Nat
          BY <4>2
        <5>2. At(l, k + 1, f)
          BY ONLY <5>1, <3>1, <2>7, f \in Experts
        <5> QED BY ONLY <5>1, <5>2
      <4> QED BY <4>1, <4>2
    <3>2. ASSUME NEW k \in Nat, At(l, k, f) PROVE \E j \in Nat : At(r, j, f)
      <4>1. CASE k = 0
        BY <2>8, <3>2, <4>1, <2>6
      <4>2. CASE k = 1
        <5>1. f = h
          BY <3>2, <4>2, <2>1 DEF At
        <5> QED BY <5>1, <2>6
      <4>3. CASE k # 0 /\ k # 1
        <5>1. k - 1 \in Nat \ {0} /\ (k - 1) + 1 = k
          BY <4>3
        <5>2. At(r, k - 1, f)
          BY <3>2, <5>1, <2>7
        <5> QED BY <5>1, <5>2
      <4> QED BY <4>1, <4>2, <4>3
    <3> QED BY <3>1, <3>2
  <2>9. \A k \in Nat : ~At(r, k, e)
    <3>1. ~At(r, 0, e)
      BY <2>4, <2>6
    <3>2. ASSUME NEW k \in Nat \ {0}, At(r, k, e) PROVE FALSE
      <4>1. At(l, k + 1, e) /\ k + 1 \in Nat /\ k + 1 # 0
        BY <3>2, <2>7
      <4> QED BY <4>1, <1>3 DEF OncePlaced
    <3> QED BY <3>1, <3>2
  <2>10. OncePlaced(r)
    <3>1. ASSUME NEW f \in Experts, NEW k \in Nat \ {0}, At(r, 0, f), At(r, k, f) PROVE FALSE
      <4>1. At(l, k + 1, f) /\ k + 1 \in Nat /\ k + 1 # 0 /\ k + 1 # 1
        BY <3>1, <2>7
      <4>2. At(l, 0, f) \/ At(l, 1, f)
        BY <3>1, <2>4, <2>6
      <4> QED BY <4>1, <4>2 DEF OncePlaced
    <3>2. ASSUME NEW f \in Experts, NEW k \in Nat \ {0}, NEW j \in Nat \ {0},
                 At(r, k, f), At(r, j, f)
          PROVE  k = j
      <4>1. At(l, k + 1, f) /\ k + 1 \in Nat
        BY <3>2, <2>7
      <4>1a. At(l, j + 1, f) /\ j + 1 \in Nat
        BY <3>2, <2>7
      <4>2. k + 1 = j + 1
        BY <4>1, <4>1a DEF OncePlaced
      <4> QED BY <4>2
    <3> QED BY <3>1, <3>2 DEF OncePlaced
  <2> QED BY <2>3, <2>5, <2>8, <2>9, <2>10 DEF r
<1> QED BY <1>4, <1>5

\* Giving up the slots of e takes e, and nobody else, out of the semaphores.
LEMMA VacatedPlaces ==
  ASSUME ExpertAssumption, NEW ls, PlacesSound(ls),
         NEW e \in Experts, \E n \in 1..Len(ls) : At(ls[n], 0, e)
  PROVE  LET r == [n \in DOMAIN ls |-> Vacate(ls[n], e)]
         IN  /\ PlacesSound(r) /\ ~Placed(r, e)
             /\ \A f \in Experts \ {e} : Placed(r, f) <=> Placed(ls, f)
<1> DEFINE r == [n \in DOMAIN ls |-> Vacate(ls[n], e)]
<1>1. /\ ls \in Seq(Limiter) /\ Len(ls) \in Nat /\ DOMAIN ls = 1..Len(ls) /\ Len(ls) # 0
      /\ \A n \in 1..Len(ls) : ls[n] \in Limiter /\ SlotsTaken(ls[n]) /\ OncePlaced(ls[n])
  BY LenProperties, ElementOfSeq DEF PlacesSound
<1>2. \A f \in Experts, n, m \in 1..Len(ls), k, j \in Nat :
        At(ls[n], k, f) /\ At(ls[m], j, f) => n = m
  BY DEF PlacesSound
<1>3. \A n \in 1..Len(ls) : r[n] = Vacate(ls[n], e)
  BY <1>1
<1>4. ASSUME NEW n \in 1..Len(ls), e \notin ls[n].running
      PROVE  r[n] = ls[n] /\ \A k \in Nat : ~At(ls[n], k, e)
  <2>1. r[n] = ls[n]
    <3>1. Vacate(ls[n], e) = ls[n]
      BY <1>4 DEF Vacate
    <3> HIDE DEF r
    <3> QED BY <1>3, <3>1
  <2>2. PICK m \in 1..Len(ls) : At(ls[m], 0, e)
    OBVIOUS
  <2>3. m # n
    BY <1>4, <2>2 DEF At
  <2> QED BY <1>2, <2>1, <2>2, <2>3
<1>5. ASSUME NEW n \in 1..Len(ls)
      PROVE  /\ r[n] \in Limiter /\ SlotsTaken(r[n]) /\ OncePlaced(r[n])
             /\ \A k \in Nat : ~At(r[n], k, e)
             /\ \A f \in Experts : f # e =>
                  ((\E k \in Nat : At(r[n], k, f)) <=> \E k \in Nat : At(ls[n], k, f))
  <2>1. CASE e \in ls[n].running
    BY <1>1, <1>3, <2>1, VacateProperties
  <2>2. CASE e \notin ls[n].running
    BY <1>1, <1>4, <2>2
  <2> QED BY <2>1, <2>2
<1>6. r \in Seq(Limiter) /\ Len(r) = Len(ls)
  <2>1. r \in [1..Len(ls) -> Limiter]
    BY <1>1, <1>5
  <2> HIDE DEF r
  <2> QED BY <1>1, <2>1, FunctionIsList
<1> HIDE DEF r
<1>7. ~Placed(r, e) /\ \A f \in Experts \ {e} : Placed(r, f) <=> Placed(ls, f)
  BY <1>5, <1>6 DEF Placed
<1>8. ASSUME NEW f \in Experts, NEW n \in 1..Len(ls), NEW m \in 1..Len(ls),
             NEW k \in Nat, NEW j \in Nat, At(r[n], k, f), At(r[m], j, f)
      PROVE  n = m
  <2>1. f # e
    BY <1>5, <1>8
  <2>2. (\E i \in Nat : At(ls[n], i, f)) /\ (\E i \in Nat : At(ls[m], i, f))
    BY <1>5, <1>8, <2>1
  <2> QED BY <1>2, <2>2
<1>9. PlacesSound(r)
  BY <1>1, <1>5, <1>6, <1>8 DEF PlacesSound
<1> QED BY <1>7, <1>9 DEF r

\* A call that is admitted runs, or waits behind a full semaphore.
LEMMA AdmitProperties ==
  ASSUME ExpertAssumption, NEW l \in Limiter, SlotsTaken(l), OncePlaced(l),
         NEW e \in Experts, \A k \in Nat : ~At(l, k, e)
  PROVE  /\ Admit(l, e) \in Limiter /\ SlotsTaken(Admit(l, e)) /\ OncePlaced(Admit(l, e))
         /\ \E k \in Nat : At(Admit(l, e), k, e)
         /\ \A f \in Experts, k \in Nat : f # e => (At(Admit(l, e), k, f) <=> At(l, k, f))
<1> DEFINE r == Admit(l, e)
<1>1. /\ l.limit \in Nat \ {0} /\ l.queue \in Seq(Experts) /\ l.running \in SUBSET Experts
      /\ Len(l.queue) \in Nat
      /\ IsFiniteSet(l.running) /\ Cardinality(l.running) \in Nat
  BY LimiterShape
<1>2. CASE Cardinality(l.running) < l.limit
  <2>1. r = [l EXCEPT !.running = l.running \cup {e}]
    BY <1>2 DEF Admit
  <2>2. r \in Limiter /\ r.running = l.running \cup {e} /\ r.queue = l.queue /\ r.limit = l.limit
    BY <1>1, <2>1 DEF Limiter
  <2> HIDE DEF r
  <2>3. l.queue = <<>>
    BY <1>1, <1>2 DEF SlotsTaken
  <2>4. SlotsTaken(r)
    <3>1. e \notin l.running
      BY DEF At
    <3>2. Cardinality(r.running) = Cardinality(l.running) + 1
      BY <1>1, <2>2, <3>1, FS_AddElement
    <3> QED BY <1>1, <1>2, <2>2, <2>3, <3>2 DEF SlotsTaken
  <2>5. \A f \in Experts, k \in Nat : At(r, k, f) <=> At(l, k, f) \/ (f = e /\ k = 0)
    BY <2>2 DEF At
  <2>6. OncePlaced(r)
    BY <2>5 DEF OncePlaced
  <2>7. At(r, 0, e)
    BY <2>5
  <2> QED BY <2>2, <2>4, <2>5, <2>6, <2>7 DEF r
<1>3. CASE ~(Cardinality(l.running) < l.limit)
  <2>1. r = [l EXCEPT !.queue = Append(l.queue, e)]
    BY <1>3 DEF Admit
  <2> DEFINE q == Append(l.queue, e)
             n == Len(l.queue) + 1
  <2>2. /\ q \in Seq(Experts) /\ Len(q) = n /\ q[n] = e
        /\ \A k \in 1..Len(l.queue) : q[k] = l.queue[k]
    BY <1>1, AppendProperties
  <2>2a. n \in Nat \ {0} /\ n \notin 1..Len(l.queue)
         /\ \A k \in Nat : k \in 1..n <=> k \in 1..Len(l.queue) \/ k = n
    BY <1>1
  <2> HIDE DEF q, n
  <2>3. r \in Limiter /\ r.running = l.running /\ r.queue = q /\ r.limit = l.limit
    BY <1>1, <2>1, <2>2 DEF Limiter, q
  <2> HIDE DEF r
  <2>4. SlotsTaken(r)
    BY <1>1, <1>3, <2>3 DEF SlotsTaken
  <2>5. \A f \in Experts, k \in Nat : At(r, k, f) <=> At(l, k, f) \/ (f = e /\ k = n)
    BY <2>2, <2>2a, <2>3 DEF At
  <2>6. OncePlaced(r)
    BY <2>5 DEF OncePlaced
  <2>7. At(r, n, e)
    BY <2>2a, <2>5
  <2> QED BY <2>2a, <2>3, <2>4, <2>5, <2>6, <2>7 DEF r
<1> QED BY <1>2, <1>3

LEMMA AdmittedPlaces ==
  ASSUME ExpertAssumption, NEW ls, PlacesSound(ls), NEW e \in Experts, ~Placed(ls, e)
  PROVE  LET r == [ls EXCEPT ![Len(ls)] = Admit(@, e)]
         IN  /\ PlacesSound(r) /\ Placed(r, e)
             /\ \A f \in Experts \ {e} : Placed(r, f) <=> Placed(ls, f)
<1> DEFINE N == Len(ls)
           a == Admit(ls[N], e)
           r == [ls EXCEPT ![N] = a]
<1>1. /\ ls \in Seq(Limiter) /\ N \in 1..N /\ N \in Nat /\ DOMAIN ls = 1..N
      /\ \A n \in 1..N : ls[n] \in Limiter /\ SlotsTaken(ls[n]) /\ OncePlaced(ls[n])
  BY LenProperties, ElementOfSeq DEF PlacesSound
<1>2. \A n \in 1..N, k \in Nat : ~At(ls[n], k, e)
  BY DEF Placed
<1>3. /\ a \in Limiter /\ SlotsTaken(a) /\ OncePlaced(a)
      /\ \E k \in Nat : At(a, k, e)
      /\ \A f \in Experts, k \in Nat : f # e => (At(a, k, f) <=> At(ls[N], k, f))
  BY <1>1, <1>2, AdmitProperties
<1> HIDE DEF a
<1>4. r \in Seq(Limiter) /\ Len(r) = N /\ \A n \in 1..N : r[n] = IF n = N THEN a ELSE ls[n]
  BY <1>1, <1>3, ExceptSeq
<1>5. r = [ls EXCEPT ![Len(ls)] = Admit(@, e)]
  BY DEF a
<1> HIDE DEF r
<1>6. \A n \in 1..N, f \in Experts, k \in Nat : f # e => (At(r[n], k, f) <=> At(ls[n], k, f))
  BY <1>3, <1>4
<1>7. \A n \in 1..N, k \in Nat : At(r[n], k, e) => n = N
  BY <1>2, <1>4
<1>8. \A f \in Experts, n, m \in 1..N, k, j \in Nat :
        At(r[n], k, f) /\ At(r[m], j, f) => n = m
  <2>1. \A f \in Experts, n, m \in 1..N, k, j \in Nat :
          At(ls[n], k, f) /\ At(ls[m], j, f) => n = m
    BY DEF PlacesSound
  <2> SUFFICES ASSUME NEW f \in Experts, NEW n \in 1..N, NEW m \in 1..N,
                      NEW k \in Nat, NEW j \in Nat, At(r[n], k, f), At(r[m], j, f)
               PROVE  n = m
    OBVIOUS
  <2>2. CASE f = e
    <3>1. n = N /\ m = N
      BY <1>7, <2>2
    <3> QED BY ONLY <3>1
  <2>3. CASE f # e
    <3>1. At(ls[n], k, f) /\ At(ls[m], j, f)
      BY <1>6, <2>3
    <3> QED BY <2>1, <3>1
  <2> QED BY ONLY <2>2, <2>3
<1>9. PlacesSound(r)
  <2>1. \A n \in 1..N : SlotsTaken(r[n]) /\ OncePlaced(r[n])
    BY <1>1, <1>3, <1>4
  <2>2. Len(r) # 0
    <3>1. Len(r) = N /\ N # 0
      BY <1>4 DEF PlacesSound
    <3> QED BY ONLY <3>1
  <2> QED BY <1>4, <1>8, <2>1, <2>2 DEF PlacesSound
<1>10. Placed(r, e)
  BY <1>1, <1>3, <1>4 DEF Placed
<1>11. \A f \in Experts \ {e} : Placed(r, f) <=> Placed(ls, f)
  BY <1>4, <1>6 DEF Placed
<1> QED BY <1>5, <1>9, <1>10, <1>11

\* Where nobody is in two places, the two phases of those in a place exclude each other.
LEMMA PlacedIsLive ==
  ASSUME NEW ls, PlacesSound(ls), NEW ph, PhasesMatch(ls, ph), NEW f \in Experts
  PROVE  Placed(ls, f) <=> ph[f] \in {"waiting", "running"}
<1>1. Placed(ls, f) <=> (\E n \in 1..Len(ls) : At(ls[n], 0, f))
                        \/ (\E n \in 1..Len(ls), k \in Nat \ {0} : At(ls[n], k, f))
  <2>1. \A k \in Nat : k = 0 \/ k \in Nat \ {0}
    OBVIOUS
  <2> QED BY <2>1 DEF Placed
<1> QED BY <1>1 DEF PhasesMatch

\* What the semaphores make of the phases.
LEMMA PhasesProperties ==
  ASSUME PlacesSound(limiters), PhasesMatch(limiters, phase),
         phase \in [Experts -> {"idle", "allocated", "waiting", "running", "done"}],
         NEW ls, PlacesSound(ls)
  PROVE  /\ PhasesMatch(ls, Phases(ls))
         /\ Phases(ls) \in [Experts -> {"idle", "allocated", "waiting", "running", "done"}]
         /\ \A f \in Experts : ~Placed(ls, f) =>
              Phases(ls)[f] = IF phase[f] \in {"waiting", "running"} THEN "done" ELSE phase[f]
<1> DEFINE ph == Phases(ls)
<1>1. /\ ls \in Seq(Limiter) /\ DOMAIN ls = 1..Len(ls)
      /\ \A n \in 1..Len(ls) : ls[n] \in Limiter /\ DOMAIN ls[n].queue = 1..Len(ls[n].queue)
  BY LenProperties, ElementOfSeq, LimiterShape DEF PlacesSound
<1>2. \A f \in Experts, n, m \in 1..Len(ls), k, j \in Nat :
        At(ls[n], k, f) /\ At(ls[m], j, f) => n = m /\ k = j
  BY DEF PlacesSound, OncePlaced
<1>3. ASSUME NEW f \in Experts
      PROVE  /\ ph[f] = "running" <=> \E n \in 1..Len(ls) : At(ls[n], 0, f)
             /\ ph[f] = "waiting" <=> \E n \in 1..Len(ls), k \in Nat \ {0} : At(ls[n], k, f)
             /\ ph[f] \in {"idle", "allocated", "waiting", "running", "done"}
             /\ ~Placed(ls, f) => ph[f] = IF phase[f] \in {"waiting", "running"} THEN "done" ELSE phase[f]
  <2> DEFINE Runs == \E n \in 1..Len(ls) : At(ls[n], 0, f)
             Waits == \E n \in 1..Len(ls), k \in Nat \ {0} : At(ls[n], k, f)
             rest == IF phase[f] \in {"waiting", "running"} THEN "done" ELSE phase[f]
  <2>1. Runs <=> \E n \in DOMAIN ls : f \in ls[n].running
    BY <1>1 DEF At
  <2>2. Waits <=> \E n \in DOMAIN ls : \E k \in DOMAIN ls[n].queue : ls[n].queue[k] = f
    <3>1. ASSUME NEW n \in 1..Len(ls)
          PROVE  (\E k \in Nat \ {0} : At(ls[n], k, f))
                   <=> \E k \in DOMAIN ls[n].queue : ls[n].queue[k] = f
      <4>1. \A k \in 1..Len(ls[n].queue) : k \in Nat \ {0}
        BY <1>1, LimiterShape
      <4>2. \A k \in Nat \ {0} : At(ls[n], k, f) <=> k \in 1..Len(ls[n].queue) /\ ls[n].queue[k] = f
        BY DEF At
      <4> QED BY <1>1, <4>1, <4>2
    <3> QED BY <1>1, <3>1
  <2>3. ph[f] = IF Runs THEN "running" ELSE IF Waits THEN "waiting" ELSE rest
    <3> HIDE DEF Runs, Waits
    <3> QED BY <2>1, <2>2 DEF Phases
  <2>4. ~(Runs /\ Waits)
    BY <1>2
  <2>5. Placed(ls, f) <=> Runs \/ Waits
    <3>1. \A k \in Nat : k = 0 \/ k \in Nat \ {0}
      OBVIOUS
    <3> QED BY <3>1 DEF Placed
  <2>6. rest \in {"idle", "allocated", "done"}
    OBVIOUS
  <2> HIDE DEF Runs, Waits, rest
  <2>7. /\ ph[f] = "running" <=> Runs
        /\ ph[f] = "waiting" <=> Waits
        /\ ph[f] \in {"idle", "allocated", "waiting", "running", "done"}
        /\ ~Placed(ls, f) => ph[f] = rest
    <3> HIDE DEF ph
    <3> QED BY <2>3, <2>4, <2>5, <2>6
  <2> QED BY <2>7 DEF Runs, Waits, rest
<1>4. PhasesMatch(ls, ph)
  BY <1>3 DEF PhasesMatch
<1>5. ph \in [Experts -> {"idle", "allocated", "waiting", "running", "done"}]
  <2>1. ph = [f \in Experts |-> ph[f]]
    BY DEF Phases
  <2> HIDE DEF ph
  <2> QED BY <1>3, <2>1
<1> QED BY <1>3, <1>4, <1>5

\* The outcomes that are counted.
StatKinds == {"completed", "failed", "timeout", "escalated"}

\* Somebody else was given the same id.
Twinned(e) == \E f \in Experts \ {e} : phase[f] # "idle" /\ id[f] = id[e]

\* ExecutionsAreTracked by experts and ids; an id is shared only with one that was
\* given it before, which no later step takes back.
TrackingSound ==
  /\ \A e \in Live : activeExecutions[id[e]] = e \/ e \in aborted \/ Twinned(e)
  /\ \A i \in Ids : activeExecutions[i] # NoExpert =>
       LET e == activeExecutions[i]
       IN  e \in Live /\ id[e] = i /\ (e \in timers \/ e \in aborted)
  /\ timers \subseteq Live
  /\ \A i \in workLogs : \E e \in Live : id[e] = i

\* The executions that ended with a report of status s.
Reported(s) == {e \in Done : status[e] = s}

\* The totals; what is still at work can only have been marked by its timer.
TotalsSound ==
  /\ stats \in [StatKinds -> Nat]
  /\ stats["failed"] = Cardinality(Reported("failed"))
  /\ stats["escalated"] = Cardinality(Reported("escalated"))
  /\ stats["completed"] + stats["timeout"] = Cardinality(Reported("completed")) + Cardinality(Reported("timeout"))
  /\ stats["timeout"] <= Cardinality(Reported("timeout"))
  /\ \A e \in Experts : status[e] = "timeout" => e \in aborted
  /\ \A e \in Experts : phase[e] # "done" => status[e] \in {"completed", "timeout"}

IdsSound ==
  /\ id \in [Experts -> Ids \cup {NoExpert}]
  /\ \A e \in Experts : phase[e] # "idle" => id[e] \in Ids

\* The inductive invariant.
ExpertInv ==
  /\ PoolTypeOK
  /\ IdsSound
  /\ PlacesSound(limiters)
  /\ PhasesMatch(limiters, phase)
  /\ TrackingSound
  /\ TotalsSound

LEMMA NewLimiterIsFree ==
  ASSUME NEW n \in Nat \ {0}
  PROVE  /\ NewLimiter(n) \in Limiter
         /\ \A f \in Experts, k \in Nat : ~At(NewLimiter(n), k, f)
         /\ SlotsTaken(NewLimiter(n)) /\ OncePlaced(NewLimiter(n))
<1> DEFINE l == NewLimiter(n)
<1>1. l \in Limiter /\ l.queue = <<>> /\ l.running = {} /\ l.limit = n
  BY DEF NewLimiter, Limiter
<1> HIDE DEF l
<1>2. \A f \in Experts, k \in Nat : ~At(l, k, f)
  BY <1>1 DEF At
<1>3. SlotsTaken(l) /\ OncePlaced(l)
  BY <1>1, <1>2, FS_EmptySet DEF SlotsTaken, OncePlaced
<1> QED BY <1>1, <1>2, <1>3 DEF l

LEMMA ExpertInitInv == ExpertAssumption /\ PoolInit => ExpertInv
<1> SUFFICES ASSUME ExpertAssumption, PoolInit PROVE ExpertInv
  OBVIOUS
<1>1. PoolTypeOK
  BY DEF PoolInit, PoolTypeOK, NoExpert
<1>2. IdsSound
  BY DEF PoolInit, IdsSound
<1> DEFINE l == NewLimiter(1)
<1>3. l \in Limiter /\ SlotsTaken(l) /\ OncePlaced(l)
  BY NewLimiterIsFree
<1>4. \A f \in Experts, k \in Nat : ~At(l, k, f)
  BY NewLimiterIsFree
<1>6. limiters = <<l>> /\ \A e \in Experts : phase[e] = "idle"
  BY DEF PoolInit
<1> HIDE DEF l
<1>7. limiters \in Seq(Limiter) /\ Len(limiters) = 1 /\ limiters[1] = l
  BY <1>3, <1>6
<1>8. PlacesSound(limiters)
  BY <1>3, <1>4, <1>7 DEF PlacesSound
<1>9. PhasesMatch(limiters, phase)
  BY <1>4, <1>6, <1>7 DEF PhasesMatch
<1>10. Live = {} /\ Done = {}
  BY <1>6 DEF Live, Done
<1>11. TrackingSound
  BY <1>10 DEF TrackingSound, PoolInit
<1>12. TotalsSound
  <2>1. \A s : Reported(s) = {}
    BY <1>10 DEF Reported
  <2>2. Cardinality({}) = 0
    BY FS_EmptySet
  <2>3. stats \in [StatKinds -> Nat] /\ \A s \in StatKinds : stats[s] = 0
    BY DEF PoolInit, StatKinds
  <2>4. \A e \in Experts : status[e] = "completed"
    BY DEF PoolInit
  <2>5. \A s : Cardinality(Reported(s)) = 0
    BY <2>1, <2>2
  <2>6. /\ stats["failed"] = 0 /\ stats["escalated"] = 0
        /\ stats["completed"] = 0 /\ stats["timeout"] = 0
    BY <2>3 DEF StatKinds
  <2> QED BY <2>3, <2>4, <2>5, <2>6 DEF TotalsSound
<1> QED BY <1>1, <1>2, <1>8, <1>9, <1>11, <1>12 DEF ExpertInv

LEMMA AllocateInv ==
  ASSUME ExpertAssumption, ExpertInv, NEW e \in Experts, NEW i \in Ids, AllocateExperts(e, i)
  PROVE  ExpertInv'
<1>1. /\ phase[e] = "idle" /\ phase' = [phase EXCEPT ![e] = "allocated"]
      /\ id' = [id EXCEPT ![e] = i] /\ expertPool' = expertPool \cup {i}
      /\ UNCHANGED <<activeExecutions, workLogs, timers, aborted, status, limiters, stats, updates>>
  BY DEF AllocateExperts, Create
<1>2. /\ phase \in [Experts -> {"idle", "allocated", "waiting", "running", "done"}]
      /\ id \in [Experts -> Ids \cup {NoExpert}]
  BY DEF ExpertInv, PoolTypeOK, IdsSound
<1>3. /\ phase'[e] = "allocated" /\ id'[e] = i
      /\ \A f \in Experts : f # e => phase'[f] = phase[f] /\ id'[f] = id[f]
  BY <1>1, <1>2
<1>4. PoolTypeOK' /\ IdsSound'
  BY <1>1, <1>3 DEF ExpertInv, PoolTypeOK, IdsSound
<1>5. PlacesSound(limiters')
  BY <1>1 DEF ExpertInv
<1>6. PhasesMatch(limiters', phase')
  <2>1. PhasesMatch(limiters, phase)
    BY DEF ExpertInv
  <2>2. \A f \in Experts : /\ phase'[f] = "running" <=> phase[f] = "running"
                           /\ phase'[f] = "waiting" <=> phase[f] = "waiting"
    BY <1>1, <1>3
  <2> QED BY <1>1, <2>1, <2>2 DEF PhasesMatch
<1>7. Live' = Live /\ Done' = Done /\ e \notin Live
  BY <1>1, <1>3 DEF Live, Done
<1>8. TrackingSound'
  <2>1. \A f \in Live : f # e /\ f \in Experts
    BY <1>7 DEF Live
  <2>2. \A f \in Live : Twinned(f) => Twinned(f)'
    BY <1>1, <1>3 DEF Twinned, Live
  <2> QED BY <1>1, <1>3, <1>7, <2>1, <2>2 DEF ExpertInv, TrackingSound
<1>9. TotalsSound'
  <2>1. \A s : Reported(s)' = Reported(s)
    BY <1>1, <1>7 DEF Reported
  <2>2. \A f \in Experts : phase'[f] # "done" => phase[f] # "done"
    BY <1>1, <1>3
  <2> QED BY <1>1, <2>1, <2>2 DEF ExpertInv, TotalsSound
<1> QED BY <1>4, <1>5, <1>6, <1>8, <1>9 DEF ExpertInv

LEMMA ExecuteInv ==
  ASSUME ExpertAssumption, ExpertInv, NEW e \in Experts, NEW i \in Ids, AllocateAndExecute(e, i)
  PROVE  ExpertInv'
<1>1. /\ phase[e] = "idle" /\ phase' = Phases(limiters')
      /\ limiters' = [limiters EXCEPT ![Len(limiters)] = Admit(@, e)]
      /\ id' = [id EXCEPT ![e] = i] /\ expertPool' = expertPool \cup {i}
      /\ workLogs' = workLogs \cup {i} /\ timers' = timers \cup {e}
      /\ activeExecutions' = [activeExecutions EXCEPT ![i] = e]
      /\ UNCHANGED <<aborted, status, stats, updates>>
  BY DEF AllocateAndExecute, Create
<1>2. /\ phase \in [Experts -> {"idle", "allocated", "waiting", "running", "done"}]
      /\ id \in [Experts -> Ids \cup {NoExpert}]
      /\ activeExecutions \in [Ids -> Experts \cup {NoExpert}]
      /\ PlacesSound(limiters) /\ PhasesMatch(limiters, phase)
  BY DEF ExpertInv, PoolTypeOK, IdsSound
<1>3. /\ id'[e] = i /\ activeExecutions'[i] = e
      /\ \A f \in Experts : f # e => id'[f] = id[f]
      /\ \A j \in Ids : j # i => activeExecutions'[j] = activeExecutions[j]
  BY <1>1, <1>2
<1>4. ~Placed(limiters, e)
  BY <1>1, <1>2, PlacedIsLive
<1>5. /\ PlacesSound(limiters') /\ Placed(limiters', e)
      /\ \A f \in Experts \ {e} : Placed(limiters', f) <=> Placed(limiters, f)
  BY <1>1, <1>2, <1>4, AdmittedPlaces
<1>6. /\ PhasesMatch(limiters', phase')
      /\ phase' \in [Experts -> {"idle", "allocated", "waiting", "running", "done"}]
      /\ \A f \in Experts : ~Placed(limiters', f) =>
           phase'[f] = IF phase[f] \in {"waiting", "running"} THEN "done" ELSE phase[f]
  BY <1>1, <1>2, <1>5, PhasesProperties
<1>7. \A f \in Experts : /\ f \in Live <=> Placed(limiters, f)
                         /\ f \in Live' <=> Placed(limiters', f)
  BY <1>2, <1>5, <1>6, PlacedIsLive DEF Live
<1>8. e \in Live' /\ \A f \in Experts : f # e => (f \in Live' <=> f \in Live)
  BY <1>5, <1>7
<1>9. \A f \in Experts : f # e /\ f \notin Live => phase'[f] = phase[f]
  BY <1>5, <1>6, <1>7 DEF Live
<1>10. \A f \in Experts : phase[f] # "idle" => phase'[f] # "idle"
  BY <1>1, <1>8, <1>9 DEF Live
<1>11. \A f \in Experts : phase'[f] # "idle" => f = e \/ phase[f] # "idle"
  BY <1>8, <1>9 DEF Live
<1>12. Done' = Done
  BY <1>1, <1>8, <1>9 DEF Done, Live
<1>13. PoolTypeOK'
  BY <1>1, <1>2, <1>6 DEF ExpertInv, PoolTypeOK
<1>14. IdsSound'
  BY <1>1, <1>2, <1>3, <1>11 DEF ExpertInv, IdsSound
<1>15. TrackingSound'
  <2>1. ASSUME NEW f \in Live' PROVE (activeExecutions[id[f]] = f \/ f \in aborted \/ Twinned(f))'
    <3>1. CASE f = e
      BY <1>3, <3>1
    <3>2. CASE f # e
      <4>1. /\ f \in Experts /\ f \in Live /\ id'[f] = id[f] /\ id[f] \in Ids
            /\ activeExecutions[id[f]] = f \/ f \in aborted \/ Twinned(f)
        BY <2>1, <3>2, <1>3, <1>8 DEF ExpertInv, TrackingSound, Live, IdsSound
      <4>2. CASE id[f] = i
        <5>1. Twinned(f)'
          BY <3>2, <4>1, <4>2, <1>3, <1>8 DEF Twinned, Live
        <5> QED BY <5>1
      <4>3. CASE id[f] # i /\ activeExecutions[id[f]] = f
        BY <4>1, <4>3, <1>3
      <4>4. CASE f \in aborted
        BY <4>4, <1>1
      <4>5. CASE Twinned(f)
        <5>1. Twinned(f)'
          BY <4>1, <4>5, <1>1, <1>3, <1>10 DEF Twinned
        <5> QED BY <5>1
      <4> QED BY <4>1, <4>2, <4>3, <4>4, <4>5
    <3> QED BY <3>1, <3>2
  <2>2. ASSUME NEW j \in Ids, activeExecutions'[j] # NoExpert
        PROVE  LET f == activeExecutions'[j]
               IN  f \in Live' /\ id'[f] = j /\ (f \in timers' \/ f \in aborted')
    <3>1. CASE j = i
      BY <3>1, <1>1, <1>3, <1>8
    <3>2. CASE j # i
      <4>1. activeExecutions'[j] = activeExecutions[j]
        BY <3>2, <1>3
      <4> DEFINE f == activeExecutions[j]
      <4>2. f \in Live /\ id[f] = j /\ (f \in timers \/ f \in aborted)
        BY <2>2, <4>1 DEF ExpertInv, TrackingSound
      <4>3. f \in Experts /\ f # e
        BY <4>2, <1>1 DEF Live
      <4> HIDE DEF f
      <4>4. f \in Live' /\ id'[f] = j
        BY <4>2, <4>3, <1>3, <1>8
      <4>5. f \in timers' \/ f \in aborted'
        BY <4>2, <1>1
      <4> QED BY <4>1, <4>4, <4>5 DEF f
    <3> QED BY <3>1, <3>2
  <2>3. timers' \subseteq Live'
    BY <1>1, <1>8 DEF ExpertInv, TrackingSound, Live
  <2>4. \A j \in workLogs' : \E f \in Live' : id'[f] = j
    <3>1. \A f \in Live : f \in Live' /\ id'[f] = id[f]
      BY <1>1, <1>3, <1>8 DEF Live
    <3>2. e \in Live' /\ id'[e] = i /\ workLogs' = workLogs \cup {i}
      BY <1>1, <1>3, <1>8
    <3>3. \A j \in workLogs : \E f \in Live : id[f] = j
      BY DEF ExpertInv, TrackingSound
    <3> QED BY ONLY <3>1, <3>2, <3>3
  <2> QED BY <2>1, <2>2, <2>3, <2>4 DEF TrackingSound
<1>16. TotalsSound'
  <2>1. \A s : Reported(s)' = Reported(s)
    BY <1>1, <1>12 DEF Reported
  <2>2. \A f \in Experts : phase'[f] # "done" => phase[f] # "done"
    BY <1>12 DEF Done
  <2> QED BY <1>1, <2>1, <2>2 DEF ExpertInv, TotalsSound
<1> QED BY <1>5, <1>6, <1>13, <1>14, <1>15, <1>16 DEF ExpertInv

\* Steps that leave the semaphores and the phases alone, and tell experts to stop
\* that lose their timer or their entry.
LEMMA QuietInv ==
  ASSUME ExpertInv, NEW told \in SUBSET Experts,
         UNCHANGED <<phase, id, limiters, stats>>,
         PoolTypeOK',
         aborted' = aborted \cup told,
         timers' \subseteq timers, timers \ timers' \subseteq told,
         \A i \in Ids : activeExecutions'[i] # activeExecutions[i] =>
           activeExecutions'[i] = NoExpert /\ activeExecutions[i] \in told \cup {NoExpert},
         workLogs' \subseteq workLogs,
         \A f \in Experts : status'[f] # status[f] =>
           f \in told /\ phase[f] # "done" /\ status'[f] = "timeout"
  PROVE  ExpertInv'
<1>1. Live' = Live /\ Done' = Done /\ \A f \in Experts : Twinned(f)' <=> Twinned(f)
  BY DEF Live, Done, Twinned
<1>2. TrackingSound'
  <2>1. ASSUME NEW f \in Live PROVE (activeExecutions[id[f]] = f \/ f \in aborted \/ Twinned(f))'
    <3>0. id' = id /\ aborted' = aborted \cup told
      OBVIOUS
    <3>1. /\ f \in Experts /\ id[f] \in Ids
          /\ activeExecutions[id[f]] = f \/ f \in aborted \/ Twinned(f)
      BY DEF ExpertInv, TrackingSound, IdsSound, Live
    <3>2. CASE activeExecutions[id[f]] = f /\ activeExecutions'[id[f]] # activeExecutions[id[f]]
      <4>0. \A i \in Ids : activeExecutions'[i] # activeExecutions[i] =>
              activeExecutions'[i] = NoExpert /\ activeExecutions[i] \in told \cup {NoExpert}
        OBVIOUS
      <4>1. f \in told \/ activeExecutions'[id[f]] = f
        BY ONLY <3>1, <3>2, <4>0
      <4> QED BY <3>0, <4>1
    <3>3. CASE activeExecutions[id[f]] = f /\ activeExecutions'[id[f]] = activeExecutions[id[f]]
      BY <3>0, <3>3
    <3>4. CASE f \in aborted \/ Twinned(f)
      BY <3>0, <3>1, <3>4, <1>1
    <3> QED BY <3>1, <3>2, <3>3, <3>4
  <2>2. ASSUME NEW j \in Ids, activeExecutions'[j] # NoExpert
        PROVE  LET f == activeExecutions'[j]
               IN  f \in Live' /\ id'[f] = j /\ (f \in timers' \/ f \in aborted')
    <3>1. activeExecutions'[j] = activeExecutions[j]
      BY <2>2
    <3> QED BY <2>2, <3>1, <1>1 DEF ExpertInv, TrackingSound
  <2>3. timers' \subseteq Live' /\ \A j \in workLogs' : \E f \in Live' : id'[f] = j
    BY <1>1 DEF ExpertInv, TrackingSound
  <2> QED BY <1>1, <2>1, <2>2, <2>3 DEF TrackingSound
<1>3. TotalsSound'
  <2>1. \A s : Reported(s)' = Reported(s)
    <3>1. \A f \in Done : status'[f] = status[f]
      BY DEF Done
    <3> QED BY <1>1, <3>1 DEF Reported
  <2>2. \A f \in Experts : status'[f] = "timeout" => f \in aborted'
    BY DEF ExpertInv, TotalsSound
  <2>3. \A f \in Experts : phase'[f] # "done" => status'[f] \in {"completed", "timeout"}
    BY DEF ExpertInv, TotalsSound
  <2> QED BY <2>1, <2>2, <2>3 DEF ExpertInv, TotalsSound
<1>4. IdsSound' /\ PlacesSound(limiters') /\ PhasesMatch(limiters', phase')
  BY DEF ExpertInv, IdsSound
<1> QED BY <1>2, <1>3, <1>4 DEF ExpertInv

LEMMA TimeoutInv ==
  ASSUME ExpertAssumption, ExpertInv, NEW e \in Experts, ExpertTimeout(e)
  PROVE  ExpertInv'
<1>1. /\ e \in timers /\ timers' = timers \ {e} /\ aborted' = aborted \cup {e}
      /\ status' = [status EXCEPT ![e] = "timeout"]
      /\ UNCHANGED <<phase, id, expertPool, activeExecutions, workLogs, limiters, stats, updates>>
  BY DEF ExpertTimeout
<1>2. PoolTypeOK'
  BY <1>1 DEF ExpertInv, PoolTypeOK
<1>3. e \in Live /\ phase[e] # "done"
  BY <1>1 DEF ExpertInv, TrackingSound, Live
<1>4. \A f \in Experts : status'[f] # status[f] =>
        f \in {e} /\ phase[f] # "done" /\ status'[f] = "timeout"
  BY <1>1, <1>3 DEF ExpertInv, PoolTypeOK
<1>5. {e} \in SUBSET Experts /\ timers' \subseteq timers /\ timers \ timers' \subseteq {e}
  BY <1>1
<1> QED BY <1>1, <1>2, <1>4, <1>5, QuietInv

LEMMA ReleaseInv ==
  ASSUME ExpertAssumption, ExpertInv, NEW i \in Ids, ReleaseExperts(i)
  PROVE  ExpertInv'
<1> DEFINE told == {activeExecutions[i]} \ {NoExpert}
<1>0. /\ activeExecutions \in [Ids -> Experts \cup {NoExpert}]
      /\ timers \subseteq Experts /\ NoExpert \notin Experts
  BY DEF ExpertInv, PoolTypeOK, ExpertAssumption, NoExpert
<1>1. /\ expertPool' = expertPool \ {i}
      /\ activeExecutions' = [activeExecutions EXCEPT ![i] = NoExpert]
      /\ aborted' = aborted \cup told /\ timers' = timers \ {activeExecutions[i]}
      /\ workLogs' = workLogs \ {i}
      /\ UNCHANGED <<phase, id, status, limiters, stats, updates>>
  BY DEF ReleaseExperts
<1>2. told \in SUBSET Experts /\ timers' \subseteq timers /\ timers \ timers' \subseteq told
  BY <1>0, <1>1
<1>3. PoolTypeOK'
  BY <1>0, <1>1, <1>2 DEF ExpertInv, PoolTypeOK
<1>4. \A j \in Ids : activeExecutions'[j] # activeExecutions[j] =>
        activeExecutions'[j] = NoExpert /\ activeExecutions[j] \in told \cup {NoExpert}
  BY <1>0, <1>1
<1>5. workLogs' \subseteq workLogs /\ \A f \in Experts : status'[f] = status[f]
  BY <1>1
<1> HIDE DEF told
<1> QED BY <1>1, <1>2, <1>3, <1>4, <1>5, QuietInv

LEMMA AbortInv ==
  ASSUME ExpertAssumption, ExpertInv, AbortAll
  PROVE  ExpertInv'
<1> DEFINE told == {activeExecutions[i] : i \in Tracked}
<1>1. /\ aborted' = aborted \cup told /\ timers' = timers \ told
      /\ activeExecutions' = [i \in Ids |-> NoExpert]
      /\ UNCHANGED <<phase, id, expertPool, workLogs, status, limiters, stats, updates>>
  BY DEF AbortAll
<1>2. told \in SUBSET Experts
  BY DEF Tracked, ExpertInv, PoolTypeOK
<1>3. PoolTypeOK'
  BY <1>1, <1>2 DEF ExpertInv, PoolTypeOK
<1>4. \A j \in Ids : activeExecutions'[j] # activeExecutions[j] =>
        activeExecutions'[j] = NoExpert /\ activeExecutions[j] \in told \cup {NoExpert}
  BY <1>1 DEF Tracked
<1>5. timers' \subseteq timers /\ timers \ timers' \subseteq told
  BY <1>1
<1> HIDE DEF told
<1> QED BY <1>1, <1>2, <1>3, <1>4, <1>5, QuietInv

LEMMA UpdateConfigInv ==
  ASSUME ExpertAssumption, ExpertInv, NEW limit \in Limits, UpdateConfig(limit)
  PROVE  ExpertInv'
<1> DEFINE l == NewLimiter(limit)
           N == Len(limiters)
<1>1. /\ limiters' = Append(limiters, l)
      /\ UNCHANGED <<phase, id, expertPool, activeExecutions, workLogs, timers, aborted, status, stats>>
  BY DEF UpdateConfig
<1>2. limit \in Nat \ {0}
  BY DEF ExpertAssumption
<1>3. \A f \in Experts, k \in Nat : ~At(l, k, f)
  BY <1>2, NewLimiterIsFree
<1>4. l \in Limiter /\ SlotsTaken(l) /\ OncePlaced(l)
  BY <1>2, NewLimiterIsFree
<1> HIDE DEF l
<1>5. PlacesSound(limiters) /\ PhasesMatch(limiters, phase) /\ limiters \in Seq(Limiter) /\ N \in Nat
  BY LenProperties DEF ExpertInv, PlacesSound
<1>6. /\ limiters' \in Seq(Limiter) /\ Len(limiters') = N + 1 /\ limiters'[N + 1] = l
      /\ \A n \in 1..N : limiters'[n] = limiters[n]
  BY <1>1, <1>4, <1>5, AppendProperties
<1>7. \A n : n \in 1..(N + 1) <=> n \in 1..N \/ n = N + 1
  BY <1>5
<1>8. \A n \in 1..(N + 1), f \in Experts, k \in Nat :
        At(limiters'[n], k, f) => n \in 1..N /\ At(limiters[n], k, f)
  BY <1>3, <1>6, <1>7
<1>9. PlacesSound(limiters')
  <2>1. Len(limiters') # 0
    BY <1>5, <1>6
  <2>2. \A n \in 1..(N + 1) : SlotsTaken(limiters'[n]) /\ OncePlaced(limiters'[n])
    BY <1>4, <1>5, <1>6, <1>7 DEF PlacesSound
  <2>3. \A f \in Experts, n, m \in 1..(N + 1), k, j \in Nat :
          At(limiters'[n], k, f) /\ At(limiters'[m], j, f) => n = m
    BY <1>5, <1>8 DEF PlacesSound
  <2> QED BY <1>6, <2>1, <2>2, <2>3 DEF PlacesSound
<1>10. ASSUME NEW f \in Experts, NEW k \in Nat
       PROVE  (\E n \in 1..Len(limiters') : At(limiters'[n], k, f))
                <=> \E n \in 1..Len(limiters) : At(limiters[n], k, f)
  BY <1>6, <1>7, <1>8
<1>11. PhasesMatch(limiters', phase')
  <2>1. ASSUME NEW f \in Experts
        PROVE  /\ phase'[f] = "running" <=> \E n \in 1..Len(limiters') : At(limiters'[n], 0, f)
               /\ phase'[f] = "waiting" <=>
                    \E n \in 1..Len(limiters'), k \in Nat \ {0} : At(limiters'[n], k, f)
    <3>1. \A k \in Nat \ {0} : k \in Nat
      OBVIOUS
    <3>2. /\ phase[f] = "running" <=> \E n \in 1..Len(limiters) : At(limiters[n], 0, f)
          /\ phase[f] = "waiting" <=>
               \E n \in 1..Len(limiters), k \in Nat \ {0} : At(limiters[n], k, f)
      BY <1>5 DEF PhasesMatch
    <3> QED BY <1>1, <1>10, <3>1, <3>2
  <2> QED BY <2>1 DEF PhasesMatch
<1>12. PoolTypeOK' /\ IdsSound'
  BY <1>1 DEF ExpertInv, PoolTypeOK, IdsSound
<1>13. Live' = Live /\ Done' = Done /\ \A f : Twinned(f)' <=> Twinned(f)
  BY <1>1 DEF Live, Done, Twinned
<1>14. TrackingSound' /\ TotalsSound'
  <2>1. \A s : Reported(s)' = Reported(s)
    BY <1>1, <1>13 DEF Reported
  <2>2. TrackingSound'
    BY <1>1, <1>13 DEF ExpertInv, TrackingSound
  <2>3. TotalsSound'
    BY <1>1, <2>1 DEF ExpertInv, TotalsSound
  <2> QED BY <2>2, <2>3
<1> QED BY <1>9, <1>11, <1>12, <1>14 DEF ExpertInv

\* The end of an execution: it leaves its slot, its timer and its entry, and is counted
\* under a kind that its report allows.
LEMMA FinallyInv ==
  ASSUME ExpertAssumption, ExpertInv, NEW e \in Experts, NEW kind \in StatKinds,
         phase[e] = "running", Finally(e, kind),
         UNCHANGED <<id, expertPool, aborted>>,
         status' \in [Experts -> StatKinds],
         \A f \in Experts : f # e => status'[f] = status[f],
         status'[e] = "timeout" => e \in aborted,
         status'[e] = kind \/ (kind = "completed" /\ status'[e] = "timeout")
  PROVE  ExpertInv'
<1>1. /\ timers' = timers \ {e}
      /\ activeExecutions' = [activeExecutions EXCEPT ![id[e]] = NoExpert]
      /\ limiters' = [n \in DOMAIN limiters |-> Vacate(limiters[n], e)]
      /\ phase' = Phases(limiters')
      /\ workLogs' = workLogs \ {id[e]}
      /\ stats' = [stats EXCEPT ![kind] = @ + 1]
  BY DEF Finally
<1>2. /\ phase \in [Experts -> {"idle", "allocated", "waiting", "running", "done"}]
      /\ activeExecutions \in [Ids -> Experts \cup {NoExpert}]
      /\ PlacesSound(limiters) /\ PhasesMatch(limiters, phase)
      /\ id[e] \in Ids
  BY DEF ExpertInv, PoolTypeOK, IdsSound
<1>3. \E n \in 1..Len(limiters) : At(limiters[n], 0, e)
  BY <1>2 DEF PhasesMatch
<1>4. /\ PlacesSound(limiters') /\ ~Placed(limiters', e)
      /\ \A f \in Experts \ {e} : Placed(limiters', f) <=> Placed(limiters, f)
  <2> DEFINE r == [n \in DOMAIN limiters |-> Vacate(limiters[n], e)]
  <2>1. /\ PlacesSound(r) /\ ~Placed(r, e)
        /\ \A f \in Experts \ {e} : Placed(r, f) <=> Placed(limiters, f)
    BY <1>2, <1>3, VacatedPlaces
  <2> HIDE DEF r
  <2>2. limiters' = r
    BY <1>1 DEF r
  <2> QED BY <2>1, <2>2
<1>5. /\ PhasesMatch(limiters', phase')
      /\ phase' \in [Experts -> {"idle", "allocated", "waiting", "running", "done"}]
      /\ \A f \in Experts : ~Placed(limiters', f) =>
           phase'[f] = IF phase[f] \in {"waiting", "running"} THEN "done" ELSE phase[f]
  BY <1>1, <1>2, <1>4, PhasesProperties
<1>6. \A f \in Experts : /\ f \in Live <=> Placed(limiters, f)
                         /\ f \in Live' <=> Placed(limiters', f)
  BY <1>2, <1>4, <1>5, PlacedIsLive DEF Live
<1>7. /\ phase'[e] = "done" /\ e \notin Live'
      /\ \A f \in Experts : f # e => (f \in Live' <=> f \in Live)
  BY <1>4, <1>5, <1>6
<1>8. \A f \in Experts : f # e /\ f \notin Live => phase'[f] = phase[f]
  BY <1>4, <1>5, <1>6 DEF Live
<1>9. Done' = Done \cup {e} /\ e \notin Done
  <2>1. \A f \in Experts : f # e => (phase'[f] = "done" <=> phase[f] = "done")
    BY <1>7, <1>8 DEF Live
  <2> QED BY <1>7, <2>1 DEF Done
<1>10. \A f \in Experts : (phase[f] # "idle" <=> phase'[f] # "idle")
  BY <1>7, <1>8 DEF Live
<1>11. PoolTypeOK'
  BY <1>1, <1>2, <1>5 DEF ExpertInv, PoolTypeOK, StatKinds
<1>12. IdsSound'
  BY <1>10 DEF ExpertInv, IdsSound
<1>13. /\ activeExecutions'[id[e]] = NoExpert
       /\ \A j \in Ids : j # id[e] => activeExecutions'[j] = activeExecutions[j]
       /\ id' = id /\ aborted' = aborted
  BY <1>1, <1>2
<1>14. TrackingSound'
  <2>1. ASSUME NEW f \in Live' PROVE (activeExecutions[id[f]] = f \/ f \in aborted \/ Twinned(f))'
    <3>1. /\ f \in Experts /\ f # e /\ f \in Live /\ id[f] \in Ids
          /\ activeExecutions[id[f]] = f \/ f \in aborted \/ Twinned(f)
      BY <2>1, <1>7 DEF ExpertInv, TrackingSound, Live, IdsSound
    <3>2. CASE id[f] = id[e]
      <4>1. Twinned(f)'
        BY <3>1, <3>2, <1>7, <1>13 DEF Twinned
      <4> QED BY <4>1
    <3>3. CASE id[f] # id[e] /\ activeExecutions[id[f]] = f
      BY <3>1, <3>3, <1>13
    <3>4. CASE f \in aborted
      BY <3>4, <1>13
    <3>5. CASE Twinned(f)
      <4>1. Twinned(f)'
        BY <3>5, <1>10, <1>13 DEF Twinned
      <4> QED BY <4>1
    <3> QED BY <3>1, <3>2, <3>3, <3>4, <3>5
  <2>2. ASSUME NEW j \in Ids, activeExecutions'[j] # NoExpert
        PROVE  LET f == activeExecutions'[j]
               IN  f \in Live' /\ id'[f] = j /\ (f \in timers' \/ f \in aborted')
    <3> DEFINE f == activeExecutions[j]
    <3>1. j # id[e] /\ activeExecutions'[j] = f
      BY <2>2, <1>13
    <3>2. f \in Live /\ id[f] = j /\ (f \in timers \/ f \in aborted)
      BY <2>2, <3>1 DEF ExpertInv, TrackingSound
    <3>3. f \in Experts /\ f # e
      BY <3>1, <3>2 DEF Live
    <3> HIDE DEF f
    <3>4. f \in Live' /\ id'[f] = j /\ (f \in timers' \/ f \in aborted')
      BY <3>2, <3>3, <1>1, <1>7, <1>13
    <3> QED BY <3>1, <3>4
  <2>3. timers' \subseteq Live'
    BY <1>1, <1>7 DEF ExpertInv, TrackingSound, Live
  <2>4. \A j \in workLogs' : \E f \in Live' : id'[f] = j
    <3>1. \A f \in Live : f # e => f \in Live' /\ id'[f] = id[f]
      BY <1>7, <1>13 DEF Live
    <3> QED BY <3>1, <1>1 DEF ExpertInv, TrackingSound
  <2> QED BY <2>1, <2>2, <2>3, <2>4 DEF TrackingSound
<1>15. TotalsSound'
  <2> DEFINE C(s) == Cardinality(Reported(s))
             D(s) == Cardinality(Reported(s)')
             t == status'[e]
  <2>1. /\ stats \in [StatKinds -> Nat] /\ stats["failed"] = C("failed")
        /\ stats["escalated"] = C("escalated")
        /\ stats["completed"] + stats["timeout"] = C("completed") + C("timeout")
        /\ stats["timeout"] <= C("timeout")
    BY DEF ExpertInv, TotalsSound
  <2>2. \A s : IsFiniteSet(Reported(s)) /\ C(s) \in Nat
    <3>1. \A s : Reported(s) \in SUBSET Experts
      BY DEF Reported, Done
    <3> QED BY <3>1, FS_Subset, FS_CardinalityType DEF ExpertAssumption
  <2>3. \A s : Reported(s)' = IF s = t THEN Reported(s) \cup {e} ELSE Reported(s)
    <3>1. \A f \in Done : f # e /\ status'[f] = status[f]
      BY <1>9 DEF Done
    <3> QED BY <1>9, <3>1 DEF Reported
  <2>4. \A s : e \notin Reported(s)
    BY <1>9 DEF Reported
  <2>5. \A s : D(s) = IF s = t THEN C(s) + 1 ELSE C(s)
    BY <2>2, <2>3, <2>4, FS_AddElement
  <2>6. /\ stats' \in [StatKinds -> Nat]
        /\ stats'[kind] = stats[kind] + 1
        /\ \A s \in StatKinds : s # kind => stats'[s] = stats[s]
    BY <2>1, <1>1
  <2>7. /\ stats["failed"] \in Nat /\ stats["escalated"] \in Nat
        /\ stats["completed"] \in Nat /\ stats["timeout"] \in Nat
        /\ C("failed") \in Nat /\ C("escalated") \in Nat
        /\ C("completed") \in Nat /\ C("timeout") \in Nat
    BY <2>1, <2>2 DEF StatKinds
  <2> HIDE DEF C, D, t
  <2>8. /\ stats'["failed"] = D("failed") /\ stats'["escalated"] = D("escalated")
        /\ stats'["completed"] + stats'["timeout"] = D("completed") + D("timeout")
        /\ stats'["timeout"] <= D("timeout")
    <3>1. t = kind \/ (kind = "completed" /\ t = "timeout")
      BY DEF t
    <3>2. CASE kind = "failed"
      BY <3>1, <3>2, <2>1, <2>5, <2>6, <2>7 DEF StatKinds
    <3>3. CASE kind = "escalated"
      BY <3>1, <3>3, <2>1, <2>5, <2>6, <2>7 DEF StatKinds
    <3>4. CASE kind = "timeout"
      BY <3>1, <3>4, <2>1, <2>5, <2>6, <2>7 DEF StatKinds
    <3>5. CASE kind = "completed" /\ t = "completed"
      BY <3>1, <3>5, <2>1, <2>5, <2>6, <2>7 DEF StatKinds
    <3>6. CASE kind = "completed" /\ t = "timeout"
      BY <3>1, <3>6, <2>1, <2>5, <2>6, <2>7 DEF StatKinds
    <3> QED BY <3>1, <3>2, <3>3, <3>4, <3>5, <3>6 DEF StatKinds
  <2>9. \A f \in Experts : status'[f] = "timeout" => f \in aborted'
    BY <1>13 DEF ExpertInv, TotalsSound
  <2>10. \A f \in Experts : phase'[f] # "done" => status'[f] \in {"completed", "timeout"}
    <3>1. \A f \in Experts : phase'[f] # "done" => f # e /\ phase[f] # "done"
      BY <1>7, <1>9 DEF Done
    <3> QED BY <3>1 DEF ExpertInv, TotalsSound
  <2> QED BY <2>6, <2>8, <2>9, <2>10 DEF TotalsSound, D
<1> QED BY <1>4, <1>5, <1>11, <1>12, <1>14, <1>15 DEF ExpertInv

LEMMA ResolveInv ==
  ASSUME ExpertAssumption, ExpertInv, NEW e \in Experts, FactoryResolves(e)
  PROVE  ExpertInv'
<1>1. /\ phase[e] = "running" /\ Finally(e, "completed")
      /\ UNCHANGED <<id, expertPool, aborted, status, updates>>
  BY DEF FactoryResolves
<1>2. status \in [Experts -> StatKinds] /\ "completed" \in StatKinds
  BY DEF ExpertInv, PoolTypeOK, StatKinds
<1>3. /\ status[e] \in {"completed", "timeout"}
      /\ status[e] = "timeout" => e \in aborted
  BY <1>1 DEF ExpertInv, TotalsSound
<1>4. status' = status
  BY <1>1
<1> QED BY <1>1, <1>2, <1>3, <1>4, FinallyInv

LEMMA RejectsInv ==
  ASSUME ExpertAssumption, ExpertInv, NEW e \in Experts, NEW b \in BOOLEAN, FactoryRejects(e, b)
  PROVE  ExpertInv'
<1> DEFINE kind == Outcome(e, b)
<1>1. /\ phase[e] = "running" /\ Finally(e, kind)
      /\ status' = [status EXCEPT ![e] = kind]
      /\ UNCHANGED <<id, expertPool, aborted, updates>>
  BY DEF FactoryRejects
<1>2. kind \in StatKinds /\ (kind = "timeout" => e \in aborted)
  BY DEF Outcome, StatKinds
<1> HIDE DEF kind
<1>3. status \in [Experts -> StatKinds]
  BY DEF ExpertInv, PoolTypeOK, StatKinds
<1>4. /\ status' \in [Experts -> StatKinds] /\ status'[e] = kind
      /\ \A f \in Experts : f # e => status'[f] = status[f]
  BY <1>1, <1>2, <1>3
<1> QED BY <1>1, <1>2, <1>4, FinallyInv

LEMMA ExpertInductive ==
  ASSUME ExpertAssumption
  PROVE  ExpertInv /\ [PoolNext]_expertVars => ExpertInv'
<1> SUFFICES ASSUME ExpertInv, [PoolNext]_expertVars PROVE ExpertInv'
  OBVIOUS
<1>1. CASE UNCHANGED expertVars
  <2>1. /\ UNCHANGED <<phase, id, limiters, stats, aborted, timers, activeExecutions, workLogs, status>>
        /\ PoolTypeOK'
    BY <1>1 DEF expertVars, ExpertInv, PoolTypeOK
  <2>2. {} \in SUBSET Experts /\ aborted' = aborted \cup {}
    BY <2>1
  <2> QED BY <2>1, <2>2, QuietInv
<1> QED BY <1>1, AllocateInv, ExecuteInv, TimeoutInv, ResolveInv, RejectsInv, ReleaseInv, AbortInv,
           UpdateConfigInv DEF PoolNext

LEMMA BooksOfPool == ExpertAssumption /\ ExpertInv => PoolBooksAgree
<1> SUFFICES ASSUME ExpertAssumption, ExpertInv PROVE PoolBooksAgree
  OBVIOUS
<1>1. ExecutionsAreTracked
  <2>1. \A e \in Live : Twinned(e) => SharesId(e)
    BY DEF Twinned, SharesId
  <2>2. \A i \in workLogs : i \in {id[e] : e \in Live}
    BY DEF ExpertInv, TrackingSound
  <2> QED BY <2>1, <2>2 DEF ExpertInv, TrackingSound, ExecutionsAreTracked, Tracked
<1>2. OutcomesAddUp
  <2>1. \A s : Cardinality({e \in Done : status[e] = s}) = Cardinality(Reported(s))
    BY DEF Reported
  <2>2. {e \in Done : status[e] = "timeout"} \subseteq aborted
    BY DEF ExpertInv, TotalsSound, Done
  <2> QED BY <2>1, <2>2 DEF ExpertInv, TotalsSound, OutcomesAddUp
<1>3. AdmissionIsExact
  <2> DEFINE C == Cardinality(Experts)
  <2>1. /\ limiters \in Seq(Limiter) /\ DOMAIN limiters = 1..Len(limiters)
        /\ \A n \in 1..Len(limiters) :
             limiters[n] \in Limiter /\ SlotsTaken(limiters[n]) /\ OncePlaced(limiters[n])
        /\ PlacesSound(limiters) /\ PhasesMatch(limiters, phase)
    BY LenProperties, ElementOfSeq DEF ExpertInv, PlacesSound
  <2>2. \A f \in Experts, n, m \in 1..Len(limiters), k, j \in Nat :
          At(limiters[n], k, f) /\ At(limiters[m], j, f) => n = m /\ k = j
    BY <2>1 DEF PlacesSound, OncePlaced
  <2>3. IsFiniteSet(Experts) /\ C \in Nat
    BY FS_CardinalityType DEF ExpertAssumption
  <2>4. ASSUME NEW n \in 1..Len(limiters)
        PROVE  Len(limiters[n].queue) <= C /\ DOMAIN limiters[n].queue = 1..Len(limiters[n].queue)
    <3> DEFINE q == limiters[n].queue
    <3>1. q \in Seq(Experts) /\ Len(q) \in Nat /\ DOMAIN q = 1..Len(q)
          /\ \A k \in 1..Len(q) : q[k] \in Experts
      BY <2>1, LimiterShape
    <3>2. \A k, j \in 1..Len(q) : q[k] = q[j] => k = j
      <4> SUFFICES ASSUME NEW k \in 1..Len(q), NEW j \in 1..Len(q), q[k] = q[j] PROVE k = j
        OBVIOUS
      <4>1. k \in Nat /\ k # 0 /\ j \in Nat /\ j # 0
        BY <3>1
      <4>2. At(limiters[n], k, q[k]) /\ At(limiters[n], j, q[k]) /\ q[k] \in Experts
        BY <3>1, <4>1 DEF At
      <4> QED BY <4>1, <4>2, <2>2
    <3> HIDE DEF q
    <3>3. q \in [1..Len(q) -> Experts]
      BY <3>1
    <3>4. q \in Injection(1..Len(q), Experts)
      BY <3>2, <3>3, Fun_IsInj
    <3>5. ASSUME NEW m \in Nat PROVE Cardinality(1..m) = m
      BY FS_Interval
    <3>6. Cardinality(1..Len(q)) <= C
      BY <2>3, <3>4, FS_Injection
    <3>7. Cardinality(1..Len(q)) = Len(q)
      BY <3>1, <3>5
    <3>8. Len(q) <= C
      BY <3>6, <3>7
    <3> QED BY <3>1, <3>8 DEF q
  <2>5. ASSUME NEW e \in Experts
        PROVE  Cardinality({n \in DOMAIN limiters : e \in limiters[n].running})
                 + Cardinality({p \in (DOMAIN limiters) \X (1..C) :
                      p[2] \in DOMAIN limiters[p[1]].queue /\ limiters[p[1]].queue[p[2]] = e})
                 = IF e \in Live THEN 1 ELSE 0
    <3> DEFINE A == {n \in DOMAIN limiters : e \in limiters[n].running}
               B == {p \in (DOMAIN limiters) \X (1..C) :
                      p[2] \in DOMAIN limiters[p[1]].queue /\ limiters[p[1]].queue[p[2]] = e}
    <3>1. \A n : n \in A <=> n \in 1..Len(limiters) /\ At(limiters[n], 0, e)
      BY <2>1 DEF At
    <3>2. ASSUME NEW n \in 1..Len(limiters), NEW k \in Nat \ {0}
          PROVE  <<n, k>> \in B <=> At(limiters[n], k, e)
      <4>1. At(limiters[n], k, e) <=> k \in DOMAIN limiters[n].queue /\ limiters[n].queue[k] = e
        BY <2>4 DEF At
      <4>2. k \in DOMAIN limiters[n].queue => k \in 1..C
        <5>1. Len(limiters[n].queue) \in Nat /\ Len(limiters[n].queue) <= C
          BY <2>1, <2>4, LimiterShape
        <5> QED BY <5>1, <2>3, <2>4
      <4> QED BY <2>1, <4>1, <4>2
    <3>3. \A p \in B : /\ p = <<p[1], p[2]>> /\ p[1] \in 1..Len(limiters)
                       /\ p[2] \in Nat \ {0} /\ At(limiters[p[1]], p[2], e)
      <4> SUFFICES ASSUME NEW p \in B
                   PROVE  /\ p = <<p[1], p[2]>> /\ p[1] \in 1..Len(limiters)
                          /\ p[2] \in Nat \ {0} /\ At(limiters[p[1]], p[2], e)
        OBVIOUS
      <4>1. p = <<p[1], p[2]>> /\ p[1] \in 1..Len(limiters) /\ p[2] \in 1..C
        BY <2>1
      <4>2. p[2] \in Nat \ {0}
        BY <2>3, <4>1
      <4>3. <<p[1], p[2]>> \in B
        BY <4>1
      <4> HIDE DEF B
      <4> QED BY <4>1, <4>2, <4>3, <3>2
    <3> HIDE DEF A, B
    <3>4. phase[e] = "running" <=> A # {}
      BY <2>1, <3>1 DEF PhasesMatch
    <3>5. phase[e] = "waiting" <=> B # {}
      <4>1. phase[e] = "waiting" <=>
              \E n \in 1..Len(limiters), k \in Nat \ {0} : At(limiters[n], k, e)
        BY <2>1 DEF PhasesMatch
      <4>2. (\E n \in 1..Len(limiters), k \in Nat \ {0} : At(limiters[n], k, e)) => B # {}
        BY <3>2
      <4>3. ASSUME NEW p \in B
            PROVE  \E n \in 1..Len(limiters), k \in Nat \ {0} : At(limiters[n], k, e)
        BY <3>3
      <4> QED BY <4>1, <4>2, <4>3
    <3>6. \A n, m \in A : n = m
      BY <2>2, <3>1
    <3>7. \A p, r \in B : p = r
      <4> SUFFICES ASSUME NEW p \in B, NEW r \in B PROVE p = r
        OBVIOUS
      <4>1. p[1] = r[1] /\ p[2] = r[2]
        BY <2>2, <3>3
      <4> QED BY <3>3, <4>1
    <3>8. Cardinality({}) = 0 /\ \A x : Cardinality({x}) = 1
      BY FS_EmptySet, FS_Singleton
    <3>9. Cardinality(A) = IF A = {} THEN 0 ELSE 1
      <4>1. A # {} => \E n : A = {n}
        BY <3>6
      <4> QED BY <3>8, <4>1
    <3>10. Cardinality(B) = IF B = {} THEN 0 ELSE 1
      <4>1. B # {} => \E p : B = {p}
        BY <3>7
      <4> QED BY <3>8, <4>1
    <3>11. e \in Live <=> A # {} \/ B # {}
      BY <3>4, <3>5 DEF Live
    <3>12. ~(A # {} /\ B # {})
      BY <3>4, <3>5
    <3>13. Cardinality(A) + Cardinality(B) = IF e \in Live THEN 1 ELSE 0
      BY <3>9, <3>10, <3>11, <3>12
    <3> QED BY <3>13 DEF A, B
  <2>6. \A n \in DOMAIN limiters :
          LET l == limiters[n]
          IN  /\ Cardinality(l.running) <= l.limit
              /\ l.queue # <<>> => Cardinality(l.running) = l.limit
    BY <2>1 DEF SlotsTaken
  <2> QED BY <2>5, <2>6 DEF AdmissionIsExact
<1> QED BY <1>1, <1>2, <1>3 DEF PoolBooksAgree

\* Experts that time out, end, are released or aborted in any order, with ids drawn twice
\* and limits changed under them: executions, timers, logs, totals and semaphores agree
\* (expert-pool-manager.service.ts).
THEOREM PoolBooksAlwaysAgree == PoolSpec => []PoolBooksAgree
<1>1. PoolInit => ExpertInv
  BY ExpertInitInv, ExpertAssumption
<1>2. ExpertInv /\ [PoolNext]_expertVars => ExpertInv'
  BY ExpertInductive, ExpertAssumption
<1>3. ExpertInv => PoolBooksAgree
  BY BooksOfPool, ExpertAssumption
<1> QED BY <1>1, <1>2, <1>3, PTL DEF PoolSpec

-----------------------------------------------------------------------------
(***************************************************************************)
(* The services side by side: a step of one leaves the others alone.       *)
(***************************************************************************)

\* The books of the expert pool and of the plans agree with what they count and with
\* each other, in whatever order experts end, time out and are released and requests
\* coordinate, reassign and retry.
THEOREM BooksAlwaysAgree == ServicesSpec => []BooksAgree
<1>1. ServicesInit => ExpertInv /\ ManagerInv
  BY ExpertInitInv, ManagerInitInv, ExpertAssumption DEF ServicesInit
<1>2. ExpertInv /\ ManagerInv /\ [ServicesNext]_servicesVars => ExpertInv' /\ ManagerInv'
  <2>1. [ServicesNext]_servicesVars => [PoolNext]_expertVars /\ [ManagerNext]_managerVars
    BY DEF ServicesNext, servicesVars
  <2> QED BY <2>1, ExpertInductive, ManagerInductive, ExpertAssumption, ManagerAssumption
<1>3. ExpertInv /\ ManagerInv => BooksAgree
  BY BooksOfPool, BooksOfPlan, ExpertAssumption DEF BooksAgree
<1> QED BY <1>1, <1>2, <1>3, PTL DEF ServicesSpec

=============================================================================
