--------------------------- MODULE HumanInTheLoop ---------------------------
(***************************************************************************)
(* Requests of agents to a human (assistant-worker, hitl.service.ts):      *)
(* create, respond, time out, cancel, clear and wait.                      *)
(*                                                                         *)
(* createRequest records the request, awaits the notification of an        *)
(* escalation, and arms the timer only then.  No timer is ever cleared.    *)
(* The list of pending ids of an agent is a set: an id is in it once.      *)
(***************************************************************************)
EXTENDS Naturals

CONSTANTS
  Requests,  \* request ids, each is drawn once
  Askers     \* agents

VARIABLES
  requests,         \* id -> absent, or the status of the request
  owner,            \* id -> the agent that asked
  pendingRequests,  \* agent -> the ids on its list
  timed,            \* the requests made with a timeout
  notifying,        \* the createRequest calls that await the notification
  armed,            \* the requests whose timer is armed
  waiting           \* id -> none, waiting, resolved, rejected: its waiter

hitlVars == <<requests, owner, pendingRequests, timed, notifying, armed, waiting>>

HitlInit ==
  /\ requests = [r \in Requests |-> "absent"]
  /\ owner \in [Requests -> Askers]
  /\ pendingRequests = [a \in Askers |-> {}]
  /\ timed \in SUBSET Requests
  /\ notifying = {} /\ armed = {}
  /\ waiting = [r \in Requests |-> "none"]

\* An id is new when nothing has been made of it, cleared or not.
New(r) == requests[r] = "absent" /\ waiting[r] = "none" /\ r \notin notifying \cup armed

CreateRequest(r, escalation) ==
  /\ New(r)
  /\ requests' = [requests EXCEPT ![r] = "pending"]
  /\ pendingRequests' = [pendingRequests EXCEPT ![owner[r]] = @ \cup {r}]
  /\ notifying' = IF escalation THEN notifying \cup {r} ELSE notifying
  /\ armed' = IF ~escalation /\ r \in timed THEN armed \cup {r} ELSE armed
  /\ UNCHANGED <<owner, timed, waiting>>

\* The notification is sent, or fails: the call goes on either way.
NotificationEnds(r) ==
  /\ r \in notifying
  /\ notifying' = notifying \ {r}
  /\ armed' = IF r \in timed THEN armed \cup {r} ELSE armed
  /\ UNCHANGED <<requests, owner, pendingRequests, timed, waiting>>

\* Mutated form: the id stays on the list.
SettleListed(r, status) ==
  /\ requests' = [requests EXCEPT ![r] = status]
  /\ UNCHANGED pendingRequests

Settle(r, status) ==
  /\ requests' = [requests EXCEPT ![r] = status]
  /\ pendingRequests' = [pendingRequests EXCEPT ![owner[r]] = @ \ {r}]

RespondToRequest(r, approved) ==
  /\ requests[r] = "pending"
  /\ Settle(r, IF approved THEN "completed" ELSE "rejected")
  /\ UNCHANGED <<owner, timed, notifying, armed, waiting>>

CancelRequest(r) ==
  /\ requests[r] = "pending"
  /\ Settle(r, "rejected")
  /\ UNCHANGED <<owner, timed, notifying, armed, waiting>>

\* Mutated form: the timer does not ask whether the request was answered.
HandleTimeoutOfAny(r) ==
  /\ r \in armed
  /\ armed' = armed \ {r}
  /\ IF requests[r] # "absent" THEN Settle(r, "timeout")
     ELSE UNCHANGED <<requests, pendingRequests>>
  /\ UNCHANGED <<owner, timed, notifying, waiting>>

HandleTimeout(r) ==
  /\ r \in armed
  /\ armed' = armed \ {r}
  /\ IF requests[r] = "pending" THEN Settle(r, "timeout")
     ELSE UNCHANGED <<requests, pendingRequests>>
  /\ UNCHANGED <<owner, timed, notifying, waiting>>

ClearAgentRequests(a) ==
  /\ requests' = [r \in Requests |-> IF owner[r] = a THEN "absent" ELSE requests[r]]
  /\ pendingRequests' = [pendingRequests EXCEPT ![a] = {}]
  /\ UNCHANGED <<owner, timed, notifying, armed, waiting>>

WaitForResponse(r) ==
  /\ requests[r] # "absent" /\ waiting[r] = "none"
  /\ waiting' = [waiting EXCEPT ![r] = "waiting"]
  /\ UNCHANGED <<requests, owner, pendingRequests, timed, notifying, armed>>

\* Mutated form: a request that timed out is polled for ever.
PollUntilAnswered(r) ==
  /\ waiting[r] = "waiting" /\ requests[r] \notin {"pending", "timeout"}
  /\ waiting' = [waiting EXCEPT ![r] =
                   IF requests[r] \in {"completed", "rejected"} THEN "resolved" ELSE "rejected"]
  /\ UNCHANGED <<requests, owner, pendingRequests, timed, notifying, armed>>

\* A poll of a settled or cleared request.
Poll(r) ==
  /\ waiting[r] = "waiting" /\ requests[r] # "pending"
  /\ waiting' = [waiting EXCEPT ![r] =
                   IF requests[r] \in {"completed", "rejected"} THEN "resolved" ELSE "rejected"]
  /\ UNCHANGED <<requests, owner, pendingRequests, timed, notifying, armed>>

\* A poll of a pending request after the longest wait its waiter allows.
ExceedWait(r) ==
  /\ waiting[r] = "waiting" /\ requests[r] = "pending"
  /\ waiting' = [waiting EXCEPT ![r] = "rejected"]
  /\ UNCHANGED <<requests, owner, pendingRequests, timed, notifying, armed>>

HitlNext ==
  \/ \E r \in Requests, b \in BOOLEAN : CreateRequest(r, b) \/ RespondToRequest(r, b)
  \/ \E r \in Requests : NotificationEnds(r) \/ CancelRequest(r) \/ HandleTimeout(r)
  \/ \E r \in Requests : WaitForResponse(r) \/ Poll(r) \/ ExceedWait(r)
  \/ \E a \in Askers : ClearAgentRequests(a)

\* Armed timers fire and the polling interval ticks.
HitlFairness == \A r \in Requests : WF_hitlVars(HandleTimeout(r)) /\ WF_hitlVars(Poll(r))

HitlSpec == HitlInit /\ [][HitlNext]_hitlVars /\ HitlFairness

-----------------------------------------------------------------------------
HitlTypeOK ==
  /\ requests \in [Requests -> {"absent", "pending", "completed", "rejected", "timeout"}]
  /\ owner \in [Requests -> Askers]
  /\ pendingRequests \in [Askers -> SUBSET Requests]
  /\ timed \subseteq Requests /\ notifying \subseteq Requests /\ armed \subseteq Requests
  /\ waiting \in [Requests -> {"none", "waiting", "resolved", "rejected"}]

\* The two maps agree: the list of an agent is exactly its pending requests,
\* whatever order answers, timers, cancellations and clearing come in; and a
\* pending request with a timeout has its timer or is about to get it.
PendingAreListed ==
  /\ HitlTypeOK
  /\ \A a \in Askers : pendingRequests[a] = {r \in Requests : owner[r] = a /\ requests[r] = "pending"}
  /\ \A r \in timed : requests[r] = "pending" => r \in armed \cup notifying

\* An answer stands: no timer, second answer or cancellation that comes late
\* changes it, and a waiter is told "answered" of answered requests only.
AnswersStand ==
  [][\A r \in Requests :
       /\ requests[r] \notin {"absent", "pending"} => requests'[r] \in {requests[r], "absent"}
       /\ waiting[r] = "waiting" /\ waiting'[r] = "resolved"
            => requests'[r] \in {"completed", "rejected"}]_hitlVars

\* Whoever waits for a request with a timeout hears of it, if the notification
\* it was announced with comes to an end: the timer is armed behind it.
WaitersHear ==
  \A r \in Requests :
    WF_hitlVars(NotificationEnds(r))
      => (r \in timed /\ waiting[r] = "waiting" ~> waiting[r] # "waiting")
=============================================================================
