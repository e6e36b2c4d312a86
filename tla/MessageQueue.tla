---------------------------- MODULE MessageQueue ----------------------------
(***************************************************************************)
(* The in-memory message queue of the collective agents                    *)
(* (assistant-worker, message-queue.service.ts) with its only consumers,   *)
(* the project-manager (PM) loops of the collectives (collective-agent.ts).*)
(*                                                                         *)
(* The service is one singleton: every collective shares its maps, and     *)
(* every PM loop reads the inbox named 'pm_agent'.  Each handler runs to   *)
(* completion on the event loop, so each is one action.  Contents are left *)
(* out; a date is abstracted to whether it has passed.                     *)
(***************************************************************************)
EXTENDS Naturals, FiniteSets, Sequences, SequencesExt, Subsequences

CONSTANTS
  Messages,      \* message identifiers, a bound on the messages ever sent
  Collectives,   \* collectives sharing the service
  Agents,        \* sub-agents and the user
  PM,            \* the literal 'pm_agent'
  Priorities,    \* ranks of MessagePriority in use, 0 is CRITICAL
  MaxRetry       \* MAX_RETRY_ATTEMPTS

ASSUME QueueAssumption ==
  /\ IsFiniteSet(Messages)
  /\ Collectives # {}
  /\ PM \notin Agents
  /\ Priorities \subseteq 0..4 /\ 0 \in Priorities
  /\ MaxRetry \in Nat

VARIABLES
  message,        \* the messages map, with "unsent" for unused identifiers
  messageQueues,  \* inbox -> identifiers, sorted by priority
  timers,         \* messages whose setTimeout has not fired or been cleared
  overdue,        \* messages whose expiresAt has passed
  paused          \* collective -> the PM loop returns at once

queueVars == <<message, messageQueues, timers, overdue, paused>>

Inboxes == Agents \cup {PM}
Statuses == {"unsent", "pending", "in_progress", "completed", "failed", "expired"}
MessageRecords ==
  [status : Statuses, retryCount : Nat, priority : Priorities,
   collective : Collectives, source : Inboxes, target : Inboxes]

QueueTypeOK ==
  /\ message \in [Messages -> MessageRecords]
  /\ messageQueues \in [Inboxes -> Seq(Messages)]
  /\ timers \in SUBSET Messages
  /\ overdue \in SUBSET Messages
  /\ paused \in [Collectives -> BOOLEAN]

Unsent == {m \in Messages : message[m].status = "unsent"}
Queued(m, a) == \E i \in 1..Len(messageQueues[a]) : messageQueues[a][i] = m

QueueInit ==
  /\ message = [m \in Messages |->
       [status |-> "unsent", retryCount |-> 0, priority |-> 0,
        collective |-> CHOOSE c \in Collectives : TRUE, source |-> PM, target |-> PM]]
  /\ messageQueues = [a \in Inboxes |-> <<>>]
  /\ timers = {}
  /\ overdue = {}
  /\ paused = [c \in Collectives |-> FALSE]

-----------------------------------------------------------------------------
(***************************************************************************)
(* Helpers of the service.                                                 *)
(***************************************************************************)

\* Mutated form: the message is pushed and the queue is not sorted.
PushOnly(q, m, r) == Append(q, m)

\* push, then the stable sort by rank: after the entries of rank at most r.
Enqueue(q, m, r) ==
  InsertAt(q, 1 + Cardinality({i \in 1..Len(q) : message[q[i]].priority <= r}), m)

\* splice each message of S out of its queue.
Dequeue(q, S) == Without(q, S)

\* createCollectiveMessage.
NewMessage(c, from, to, p) ==
  [status |-> "pending", retryCount |-> 0, priority |-> p,
   collective |-> c, source |-> from, target |-> to]

\* sendMessage for each target of the function id: store, queue, start timer.
Post(c, from, id, p) ==
  LET T  == DOMAIN id
      Of == [m \in {id[t] : t \in T} |-> CHOOSE t \in T : id[t] = m]
  IN  /\ message' = [m \in Messages |-> IF m \in DOMAIN Of
                                          THEN NewMessage(c, from, Of[m], p)
                                          ELSE message[m]]
      /\ messageQueues' = [a \in Inboxes |-> IF a \in T
                                               THEN Enqueue(messageQueues[a], id[a], p)
                                               ELSE messageQueues[a]]
      /\ timers' = timers \cup DOMAIN Of

\* What calls of getNextMessage(a) return, in that order.
Pending(a) ==
  LET q == messageQueues[a]
  IN  EntriesAt(q, {i \in DOMAIN q : message[q[i]].status = "pending"})

-----------------------------------------------------------------------------
(***************************************************************************)
(* Producers.                                                              *)
(***************************************************************************)

SendMessage(c, from, to, p) ==
  /\ \E m \in Unsent : Post(c, from, [t \in {to} |-> m], p)
  /\ UNCHANGED <<overdue, paused>>

\* broadcastMessage: to everybody seen as source or target in the collective.
Known(c) ==
  LET sent == {m \in Messages : message[m].status # "unsent" /\ message[m].collective = c}
  IN  {message[m].source : m \in sent} \cup {message[m].target : m \in sent}

BroadcastMessage(c, from, p) ==
  LET T == Known(c) \ {from}
  IN  /\ T # {}
      /\ Cardinality(T) <= Cardinality(Unsent)
      /\ \E id \in [T -> Unsent] :
           /\ \A s, t \in T : id[s] = id[t] => s = t
           /\ Post(c, from, id, p)
      /\ UNCHANGED <<overdue, paused>>

-----------------------------------------------------------------------------
(***************************************************************************)
(* The consumer.                                                           *)
(***************************************************************************)

\* Mutated form: the queue entry of a handled message is left behind.
TakeKeepsEntry(a, S, L) ==
  /\ message' = [m \in Messages |->
       IF m \in S THEN [message[m] EXCEPT !.status = "completed"]
       ELSE IF m \in L THEN [message[m] EXCEPT !.status = "in_progress"]
       ELSE message[m]]
  /\ timers' = timers \ S
  /\ UNCHANGED messageQueues

\* markDelivered of the messages in S, in_progress for those in L.
Take(a, S, L) ==
  /\ message' = [m \in Messages |->
       IF m \in S THEN [message[m] EXCEPT !.status = "completed"]
       ELSE IF m \in L THEN [message[m] EXCEPT !.status = "in_progress"]
       ELSE message[m]]
  /\ messageQueues' = [messageQueues EXCEPT ![a] = Dequeue(@, S)]
  /\ timers' = timers \ S

\* runPMMainLoop of collective c: handle the first pending message, hand out
\* tasks, take the next one and handle it unless it is CRITICAL.  Handing out
\* throws when tasks wait and no sub-agent is active; then there is no second.
PMMainLoop(c) ==
  LET next == Pending(PM)
      second == IF Len(next) > 1 THEN {next[2]} ELSE {}
      normal == {m \in second : message[m].priority # 0}
  IN  /\ ~paused[c]
      /\ next # <<>>
      /\ \/ Take(PM, {next[1]} \cup normal, second \ normal)
         \/ Take(PM, {next[1]}, {})
      /\ UNCHANGED <<overdue, paused>>

Pause(c) ==
  /\ ~paused[c]
  /\ paused' = [paused EXCEPT ![c] = TRUE]
  /\ UNCHANGED <<message, messageQueues, timers, overdue>>

Resume(c) ==
  /\ paused[c]
  /\ paused' = [paused EXCEPT ![c] = FALSE]
  /\ UNCHANGED <<message, messageQueues, timers, overdue>>

-----------------------------------------------------------------------------
(***************************************************************************)
(* Timers.                                                                 *)
(***************************************************************************)

\* expiresAt passes.
Overdue(m) ==
  /\ message[m].status # "unsent" /\ m \notin overdue
  /\ overdue' = overdue \cup {m}
  /\ UNCHANGED <<message, messageQueues, timers, paused>>

\* Mutated form: a retry makes the message more urgent.
RetryMessageUrgently(m) ==
  LET a == message[m].target
  IN  /\ message' = [message EXCEPT ![m].retryCount = @ + 1, ![m].priority = @ - 1]
      /\ messageQueues' = IF Queued(m, a) THEN messageQueues
                          ELSE [messageQueues EXCEPT ![a] = Enqueue(@, m, message[m].priority)]

\* Mutated form: the message is queued again whether or not it is there.
RetryMessageTwice(m) ==
  LET a == message[m].target
  IN  /\ message' = [message EXCEPT ![m].retryCount = @ + 1]
      /\ messageQueues' = [messageQueues EXCEPT ![a] = Enqueue(@, m, message[m].priority)]

\* retryMessage of a pending message, below the limit: it is pending already
\* and only returns to the queue when it is missing there.
RetryMessage(m) ==
  LET a == message[m].target
  IN  /\ message' = [message EXCEPT ![m].retryCount = @ + 1]
      /\ messageQueues' = IF Queued(m, a) THEN messageQueues
                          ELSE [messageQueues EXCEPT ![a] = Enqueue(@, m, message[m].priority)]

\* A pending message leaves its queue for good.
Expire(S) ==
  /\ message' = [m \in Messages |-> IF m \in S THEN [message[m] EXCEPT !.status = "expired"]
                                    ELSE message[m]]
  /\ messageQueues' = [a \in Inboxes |-> Dequeue(messageQueues[a], S)]

\* handleTimeout: the one-shot timer of the message; nothing arms it again.
HandleTimeout(m) ==
  /\ m \in timers /\ m \in overdue
  /\ timers' = timers \ {m}
  /\ IF message[m].status # "pending" THEN UNCHANGED <<message, messageQueues>>
     ELSE IF message[m].retryCount < MaxRetry THEN RetryMessage(m)
     ELSE Expire({m})
  /\ UNCHANGED <<overdue, paused>>

\* Mutated form: the status is not looked at.
LapsedAtAll == overdue

\* The messages the periodic check expires.
Lapsed == {m \in overdue : message[m].status = "pending"}

\* Mutated form: only messages whose own timer is still armed are expired.
CheckArmedTimeouts ==
  /\ Lapsed \cap timers # {}
  /\ Expire(Lapsed \cap timers)
  /\ timers' = timers \ Lapsed
  /\ UNCHANGED <<overdue, paused>>

\* startTimeoutCheck and checkMessageTimeouts, over all collectives.
CheckMessageTimeouts ==
  /\ Lapsed # {}
  /\ Expire(Lapsed)
  /\ timers' = timers \ Lapsed
  /\ UNCHANGED <<overdue, paused>>

-----------------------------------------------------------------------------
QueueNext ==
  \/ \E c \in Collectives, from, to \in Inboxes, p \in Priorities :
       SendMessage(c, from, to, p)
  \/ \E c \in Collectives, from \in Inboxes, p \in Priorities : BroadcastMessage(c, from, p)
  \/ \E c \in Collectives : PMMainLoop(c) \/ Pause(c) \/ Resume(c)
  \/ \E m \in Messages : Overdue(m) \/ HandleTimeout(m)
  \/ CheckMessageTimeouts

\* Intervals and timers fire; setInterval runs a PM loop that stays unpaused.
QueueFairness ==
  /\ \A m \in Messages : WF_queueVars(Overdue(m)) /\ WF_queueVars(HandleTimeout(m))
  /\ WF_queueVars(CheckMessageTimeouts)
  /\ \A c \in Collectives : WF_queueVars(PMMainLoop(c))

QueueSafetySpec == QueueInit /\ [][QueueNext]_queueVars
QueueSpec == QueueSafetySpec /\ QueueFairness

-----------------------------------------------------------------------------
(***************************************************************************)
(* Properties.                                                             *)
(***************************************************************************)

\* A pending message is exactly once in the inbox of its target, however its
\* timer, the periodic check and the PM loops interleave: it can be taken,
\* and taken only once.
PendingQueuedOnce ==
  \A m \in Messages : message[m].status = "pending" =>
    \E i \in 1..Len(messageQueues[message[m].target]) :
      \A j \in 1..Len(messageQueues[message[m].target]) :
        messageQueues[message[m].target][j] = m <=> j = i

\* No inbox holds a message that is finished or addressed to someone else.
QueuedIsLive ==
  \A a \in Inboxes : \A i \in 1..Len(messageQueues[a]) :
    /\ message[messageQueues[a][i]].status \in {"pending", "in_progress"}
    /\ message[messageQueues[a][i]].target = a

\* "Get next message for an agent (highest priority first)": no inbox ever
\* holds a message behind one of lower priority.
HighestPriorityFirst ==
  \A a \in Inboxes : \A i, j \in 1..Len(messageQueues[a]) :
    i < j => message[messageQueues[a][i]].priority <= message[messageQueues[a][j]].priority

\* A finished message stays finished: no late timer or check reopens it.
FinishedForGood ==
  [][\A m \in Messages : message[m].status \in {"completed", "expired"} =>
       message'[m].status = message[m].status]_queueVars

\* A pending message is taken by a PM loop or expires, even when nobody ever
\* reads the inbox it is in.
PendingSettles ==
  \A m \in Messages : message[m].status = "pending" ~> message[m].status # "pending"
\* The inboxes are exact: what is pending is in its inbox once, nothing else but
\* messages in progress is in any, and the most urgent come first.
InboxesAreExact == QueueTypeOK /\ PendingQueuedOnce /\ QueuedIsLive /\ HighestPriorityFirst

=============================================================================
