--------------------------- MODULE ResumeRequests ---------------------------
(***************************************************************************)
(* Requests of the resume worker to the language service over Kafka        *)
(* (bullet-evaluator.service.ts, job-posting.service.ts and the consumer   *)
(* of the service, kafka_consumer.py): a request is sent under a           *)
(* correlation id, its caller is kept in pendingRequests (pendingCalls     *)
(* here) with a timer, and an answer, a failed send or the timer settles   *)
(* the caller.                                                             *)
(*                                                                         *)
(* The service answers with a result or, when the evaluation raises, not   *)
(* at all.  The result for a posting has no rawText, so that the handler   *)
(* throws when it computes the checksum: no posting is ever stored, the    *)
(* look-up that comes before a request finds none, and a posting has       *)
(* nothing to be updated or deleted.                                       *)
(*                                                                         *)
(* External: the broker may lose a message, report a send as failed that   *)
(* went through, delay an answer past the timer and repeat it; an answer   *)
(* to a request that is no longer pending does nothing, so a repeated one  *)
(* is a stuttering step.                                                   *)
(***************************************************************************)
EXTENDS Naturals, FiniteSets

CONSTANT Calls  \* calls, each with its own correlation id

VARIABLES
  asks,             \* call -> what it asks for
  stage,            \* call -> where its caller is
  pendingCalls,     \* the calls with an entry
  armedTimers,      \* the calls whose timer is armed
  sending,          \* the calls whose sendMessage is under way
  answers           \* the calls whose answer is on the topic

requestVars == <<asks, stage, pendingCalls, armedTimers, sending, answers>>

\* A posting, a bullet, or a bullet with fixes (the default) or the LLM, which the
\* consumer cannot evaluate: it calls generate_fixes, which the evaluator does not
\* have, and passes use_llm in the place of the keywords.
Asks == {"posting", "bullet", "bullet with fixes"}
IsPosting(c) == asks[c] = "posting"
Raises(c) == asks[c] = "bullet with fixes"
Settled(c) == stage[c] \in {"resolved", "rejected", "failed"}

RequestsInit ==
  /\ asks \in [Calls -> Asks]
  /\ stage = [c \in Calls |-> "idle"]
  /\ pendingCalls = {} /\ armedTimers = {} /\ sending = {} /\ answers = {}

\* A promise settles once: later calls of resolve and reject do nothing.
SettleCaller(c, outcome) ==
  stage' = IF Settled(c) THEN stage ELSE [stage EXCEPT ![c] = outcome]

\* extractFromText asks the store first; evaluateBullet goes on to the broker.
Call(c) ==
  /\ stage[c] = "idle"
  /\ stage' = [stage EXCEPT ![c] = IF IsPosting(c) THEN "checking" ELSE "connecting"]
  /\ UNCHANGED <<asks, pendingCalls, armedTimers, sending, answers>>

CheckExisting(c) ==
  /\ stage[c] = "checking"
  /\ stage' = [stage EXCEPT ![c] = "connecting"]
  /\ UNCHANGED <<asks, pendingCalls, armedTimers, sending, answers>>

\* The store throws: the call rejects before anything is sent.
CheckFails(c) ==
  /\ stage[c] = "checking"
  /\ stage' = [stage EXCEPT ![c] = "failed"]
  /\ UNCHANGED <<asks, pendingCalls, armedTimers, sending, answers>>

\* Mutated form: no timer.
SendUntimed(c) ==
  /\ stage[c] = "connecting"
  /\ stage' = [stage EXCEPT ![c] = "waiting"]
  /\ pendingCalls' = pendingCalls \cup {c}
  /\ sending' = sending \cup {c}
  /\ UNCHANGED <<asks, armedTimers, answers>>

\* The connection is there, or connect() has tried; it never throws.
Send(c) ==
  /\ stage[c] = "connecting"
  /\ stage' = [stage EXCEPT ![c] = "waiting"]
  /\ armedTimers' = armedTimers \cup {c}
  /\ pendingCalls' = pendingCalls \cup {c}
  /\ sending' = sending \cup {c}
  /\ UNCHANGED <<asks, answers>>

SendSucceeds(c) ==
  /\ c \in sending
  /\ sending' = sending \ {c}
  /\ UNCHANGED <<asks, stage, pendingCalls, armedTimers, answers>>

\* Mutated form: the caller does not hear of it.
SendFailsSilently(c) ==
  /\ c \in sending
  /\ sending' = sending \ {c}
  /\ armedTimers' = armedTimers \ {c}
  /\ pendingCalls' = pendingCalls \ {c}
  /\ UNCHANGED <<asks, stage, answers>>

SendFails(c) ==
  /\ c \in sending
  /\ sending' = sending \ {c}
  /\ armedTimers' = armedTimers \ {c}
  /\ pendingCalls' = pendingCalls \ {c}
  /\ SettleCaller(c, "rejected")
  /\ UNCHANGED <<asks, answers>>

Timeout(c) ==
  /\ c \in armedTimers
  /\ armedTimers' = armedTimers \ {c}
  /\ pendingCalls' = pendingCalls \ {c}
  /\ SettleCaller(c, "rejected")
  /\ UNCHANGED <<asks, sending, answers>>

\* _process_message of the consumer: the result, with no error beside it, also
\* for a text that is missing; an exception is logged and nothing is sent.
Answer(c) ==
  /\ stage[c] \in {"waiting", "rejected"} /\ c \notin answers
  /\ ~Raises(c)
  /\ answers' = answers \cup {c}
  /\ UNCHANGED <<asks, stage, pendingCalls, armedTimers, sending>>

\* handleResponse drops the timer and the entry first.  The caller of a bullet
\* gets the result.  For a posting the checksum of no text throws, and the catch
\* finds no entry to reject.
HandleResponse(c) ==
  /\ c \in answers /\ c \in pendingCalls
  /\ armedTimers' = armedTimers \ {c}
  /\ pendingCalls' = pendingCalls \ {c}
  /\ IF IsPosting(c) THEN UNCHANGED stage ELSE SettleCaller(c, "resolved")
  /\ UNCHANGED <<asks, sending, answers>>

RequestsNext ==
  \E c \in Calls :
    \/ Call(c) \/ CheckExisting(c) \/ CheckFails(c)
    \/ Send(c) \/ SendSucceeds(c) \/ SendFails(c) \/ Timeout(c)
    \/ Answer(c) \/ HandleResponse(c)

\* The store and the broker return, armed timers fire.  Answers may never come.
RequestsFairness ==
  \A c \in Calls :
    /\ WF_requestVars(CheckExisting(c) \/ CheckFails(c))
    /\ WF_requestVars(Send(c))
    /\ WF_requestVars(Timeout(c))

RequestsSpec == RequestsInit /\ [][RequestsNext]_requestVars /\ RequestsFairness

-----------------------------------------------------------------------------
(***************************************************************************)
(* Properties                                                              *)
(***************************************************************************)

\* A caller that waits and has neither an entry nor a timer left.
Abandoned(c) == stage[c] = "waiting" /\ c \notin pendingCalls \cup armedTimers

\* An entry has its timer and its waiting caller.  A caller that waits without one
\* is abandoned over the answer to a posting and nothing else: no order of answer,
\* failed send and timer loses the caller of a bullet.  What resolves is the answer
\* to a bullet.
RequestsAreConsistent ==
  /\ pendingCalls = armedTimers
  /\ \A c \in pendingCalls : stage[c] = "waiting"
  /\ \A c \in Calls :
       /\ Abandoned(c) => IsPosting(c) /\ c \in answers
       /\ stage[c] = "resolved" => asks[c] = "bullet" /\ c \in answers

\* Lost and late answers, failed sends: every call is settled in the end, or
\* abandoned as RequestsAreConsistent allows.
CallersSettle ==
  \A c \in Calls : stage[c] \in {"checking", "connecting", "waiting"} ~> Settled(c) \/ Abandoned(c)
=============================================================================
