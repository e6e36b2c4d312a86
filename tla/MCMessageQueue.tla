--------------------------- MODULE MCMessageQueue ---------------------------
(***************************************************************************)
(* Model checking of the message queue: two collectives, two messages.     *)
(***************************************************************************)
EXTENDS MessageQueue

-----------------------------------------------------------------------------
(***************************************************************************)
(* What a comment of the code says and the code does not do.  The runs do  *)
(* not include these formulas; TLC reports each of them as violated when   *)
(* it replaces the properties in the configuration of this module.         *)
(***************************************************************************)

\* Timeout handling as the header of the file promises it: a message that was
\* taken is not left in progress for ever.
TakenIsFinished ==
  \A m \in Messages : message[m].status = "in_progress" ~> message[m].status # "in_progress"

\* "Try to retry if not exceeded max attempts": a message expires only after
\* MAX_RETRY_ATTEMPTS retries.
ExpiresAfterRetries ==
  \A m \in Messages : message[m].status = "expired" => message[m].retryCount = MaxRetry
=============================================================================
