------------------------- MODULE MCInterviewSession -------------------------
(***************************************************************************)
(* Model checking of one interview session of two phases.                  *)
(***************************************************************************)
EXTENDS InterviewSession

-----------------------------------------------------------------------------
(***************************************************************************)
(* What a comment of the code says and the code does not do.  The runs do  *)
(* not include these formulas; TLC reports each of them as violated when   *)
(* it replaces the properties in the configuration of this module.         *)
(***************************************************************************)

\* interview-state-machine.service.ts:24 calls completed a terminal state.
CompletedIsTerminal ==
    [][session.status = "completed" => session'.status = "completed"]_vars

\* session.service.ts:218 cleans up all intervals of a session: when an ended
\* session has settled, no phase check is left on it.
EndClearsTimers ==
    session.status = "completed" /\ Quiet /\ faults = 0 => check.live = {}

\* session.service.ts:85 stops monitoring when paused: a session in progress
\* that has settled is monitored.
RunningIsMonitored ==
    session.status = "in-progress" /\ Quiet /\ faults = 0 => monitor.live # {}

\* interview-session.entity.ts:28 lists the questions that were skipped: no
\* step forgets one.
SkippedStaysSkipped ==
    [][session.skipped \subseteq session'.skipped]_vars
=============================================================================
