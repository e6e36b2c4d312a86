--------------------------- MODULE ExclusiveAccess ---------------------------
(***************************************************************************)
(* What a lock service with leases promises its users: which leases run on *)
(* each thing, and how that may change.  Queues, records, timers and calls *)
(* do not appear.                                                          *)
(***************************************************************************)

CONSTANTS Users, Things

VARIABLE leases  \* thing -> the leases that run on it

Leases == [user : Users, type : {"READ", "WRITE"}]

AccessInit == leases = [t \in Things |-> {}]

\* Leases of t end, for whatever reason; then at most one begins, and only
\* where no writer is left.
Change(t) ==
  LET kept  == leases[t] \cap leases'[t]
      begun == leases'[t] \ leases[t]
  IN  \/ begun = {}
      \/ /\ \E l \in Leases : begun = {l}
         /\ \A k \in kept : k.type = "READ"

AccessNext ==
  /\ leases' \in [Things -> SUBSET Leases]
  /\ \A t \in Things : Change(t)

AccessSpec == AccessInit /\ [][AccessNext]_leases
=============================================================================
