-------------------------- MODULE MCArtifactLocking --------------------------
(***************************************************************************)
(* Model checking of the artifact lock service: three callers, two         *)
(* artifacts.                                                              *)
(***************************************************************************)
EXTENDS ArtifactLocking

-----------------------------------------------------------------------------
(***************************************************************************)
(* What a comment of the code says and the code does not do.  The runs do  *)
(* not include these formulas; TLC reports each of them as violated when   *)
(* it replaces the properties in the configuration of this module.         *)
(***************************************************************************)

\* The comment in canGrantLock in full: while somebody holds a running WRITE
\* lease nobody else, reader or writer, holds one on the same artifact.
WriteLocksAreExclusive ==
  \A c, d \in Clients :
    /\ Holds(c) /\ request[c].lockType = "WRITE"
    /\ Holds(d)
    /\ request[c].artifact = request[d].artifact
    => c = d
=============================================================================
