--------------------------- MODULE MCSharedMemory ---------------------------
(***************************************************************************)
(* Model checking of the shared memory: three callers, one artifact.       *)
(***************************************************************************)
EXTENDS SharedMemory

-----------------------------------------------------------------------------
(***************************************************************************)
(* What a comment of the code says and the code does not do.  The runs do  *)
(* not include these formulas; TLC reports each of them as violated when   *)
(* it replaces the properties in the configuration of this module.         *)
(***************************************************************************)

\* "Get specific version": the history has under a number the content the
\* artifact had in that version.
VersionsAreTrue ==
  \A a \in Artifacts : \A i \in DOMAIN versions[a] :
    artifacts[a] # NoArtifact /\ versions[a][i].version = artifacts[a].version
      => versions[a][i].content = artifacts[a].content
=============================================================================
