SPECIFICATION MemSpec
CONSTANTS
  Clients = {c1, c2, c3}
  Artifacts = {a1}
  NoLock = NoLock
  NoArtifact = NoArtifact
  MaxWrites = 3
PROPERTIES
  UpdatesBuildOnCurrent
CHECK_DEADLOCK FALSE
