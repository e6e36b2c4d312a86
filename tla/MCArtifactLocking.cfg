SPECIFICATION LockSpec
CONSTANTS
  Clients = {c1, c2, c3}
  Artifacts = {a1, a2}
  NoLock = NoLock
INVARIANTS
  LocksAreSound
  WritersExclusive
PROPERTIES
  GivesExclusiveAccess
  ExpiredLockFreed
