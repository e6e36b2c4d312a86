SPECIFICATION LiveSpec
CONSTANTS
  HttpSlots = {h1, h2}
  TickSlots = {t1}
  Questions = {q1}
  Phases = 2
  MaxRequests = 4
  MaxFaults = 1
INVARIANTS
  TimersFollowSession
PROPERTIES
  EndedStaysEnded
  OverdueSessionsEnd
CHECK_DEADLOCK FALSE
