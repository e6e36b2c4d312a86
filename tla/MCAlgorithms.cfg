SPECIFICATION AlgorithmsSpec
SYMMETRY MCSymmetry
CONSTANTS
  Tasks <- MCTasks
  MaxBlockers = 2
  Priorities <- MCPriorities
  MaxEdges = 4
  MaxBusy = 2
  UnitMinutes = 10
  WorkStart = 66
  WorkEnd = 78
  Buffer = 1
  MaxTaskDuration = 3
  DayTasks <- MCDayTasks
  Calls = {c1, c2, c3}
  ManualStarts = {70}
  MaxCompleted = 1
  Editors = {p1, p2}
  Contents = {x, y, z}
  FirstContent = x
  StackLimit = 2
  MaxCalls = 3
  MaxSerialCalls = 5
  Absent = absent
  Sockets = {s1, s2}
  MaxInits = 2
  MaxChunks = 3
  BatchSize = 2
INVARIANTS
  AlgorithmsAreRight
  CommitsFollowPlans
  DifferencesHaveACause
  ResumeIsConsistent
  VoiceIsSound
CHECK_DEADLOCK FALSE
