SPECIFICATION TasksSpec
CONSTANTS
  MaxTasks = 2
  Agents = {g1}
  NoAgent = NoAgent
  Saturation = 2
  ManualBonus = 1
  MaxRequests = 3
  MaxCopies = 1
  Detect <- MCDetect
INVARIANTS
  RecordedDeadlocksPause
PROPERTIES
  BoardIsSound
  NothingAssignedEarly
  LowDeadlocksAreBroken
  ReadyTasksAreServed
CHECK_DEADLOCK FALSE
