SPECIFICATION QueueSpec
CONSTANTS
  Messages = {m1, m2}
  Collectives = {x, y}
  Agents = {a1}
  PM = PM
  Priorities = {0, 2}
  MaxRetry = 3
INVARIANTS
  InboxesAreExact
PROPERTIES
  FinishedForGood
  PendingSettles
CHECK_DEADLOCK FALSE
