SPECIFICATION Spec
CONSTANTS
  c1 = c1
  c2 = c2
  None = None
  Child = {c1, c2}
  LockTurns = 3
  PollTurns = 1
  MaxRestarts = 0
PROPERTIES
  RequestIsReadOrWithdrawn
CHECK_DEADLOCK FALSE
