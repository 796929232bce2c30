SPECIFICATION FairSpec
CONSTANTS
  c1 = c1
  c2 = c2
  None = None
  Child = {c1, c2}
  LockTurns = 4
  PollTurns = 2
  MaxRestarts = 2
PROPERTIES
  ImplementsCalls
  EveryCallReturns
CHECK_DEADLOCK FALSE
