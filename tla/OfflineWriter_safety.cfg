SPECIFICATION Spec
CONSTANTS
  c1 = c1
  c2 = c2
  c3 = c3
  None = None
  Child = {c1, c2, c3}
  LockTurns = 3
  PollTurns = 1
  MaxRestarts = 1
SYMMETRY Symmetry
INVARIANTS
  TypeOK
  AnswerIsOwn
  AtMostOnce
  RefusedIsNeverRun
  RequestIsHolders
  BusyHasTwoAhead
CHECK_DEADLOCK FALSE
