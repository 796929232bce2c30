CONSTANTS
  Hold = {h1, h2}
  None = None
  ConnectTurns = 1
  WaitTurns = 3
  PipeTurns = 2
  LeaseTurns = 1
  MaxTurns = 3
  MaxRestarts = 1
SPECIFICATION Spec
SYMMETRY Symmetry
INVARIANTS
  TypeOK
  OneAtATime
  OneUnasked
  PressAnswerIsTrue
  LeaseEnds
  LeaseHasOwner
  ReasonOutlivesLease
  KeyComesUp
