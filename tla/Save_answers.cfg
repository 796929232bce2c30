SPECIFICATION Spec
CONSTANTS
  c1 = c1
  c2 = c2
  NoCall = NoCall
  Client = {c1, c2}
  EditShapes <- MCEditShapes
SYMMETRY Symmetry
CHECK_DEADLOCK FALSE
INVARIANTS
  TypeOK
  UndoFollowsItsSave
PROPERTIES
  OnlyOvertakenLoses
  AnswerMatchesDisk
