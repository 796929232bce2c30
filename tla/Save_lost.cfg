SPECIFICATION Spec
CONSTANTS
  c1 = c1
  c2 = c2
  NoCall = NoCall
  Client = {c1, c2}
  EditShapes <- MCEditShapes
CHECK_DEADLOCK FALSE
PROPERTIES
  SaveOverwritesNobody
