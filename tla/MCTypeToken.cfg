SPECIFICATION Spec
CONSTANTS
  Ids <- MCIds
  Shapes <- MCShapesWithToken
INVARIANTS
  PanicUnreachable
CHECK_DEADLOCK FALSE
