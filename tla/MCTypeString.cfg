SPECIFICATION Spec
CONSTANTS
  Ids <- MCIds
  Shapes <- MCShapes
INVARIANTS
  TypeOK
  NoReentry
  ReferencesDefined
  TextDenotesType
