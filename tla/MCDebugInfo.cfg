SPECIFICATION Spec
CONSTANTS
  List = List
  Tree = Tree
  Nodes <- MCNodes
  Names <- MCNames
  Allowed <- MCAllowed
  MaxBare = 4
SYMMETRY Symmetry
INVARIANTS
  TypeOK
  HandlesAlive
  NoDanglingOperand
  OneNodePerContents
  FinalizedResolved
CHECK_DEADLOCK FALSE
