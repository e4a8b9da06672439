SPECIFICATION Spec
CONSTANTS
  b0 = b0
  b1 = b1
  b2 = b2
  left = left
  right = right
  Blocks <- MCBlocks
  entry = b0
  Insts <- MCInsts
  Builders <- MCBuilders
  Nowhere = Nowhere
  End = End
  MaxFloating = 1
  MaxSize = 5
SYMMETRY MCSymmetry
INVARIANTS
  TypeOK
  OnePlace
  NoDanglingUse
  BlocksHaveShape
  DefinedBeforeUse
\* A finished function whose points are cleared may have nothing left to do.
CHECK_DEADLOCK FALSE
