SPECIFICATION ScopesSpec
CONSTANTS
  outer = outer
  inner = inner
  s1 = s1
  s2 = s2
  Functions <- MCFunctions
  Subprograms <- MCSubprograms
  LexicalBlocks = {block}
  Insts = {i1, i2}
  None = None
  MaxSize = 4
SYMMETRY MCSymmetry
INVARIANTS
  ScopesTypeOK
  LocationsInFunction
  CallsLocated
