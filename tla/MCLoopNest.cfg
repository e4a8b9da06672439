SPECIFICATION Spec
CONSTANTS
  MaxLoops = 4
  MaxStmts = 2
  MaxDepth = 3
INVARIANTS
  TypeOK
  OnlyPendingBlocksOpen
  FinishedVerifies
  BodyDominated
CHECK_DEADLOCK FALSE
