SPECIFICATION FairSpec
CONSTANTS
  Callers = {g1}
  HalfRange = 4
  Vectors <- MCVectorsWithEmpty
INVARIANTS
  ResultIsSum
