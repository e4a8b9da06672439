SPECIFICATION FairSpec
CONSTANTS
  Callers <- MCCallers
  HalfRange = 4
  Vectors <- MCVectors
INVARIANTS
  TypeOK
  ResultIsSum
  ReadsInBounds
PROPERTIES
  ImplementsReference
  CallsReturn
