SPECIFICATION Spec
CONSTANTS
  Callers <- MCCallers
  Precision = 3
  Vectors <- MCVectors
INVARIANTS
  TypeOK
  ExactSumsAgree
  ErrorBounded
