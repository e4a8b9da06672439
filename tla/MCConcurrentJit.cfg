SPECIFICATION FairSpec
CONSTANTS
  Goroutines <- MCGoroutines
  Modules <- MCModules
  Needs <- MCNeeds
  Nothing = Nothing
INVARIANTS
  TypeOK
  ContextExclusive
  CallsOnlyLinked
PROPERTIES
  ImplementsLazyJit
  OperationsEnd
