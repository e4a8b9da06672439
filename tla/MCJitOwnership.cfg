SPECIFICATION Spec
CONSTANTS
  m1 = m1
  m2 = m2
  t1 = t1
  t2 = t2
  d1 = d1
  d2 = d2
  g1 = g1
  g2 = g2
  c1 = c1
  c2 = c2
  r1 = r1
  r2 = r2
  Modules <- MCModules
  Machines <- MCMachines
  Managers = {p1}
  Buffers = {b1}
  Engines = {e1}
  Symbols = {"sum_int64"}
  Defines <- MCDefines
  Nothing = Nothing
  PassBuilders = {q1}
  Layouts <- MCLayouts
  GenericValues <- MCValues
  MaxObjects = 7
  LLJits = {j1}
  ThreadSafeContexts <- MCContexts
  MachineBuilders = {k1}
  JitErrors <- MCErrors
SYMMETRY MCSymmetry
INVARIANTS
  TypeOK
  NoUseAfterFree
  LossesBounded
  OneOwner
  AddressesAgree
  AddressesSealed
CHECK_DEADLOCK FALSE
