SPECIFICATION Spec
CONSTANTS
  Lines = {1, 2}
  Scopes = {caller, callee}
  Instructions = {i1}
  Null = Null
  MaxInlining = 2
PROPERTIES
  RestoreGivesBack
