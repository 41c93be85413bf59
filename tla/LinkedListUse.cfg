SPECIFICATION Spec
CONSTANTS
  Values = {v1, v2}
  MaxNodes = 5
  SizeMod = 16
INVARIANTS
  TypeOK
  NoFault
PROPERTIES
  ImplementsElements
CHECK_DEADLOCK FALSE
