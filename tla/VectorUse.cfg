SPECIFICATION Spec
CONSTANTS
  Start = 4
  Values = {v1, v2}
  NoValue = none
  MaxBlocks = 5
INVARIANTS
  TypeOK
  OneOwner
  PointersStable
  CapacityFits
PROPERTIES
  NoThrash
  ImplementsStack
CHECK_DEADLOCK FALSE
