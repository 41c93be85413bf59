SPECIFICATION Spec
CONSTANTS
  HdrLen = 2
  Sizes = {0, 1, 2}
  MaxPackets = 3
  Garbage = {0, 1, 4}
  MaxAlloc = 3
INVARIANTS
  TypeOK
  NoFault
PROPERTIES
  ImplementsChannel
  EndNoticed
  AllReceived
