SPECIFICATION Spec
CONSTANTS
  HdrLen = 2
  Sizes = {2}
  MaxPackets = 1
  Garbage = {0, 1, 4}
  MaxAlloc = 3
INVARIANTS
  DataReceived
