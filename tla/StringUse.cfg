SPECIFICATION Spec
CONSTANTS
  Chars = {a, b}
  NUL = NUL
  MaxSource = 3
  MaxCapacity = 5
INVARIANTS
  TypeOK
  Terminated
  LengthRight
PROPERTIES
  ImplementsText
