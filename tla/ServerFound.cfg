SPECIFICATION Spec
CONSTANTS
  MaxConn = 3
  StaleIds = {0}
  Worlds = {"any"}
  Failures = {}
INVARIANTS
  ClientFound
