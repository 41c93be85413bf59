SPECIFICATION FairSpec
CONSTANTS
  MaxConn = 3
  StaleIds = {0}
  Worlds = {"any"}
  Failures = {"listen", "accept"}
INVARIANTS
  TypeOK
  ThreadGetsItsClient
  DeleteExclusive
PROPERTIES
  LockReleased
  Shutdown
