SPECIFICATION FairSpec
CONSTANTS
  MaxConn = 5
  StaleIds = {0}
  Worlds = {"oldest", "newest"}
  Failures = {}
INVARIANTS
  NoFault
  ListMirrorsClients
  ClosedOnce
PROPERTIES
  ImplementsRegistry
