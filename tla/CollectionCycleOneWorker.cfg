\* A pool of one worker: listener and marker cannot both run before the server
\* thread joins them.
SPECIFICATION Spec
CONSTANTS
  c1 = c1
  c2 = c2
  Clients = {c1}
  Collectors = {"sticky", "full"}
  PoolSize = 1
  MaxRequests = 1
  LastResort = {}
PROPERTIES CollectionsServed
CHECK_DEADLOCK FALSE
