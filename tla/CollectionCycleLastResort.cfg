SPECIFICATION Spec
CONSTANTS
  c1 = c1
  c2 = c2
  Clients = {c1}
  Collectors = {"sticky", "full"}
  PoolSize = 3
  MaxRequests = 1
  LastResort = {c1}
PROPERTIES LastResortEnds
CHECK_DEADLOCK FALSE
