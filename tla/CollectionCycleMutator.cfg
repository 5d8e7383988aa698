SPECIFICATION Spec
CONSTANTS
  c1 = c1
  c2 = c2
  Clients = {c1}
  Collectors = {"sticky", "full"}
  PoolSize = 3
  MaxRequests = 3
  LastResort = {c1}
INVARIANTS FreesAfterServerWork AddressFresh NothingToSteal
PROPERTIES PhaseOrder
CHECK_DEADLOCK FALSE
