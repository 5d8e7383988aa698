SPECIFICATION Spec
CONSTANTS
  c1 = c1
  c2 = c2
  Clients = {c1}
  Collectors = {"sticky", "full"}
  PoolSize = 2
  MaxRequests = 3
  LastResort = {}
INVARIANTS TypeOK TourDone
PROPERTIES HandshakeOrder CollectionsServed ImplementsContract
CHECK_DEADLOCK FALSE
