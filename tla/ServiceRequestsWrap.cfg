SPECIFICATION SpecRequests
CONSTANTS
  c1 = c1
  c2 = c2
  c3 = c3
  Clients = {c1, c2, c3}
  Calls = {"REG", "GC_ALLOC", "TRIM", "STATS"}
  EarlyCalls = {"GC_ALLOC"}
  Capacity = 3
  MapCapacity = 2
  MaxCalls = 5
  TrimHandling = TRUE
INVARIANTS TypeOKRequests AgentKnown NewestRecordsOwned
SYMMETRY ClientSymmetry
CHECK_DEADLOCK FALSE
