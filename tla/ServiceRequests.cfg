SPECIFICATION SpecRequests
CONSTANTS
  c1 = c1
  c2 = c2
  c3 = c3
  Clients = {c1, c2}
  Calls = {"REG", "CONC", "EXPLICIT", "TRIM"}
  EarlyCalls = {}
  Capacity = 5
  MapCapacity = 3
  MaxCalls = 5
  TrimHandling = TRUE
INVARIANTS SignalledRequestsLive AgentListExact FinalizesStarted
PROPERTIES ImplementsContract
CHECK_DEADLOCK FALSE
