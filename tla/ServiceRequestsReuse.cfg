SPECIFICATION SpecRequests
CONSTANTS
  c1 = c1
  c2 = c2
  c3 = c3
  Clients = {c1, c2}
  Calls = {"REG", "CONC"}
  EarlyCalls = {}
  Capacity = 2
  MapCapacity = 3
  MaxCalls = 6
  TrimHandling = TRUE
INVARIANTS FinalizesStarted
CHECK_DEADLOCK FALSE
