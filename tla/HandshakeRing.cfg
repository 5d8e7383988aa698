\* Three processes compete for two slots: producers wait for room and the
\* daemon waits for work.
CONSTANTS
  Clients = {c1, c2, c3}
  c1 = c1
  c2 = c2
  c3 = c3
  Calls = {"REG", "CONC"}
  EarlyCalls = {"CONC"}
  Capacity = 2
  MapCapacity = 3
SPECIFICATION Spec
INVARIANTS TypeOK RingAccounted SleepersJustified
PROPERTIES RegistrationCompletes ImplementsQueue
