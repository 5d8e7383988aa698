SPECIFICATION Spec
CONSTANTS
  Children = 4
  ForkerFirst = TRUE
  Failures = {"service", "child"}
INVARIANTS TypeOK ServiceServesClients ApplicationsShare
PROPERTIES ForkReturns
CHECK_DEADLOCK FALSE
