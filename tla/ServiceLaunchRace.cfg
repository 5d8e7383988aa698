SPECIFICATION Spec
CONSTANTS
  Children = 2
  ForkerFirst = FALSE
  Failures = {}
PROPERTIES WaitSeesChange
CHECK_DEADLOCK FALSE
