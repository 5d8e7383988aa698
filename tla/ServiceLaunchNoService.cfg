\* The fork of the service fails: the zygote's wait never ends.
SPECIFICATION Spec
CONSTANTS
  Children = 2
  ForkerFirst = TRUE
  Failures = {"service"}
PROPERTIES WaitSeesChange
CHECK_DEADLOCK FALSE
