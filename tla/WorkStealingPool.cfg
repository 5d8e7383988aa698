SPECIFICATION Spec
CONSTANTS
  w1 = w1  w2 = w2  w3 = w3
  t1 = t1  t2 = t2  t3 = t3
  Workers = {w1, w2, w3}
  Tasks = {t1, t2, t3}
  Kinds = {TRUE, FALSE}
  Limits = {2, 3}
  EarlyStart = FALSE
INVARIANTS TypeOK NoUseAfterFinalize NoSelfSteal
PROPERTIES WaitCompletes ActiveBounded WaitReturns Destroyed
CHECK_DEADLOCK FALSE
