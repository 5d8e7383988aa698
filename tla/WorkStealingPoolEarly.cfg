SPECIFICATION Spec
CONSTANTS
  w1 = w1  w2 = w2  w3 = w3
  t1 = t1  t2 = t2  t3 = t3
  Workers = {w1, w2}
  Tasks = {t1}
  Kinds = {TRUE}
  Limits = {1}
  EarlyStart = TRUE
PROPERTIES WaitReturns
CHECK_DEADLOCK FALSE
