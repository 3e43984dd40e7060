SPECIFICATION MCSpec
CONSTANTS
  Txns = {t1, t2, t3}
  Closers = {c1, c2}
  Deadline = TRUE
  Off = Off
INVARIANTS
  NotStranded
  StatementsHold
PROPERTIES
  FailedIsUndone
CHECK_DEADLOCK FALSE
