SPECIFICATION Spec
CONSTANTS
  Txns = {t1, t2}
  Closers = {c1}
  Deadline = FALSE
INVARIANT
  NoneInFlight
CHECK_DEADLOCK FALSE
