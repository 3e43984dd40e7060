SPECIFICATION MCSpec
CONSTANTS
  Jobs = {j1, j2, j3}
  Threads = {t1, t2}
  Queue = 2
  a = a
  b = b
  key = key
  none = none
  Off = Off
INVARIANTS
  QueuedFinish
  NoneStranded
  InboxServes
  EachHeldOnce

  
CHECK_DEADLOCK FALSE
