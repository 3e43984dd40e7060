SPECIFICATION MCSpec
CONSTANTS
  t1 = t1
  t2 = t2
  c1 = c1
  c2 = c2
  d1 = d1
  d2 = d2
  p1 = p1
  w1 = w1
  w2 = w2
  a = a
  b = b
  none = none
PROPERTIES
  EveryoneIsServed
  EverythingStops
CHECK_DEADLOCK FALSE
