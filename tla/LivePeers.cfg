SPECIFICATION MCSpec
CONSTANTS
  p1 = p1
  p2 = p2
  d1 = d1
  w1 = w1
  Nil = Nil
PROPERTIES
  DueIsMet
  NothingIsKept
CHECK_DEADLOCK FALSE
