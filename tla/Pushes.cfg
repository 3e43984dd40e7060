SPECIFICATION MCSpec
CONSTANTS
  first = first
  second = second
  third = third
  opaque = opaque
  p1 = p1
  p2 = p2
  p3 = p3
  d1 = d1
  d2 = d2
  d3 = d3
  u = u
  v = v
  Nil = Nil
  Off = Off
  NoWindow = NoWindow
  Callers = {first, second, third, opaque}
  Version <- MCVersion
  Undecodable = {opaque}
SYMMETRY Alike
INVARIANTS
  AnswerCovers
  OneWindow
  BacklogExact
  
PROPERTIES
  UnreachableContained
CHECK_DEADLOCK FALSE
