SPECIFICATION MCSpec
CONSTANTS
  r1 = r1
  r2 = r2
  r3 = r3
  r4 = r4
  l1 = l1
  n1 = n1
  n2 = n2
  p1 = p1
  p2 = p2
  u = u
  v = v
  Nil = Nil
  Off = Off
  Writers = {u, v}
  Remote = {r1, r2, r3, r4}
  Local = {l1}
  Ops = {r2, l1}
  RemoteParents <- MCParents
  Part <- MCPart
  Collection = FALSE
  MaxPage = 2
  Priorities = {1, 2}
SYMMETRY Alike
INVARIANTS
  HeadsAreTips
  AppliedOnce
  FoldExact
  RegistrationsExact
  
PROPERTIES
  RetiredByChild
CHECK_DEADLOCK FALSE
