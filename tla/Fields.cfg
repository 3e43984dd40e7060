SPECIFICATION MCSpec
CONSTANTS
  u = u
  v = v
  v1 = v1
  v2 = v2
  x = x
  y = y
  Nil = Nil
  Off = Off
  Null = Null
  NoVersion = NoVersion
  Replicas = {u, v}
  Values <- PlainValues
  Encode <- PlainEncode
  Stored <- PlainStored
  Reads <- PlainReads
  Reencode <- PlainReencode
  Written = {x, y}
  Versions = {v1, v2}
  Indexed = TRUE
  MaxBlocks = 4
SYMMETRY Alike
INVARIANTS
  RegisterHolds
  GroupingUnseen
  FrontierExact
  LandsAsRead
  TextHolds
CHECK_DEADLOCK FALSE
