SPECIFICATION MCSpec
CONSTANTS
  u = u
  v = v
  v1 = v1
  v2 = v2
  x = x
  y = y
  Nil = Nil
  Off = Off
  Null = Null
  NoVersion = NoVersion
  Replicas = {u, v}
  Values <- PlainValues
  Encode <- JsonEncode
  Stored <- JsonStored
  Reads <- JsonReads
  Reencode <- JsonReencode
  Written = {x, y}
  Versions = {v1, v2}
  Indexed = TRUE
  MaxBlocks = 4
SYMMETRY Alike
INVARIANT
  Converged
CHECK_DEADLOCK FALSE
