SPECIFICATION FairSpec
CONSTANTS
  Txns = {t1}
  Requests = {r1}
  Readers = {b1}
  Attempts = {}
INVARIANTS OneHolder BegunNotUndone ToldOnlyWhenOver
PROPERTIES RefinesFence 
CHECK_DEADLOCK FALSE
