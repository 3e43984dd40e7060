SPECIFICATION FairSpec
CONSTANTS
  Commits = {c1, c2}
  Begins = {b1, e1}
  Unfenced = {e1}
INVARIANTS CountExact BeginSeesAbandoned
PROPERTIES BeginsOpen
CHECK_DEADLOCK FALSE
