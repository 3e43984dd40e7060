SPECIFICATION MCSpec
CONSTANTS
  d1 = d1
  d2 = d2
  raw = raw
  observer = observer
  second = second
  idle = idle
  w1 = w1
  w2 = w2
  r = r
  Off = Off
  Docs = {d1, d2}
  Other = other
  Raw = {raw}
  Observers = {observer, second}
  Wants <- Everything
  Threads = {p, idle}
  Batches <- Announced
  Capacity = 1
  MaxCommits = 3
INVARIANTS
  StaleIsKnown
  NoneSurvivesClose
  LossIsCounted
  EventsInOrder
CHECK_DEADLOCK FALSE
