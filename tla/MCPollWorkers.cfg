SPECIFICATION Spec
CONSTANTS
  Polls = {p1}
  Workers = {w1, w2}
  MaxBatch = 2
INVARIANTS
  TypeOK
  PollsKept
PROPERTIES
  CloseEnds
  TakeWakesSleepers
CHECK_DEADLOCK FALSE
