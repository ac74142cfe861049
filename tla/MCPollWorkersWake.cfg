SPECIFICATION Spec
CONSTANTS
  Polls = {p1}
  Workers = {w1, w2}
  MaxBatch = 1
PROPERTIES
  PushWakesSleepers
CHECK_DEADLOCK FALSE
