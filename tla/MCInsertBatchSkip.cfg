SPECIFICATION OnceSpec
CONSTANTS
  Polls = {p1, p2}
  MaxBatch = 2
INVARIANTS
  NothingLost
CHECK_DEADLOCK FALSE
