SPECIFICATION OnceSpec
CONSTANTS
  Polls = {p1, p2, p3}
  MaxBatch = 3
INVARIANTS
  TypeOK
  CutoffCoversRows
  TurnsAgree
  OnlySkippedLost
  StopReturnsBatch
PROPERTIES
  BatchSettles
  StopHeard
  ImplementsPool
CHECK_DEADLOCK FALSE
