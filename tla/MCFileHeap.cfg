SPECIFICATION Spec
CONSTANTS
  early = early
  late = late
  never = never
  NoExpiry = NoExpiry
  Items <- MCItems
  Expiry <- MCExpiry
  MaxTime = 2
  MaxLen = 4
INVARIANTS
  TopIsSoonest
  QueueIsDurable
  NoResurrection
PROPERTIES
  CleanKeepsCounts
CHECK_DEADLOCK FALSE
