SPECIFICATION QueueSpec
CONSTANTS
  Pushers = {u1}
  Poppers = {p1, p2}
  RingSize = 2
  BufferSize = 1
  MaxPushes = 3
PROPERTIES
  ImplementsQueue
  SleepersWake
  BlockedHasRoom
  PushReturns
