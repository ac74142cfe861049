SPECIFICATION Spec
CONSTANTS
  Users = {u1, u2}
  Handlers = {h1, h2}
  MaxSessions = 2
  NoOne = NoOne
INVARIANTS
  InverseHasSession
  OneCallback
  SavedOnce
PROPERTIES
  HandlersReturn
CHECK_DEADLOCK FALSE
