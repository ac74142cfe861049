SPECIFICATION Spec
CONSTANTS
  Dicts <- MCDicts
  Keys <- MCKeys
  Accepted <- MCUsers
  Users <- MCUsers
  Aliases <- MCAliases
  MaxRank = 3
  Promoter = 2
  AliasBatches <- MCBatches
  Stored <- MCStored
  Handlers = {h1, h2}
  MaxRequests = 3
  NoValue = NoValue
  Nobody = Nobody
  NoCommand = NoCommand
INVARIANTS
  Saved
PROPERTIES
  ReadOnlyAfterClose
  RankFromAbove
SYMMETRY HandlerSymmetry
CHECK_DEADLOCK FALSE
