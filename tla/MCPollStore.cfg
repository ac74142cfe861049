SPECIFICATION Spec
CONSTANTS
  Ids <- MCIds
  Titles <- MCTitles
  Filter <- MCFilter
  Original <- MCOriginal
  Unrated <- MCUnrated
  PageSize = 1
  Batches <- MCBatches
  Handlers = {h1, h2}
  Stored <- MCStored
  MaxWrites = 2
  NoRow = NoRow
  NoTitle = NoTitle
  NoRequest = NoRequest
INVARIANTS
  RequestTakes
  WalkFaithful
  RowsAreTheirPolls
PROPERTIES
  DropUncoversNothing
SYMMETRY HandlerSymmetry
