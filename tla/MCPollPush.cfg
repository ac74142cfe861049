SPECIFICATION PushSpec
CONSTANTS
  Ids = {p1, p2}
  Callers = {c1, c2}
  Takers = {w1}
  Loaded = {}
  MaxCopies = 2
  MaxPush = 1
SYMMETRY Symmetry
INVARIANTS
  NoOrphan
  NoTwin
  PushKeepsPolls
