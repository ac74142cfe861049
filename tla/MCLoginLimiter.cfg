SPECIFICATION Spec
CONSTANTS
  Addresses = {a1, a2}
  Handlers = {h1, h2}
  MaxFailed = 3
  Ban = 2
  Nobody = Nobody
INVARIANTS
  GuessesBounded
PROPERTIES
  ImplementsStrikes
  BanEnds
