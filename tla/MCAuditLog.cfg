SPECIFICATION LogSpec
CONSTANTS
  Clients = {c1, c2}
  Size = 2
  ChannelSize = 1
  MaxEntries = 5
  MaxMigrations = 1
  Values <- MCValues
INVARIANTS
  CloseFlushes
PROPERTIES
  NobodyWaits
  AcceptedIsWritten
CHECK_DEADLOCK FALSE
