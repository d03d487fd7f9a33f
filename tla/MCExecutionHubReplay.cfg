CONSTANTS
  b1 = b1
  b2 = b2
  Browsers <- TwoBrowsers
  MaxConns = 1
  MaxBuffered = 2
  MaxMessages = 3
SPECIFICATION FairSpec
INVARIANTS
  NothingMissed
PROPERTIES
  BrokenClientsLeave
  StatusFreesBuffer
CHECK_DEADLOCK FALSE
