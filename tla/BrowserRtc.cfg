SPECIFICATION BrowserFairSpec
CONSTANTS
  Clients = {c1}
  None = None
  MaxPeers = 2
  MaxAttempts = 1
  MaxFaults = 2
INVARIANTS
  NothingMissed
PROPERTIES
  BrowserSettles
CHECK_DEADLOCK FALSE
