SPECIFICATION FairSpec
CONSTANTS
  Clients = {c1, c2}
  Host = host
  None = none
  MaxPeers = 2
  MaxAttempts = 1
  MaxConcurrent = 1
  MaxFaults = 2
  Dual = {c1}
  StableIds = FALSE
INVARIANTS
  BooksAgree
  WantedAndAlone
PROPERTIES
  HostLetsGo
  NegotiationEnds
CHECK_DEADLOCK FALSE
