SPECIFICATION ClientsSpec
CONSTANTS
  MaxAttempts = 2
  GetsTickets = TRUE
  MissThreshold = 2
  MaxConnects = 2
  MaxSockets = 3
  HasDeadline = TRUE
  Hellos = {"hello", "mismatch"}
  Ops = {"create", "destroy", "drain", "undrain"}
  MaxCalls = 2
  MaxRequests = 2
  MaxCmds = 1
  MaxDrops = 2
INVARIANTS
  OneSocket
  ProvenanceTrue
PROPERTIES
  LeavingIsFinal
  ServerLetsGo
  ComesBack
  PromisesSettle
  ShutdownEnds
CHECK_DEADLOCK FALSE
