SPECIFICATION OrchestratorSpec
CONSTANTS
  Process = {p1}
  RoomId = {r1}
  NoRoom = NoRoom
  Unknown = Unknown
  MaxRooms = 1
  MaxInFlight = 2
  Wedges = TRUE
  Timeouts = TRUE
  Ops = {"create", "drain", "undrain"}
  Local = {}
  Pins = FALSE
  MaxConnects = 1
  MaxReconnects = 0
  MaxCmds = 3
  k1 = k1
  k2 = k2
  short = short
  Keys = {k1, k2, short}
  Weak = {short}
  Lists <- MCLists
  Empty = Empty
  Absent = Absent
  Addresses = {a1, a2}
  Limit = 2
  Window = 3
  MaxBuckets = 1
  Streams = {s1, s2}
  MaxStreams = 1
  MaxRequests = 3
  MaxTicks = 4
INVARIANTS
  PlacementSeesStatus
  KeysServeOneAudience
  ThrottleAsIdeal
PROPERTIES
  ControlSettles
  SignalEnds
CHECK_DEADLOCK FALSE
