SPECIFICATION Spec
CONSTANTS
  Process = {p1, p2}
  RoomId = {r1}
  NoRoom = NoRoom
  Unknown = Unknown
  MaxRooms = 1
  MaxInFlight = 2
  Wedges = FALSE
  Timeouts = TRUE
  Ops = {"create"}
  Local = {}
  Pins = FALSE
  MaxConnects = 1
  MaxReconnects = 0
  MaxCmds = 2
INVARIANTS
  OneHomeWhileConnected
CHECK_DEADLOCK FALSE
