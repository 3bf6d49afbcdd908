SPECIFICATION Spec
CONSTANTS
  Process = {p1}
  RoomId = {r1}
  NoRoom = NoRoom
  Unknown = Unknown
  MaxRooms = 1
  MaxInFlight = 2
  Wedges = TRUE
  Timeouts = FALSE
  Ops = {"create", "destroy", "drain", "undrain"}
  Local = {"create", "destroy", "status"}
  Pins = TRUE
  MaxConnects = 1
  MaxReconnects = 0
  MaxCmds = 2
INVARIANTS
  EveryRoomAccounted
PROPERTIES
  DrainConfirmed
CHECK_DEADLOCK FALSE
