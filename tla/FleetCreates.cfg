SPECIFICATION Spec
CONSTANTS
  Process = {p1, p2}
  RoomId = {r1, r2}
  NoRoom = NoRoom
  Unknown = Unknown
  MaxRooms = 1
  MaxInFlight = 2
  Wedges = FALSE
  Timeouts = TRUE
  Ops = {"create", "destroy"}
  Local = {}
  Pins = FALSE
  MaxConnects = 2
  MaxReconnects = 1
  MaxCmds = 2
SYMMETRY FleetSymmetry
INVARIANTS
  ReservationsBalance
  PlacementsSound
CHECK_DEADLOCK FALSE
