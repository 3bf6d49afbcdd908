SPECIFICATION ReadersSpec
CONSTANTS
  Process = {p1, p2}
  RoomId = {a}
  NoView = NoView
  EvictAfter = 2
  MaxConnects = 4
  MaxChanges = 2
  MaxFaults = 1
  c1 = c1
  c2 = c2
  m = m
  n = n
  None = None
  Conns = {c1, c2}
  Snapshots <- MCSnapshots
  Requests <- MCRequests
  Filters <- MCFilters
  MaxTime = 4
INVARIANTS
  EventsMirror
  OneIdOneProcess
  NotModifiedIsSo
PROPERTIES
  FleetKeepsId
  NeverDominated
  Converges
CHECK_DEADLOCK FALSE
