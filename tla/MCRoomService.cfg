CONSTANTS
  Rooms = {r1}
  Conns = {c1, c2, c3}
  None = None
  MaxFaults = 2
  MaxOrders = 2
SPECIFICATION ServiceSpec
INVARIANTS TypeOK ClosedEntriesLeave DeathsAreReported
PROPERTIES ClearingEnds RoomsServed
CHECK_DEADLOCK FALSE
