CONSTANTS
  Ids = {w1, w2, w3, w4}
  Rooms = {r1, r2, r3}
  Caps = {2}
  MaxCap = 2
  Timeout = 2
  Penalty = 1
  MinCheckInterval = 1
  MaxNew = 3
  Throttle = 2
SPECIFICATION CalmSpec
PROPERTIES AllRoomsCovered RangeBounded
