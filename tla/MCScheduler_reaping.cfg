CONSTANTS
  Ids = {w1, w2}
  Rooms = {r1}
  Caps = {1}
  MaxCap = 1
  Timeout = 1
  Penalty = 1
  MinCheckInterval = 1
  MaxNew = 1
  Throttle = 1
SPECIFICATION FairSpec
PROPERTIES DeadWorkerReaped DelistedRoomDeleted
