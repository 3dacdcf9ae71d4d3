CONSTANTS
  Ids = {w1}
  Rooms = {r1}
  Caps = {1}
  MaxCap = 1
  Timeout = 1
  Penalty = 1
  MinCheckInterval = 1
  MaxNew = 2
  Throttle = 1
SPECIFICATION Spec
INVARIANT DroppedWorkerDisconnected
