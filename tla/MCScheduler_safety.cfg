CONSTANTS
  Ids = {w1, w2}
  Rooms = {r1, r2}
  Caps = {1}
  MaxCap = 1
  Timeout = 2
  Penalty = 2
  MinCheckInterval = 1
  MaxNew = 2
  Throttle = 1
SPECIFICATION Spec
SYMMETRY Symmetric
INVARIANTS TypeOK TasksBacked CountersSound ToldMatchesTasks
PROPERTIES FailedWorkerRests ImplementsTaskBoard
