CONSTANTS
  Publishers = {p1, p2}
  Msgs = {m1, m2}
  READY = READY
  MaxFaults = 2
SPECIFICATION FairSpec
INVARIANTS TypeOK OneAttempt AlwaysListening QueueMoves BuffersAlive Introduced
PROPERTIES NoOverlap Reconnected
