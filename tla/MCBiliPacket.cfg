CONSTANTS
  Threads = {t1, t2}
  Conns = {c1, c2}
  Messages <- SomeMessages
  MaxHeard = 4
SPECIFICATION Spec
INVARIANTS TypeOK HeardAsSent
CHECK_DEADLOCK FALSE
