CONSTANTS
  Payloads = {m1}
  Unchecked = {}
  MaxCopies = 1
  MaxFaults = 2
SPECIFICATION PublicationSpec
PROPERTY FailureSetsTimer
CHECK_DEADLOCK FALSE
