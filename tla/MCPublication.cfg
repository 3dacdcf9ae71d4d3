CONSTANTS
  Payloads = {m1, m2}
  Unchecked = {m2}
  MaxCopies = 2
  MaxFaults = 2
SPECIFICATION PublicationSpec
INVARIANTS TypeOK OneWayBack ReadsPending AvailableMeansDeclared AtMostOnce
PROPERTIES Recovered PublishedWhenUp
CHECK_DEADLOCK FALSE
