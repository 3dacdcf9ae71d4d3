CONSTANTS
  Rooms = {r1, r2}
  Codes <- MCCodes
  MaxFaults = 2
  MaxSets = 2
  MaxPosted = 2
SPECIFICATION Spec
INVARIANTS TypeOK AuthCodeFollows
PROPERTY ListFollowed
