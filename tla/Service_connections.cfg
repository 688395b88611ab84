\* Two clients and one accept event; one call may fail, two broadcasts.
SPECIFICATION FairSpec
CONSTANTS
  Clients = {c1, c2}
  MayBreak = {c1}
  MaxSession = 1
  MaxServed = 3
  MaxFaults = 1
  MaxRounds = 2
INVARIANTS
  SetsMatchConnections
  HeardFromJoining
PROPERTIES
  ServedOrGone
  BothEndsLeave
CHECK_DEADLOCK FALSE
