\* Two sessions in one room.
SPECIFICATION Spec
CONSTANTS
  s1 = s1
  s2 = s2
  Sessions <- MCSessions
  Rooms = {r1}
  Lobby = lobby
  MaxUser = 2
  FullHp = 1000000
  StartHp = 100
  MaxLogins = 2
  MaxJobs = 9
  Packets <- AllPackets
  MayDrop = {}
  None = none
INVARIANT IteratorsStayValid
CHECK_DEADLOCK FALSE
