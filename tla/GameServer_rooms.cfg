\* Two sessions in one room; the connection of one may end at any moment, and it
\* may log in again before its session is destroyed.
SPECIFICATION Spec
CONSTANTS
  s1 = s1
  s2 = s2
  Sessions <- MCSessions
  Rooms = {r1}
  Lobby = lobby
  MaxUser = 2
  FullHp = 1000000
  StartHp = 50
  MaxLogins = 3
  MaxJobs = 3
  Packets <- RoomPackets
  MayDrop = {s2}
  None = none
INVARIANTS
  NeverOverfull
  NullNeedsAnEnd
  RoomAgrees
  DeadHaveLeft
  LoserHears
PROPERTY InOneOrder
CHECK_DEADLOCK FALSE
