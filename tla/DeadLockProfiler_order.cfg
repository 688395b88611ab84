\* Four locks of three classes, three threads, guards nested three deep.  The
\* process ends at the crash.
SPECIFICATION ProfilerSpec
CONSTANTS
  session1 = session1
  session2 = session2
  room = room
  service = service
  Lockers = {t1, t2, t3}
  Locks = {session1, session2, room, service}
  Names = {"Session", "Room", "Service"}
  Name <- ClassName
  MaxNest = 3
  NoLock = none
  Search <- CheckCycle
INVARIANTS
  CrashIffCycle
  NoCircularWait
SYMMETRY Symmetry
CHECK_DEADLOCK FALSE
