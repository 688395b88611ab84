\* Three threads push to and run two queues, one of which is also cleared.
SPECIFICATION FairSpec
CONSTANTS
  Threads = {t1, t2, t3}
  Queues = {q1, q2}
  Jobs = {j1, j2, j3}
  Clearable = {q2}
  None = None
INVARIANTS
  OneOwner
  OwnedIffCounted
  CountCovers
PROPERTIES
  RunsSeriallyAndFairly
  GoesIdle
