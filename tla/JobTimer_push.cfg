\* Three threads share two reservations of one queue.
SPECIFICATION FairSpec
CONSTANTS
  Threads = {t1, t2, t3}
  Items = {i1, i2}
  Delays = {0, 2}
  MaxTick = 2
  Owners = {q1}
  None = none
INVARIANTS
  OneDistributor
  InOnePlace
  OnTimeAndInOrder
PROPERTIES
  EventuallyPushed
