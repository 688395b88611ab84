\* WSASend may fail while the connection stays open.
SPECIFICATION Spec
CONSTANTS
  Threads = {t1, t2}
  None = none
  MaxSends = 3
  Failures = {"send"}
INVARIANT QueuedIsSent
