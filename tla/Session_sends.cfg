\* Every call may fail on an open connection.
SPECIFICATION FairSpec
CONSTANTS
  Threads = {t1, t2, t3}
  None = none
  MaxSends = 3
  Failures = {"send", "recv", "disconnect"}
INVARIANTS
  OneSend
  PostedIsOwned
  KeepsReading
PROPERTIES
  SendsAll
  DisconnectReleases
