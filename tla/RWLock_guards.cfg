\* Two threads, so that a waiter and the thread it waits for are both fair,
\* and guards nested three deep.
SPECIFICATION FairSpec
CONSTANTS
  Threads = {t1, t2}
  None = None
  MaxDepth = 3
INVARIANTS
  WordMatchesGuards
  WriteCountExact
  GuardsUnlockInOrder
PROPERTIES
  ImplementsReaderWriter
  SpinEnds
