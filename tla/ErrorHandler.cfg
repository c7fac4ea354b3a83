CONSTANTS
  MaxHandlers = 3
  MaxSignals = 3
  Funcs = 2
  Windows = FALSE
SPECIFICATION FairSpec
INVARIANTS CleanupIsWhole
PROPERTIES CleansUp SignalEnds
CHECK_DEADLOCK FALSE
