CONSTANTS
  MaxHandlers = 2
  MaxSignals = 1
  Funcs = 2
  Windows = FALSE
SPECIFICATION Spec
PROPERTY SignalIsAnswered
CHECK_DEADLOCK FALSE
