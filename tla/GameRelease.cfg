CONSTANTS
  hbhd = hbhd
  hbqd = hbqd
  sdmjhd = sdmjhd
  sybphd = sybphd
  Game = {hbhd, hbqd, sdmjhd, sybphd}
  Backend = {hbhd, sdmjhd, sybphd}
  StampOf <- StampAsWritten
  StopsFirst = {hbhd}
  None = None
  Torn = Torn
  RsyncFails = TRUE
  Together = FALSE
  MaxTime = 2
  MaxRev = 2
  FirstDay = 20181220
  LastDay = 20200315
  MaxMissed = 4
  MaxPacked = 9
SPECIFICATION MCSpec
INVARIANTS Stoppable OnlyOldIsDeleted
PROPERTIES MessagesAreTrue
CHECK_DEADLOCK FALSE
