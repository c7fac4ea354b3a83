CONSTANTS
  File = {f1}
  Content = {c1, c2}
  Absent = Absent
  None = None
  Lost = Lost
  MaxBackups = 2
  MaxCrashes = 2
  RmtreeCrash = TRUE
SPECIFICATION FairSpec
PROPERTIES OriginalsSurvive RecoveryCompletes
