CONSTANTS
  File = {f1, f2}
  Content = {c1, c2}
  Absent = Absent
  None = None
  Lost = Lost
  MaxBackups = 1
  MaxCrashes = 1
  RmtreeCrash = FALSE
SPECIFICATION Spec
SYMMETRY Alike
INVARIANT IInv
PROPERTY ImplementsConfigStore
