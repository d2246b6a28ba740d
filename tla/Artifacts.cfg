SPECIFICATION Spec
CONSTANTS
  Requests = {r1, r2}
  r1 = r1
  r2 = r2
  f = f
  Filenames = {f}
  None = None
  User = User
  MaxImages = 3
  MaxScan = 2
  MaxFaults = 2
  Wants <- MCWants
INVARIANT
  Accounted
PROPERTIES
  FilesSurvive
  RepairHeals
CHECK_DEADLOCK FALSE
