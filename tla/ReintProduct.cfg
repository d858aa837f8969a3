SPECIFICATION Spec
CONSTANTS
  x = x
  y = y
  Fids = {x, y}
  Existing = {x}
  Configs <- MCProduct
INVARIANTS LogOK NoLostUpdate LogAgrees ConflictIsReal NoTornData
CHECK_DEADLOCK FALSE
