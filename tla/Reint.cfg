SPECIFICATION Spec
CONSTANTS
  x = x
  y = y
  Fids = {x, y}
  Existing = {x}
  Configs <- MCConfigs
INVARIANTS LogOK NoLostUpdate LogAgrees ConflictIsReal NoTornData
PROPERTIES NoBlindUpdate Drains
CHECK_DEADLOCK FALSE
