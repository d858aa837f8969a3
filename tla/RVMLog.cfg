SPECIFICATION Spec
CONSTANTS
  Keys = {1, 2}
  Configs <- MCConfigs
  UPDATE_STATUS = 2
  MaxTrans = 2
  MaxCrash = 1
INVARIANTS LogOK
PROPERTIES StoreSpec FlushCompletes
CHECK_DEADLOCK FALSE
