SPECIFICATION Spec
CONSTANTS
  Keys = {1, 2}
  Configs <- MCSmall
  UPDATE_STATUS = 2
  MaxTrans = 3
  MaxCrash = 1
PROPERTIES StoreSpec
CHECK_DEADLOCK FALSE
