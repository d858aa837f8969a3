SPECIFICATION Spec
CONSTANTS
  Keys = {1, 2}
  Configs <- MCPartition
  UPDATE_STATUS = 2
  MaxTrans = 2
  MaxCrash = 1
INVARIANTS NoDamage
CHECK_DEADLOCK FALSE
