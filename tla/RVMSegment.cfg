SPECIFICATION Spec
CONSTANTS
  Keys = {1, 2}
  Configs <- MCFile
  UPDATE_STATUS = 2
  MaxTrans = 2
  MaxCrash = 1
INVARIANTS SegDefined
CHECK_DEADLOCK FALSE
