CONSTANTS
    VSG_MEMBERS = 3
    NullSid = s0
    StoreIds = {s0}
    NULL = NULL
    Vectors <- MCVectors
SPECIFICATION Spec
INVARIANTS VerdictOK DominantSetOK
PROPERTY Terminates
CHECK_DEADLOCK FALSE
