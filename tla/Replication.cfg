SPECIFICATION Spec
CONSTANTS
    VSG_MEMBERS = 3
    StoreIds = {0, 1, 2, 3}
    NullSid = 0
    c1 = c1
    c2 = c2
    Clients = {c1, c2}
    Configs <- MCConfigs
    NULL = NULL
INVARIANTS TypeOK SlotsCounted DominanceIsNewer DataOfSid
PROPERTIES UpdatesKept
CHECK_DEADLOCK FALSE
