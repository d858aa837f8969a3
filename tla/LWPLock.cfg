SPECIFICATION Spec
CONSTANTS
  Threads = {t1, t2, t3, t4}
  Uses = {{"READ", "WRITE"}, {"READ", "SHARED"}}
  NULL = NULL
INVARIANTS Compatible NoLostWakeup FieldsAgree
PROPERTY ImplementsRWLock
