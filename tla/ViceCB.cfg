SPECIFICATION Spec
CONSTANTS
  Threads = {t1, t2}
  Hosts = {1, 2}
  Files = {1, 2}
  Entries = {e1, e2, e3}
  Ops = {"fetch", "validate", "update", "remove", "check", "connect"}
  NONE = NONE
SYMMETRY Symmetry
INVARIANTS TablesOK BreakerOwnsEntry NoSilentDrop FileBroken NoWaitCycle
