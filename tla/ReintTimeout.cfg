SPECIFICATION Spec
CONSTANTS
  x = x
  y = y
  Fids = {x, y}
  Existing = {x}
  Configs <- MCTimeout
INVARIANT CancelSafe
CHECK_DEADLOCK FALSE
