SPECIFICATION Spec
CONSTANTS
  Files = {f, g}
  Workers = {w1, w2}
  Hoarders = {}
  MaxUpdates = 1
  Envs = {{"overtake", "flush"}}
  NONE = NONE
  EMPTY = EMPTY
SYMMETRY Symmetry
INVARIANT StatusCurrent
