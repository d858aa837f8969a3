SPECIFICATION Spec
CONSTANTS
  Files = {f, g}
  Workers = {w1, w2}
  Hoarders = {w1}
  MaxUpdates = 2
  Envs = {{"fail", "overtake", "slow", "resize"}, {"vcb", "piggy"},
          {"flush", "vcb", "piggy", "readers", "once"}}
  NONE = NONE
  EMPTY = EMPTY
SYMMETRY Symmetry
INVARIANTS CacheOK StatusCurrent RightsBacked DataFresh
