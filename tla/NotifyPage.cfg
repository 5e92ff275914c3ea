\* More new items than fit one page.
CONSTANTS
  Items = {i1, i2}
  Runs = {r1}
  PageLimit = 1
  TicksPerSecond = 2
  Lag = 0
  Ahead = 0
  MaxTime = 3
  NULL = NULL
SPECIFICATION QuietSpec
INVARIANTS NothingSkipped
CHECK_DEADLOCK FALSE
