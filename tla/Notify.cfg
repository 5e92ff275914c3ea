\* Two overlapping runs of the script, commits that lag, a script host ahead of the database,
\* and failures, crashes and resets that do not last.
CONSTANTS
  Items = {i1}
  Runs = {r1, r2}
  PageLimit = 2
  TicksPerSecond = 2
  Lag = 1
  Ahead = 1
  MaxTime = 2
  NULL = NULL
SPECIFICATION FairSpec
INVARIANTS SkipsExplained NotifyInv
PROPERTIES Delivered
CHECK_DEADLOCK FALSE
