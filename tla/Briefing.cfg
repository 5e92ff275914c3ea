\* A briefing over a queue that fills, is claimed and emptied between its statements.
CONSTANTS
  a1 = a1  a2 = a2  main = main  own = own  family = family  shut = shut
  Agents = {a1, a2}
  Ids = {h1, h2}
  Calls = {}
  Tokens = {main}
  BoundTo <- MCBoundTo
  Families <- MCFamilies
  Restricted <- MCRestricted
  Commits = {}
  Blank = Blank
  Keys = {}
  Categories = {"action"}
  FilingCategories = {"action"}
  Ops = {"file"}
  MaxRepeat = 0
  NULL = NULL
  StuckPending = 0
  StuckAccepted = 1
  Cap = 1
  MaxAge = 2
  MaxMoves = 2
SPECIFICATION BriefingSpec
SYMMETRY AlikeToABriefing
INVARIANT ReportInv
PROPERTIES TitledOnce OldestTitled HeaderAgrees QuietIsHonest TotalsNotPages
CHECK_DEADLOCK FALSE
