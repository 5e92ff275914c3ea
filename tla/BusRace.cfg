\* Every MCP operation on one handoff by two calls at once.
CONSTANTS
  a1 = a1  a2 = a2  main = main  own = own  family = family  shut = shut
  Agents = {a1, a2}
  Ids = {h1}
  Calls = {p1, p2}
  Tokens = {main, shut}
  BoundTo <- MCBoundTo
  Families <- MCFamilies
  Restricted <- MCRestricted
  Commits = {c1, c2}
  Blank = Blank
  Keys = {}
  Categories = {"action"}
  FilingCategories = {"action"}
  Ops = {"create", "accept", "complete", "merge", "delete"}
  MaxRepeat = 1
  NULL = NULL
SPECIFICATION Spec
SYMMETRY Interchangeable
INVARIANTS IInv OneWinner AcknowledgedStands LoserLearnsWhy ClaimHasHolder WithinParty
CHECK_DEADLOCK FALSE
