\* A check_in while its queue changes under it.
CONSTANTS
  a1 = a1  a2 = a2  main = main  own = own  family = family  shut = shut
  Agents = {a1, a2}
  Ids = {h1, h2}
  Calls = {p1}
  Tokens = {main, shut}
  BoundTo <- MCBoundTo
  Families <- MCFamilies
  Restricted <- MCRestricted
  Commits = {}
  Blank = Blank
  Keys = {}
  Categories = {"action"}
  FilingCategories = {"action"}
  Ops = {"create", "accept"}
  MaxRepeat = 1
  NULL = NULL
  Readers = {r1}
  ActionLimit = 1
  NotifyLimit = 1
SPECIFICATION ReadSpec
SYMMETRY Interchangeable
INVARIANTS NothingMissed SeenBySomebody
CHECK_DEADLOCK FALSE
