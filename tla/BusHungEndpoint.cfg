\* A create whose embedding endpoint may never answer.
CONSTANTS
  a1 = a1  a2 = a2  main = main  own = own  family = family  shut = shut
  Agents = {a1, a2}
  Ids = {h1}
  Calls = {p1, p2}
  Tokens = {main}
  BoundTo <- MCBoundTo
  Families <- MCFamilies
  Restricted <- MCRestricted
  Commits = {c1}
  Blank = Blank
  Keys = {}
  Categories = {"action"}
  FilingCategories = {"action"}
  Ops = {"create"}
  MaxRepeat = 1
  NULL = NULL
SPECIFICATION ServerSpec

PROPERTIES CreateNotBlocked
CHECK_DEADLOCK FALSE
