\* A category written with a capital.
CONSTANTS
  a1 = a1  a2 = a2  main = main  own = own  family = family  shut = shut
  Agents = {a1, a2}
  Ids = {h1}
  Calls = {p1}
  Tokens = {main}
  BoundTo <- MCBoundTo
  Families <- MCFamilies
  Restricted <- MCRestricted
  Commits = {c1}
  Blank = Blank
  Keys = {}
  Categories = {"Action"}
  FilingCategories = {"Action"}
  Ops = {"create"}
  MaxRepeat = 1
  NULL = NULL
  Readers = {r1}
  ActionLimit = 1
  NotifyLimit = 1
SPECIFICATION ReadSpec
SYMMETRY Interchangeable
INVARIANTS EverySpellingSeen
CHECK_DEADLOCK FALSE
