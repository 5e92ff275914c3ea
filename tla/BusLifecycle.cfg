\* The bus implements HandoffLifecycle, and answers every call.
CONSTANTS
  a1 = a1  a2 = a2  main = main  own = own  family = family  shut = shut
  Agents = {a1, a2}
  Ids = {h1}
  Calls = {p1, p2}
  Tokens = {family}
  BoundTo <- MCBoundTo
  Families <- MCFamilies
  Restricted <- MCRestricted
  Commits = {c1}
  Blank = Blank
  Keys = {k1}
  Categories = {"action"}
  FilingCategories = {"action"}
  Ops = {"create", "accept", "complete", "merge", "delete", "file"}
  MaxRepeat = 1
  NULL = NULL
SPECIFICATION FairSpec

PROPERTIES Implements ReportsSeeMoves Answered NeverBack
CHECK_DEADLOCK FALSE
