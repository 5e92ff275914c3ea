\* Scoped searches and restricted edits while entries come and go.
CONSTANTS
  main = main  shut = shut  x = x  y = y
  Ids = {i1}
  Calls = {p1, p2}
  Clients = {c1, c2}
  Agents = {x, y}
  Tokens = {main, shut}
  BoundTo <- MCBoundTo
  Restricted = {shut}
  Texts = {a}
  Similar <- MCSimilar
  Flags = {TRUE, FALSE}
  Ops = {"add", "update", "delete", "search"}
  BatchSize = 2
  NULL = NULL
SPECIFICATION Spec
SYMMETRY Interchangeable
INVARIANT SurfacedAudited
PROPERTY RestrictedStaysGlobal
