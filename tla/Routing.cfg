\* Replies, dedupe keys and wake polls between a family member and a stranger.
CONSTANTS
  kin = kin
  Chars <- MCChars
  Lowercase <- MCLowercase
  MaxSlug = 80
  Agents <- MCAgents
  Watched <- member
  Ids = {h1, h2}
  Calls = {p1, p2}
  Tokens = {kin}
  Binding <- MCBinding
  BoundTo <- MCBoundTo
  Families = {kin}
  Restricted = {kin}
  Commits = {c1}
  Blank = Blank
  Keys = {k1}
  Categories = {"action"}
  FilingCategories = {"action", "notify"}
  Ops = {"create", "delete", "file", "accept"}
  MaxRepeat = 1
  NULL = NULL
SPECIFICATION RoutingSpec
SYMMETRY Interchangeable
INVARIANTS RoutingInv OneOpenRowPerKey NoDanglingReply OneTombstone ReadsAgree FilingHeard
CHECK_DEADLOCK FALSE
