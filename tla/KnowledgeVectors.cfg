\* Adds, edits and deletions racing their embeddings and a backfill.
CONSTANTS
  main = main  shut = shut  x = x  y = y
  Ids = {i1, i2}
  Calls = {p1, p2}
  Clients = {}
  Agents = {x}
  Tokens = {main}
  BoundTo <- MCBoundTo
  Restricted = {}
  Texts = {a, b}
  Similar <- MCSimilar
  Flags = {FALSE}
  Ops = {"add", "update", "delete", "backfill"}
  BatchSize = 2
  NULL = NULL
SPECIFICATION Spec
SYMMETRY Interchangeable
INVARIANTS OwnVector VectorCurrent KnowledgeInv
