\* One learner, two requests at a time, three packs, a host that dies.
SPECIFICATION Spec
CONSTANTS
  Clients = {c1, c2}
  Items = {x, y}
  x = x
  y = y
  a = a
  b = b
  d = d
  Packs = {a, b, d}
  PackA = a
  TierB = {b}
  NewCap = 1
  None = None
CONSTANTS
  Pos <- MCPos
  Members <- MCMembers
  Rule <- MCRule
  Catalogs <- MCCatalogs
SYMMETRY Symmetry
INVARIANTS TypeOK LogCoversState OpenedByMastery
PROPERTIES NothingUnlearned
