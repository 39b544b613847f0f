\* A rollback after two starts: the route table keeps the old entry.
SPECIFICATION Spec
CONSTANTS
  Apps = {a}
  Tasks = {t1, t2}
  None = None
  MaxStarts = 2
  MaxSpawns = 2
  Ops = {"start", "rollback"}
  IoFails = FALSE
SYMMETRY Symmetry
INVARIANTS TableNamesActive
