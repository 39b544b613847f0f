\* Two children, one exits: two syncs of the table overlap.
SPECIFICATION Spec
CONSTANTS
  Apps = {a, b}
  Tasks = {t1, t2}
  None = None
  MaxStarts = 1
  MaxSpawns = 2
  Ops = {"start", "exit"}
  IoFails = FALSE
SYMMETRY Symmetry
INVARIANTS TableNamesChild
