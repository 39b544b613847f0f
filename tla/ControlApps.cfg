\* Two handlers start and stop two apps.
SPECIFICATION Spec
CONSTANTS
  Apps = {a, b}
  Tasks = {t1, t2}
  None = None
  MaxStarts = 2
  MaxSpawns = 1
  Ops = {"start", "stop"}
  IoFails = FALSE
SYMMETRY Symmetry
INVARIANTS TypeOK OneStartPerApp CandidateOwned NoOrphans ServedAtRest TableTrueAtRest
