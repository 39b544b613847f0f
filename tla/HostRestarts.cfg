\* Children that exit, restarts by watchdogs and rollbacks, give-ups, writes that fail,
\* and a host that is killed, torn down and started again.
SPECIFICATION RestartSpec
CONSTANTS
  Apps = {a}
  Tasks = {t1, t2}
  None = None
  MaxStarts = 2
  MaxSpawns = 3
  Ops = {"start", "rollback", "exit"}
  IoFails = TRUE
SYMMETRY Symmetry
INVARIANTS WatchedAtRest RoutesListed NoStrays
