\* Starts and stops with writes that fail, handlers dropped where they await, an
\* operator who cuts over, stops and restarts single instances; every return is
\* waited for.
SPECIFICATION FairSpec
CONSTANTS
  Apps = {a}
  Tasks = {t1, t2}
  None = None
  MaxStarts = 1
  MaxSpawns = 2
  Ops = {"start", "stop", "switch", "stopInstance", "restart", "drop"}
  IoFails = TRUE
INVARIANTS ShellMatchesDisk
PROPERTIES StartNeverOverrides HandlersReturn
