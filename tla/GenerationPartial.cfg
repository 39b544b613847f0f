\* One activation at a time whose second cutover may fail.
SPECIFICATION Spec
CONSTANTS
  Apps = {a, b}
  Tasks = {t1}
  None = None
  MaxGen = 2
  Built = {1, 2}
  Retain = 1
  DefaultApp = a
  MaxCalls = 2
PROPERTIES StopsOnlyCandidates
CHECK_DEADLOCK FALSE
