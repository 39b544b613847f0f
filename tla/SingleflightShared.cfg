\* Both maps, one key each; evaluations may fail or panic.
SPECIFICATION FairSpec
CONSTANTS
  Callers = {c1, c2, c3}
  Keys = {json, whole}
  TypedKeys = {whole}
  Slots = {s1, s2, s3}
  None = None
  MaxCalls = 4
  MayPanic = TRUE
INVARIANTS TypeOK OneExecution FailuresForgotten
PROPERTIES EveryCallReturns ImplementsExclusiveWork
\* The callers stop when their calls are spent.
CHECK_DEADLOCK FALSE
