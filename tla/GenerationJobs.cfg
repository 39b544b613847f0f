\* Two apps, two generations, two handlers: activations, rollbacks, cleanups,
\* an operator's cutovers and prebuilds.  The host may rest when all calls of
\* the bound are made.
SPECIFICATION FairSpec
CONSTANTS
  Apps = {a, b}
  Tasks = {t1, t2}
  None = None
  MaxGen = 2
  Built = {1, 2}
  Retain = 1
  DefaultApp = a
  MaxCalls = 3
INVARIANTS OneJob ValidatedStays
PROPERTIES SwitchIsWhole JobEnds
CHECK_DEADLOCK FALSE
