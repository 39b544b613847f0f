\* The host as it is: callers only start apps.  Lanes may panic; channels and
\* the start limit are as small as they can be.
SPECIFICATION FairSpec
CONSTANTS
  Apps = {a, b}
  Clients = {c1, c2}
  Kinds = {"start"}
  MailboxCap = 1
  LaneCap = 1
  StartLimit = 1
  MayPanic = TRUE
INVARIANTS RouterNeverWaits MarkerOwned
PROPERTIES MarkerCleared EveryCallReturns
