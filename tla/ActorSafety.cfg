\* Starts and stops, teardown and lanes that panic.  With stops the actor can
\* come to rest with a full lane and a full mailbox waiting for each other, so a
\* state without a successor is no error here.
SPECIFICATION Spec
CONSTANTS
  Apps = {a, b}
  Clients = {c1, c2, c3}
  Kinds = {"start", "stop"}
  MailboxCap = 2
  LaneCap = 2
  StartLimit = 1
  MayPanic = TRUE
SYMMETRY Symmetry
INVARIANTS TypeOK SingleStart StartsLimited
PROPERTIES ArrivalOrder ImplementsExclusiveWork
CHECK_DEADLOCK FALSE
