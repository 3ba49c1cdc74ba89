CONSTANTS
  Registries = {conn, receiver}
  MaxCancels = 3
SPECIFICATION Spec
INVARIANTS
  CancelsOnlyLive
PROPERTIES
  StaleIsLast
  NotReused
  CancelEnds
\* The user may do nothing more, the peer may not answer.
CHECK_DEADLOCK FALSE
