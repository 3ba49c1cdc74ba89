CONSTANTS
  NumServers = 2
  NumSessions = 1
  Setups <- AllSetups
  MaxCapacity = 2
SPECIFICATION FairSpec
INVARIANTS
  ThreadHoldsItsSession
  NothingLeft
  ChunksAsAsked
PROPERTIES
  DestructorReturns
  TransfersEnd
\* The outlet may be destroyed and everything have come to its end.
CHECK_DEADLOCK FALSE
