CONSTANTS
  Consumers = {c1, c2}
  MaxCapacity = 2
  MaxBuffered = {0, 1, 5}
  NumSamples = 4
SPECIFICATION FairSpec
INVARIANTS
  LatestInOrder
  NoDeadQueueServed
PROPERTIES
  KeepsWhatFits
  WaiterWoken
CHECK_DEADLOCK FALSE
