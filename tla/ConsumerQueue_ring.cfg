CONSTANTS
  Capacity = 3
  NumSamples = 8
SPECIFICATION FairSpec
INVARIANTS
  DroppedOnce
PROPERTIES
  LossySpec
  PushReturns
CHECK_DEADLOCK FALSE
