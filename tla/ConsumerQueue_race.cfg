CONSTANTS
  Capacity = 2
  NumSamples = 4
SPECIFICATION Spec
INVARIANTS
  ThreadSafe
CHECK_DEADLOCK FALSE
