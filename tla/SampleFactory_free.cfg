CONSTANTS
  NumReserve = 2
  MaxSamples = 4
  Releasers = {r1, r2}
SPECIFICATION FactorySpec
INVARIANTS
  NoneLost
PROPERTIES
  HandedOutOnce
  GrowsOnlyIfNeeded
CHECK_DEADLOCK FALSE
