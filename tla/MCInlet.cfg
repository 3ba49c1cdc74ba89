CONSTANTS
  Starts <- AllUses
  MaxSamples = 1
  NumProbes = 2
  MinProbes = 2
  MaxInFlight = 1
SPECIFICATION FairSpec
INVARIANTS
  NoStreamOfOldHost
  OffsetOfItsWave
PROPERTIES
  DestructorReturns
  RecoversFromSilence
  PullEndsWhenLost
\* The application may do nothing more.
CHECK_DEADLOCK FALSE
