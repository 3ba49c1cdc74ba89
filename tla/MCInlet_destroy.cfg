CONSTANTS
  Starts <- Destroyed
  MaxSamples = 1
  NumProbes = 1
  MinProbes = 1
  MaxInFlight = 1
SPECIFICATION FairSpec
PROPERTIES
  StopsReading
CHECK_DEADLOCK FALSE
