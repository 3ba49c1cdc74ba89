CONSTANTS
  Matches <- OneHost
  Queries = {"q1", "q2"}
  Ports = {1}
  Others <- Noise
  Attempts = {a1}
  Plans <- MCPlans
  KnownPeers = TRUE
SPECIFICATION FairSpec
INVARIANTS
  ResultsOfQuery
PROPERTIES
  ResolveEnds
  HostFound
CHECK_DEADLOCK FALSE
