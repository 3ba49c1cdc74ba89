CONSTANTS
  NumFilters = 4
  NumSelections = 2
  LateSelections = 1
SPECIFICATION AppSpec
INVARIANTS
  NameInRange
  NextMeansAllEnded
  EachFilterInItsFile
  ShowsItsSelection
PROPERTIES
  NextEventually
\* A worker can lose its increment for good, and then the coordinator waits.
CHECK_DEADLOCK FALSE
