CONSTANTS
  NumImages = 2
  Setups <- AllSetups
  MaxQueue = 2
  MaxAnalyses = 2
  NumPhotos = 2
  MayLeave = TRUE
SPECIFICATION FairSpec
INVARIANTS
  SavedUnderItsImage
  AtMostOneStaleBatch
  DiesOnlyOfSharedQueue
  RatingOfItsImage
  OneRatingPerImage
PROPERTIES
  SessionEnds
\* The session may be over, or the process dead.
CHECK_DEADLOCK FALSE
