SPECIFICATION SRFairSpec
CONSTANTS
  Updates <- SomeUpdates
  Capacity = 1
  MaxChunk = 1
  MayStart = TRUE
  MaxEvents = 3
  MaxViews = 2
INVARIANT SRTypeOK
INVARIANT TranscriptIsWhole
PROPERTY ReplayCloses
PROPERTY CatchesUp
CHECK_DEADLOCK FALSE
