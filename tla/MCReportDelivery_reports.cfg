SPECIFICATION FairSpec
CONSTANTS
  Ids <- TwoIds
  Coalesced = TRUE
  MaxRuns = 2
  MaxInputs = 1
  MaxCalls = 2
  MaxAborts = 1
INVARIANT TypeOK
PROPERTY ReadOnce
PROPERTY WithdrawnStaysQuiet
PROPERTY ReportsArrive
CHECK_DEADLOCK FALSE
