SPECIFICATION FairSpec
CONSTANTS
  MaxPrompts = 2
  MaxWorkers = 3
  MaxStops = 2
  MaxChunk = 2
  StopMayFail = TRUE
INVARIANT TypeOK
INVARIANT WorkerInHand
PROPERTY IdleIsReal
PROPERTY NobodyWaitsInVain
CHECK_DEADLOCK FALSE
