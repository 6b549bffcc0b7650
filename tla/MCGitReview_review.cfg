SPECIFICATION FairSpec
CONSTANTS
  Windows <- OneWindow
  MaxSubs = 2
  MaxChanges = 1
  MaxRefreshes = 1
  MaxTroubles = 1
  MaxBacklog = 2
  SlowReads = FALSE
INVARIANT TypeOK
INVARIANT ResultsFit
INVARIANT NoIdleWork
PROPERTY CatchesUp
CHECK_DEADLOCK FALSE
