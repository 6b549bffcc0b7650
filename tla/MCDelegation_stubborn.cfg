SPECIFICATION FairSpec
CONSTANTS
  d1 = d1
  d2 = d2
  p1 = p1
  Delegations <- OneDelegation
  Parents <- OneParent
  ParentOf <- UnderOneParent
  Pinned <- OneDelegation
  MaxConcurrency = 1
  MaxRetained = 1
  StopMayFail = TRUE
  MaxRuns = 2
  MaxHosts = 3
  MaxEpoch = 1
  MaxRestarts = 0
PROPERTY StaleRunsAreInert
PROPERTY ImplementsContract
PROPERTY StopReturns
CHECK_DEADLOCK FALSE
