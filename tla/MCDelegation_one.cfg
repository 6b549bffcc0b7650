SPECIFICATION FairSpec
CONSTANTS
  d1 = d1
  d2 = d2
  p1 = p1
  Delegations <- OneDelegation
  Parents <- OneParent
  ParentOf <- UnderOneParent
  Pinned <- OneDelegation
  MaxConcurrency = 1
  MaxRetained = 1
  StopMayFail = FALSE
  MaxRuns = 3
  MaxHosts = 2
  MaxEpoch = 1
  MaxRestarts = 1
INVARIANT TypeOK
INVARIANT WorkersAccountedFor
INVARIANT PausedParentDrains
INVARIANT NoUnattendedRun
PROPERTY EveryRunSettles
CHECK_DEADLOCK FALSE
