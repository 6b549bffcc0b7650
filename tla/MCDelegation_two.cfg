SPECIFICATION Spec
CONSTANTS
  d1 = d1
  d2 = d2
  p1 = p1
  Delegations <- TwoDelegations
  Parents <- OneParent
  ParentOf <- UnderOneParent
  Pinned <- NoDelegation
  MaxConcurrency = 1
  MaxRetained = 1
  StopMayFail = FALSE
  MaxRuns = 1
  MaxHosts = 1
  MaxEpoch = 1
  MaxRestarts = 1
INVARIANT AdmissionCap
INVARIANT EvictedHasNoWorker
CHECK_DEADLOCK FALSE
