SPECIFICATION Spec
CONSTANTS
  Files <- TwoFiles
  Selections <- Both
  Untracked <- Second
  MaxRequests = 2
  MaxTroubles = 1
  EditInUnlink = FALSE
INVARIANT InterruptedRecoverable
CHECK_DEADLOCK FALSE
