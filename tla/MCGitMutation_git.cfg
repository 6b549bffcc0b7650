SPECIFICATION Spec
CONSTANTS
  Files <- TwoFiles
  Selections <- Both
  Untracked <- Second
  MaxRequests = 3
  MaxTroubles = 2
  EditInUnlink = FALSE
INVARIANT TypeOK
INVARIANT NothingIsLost
PROPERTY ForeignLockKept
PROPERTY ImplementsChange
CHECK_DEADLOCK FALSE
