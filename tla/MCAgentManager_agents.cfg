SPECIFICATION FairSpec
CONSTANTS
  Sessions <- OneSession
  MaxHosts = 3
  MaxCalls = 3
  MaxTroubles = 2
INVARIANT TypeOK
INVARIANT WorkersAreReached
PROPERTY ViewFollowsChoice
PROPERTY CallsSettle
CHECK_DEADLOCK FALSE
