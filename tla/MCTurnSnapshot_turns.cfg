SPECIFICATION TSSpec
CONSTANTS
  r1 = r1
  r2 = r2
  Runtimes <- TwoRuntimes
  Retained = 1
  MaxTurns = 2
  MaxWrites = 2
  MaxFailures = 1
INVARIANT TSTypeOK
INVARIANT RangesAreHonest
SYMMETRY Symmetry
CHECK_DEADLOCK FALSE
