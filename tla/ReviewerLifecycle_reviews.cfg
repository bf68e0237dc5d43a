SPECIFICATION FairSpec
CONSTANTS
  Modes <- Both
  MaxTargets = 2
  MaxRuns = 2
  MaxBoots = 3
  MaxFaults = 1
INVARIANTS
  NeverTwoReviewers
  HonestProofs
  WorkIsKept
  VerdictFromItsRun
  DestroyedClean
PROPERTIES
  BoundReviewSettles
  StoppableSettles
