SPECIFICATION FairSpec
CONSTANTS
  Callers = {c1, c2}
  MaxRuns = 2
INVARIANT FreshCycle
PROPERTIES EveryWaiterReturns ShutdownFinishes
CHECK_DEADLOCK FALSE
