SPECIFICATION FairSpec
CONSTANTS
  q = q
  s = s
  Requests <- MCRequests
  Scenes <- Scenarios
  MaxEffects = 3
  MaxBoots = 2
  MaxAborts = 1
  Faults = TRUE
INVARIANTS LedgerValid HonestResults NothingUnannounced
PROPERTIES SettledStays AdmissionSettles
CHECK_DEADLOCK FALSE
