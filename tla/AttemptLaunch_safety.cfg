CONSTANTS
  Nonces = {n1, n2}
  None = None
  MaxEffects = 5
  MaxBoots = 3
SPECIFICATION Spec
SYMMETRY NonceSymmetry
INVARIANTS
  SingleWorker
  RecordHonest
  CleanedStaysClean
PROPERTY
  SettledStaysSettled
CHECK_DEADLOCK FALSE
