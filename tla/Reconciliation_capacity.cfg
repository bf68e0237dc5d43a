SPECIFICATION Spec
CONSTANTS
  Issues = {1, 2}
  MaxAttempt = 1
  Cycle = "cycle"
  Operators <- NoOperator
  Capacity = 1
  Overlaps <- Disjoint
  MaxCycles = 4
  MaxEdits = 0
  MaxBoots = 1
INVARIANT CapacityKept
CHECK_DEADLOCK FALSE
