SPECIFICATION Spec
CONSTANTS
  Issues = {1}
  MaxAttempt = 3
  Cycle = "cycle"
  Operators <- OneOperator
  Capacity = 1
  Overlaps <- Disjoint
  MaxCycles = 4
  MaxEdits = 1
  MaxBoots = 2
INVARIANTS
  ObservationIsNewest
  OneLiveAttempt
  RunnableIsDispatched
PROPERTIES
  PriorWorkResolved
CHECK_DEADLOCK FALSE
