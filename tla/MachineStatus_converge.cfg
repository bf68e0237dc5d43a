CONSTANTS
  MaxSeq = 2
  MaxProposals = 1
  MaxFaults = 1
SPECIFICATION Spec
INVARIANTS
  AppliedIsPublished
PROPERTIES
  LatestPublished
  SupervisorFinishes
