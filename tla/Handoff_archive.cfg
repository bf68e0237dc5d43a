SPECIFICATION FairSpec
CONSTANTS
  MaxHandoffs = 1
  MaxBoots = 1
PROPERTY ArchiveSettles
CHECK_DEADLOCK FALSE
