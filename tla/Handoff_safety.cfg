SPECIFICATION Spec
CONSTANTS
  MaxHandoffs = 3
  MaxBoots = 2
INVARIANTS
  OneWorker
  WorkerIsOwned
  PromptRunsOnce
  SettledIsQuiet
CHECK_DEADLOCK FALSE
