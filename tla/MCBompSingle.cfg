SPECIFICATION FairSpec
CONSTANTS
  Programs <- NestedByWorker
  MaxWorkers = 1
  Modes <- MCModes
PROPERTY SingleByFirst
CHECK_DEADLOCK FALSE
