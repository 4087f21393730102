SPECIFICATION Spec
CONSTANTS
  Requests = {1, 2}
  Loads <- FileLoads
  Environments <- OnlyCalm
  Cap = 1
INVARIANT EntireFile
CHECK_DEADLOCK FALSE
