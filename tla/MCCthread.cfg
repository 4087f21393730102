SPECIFICATION Spec
CONSTANTS
  KeysMax = 2
  MaxThreads = 2
  Value = {7}
  Junk = 9
INVARIANTS
  KeyGivenOnce
  OwnArea
  OwnValue
CHECK_DEADLOCK FALSE
