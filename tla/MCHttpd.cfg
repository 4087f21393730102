SPECIFICATION FairSpec
CONSTANTS
  Requests = {1, 2}
  Loads <- MixedLoads
  Environments <- AllEnvironments
  Cap = 1
INVARIANTS
  TypeOK
  AnswerWhole
  ScriptGetsBody
  LeftOpen
PROPERTIES
  EndsUnlessHeld
  AnswerEnds
CHECK_DEADLOCK FALSE
