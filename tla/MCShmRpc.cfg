SPECIFICATION FairSpec
CONSTANTS
  N = 3
  MaxKills = 3
INVARIANTS
  MessagesUnderstood
PROPERTIES
  ImplementsRemoteCall
CHECK_DEADLOCK FALSE
