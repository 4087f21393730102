SPECIFICATION FairSpec
CONSTANTS
  MaxIp = 2
  Kernel <- Two
  Octets <- ToOne
  Killable <- Two
  MaxPackets = 3
  MaxStarts = 3
INVARIANTS
  WholeInv
  InOrder
  RightAddressee
PROPERTIES
  SenderGetsThrough
  ImplementsLink
CHECK_DEADLOCK FALSE
