SPECIFICATION UpSpec
CONSTANTS
  MaxIp = 3
  Kernel <- Three
  Octets <- ToZero
  Killable <- None
  MaxPackets = 2
  MaxStarts = 1
INVARIANT NothingTorn
