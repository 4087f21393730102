SPECIFICATION FairSpec
CONSTANTS
  Last = 3
  RamdiskAddr <- Addresses
  ArgsLen <- Lengths
  CmdlineSize = 2
  LowSize = 4
  ShiftSize = 2
  Environments <- AnyBoot
INVARIANTS
  OwnParameters
  NotSpoiled
PROPERTIES
  StartsPrepared
  AllUp
