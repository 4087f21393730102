SPECIFICATION Spec
CONSTANTS
  Machines <- MCMachines
  Policies = {"nonodes", "globalshm", "clustered"}
  MaxRegions = 6
  Page = 2
  Resolution = 4
  Cap = 4
  BenChunk = 8
  BenAlignment = 16
  Wrap = 65536
INVARIANTS
  NodesTile
  MapsEndAtLimit
  CpuHasOneKernel
  ChunksWhole
CHECK_DEADLOCK FALSE
