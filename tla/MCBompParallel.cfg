SPECIFICATION FairSpec
CONSTANTS
  Programs <- OrderlyPrograms
  MaxWorkers = 4
  Modes <- MCModes
INVARIANTS
  TypeOK
  JoinComplete
  TeamComplete
  OwnTeam
  SerialGlobals
PROPERTIES
  ProgramEnds
  ImplementsForkJoin
CHECK_DEADLOCK FALSE
