SPECIFICATION FairSpec
CONSTANTS
  Thread = {t1, t2, t3, t4}
  Lock = {"critical", "atomic"}
  LockOf <- BothLocks
  MaxEpisodes = 4
  MaxSections = 2
INVARIANTS
  SumsWhole
  NoEarlyRelease
  NoLostUpdate
PROPERTIES
  NoArrivalLost
  EveryWaitReturns
  ImplementsBarrier
  LockGranted
  ImplementsMutex
