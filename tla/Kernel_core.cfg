SPECIFICATION FairSpec
CONSTANTS
  IDLE_PRIO = 4
  NumMutexes = 2
  NumDevices = 2
  Freq <- MCFreq
  MaxCreate = 2
  Misuse = {}
INVARIANTS TypeOK NoTaskLost HolderRuns LocksCounted CreationQuiet InPlace
PROPERTIES InversionOnlyAfterUnlock ImplementsScheduler SleeperSignalled
