SPECIFICATION Spec
CONSTANTS
  IDLE_PRIO = 4
  NumMutexes = 1
  NumDevices = 1
  Freq <- MCFreq
  MaxCreate = 1
  Misuse = {}
INVARIANT RunningIsHighest
