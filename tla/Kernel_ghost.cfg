SPECIFICATION Spec
CONSTANTS
  IDLE_PRIO = 4
  NumMutexes = 2
  NumDevices = 1
  Freq <- MCFreq
  MaxCreate = 3
  Misuse = {"create_holding_lock", "create_over_sleepers"}
CONSTRAINTS CountersBounded UntilTangled
PROPERTIES FirstComeFirstServed LostOnlyAtCeiling TangledOnlyByCreation
