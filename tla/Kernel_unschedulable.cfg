SPECIFICATION Spec
CONSTANTS
  IDLE_PRIO = 3
  NumMutexes = 1
  NumDevices = 1
  Freq <- MCFreq
  MaxCreate = 1
  Misuse = {"create_unschedulable"}
PROPERTY SwitchFindsTask
CHECK_DEADLOCK FALSE
