SPECIFICATION ProgramsSpec
CONSTANTS
  IDLE_PRIO = 8
  NumMutexes = 3
  NumDevices = 4
  Freq <- MCFreq
  MaxCreate = 3
  Misuse = {"create_unschedulable", "device_past_end"}
  Loaded = {"mutex_chaser", "simple_mutex", "sys_err", "stress", "cyclone", "dagger"}
  ITE = 2
  NUM_TASK = 7
INVARIANTS ProgramsTypeOK ChaserWorks RefusalsExpected
PROPERTIES FirstTaskKeepsGoing SingleTaskEnds
