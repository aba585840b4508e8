SPECIFICATION FairSpec
CONSTANTS
  Match = 3
  CounterSize = 10
  CountSize = 26
  Resolution = 4
  Devices = {1, 2}
  Freq <- MCFreq
  Millis = {0, 3, 8, 25}
  Latency = 2
INVARIANTS TypeOK Accurate NeverLate
PROPERTIES OnTimeUnlessWrapped SleepLongEnough SleepEnds
