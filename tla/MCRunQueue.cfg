SPECIFICATION Spec
CONSTANTS
  Tcbs <- MCTcbs
  Prios <- MCPrios
  IDLE_PRIO = 63
INVARIANT TypeOK
PROPERTY ImplementsReadyQueue
