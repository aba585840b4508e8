SPECIFICATION Spec
CONSTANTS
  Argcs = {0, 2}
  Offset = 3
  Words = {1, 2, 3, 4, 5, 6, 7, 8, 9, 10, 11, 12, 13, 14, 15, 16, 17, 18, 19}
  Inst <- MCInst
INVARIANTS TypeOK VectorsInHand InterruptsReachKernel GivenBack HandedOver
CHECK_DEADLOCK FALSE
