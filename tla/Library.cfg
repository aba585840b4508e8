SPECIFICATION Spec
CONSTANTS
  Top = 12
  Bits = 8
  Inc = 23
  Turn = 3
  PRINTF_BUFMAX = 3
  START_SDRAM = 10
  END_SDRAM = 14
  END_STRATA = 4
  Unit = 12
  WordBits = 8
  TableSize = 23
INVARIANTS StringsRight StdioRight ConsoleRight AdmittedMeetDeadlines KernelTablesRight EarlyProgramsRight
