SPECIFICATION LiveSpec
CONSTANTS
  LARGEST_PC_POSSIBLE = 8
  SMALLEST_PC_POSSIBLE = 2
  TRAP_COUNT = 2
  MaxPID = 2
  StaleWord <- SomeWords
  WORDS_BEHIND = 2
CHECK_DEADLOCK FALSE
INVARIANTS
  MaxPcInRange
  ProbeBounded
PROPERTIES
  CreateReturns
