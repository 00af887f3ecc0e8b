SPECIFICATION ConnorSpec
CONSTANTS
  NUM_PRIORITIES = 2
  MIN_PRIORITY_JUMP = 1
  PRIORITY_JUMP_EXTRA = 2
  NULL = NULL
  RESET_COUNT = 4
  MAX_PCB_IN_ROUND = 3
  MAX_PCB_TOTAL = 6
  TOTAL_TERMINATED = 3
  TIMER_RANGE = 2
  Image <- ConnorImages
  PC_BEYOND = 5
  MAX_COPIES = 1
INVARIANTS
  ConnorTypeOK
  ConnorDerefSafe
  IoTimerBounded
PROPERTIES
  HaltIsFinal
  FirstCopy
