SPECIFICATION LoopFairSpec
CONSTANTS
  NUM_PRIORITIES = 3
  MIN_PRIORITY_JUMP = 1
  PRIORITY_JUMP_EXTRA = 2
  NULL = NULL
  RESET_COUNT = 4
  MAX_PCB_IN_ROUND = 3
  MAX_PCB_TOTAL = 5
  TOTAL_TERMINATED = 2
  TIMER_RANGE = 2
  Image <- LoopImages
  PC_BEYOND = 5
INVARIANTS
  LoopTypeOK
  OneHome
  NoMissedTermination
  CrashLeavesWork
PROPERTIES
  
  ImplementsLife
