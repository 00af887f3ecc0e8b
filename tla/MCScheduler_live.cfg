SPECIFICATION LiveSpec
CONSTANTS
  NUM_PRIORITIES = 3
  MIN_PRIORITY_JUMP = 1
  PRIORITY_JUMP_EXTRA = 2
  NULL = NULL
  RESET_COUNT = 4
  MAX_PCB_IN_ROUND = 3
  MAX_PCB_TOTAL = 4
  TOTAL_TERMINATED = 2
  TIMER_RANGE = 2
  Image <- EndlessImages
PROPERTIES
  QueuedRuns
  IoCompletes
  IdleRecovers
