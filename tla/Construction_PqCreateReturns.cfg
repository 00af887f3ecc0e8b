SPECIFICATION Spec
CONSTANTS
  NUM_PRIORITIES = 16
  MIN_PRIORITY_JUMP = 500
  PRIORITY_JUMP_EXTRA = 1000
  NULL = NULL
INVARIANTS
  PqCreateReturns
