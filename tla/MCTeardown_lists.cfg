SPECIFICATION TeardownSpec
CONSTANTS
  NUM_PRIORITIES = 3
  MIN_PRIORITY_JUMP = 1
  PRIORITY_JUMP_EXTRA = 2
  TOTAL_TERMINATED = 3
  NULL = NULL
  Node = {n1, n2, n3}
  PCB = {p1, p2, p3, p4}
SYMMETRY Addresses
INVARIANTS
  TypeOK
  WellLinked
  NodesInUseAccounted
  NoCrashWithoutFailure
  ReleasedOnce
  NothingLeft
PROPERTIES
  ImplementsAbstract
