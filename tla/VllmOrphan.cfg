SPECIFICATION Spec
CONSTANTS
  NumRequests = 1
  PromptLengths = {30}
  MaxLength = 60
  BlockSize = 16
  NumBlocks = 8
  MaxScheduled = 32
  MaxRowBlocks = 6
  KvBudget = 32
  DivideLength = 16
  Grace = 3
  ReserveCap = 15
  GuardMultiples = 2
  RegressionPercent = 90
  Lookahead = 2
INVARIANTS
  NoOrphanWrite
CHECK_DEADLOCK FALSE
