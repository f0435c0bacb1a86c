SPECIFICATION Spec
CONSTANTS
  NumRequests = 2
  PromptLengths = {6, 9, 13}
  MaxLength = 25
  BlockSize = 5
  NumBlocks = 11
  MaxScheduled = 9
  MaxRowBlocks = 5
  KvBudget = 10
  DivideLength = 5
  Grace = 3
  ReserveCap = 4
  GuardMultiples = 1
  RegressionPercent = 90
  Lookahead = 2
INVARIANTS
  NoOrphanWithReserve
  BlocksSafe
  BooksAgree
  CacheBounded
CHECK_DEADLOCK FALSE
