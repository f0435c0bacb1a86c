SPECIFICATION MCFairSpec
CONSTANTS
  None = None
  NumProblems = 3
  Shardings = {1, 2, 3}
  Subs = {"bs1", "bs2"}
  Runs = {0, 1}
  MaxLaunches = 1
  Methods <- MCMethods
  SlotsOf <- MCSlots
  RunOf <- MCRun
  Problems <- MCProblems
  LastProblem = 2
  Texts = {"solution", "hangs", "marginal"}
  Solves <- MCSolves
  TestBytes <- MCBytes
  Capacity = 2
  Workers <- MCWorkers
  FileStates <- MCFiles
  Full <- MCFull
  Golds <- MCGolds
  Leaves = {1}
  MergedRuns = {0}
  SubsetShardings = {1, 2}
  MaxLines = 3
  MaxLosses = 1
  MaxMerges = 2
  MaxStops = 1
  NoFile = NoFile
INVARIANTS
  AuditSound
  ScoresExact
  MergeSound
  RunsSound
  TablesSound
PROPERTIES
  CellHeals
  GradingEnds
CHECK_DEADLOCK FALSE
