SPECIFICATION MCFairSpec
CONSTANTS
  Kinds = {"single", "batch", "control"}
  Procs = {p1, p2}
  LastGroup = 2
  OverlongSets = {{}, {1}}
  None = None
  Nobody = Nobody
  Sources = {"v1", "v2"}
  Validated = {"v1"}
  MaxCrashes = 3
  MaxEdits = 1
  AnswerFiles = {ans1, ans2}
  ProblemOf <- SameProblem
  Possible <- Outcomes
  Reviews = {rev1, rev2}
  SampleSize = 1
  Unset = Unset
  Missing = Missing
  MaxRewrites = 1
  Cells <- OneCell
  Slices <- TwoSlices
  BatchSize = 2
  MaxEvents = 5
  BenchOrders <- MethodOrders
  Contexts <- BothContexts
  Steps = 1
  Repeats = 2
  Modes <- BothModes
  BenchPrompt = 2
  BenchCapacity = 6
  BenchRecent = 3
  MaxBenchCrashes = 3
  NoRun = NoRun
  ProbeOrders <- PolicyOrders
  Gaps <- FourGaps
  Cases = 1
  ProbePrompt = 1
  Fact = 2
  Query = 2
  Value = 1
  ProbeCapacity = 5
  ProbeRecent = 2
  ProbeSources = {"v1", "v2"}
  MaxProbeCrashes = 1
  MaxProbeEdits = 1
  NoTrace = NoTrace
  Studies = {"frontier", "control"}
  ShortCap = 3
  LongCap = 6
  SharedLength <- SharedPrefixes
  Lengths = {2, 3, 5, 7}
  Departures = {2, 5}
  PairSources = {"v1", "v2"}
  MaxDisturbances = 2
  Nothing = Nothing
INVARIANTS
  LedgerSound
  PairsComparable
  ReportsComparable
  ReviewSound
  SuiteSound
PROPERTIES
  NothingRepeated
  ForeignBuildSpares
  StudiesFinish
CHECK_DEADLOCK FALSE
