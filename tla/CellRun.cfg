SPECIFICATION FairSpec
CONSTANTS
  NumProblems = 5
  NumShards = 3
  NumGpus = 2
  WorkersPerGpu = 1
  BatchSize = 2
  MaxCrashes = 3
  TornWrites = TRUE
INVARIANTS
  CompletionsAligned
PROPERTIES
  RepairSparesFinished
  EventuallyComplete
CHECK_DEADLOCK FALSE
