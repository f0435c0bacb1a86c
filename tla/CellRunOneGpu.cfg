SPECIFICATION Spec
CONSTANTS
  NumProblems = 3
  NumShards = 2
  NumGpus = 1
  WorkersPerGpu = 2
  BatchSize = 2
  MaxCrashes = 1
  TornWrites = FALSE
INVARIANTS
  JobsKeepApart
CHECK_DEADLOCK FALSE
