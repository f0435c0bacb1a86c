SPECIFICATION Spec
CONSTANTS
  NumProblems = 3
  NumShards = 2
  NumGpus = 2
  WorkersPerGpu = 1
  BatchSize = 1
  MaxCrashes = 2
  TornWrites = FALSE
INVARIANTS
  LengthsMatchLines
CHECK_DEADLOCK FALSE
