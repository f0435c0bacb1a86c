SPECIFICATION Spec
CONSTANTS
  NumProblems = 3
  NumShards = 2
  NumGpus = 2
  WorkersPerGpu = 1
  BatchSize = 2
  MaxCrashes = 2
  TornWrites = TRUE
INVARIANTS
  ResumableResumes
CHECK_DEADLOCK FALSE
