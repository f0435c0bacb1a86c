SPECIFICATION Spec
CONSTANTS
  None = None
  Problems = 30
  Standard = 16
  Width = 16
  Groups = 3
  NumShards = 2
  Ranks = 2
  Step = 15
  MaxLaunches = 2
INVARIANTS
  SlicesAreReplicates
CHECK_DEADLOCK FALSE
