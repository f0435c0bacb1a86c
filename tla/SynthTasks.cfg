SPECIFICATION TaskSpec
CONSTANTS
  TB = 1088
  RES = 64
  Inert = 8192
  Pre = 448
  Mid = 256
  NB = 16
  QBUDGET = 40
  Ages = {768, 1536, 3072, 4224}
  Stubs = {20}
  Needles = {8, 12, 16}
  Queries = {12, 40}
  Values = {4}
  FreeTokens = 32
INVARIANTS EventsAsPublished
CHECK_DEADLOCK FALSE
