SPECIFICATION MCSpec
CONSTANTS
  Budget = 12
  Residual = 4
  Window = 3
  Prompts = {2, 3, 4, 5, 7, 11, 12, 13, 14, 15, 16, 17}
  MaxTokens = 40
  NumLayers = 3
  TokenBudget = 6
  ResidualLength = 2
  PromptLengths = {2, 3, 5}
  BatchSize = 2
  MaxSteps = 12
  MaxGenerations = 2
  Heads = {h1, h2}
  Capacity = 6
  Recent = 2
  Policies = {"none", "random_pp", "random", "recency_pp", "random_shared_pp", "snapkv_pp"}
  FirstPasses = {1, 2, 3, 4}
  MaxLogical = 11
  InitialBatchSize = 3
  Vocabulary = {a, eos, eot}
  EosIds = {eos, eot}
  Filler = eos
  PromptTokens = 2
  MaxLength = 6
  PairRows = {1, 2}
  PairVocabulary = {a, b, eos, eot}
  PairEosIds = {eos, eot}
  PairFiller = eos
  MaxNewTokens = 4
  \* Every length an eighth of build_tasks.py's: the budget is 17 residuals.
  TB = 136
  RES = 8
  Inert = 1024
  Pre = 56
  Mid = 32
  NB = 2
  QBUDGET = 5
  Ages = {96, 192, 528}
  Stubs = {1, 5, 7}
  Needles = {1, 2}
  Queries = {2, 5}
  Values = {1, 2}
  FreeTokens = 4
INVARIANTS
  QueriesExact
  LayersShareOneSet
  RowsStayWhole
  HybridSafe
  AuditsAgree
  LayoutExact
  ShapesExact
PROPERTIES
  KeepSetIsFresh
  BatchesImplementSamples
  HybridImplementsPromise
CHECK_DEADLOCK FALSE
