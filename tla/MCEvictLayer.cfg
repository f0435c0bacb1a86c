SPECIFICATION Spec
CONSTANTS
  h1 = h1
  h2 = h2
  Heads <- MCHeads
  Carriers <- MCCarriers
  Spans <- MCSpans
  Budget = 6
  Residual = 2
  NumSink = 1
  PmixSmall = 1
  PromptCap = 0
  PlanPrefix = 1
  MinScatter = 1
  RecentKeep = 2
  TailPercent = 50
  ForceLo = 0
  ForceHi = 0
  Modes = {"random", "l2_sink_sample_attn", "random_pp", "recency", "recency_pp", "random_unified", "random_pmix", "random_ppp", "random_pcap", "synth_pin", "carrier_mix", "anti_softmix", "random_pp_rec", "cusa"}
  Prompts = {2, 3, 7}
  MaxTokens = 10
  TrackAll = FALSE
INVARIANTS
  Chronological
  PinnedPrefixIntact
  WindowIsNewest
  TrackedPromptIntact
  SpanCopiesExact
  WithinCapacity
PROPERTIES
  ResidualMoveDisjoint
  ImplementsPromise
CHECK_DEADLOCK FALSE
