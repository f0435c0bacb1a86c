----------------------------- MODULE MCDecoding -----------------------------
(***************************************************************************)
(* Seven components of decoding that share no state, model-checked in one  *)
(* run: the query buffer, the cross-layer keep-set and the Qwen3.5 layer   *)
(* with the closed forms of its audits, the shrinking batch and the paired *)
(* one, the instance of the synthetic suite that is forced through the     *)
(* decode path (extended, since theorems are proved about them), and the   *)
(* modes that shape the kept set.                                          *)
(* An initial state picks the component that runs; the others stay idle.   *)
(***************************************************************************)
EXTENDS QueryRing, SharedKeepSet, CacheAccounting, SampledBatches, SynthTasks

VARIABLES
  active,   \* the component that runs
  mode, layer, heads, shapedPrompt, held, kept, shapedRounds, rankings, cluster

shapedVars == <<mode, layer, heads, shapedPrompt, held, kept, shapedRounds, rankings, cluster>>

Shaped == INSTANCE DiversityModes
  WITH Budget <- 8, Residual <- 2, HeadCounts <- {2, 3, 4}, Prompts <- {1, 2, 5},
       LayerIndices <- {0, 1}, BlockSize <- 3, MaxRounds <- 3, Ranked <- 4, RankedKeep <- 3,
       promptLen <- shapedPrompt, rounds <- shapedRounds

ASSUME ComponentAssumptions ==
  /\ SharedAssumption /\ BatchAssumption /\ PairAssumption
  /\ ConfigAssumption /\ TaskAssumption
  /\ Shaped!ShapeAssumption

ForcedAtRest ==
  age = 96 /\ stub = 1 /\ query = 2 /\ nv = 1 /\ budget = TB

\* Heads that draw for themselves are as good as two; the ranking modes have no heads.
\* Slots of the prompt are alike, and so are the others: the first ranking need not
\* reorder them.
ShapedBounds ==
  /\ mode \notin Shaped!SegmentModes => heads = 2
  /\ mode \in Shaped!RankingModes => shapedPrompt <= 2
  /\ mode = "union_topk_pp" => \A i, j \in DOMAIN rankings[1] :
       i < j /\ (rankings[1][i] < shapedPrompt <=> rankings[1][j] < shapedPrompt) =>
         rankings[1][i] < rankings[1][j]
ShapedAtRest ==
  /\ mode = "segment_pp" /\ layer = 0 /\ heads = 2 /\ shapedPrompt = 1 /\ shapedRounds = 0
  /\ held = <<>> /\ kept = <<>> /\ rankings = <<>> /\ cluster = <<>>

MCInit ==
  /\ active \in {"ring", "shared", "solo", "pair", "hybrid", "forced", "shaped"}
  /\ Init /\ SharedInit /\ BatchInit /\ PairInit
  /\ HybridInit /\ (active # "hybrid" => policy = "none" /\ hooked)
  /\ TaskInit /\ (active # "forced" => ForcedAtRest)
  /\ \/ active = "shaped" /\ Shaped!Init /\ ShapedBounds
     \/ active # "shaped" /\ ShapedAtRest

RingRuns ==
  /\ active = "ring" /\ Next
  /\ UNCHANGED <<active, sharedVars, batchVars, pairVars, hybridVars, taskVars, shapedVars>>
SharedRuns ==
  /\ active = "shared" /\ SharedNext
  /\ UNCHANGED <<active, vars, batchVars, pairVars, hybridVars, taskVars, shapedVars>>
SoloRuns ==
  /\ active = "solo" /\ BatchNext
  /\ UNCHANGED <<active, vars, sharedVars, pairVars, hybridVars, taskVars, shapedVars>>
PairRuns ==
  /\ active = "pair" /\ PairNext
  /\ UNCHANGED <<active, vars, sharedVars, batchVars, hybridVars, taskVars, shapedVars>>
HybridRuns ==
  /\ active = "hybrid" /\ HybridNext
  /\ UNCHANGED <<active, vars, sharedVars, batchVars, pairVars, taskVars, shapedVars>>
ForcedRuns ==
  /\ active = "forced" /\ TaskNext
  /\ UNCHANGED <<active, vars, sharedVars, batchVars, pairVars, hybridVars, shapedVars>>
ShapedRuns ==
  /\ active = "shaped" /\ Shaped!Next
  /\ UNCHANGED <<active, vars, sharedVars, batchVars, pairVars, hybridVars, taskVars>>

MCNext ==
  RingRuns \/ SharedRuns \/ SoloRuns \/ PairRuns \/ HybridRuns \/ ForcedRuns \/ ShapedRuns

MCSpec ==
  MCInit /\ [][MCNext]_<<active, vars, sharedVars, batchVars, pairVars, hybridVars, taskVars,
                         shapedVars>>

(* A shaped kept set is what its comment says, at a round and over rounds. *)
ShapesExact == active = "shaped" => Shaped!ShapesExact
=============================================================================
