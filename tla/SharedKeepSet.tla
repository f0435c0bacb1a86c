--------------------------- MODULE SharedKeepSet ---------------------------
(***************************************************************************)
(* The cross-layer keep-set of the mode triattn_ph of                      *)
(* kvcompress/engine/cache_utils.py.  The score of a slot is a mean over   *)
(* ALL layers, but the eviction hook fires in one layer after the other of *)
(* the same forward pass, so the first layer scores, leaves the kept       *)
(* indices in a slot of the module, and the other layers of the round      *)
(* reuse them while the key matches.  The slot outlives the generation.    *)
(*                                                                         *)
(* One KV head is modelled (heads are scored and gathered alike); a row is *)
(* the absolute position of its token, a score is a free choice among the  *)
(* index sets that keep the protected prompt.                              *)
(***************************************************************************)
EXTENDS Integers, Sequences

CONSTANTS
  NumLayers,       \* config.num_hidden_layers
  TokenBudget,     \* token_budget
  ResidualLength,  \* residual_length
  PromptLengths,   \* prompt lengths
  BatchSize,       \* rows a generation starts with
  MaxSteps,        \* bound on the tokens of a generation
  MaxGenerations   \* bound on the problems one process works through

(* The budget is a positive multiple of the residual, prompts are not      *)
(* single tokens.                                                          *)
SharedAssumption ==
  /\ NumLayers \in Nat \ {0} /\ ResidualLength \in Nat \ {0} /\ TokenBudget \in Nat
  /\ ResidualLength < TokenBudget /\ TokenBudget % ResidualLength = 0
  /\ PromptLengths \subseteq Nat \ {0, 1} /\ BatchSize \in Nat \ {0}

VARIABLES
  generation,   \* problems started
  promptLen,    \* prompt_len, alike in all layers
  batch,        \* rows still in the batch
  turn,         \* the layer whose forward runs next
  cumulative,   \* layer -> cumulative_length
  kv,           \* layer -> sequence of the positions its slots hold
  memo          \* _triattn_ph_shared

sharedVars == <<generation, promptLen, batch, turn, cumulative, kv, memo>>

Layers == 1..NumLayers
KeepCount == TokenBudget - ResidualLength
Protected == IF promptLen < KeepCount THEN promptLen ELSE KeepCount - 1
None == [key |-> << >>]

SharedInit ==
  /\ generation = 0 /\ promptLen = 0 /\ batch = 0 /\ turn = 1
  /\ cumulative = [l \in Layers |-> 0]
  /\ kv = [l \in Layers |-> << >>]
  /\ memo = None

(* A new problem constructs a new EvictCache between two forward passes;   *)
(* the constructor clears the slot.                                        *)
NewCache(p) ==
  /\ turn = 1 /\ generation < MaxGenerations
  /\ generation' = generation + 1
  /\ promptLen' = p /\ batch' = BatchSize
  /\ cumulative' = [l \in Layers |-> 0] /\ kv' = [l \in Layers |-> << >>]
  /\ memo' = None
  /\ UNCHANGED turn

(* Rows that finish leave the batch between two passes.                    *)
RowsLeave ==
  /\ turn = 1 /\ cumulative[1] > 0
  /\ batch' \in 1..(batch - 1)
  /\ UNCHANGED <<generation, promptLen, turn, cumulative, kv, memo>>

(* Faulty variant: the residual is scored too.                             *)
CandidatesAll(len) == len

Candidates(len) == len - ResidualLength
Lesser(i, j) == IF i < j THEN i ELSE j

(* Faulty variant: rounds are told apart by their shapes only.             *)
KeyByShape(len, start) == <<len, batch, Candidates(len), Protected>>

Key(len, start) == <<len, batch, Candidates(len), start, Protected>>

(* The sorted indices a score may select; the prompt scores +inf.          *)
Selections(n) ==
  {ids \in [1..KeepCount -> 1..n] :
     /\ \A i, j \in 1..KeepCount : i < j => ids[i] < ids[j]
     /\ \A p \in 1..Protected : \E i \in 1..KeepCount : ids[i] = p}

(* Faulty variant: every layer scores for itself.                          *)
HitNever(key) == FALSE

Hit(key) == memo.key = key

(* What a layer finds in the slot, or puts there: the kept indices, and    *)
(* the generation, length and rows of every layer they were scored on.     *)
Scored(key, full, len, start) ==
  {[key |-> key, ids |-> ids, generation |-> generation, at |-> start,
    rows |-> [m \in Layers |-> SubSeq(full[m], 1, Lesser(Candidates(len), Len(full[m])))]]
     : ids \in Selections(Candidates(len))}

(* One layer's forward: append, and evict when due.                        *)
Forward ==
  /\ generation > 0
  /\ LET l     == turn
         n     == IF cumulative[l] = 0 THEN promptLen ELSE 1
         full  == [kv EXCEPT ![l] = @ \o [i \in 1..n |-> cumulative[l] + i - 1]]
         len   == Len(full[l])
         start == cumulative[l] + n
     IN  /\ start <= MaxSteps
         /\ cumulative' = [cumulative EXCEPT ![l] = start]
         /\ IF n = 1 /\ len > TokenBudget /\ len % ResidualLength = 0
            THEN /\ \/ Hit(Key(len, start)) /\ UNCHANGED memo
                    \/ /\ ~Hit(Key(len, start))
                       /\ memo' \in Scored(Key(len, start), full, len, start)
                 /\ kv' = [full EXCEPT ![l] =
                      [i \in 1..TokenBudget |-> IF i <= KeepCount THEN full[l][memo'.ids[i]]
                                           ELSE full[l][len - TokenBudget + i]]]
            ELSE kv' = full /\ UNCHANGED memo
         /\ turn' = (l % NumLayers) + 1
  /\ UNCHANGED <<generation, promptLen, batch>>

SharedNext == (\E p \in PromptLengths : NewCache(p)) \/ RowsLeave \/ Forward

SharedSpec == SharedInit /\ [][SharedNext]_sharedVars
-----------------------------------------------------------------------------
(* Every layer compacts with a keep-set scored in this generation and this *)
(* round, on exactly the candidate rows it is about to gather.             *)
KeepSetIsFresh ==
  [][\A l \in Layers : cumulative'[l] > cumulative[l] /\ Len(kv'[l]) <= Len(kv[l]) =>
       /\ memo'.generation = generation /\ memo'.at = cumulative'[l]
       /\ memo'.rows[l] =
            SubSeq(Append(kv[l], cumulative[l]), 1, Candidates(Len(kv[l]) + 1))]_sharedVars

(* A score adds up what the layers hold in the SAME slot: the layers that  *)
(* have not appended this pass's token yet must already hold every         *)
(* candidate, and the same one as the scoring layer.                       *)
ScoresAlignAcrossLayers ==
  memo # None => \A l, m \in Layers : memo.rows[l] = memo.rows[m]

(* All layers keep the same tokens: between two passes they are identical, *)
(* and within a pass the layers that ran agree and those that did not do.  *)
LayersAgree ==
  \A l, m \in Layers : (l < turn <=> m < turn) => kv[l] = kv[m]

\* The keep-set scored once for all layers is one they can all apply: same slots, same rows.
LayersShareOneSet == ScoresAlignAcrossLayers /\ LayersAgree
=============================================================================
