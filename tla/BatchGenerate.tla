--------------------------- MODULE BatchGenerate ---------------------------
(***************************************************************************)
(* batch_exist_generate of kvcompress/harness/generation_utils.py: several *)
(* samples of one prompt are decoded in one batch, and a row that draws an *)
(* end-of-sequence token leaves the batch.  The cache, the attention mask  *)
(* and cur_to_orig then shrink together, by indices relative to the batch  *)
(* as it is now; generated and finished keep the original rows.            *)
(*                                                                         *)
(* A cache row is represented by what was fed to it; drawing a token is a  *)
(* free choice from the vocabulary.                                        *)
(***************************************************************************)
EXTENDS Integers, Sequences, FiniteSets

CONSTANTS
  InitialBatchSize, \* input_ids.shape[0]
  Vocabulary,       \* tokens
  EosIds,           \* generation_config.eos_token_id, as a set
  Filler,           \* its first element, eos_token_id[0]
  PromptTokens,     \* input_ids.shape[1]
  MaxLength         \* max_length

Rows == 1..InitialBatchSize
Prompt == "prompt"
MaxNew == IF MaxLength > PromptTokens THEN MaxLength - PromptTokens ELSE 0

(* A batch has a row and a non-empty prompt; the filler is an end-of-      *)
(* sequence token.                                                         *)
BatchAssumption ==
  /\ InitialBatchSize \in Nat \ {0} /\ PromptTokens \in Nat \ {0} /\ MaxLength \in Nat
  /\ EosIds \subseteq Vocabulary /\ Filler \in EosIds /\ Prompt \notin Vocabulary

VARIABLES
  generated,   \* row -> tokens appended after the prompt
  finished,    \* row -> it has drawn an end-of-sequence token
  curToOrig,   \* cur_to_orig: batch position -> row
  curInput,    \* cur_input: batch position -> what the next pass feeds
  cache,       \* batch position -> what was fed to that cache row
  mask,        \* batch position -> width of its attention mask
  returned

batchVars == <<generated, finished, curToOrig, curInput, cache, mask, returned>>

BatchInit ==
  /\ generated = [r \in Rows |-> << >>]
  /\ finished = [r \in Rows |-> FALSE]
  /\ curToOrig = [i \in Rows |-> i]
  /\ curInput = [i \in Rows |-> Prompt]
  /\ cache = [i \in Rows |-> << >>]
  /\ mask = [i \in Rows |-> PromptTokens]
  /\ returned = FALSE

Steps == Len(generated[1])
Batch == DOMAIN curToOrig

(* Faulty variants: a row that has left is padded with a drawn token; with *)
(* token id 0.                                                             *)
NewTokensFirst(next) ==
  [r \in Rows |-> IF \E i \in Batch : curToOrig[i] = r
                  THEN next[CHOOSE i \in Batch : curToOrig[i] = r] ELSE next[1]]

NewTokensZero(next) ==
  [r \in Rows |-> IF \E i \in Batch : curToOrig[i] = r
                  THEN next[CHOOSE i \in Batch : curToOrig[i] = r] ELSE 0]

(* new_tokens_full: the drawn tokens at their rows, the filler elsewhere.  *)
NewTokens(next) ==
  [r \in Rows |-> IF \E i \in Batch : curToOrig[i] = r
                  THEN next[CHOOSE i \in Batch : curToOrig[i] = r] ELSE Filler]

(* Faulty variant: only the first end-of-sequence id ends a row.           *)
EndsAtFiller(next) ==
  [r \in Rows |-> finished[r] \/ \E i \in Batch : curToOrig[i] = r /\ next[i] = Filler]

Ends(next) ==
  [r \in Rows |-> finished[r] \/ \E i \in Batch : curToOrig[i] = r /\ next[i] \in EosIds]

(* The members of S, ascending: what torch.nonzero returns of a mask.      *)
Sorted(S) ==
  {f \in [1..Cardinality(S) -> S] : \A i, j \in DOMAIN f : i < j => f[i] < f[j]}

(* Faulty variant: positions of the batch taken for rows.                  *)
KeepByRow(done) == Sorted({i \in Batch : ~done[i]})

(* active_indices_local: positions of this batch whose rows go on.         *)
KeepLocal(done) == Sorted({i \in Batch : ~done[curToOrig[i]]})

Selected(s, keep) == [k \in DOMAIN keep |-> s[keep[k]]]

(* Faulty variants: the cache, or the mask, is not filtered.               *)
FilterButCache(fed, wide, done) ==
  \E keep \in KeepLocal(done) :
    /\ cache' = fed
    /\ mask' = Selected(wide, keep)
    /\ curToOrig' = Selected(curToOrig, keep)

FilterButMask(fed, wide, done) ==
  \E keep \in KeepLocal(done) :
    /\ cache' = Selected(fed, keep)
    /\ mask' = wide
    /\ curToOrig' = Selected(curToOrig, keep)

(* batch_select_indices, the mask and the mapping, all by the same indices.*)
Filter(fed, wide, done) ==
  \E keep \in KeepLocal(done) :
    /\ cache' = Selected(fed, keep)
    /\ mask' = Selected(wide, keep)
    /\ curToOrig' = Selected(curToOrig, keep)

(* One iteration: forward pass, draw, append, filter, next input.          *)
Step ==
  /\ ~returned /\ Steps < MaxNew
  /\ \E next \in [Batch -> Vocabulary] :
       LET fed  == [i \in Batch |-> Append(cache[i], curInput[i])]
           wide == [i \in Batch |-> mask[i] + 1]
       IN  /\ generated' = [r \in Rows |-> Append(generated[r], NewTokens(next)[r])]
           /\ finished' = Ends(next)
           /\ returned' = \A r \in Rows : finished'[r]
           /\ IF returned'
              THEN cache' = fed /\ mask' = wide /\ UNCHANGED <<curToOrig, curInput>>
              ELSE /\ Filter(fed, wide, finished')
                   /\ curInput' = [k \in DOMAIN curToOrig' |-> generated'[curToOrig'[k]][Steps + 1]]

(* The length limit ends the loop.                                         *)
Return ==
  /\ ~returned /\ Steps >= MaxNew
  /\ returned' = TRUE
  /\ UNCHANGED <<generated, finished, curToOrig, curInput, cache, mask>>

BatchNext == Step \/ Return

BatchSpec == BatchInit /\ [][BatchNext]_batchVars
-----------------------------------------------------------------------------
(* Every piece of the loop's state has its type; no row's tokens are lost  *)
(* to the padding.                                                         *)
BatchTypeOK ==
  /\ generated \in [Rows -> Seq(Vocabulary)] /\ finished \in [Rows -> BOOLEAN]
  /\ curToOrig \in Seq(Rows) /\ curInput \in Seq(Vocabulary \cup {Prompt})
  /\ cache \in Seq(Seq(Vocabulary \cup {Prompt})) /\ mask \in Seq(Nat)
  /\ returned \in BOOLEAN

(* Before every forward pass, batch position i of the cache holds exactly  *)
(* the history of the row it decodes, however often the batch has shrunk:  *)
(* no sample continues from another sample's keys and values.              *)
CacheFollowsRow ==
  ~returned =>
    /\ Len(cache) = Len(curToOrig)
    /\ \A i \in Batch : Append(cache[i], curInput[i]) = <<Prompt>> \o generated[curToOrig[i]]

(* The mask always covers what the cache holds and what is fed next.       *)
MaskCoversContext ==
  ~returned =>
    /\ Len(mask) = Len(cache)
    /\ \A i \in DOMAIN mask : mask[i] = PromptTokens + Len(cache[i])

(* The batch is exactly the unfinished rows, in order.                     *)
BatchIsUnfinished ==
  ~returned => curToOrig \in Sorted({r \in Rows : ~finished[r]})

(* The text a row sampled: up to its first end-of-sequence token.          *)
Text(r) ==
  LET ends == {i \in DOMAIN generated[r] : generated[r][i] \in EosIds}
  IN  IF ends = {} THEN generated[r]
      ELSE SubSeq(generated[r], 1, CHOOSE i \in ends : \A j \in ends : i <= j)

(* eval_hf counts a sample's tokens as those that differ from the filler:  *)
(* the padding behind a finished row must not count, nor hide a token.     *)
RecordedLength(r) == Cardinality({i \in DOMAIN generated[r] : generated[r][i] # Filler})

(* A recorded length is the length of the sampled text, less a closing     *)
(* filler token.                                                           *)
RecordedLengthsExact ==
  \A r \in Rows :
    LET sampled == Text(r)
        closing == IF sampled # << >> /\ sampled[Len(sampled)] = Filler THEN 1 ELSE 0
    IN  RecordedLength(r) = Len(sampled) - closing

Samples == INSTANCE SampledRows
  WITH text <- [r \in Rows |-> Text(r)],
       ended <- {r \in Rows : finished[r] \/ Len(generated[r]) = MaxNew}

(* Batching is invisible: each row is a sample of its own.                 *)
ImplementsSamples == Samples!Spec

(* However the batch shrinks, a row keeps what is its own: cache row, mask, *)
(* place in the mapping and, when it ends, recorded length.                *)
RowsKeepTheirOwn ==
  /\ BatchTypeOK /\ CacheFollowsRow /\ MaskCoversContext /\ BatchIsUnfinished
  /\ RecordedLengthsExact
=============================================================================
