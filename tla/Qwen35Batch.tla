---------------------------- MODULE Qwen35Batch ----------------------------
(***************************************************************************)
(* generate_batch of kvcompress/qwen35/batch.py: one or two samples of the *)
(* same prompt decoded together.  A finished row stays in the batch and is *)
(* fed the filler; every row draws from a generator of its own, only while *)
(* it is live, and its record is made the moment it finishes.  The         *)
(* presence penalty only shapes the odds of a draw and is left out.       *)
(***************************************************************************)
EXTENDS Integers, Sequences

CONSTANTS
  PairRows,       \* the batch: one or two rows
  PairVocabulary, \* tokens
  PairEosIds,     \* eos, as a set
  PairFiller,     \* eos[0]
  MaxNewTokens    \* max_new_tokens

(* One or two rows and at least one token of output; the filler is an end- *)
(* of-sequence token.                                                      *)
PairAssumption ==
  /\ PairRows \in {1..1, 1..2} /\ MaxNewTokens \in Nat \ {0}
  /\ PairEosIds \subseteq PairVocabulary /\ PairFiller \in PairEosIds

VARIABLES
  output,     \* row -> tokens of the output buffer, fillers included
  drawn,      \* row -> draws taken from generators[row]
  done,
  records     \* row -> generated_tokens of its record; 0 before it is made

pairVars == <<output, drawn, done, records>>

PairInit ==
  /\ output = [r \in PairRows |-> << >>] /\ drawn = [r \in PairRows |-> 0]
  /\ done = [r \in PairRows |-> FALSE] /\ records = [r \in PairRows |-> 0]

step == Len(output[1])
Live == {r \in PairRows : ~done[r]}

(* Faulty variant: a finished row keeps drawing.                           *)
DrawersAll == PairRows

Drawers == Live

(* Rows that draw an end of sequence or reach the cap in this step.        *)
Finishers(token) == {r \in Live : token[r] \in PairEosIds \/ step + 1 = MaxNewTokens}

(* Faulty variant: the record of a finished row follows the batch.         *)
RecordedAtEnd(token) ==
  [r \in PairRows |-> IF done[r] \/ r \in Finishers(token) THEN step + 1 ELSE 0]

RecordMade(token) ==
  [r \in PairRows |-> IF r \in Finishers(token) THEN step + 1 ELSE records[r]]

(* One decode step; the loop ends when every row is done.                  *)
PairNext ==
  /\ Live # {}
  /\ \E draw \in [Drawers -> PairVocabulary] :
       LET token == [r \in PairRows |-> IF r \in Drawers THEN draw[r] ELSE PairFiller]
       IN  /\ output' = [r \in PairRows |-> Append(output[r], token[r])]
           /\ drawn' = [r \in PairRows |-> drawn[r] + IF r \in Drawers THEN 1 ELSE 0]
           /\ records' = RecordMade(token)
           /\ done' = [r \in PairRows |-> done[r] \/ r \in Finishers(token)]

PairSpec == PairInit /\ [][PairNext]_pairVars
-----------------------------------------------------------------------------
(* A row's generator is consumed once per token of its own text, so its    *)
(* draws are those it would make alone: its partner's end does not shift   *)
(* the random stream.                                                      *)
DrawsAreOwnTokens ==
  \A r \in PairRows : drawn[r] = IF done[r] THEN records[r] ELSE step

(* What generate_batch returns for a row: the buffer cut at its record.    *)
Answer(r) == IF done[r] THEN SubSeq(output[r], 1, records[r]) ELSE output[r]

PairSamples == INSTANCE SampledRows
  WITH Rows <- PairRows, Vocabulary <- PairVocabulary, EosIds <- PairEosIds,
       MaxNew <- MaxNewTokens,
       text <- [r \in PairRows |-> Answer(r)], ended <- {r \in PairRows : done[r]}

(* Sharing a batch is invisible in the answers.                            *)
PairImplementsSamples == PairSamples!Spec
=============================================================================
