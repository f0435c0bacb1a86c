---------------------------- MODULE SampledRows ----------------------------
(***************************************************************************)
(* What batched sampling of one prompt promises: every row is a sample of  *)
(* its own.  A row's text grows by one token at a time, ends with the      *)
(* first end-of-sequence token it draws or at the length limit, and never  *)
(* changes afterwards, whatever the other rows of the batch do.            *)
(*                                                                         *)
(* BatchGenerate and Qwen35Batch are shown to implement this.              *)
(***************************************************************************)
EXTENDS Naturals, Sequences

CONSTANTS Rows, Vocabulary, EosIds, MaxNew

VARIABLES
  text,   \* row -> tokens it sampled
  ended   \* rows whose text is complete

svars == <<text, ended>>

Init ==
  /\ text = [r \in Rows |-> << >>]
  /\ ended = {r \in Rows : MaxNew = 0}

(* The live rows in S draw a token each.                                   *)
Draw(S) ==
  \E t \in [S -> Vocabulary] :
    /\ text' = [r \in Rows |-> IF r \in S THEN Append(text[r], t[r]) ELSE text[r]]
    /\ ended' = ended \cup {r \in S : t[r] \in EosIds \/ Len(text[r]) + 1 = MaxNew}

Next == \E S \in SUBSET (Rows \ ended) : Draw(S)

Spec == Init /\ [][Next]_svars
=============================================================================
