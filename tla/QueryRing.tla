----------------------------- MODULE QueryRing -----------------------------
(***************************************************************************)
(* The circular query buffer of one EvictLayer                             *)
(* (kvcompress/engine/cache_utils.py, update_queries).  The modes that     *)
(* score by attention keep the newest residual_length queries in it; the   *)
(* patched forward records the query of a pass before it appends the key   *)
(* and before it runs the eviction round that scores with the buffer.      *)
(* rkv_official reads the newest few of them in the order they were        *)
(* written.  A query is represented by its token's absolute position.      *)
(***************************************************************************)
EXTENDS Integers, Sequences

CONSTANTS
  Budget,      \* token_budget
  Residual,    \* residual_length, the size of the buffer
  Window,      \* the queries rkv_official scores with (_W8)
  Prompts,     \* prompt lengths
  MaxTokens    \* bound on the tokens of a generation

(* A round's budget leaves room for candidates, the window fits the        *)
(* buffer, prompts are not single tokens.                                  *)
ASSUME RingAssumption ==
  /\ Budget \in Nat /\ Residual \in Nat \ {0} /\ Residual < Budget
  /\ Window \in 1..Residual
  /\ Prompts \subseteq Nat \ {0, 1} /\ MaxTokens \in Nat

(* The buffer is allocated with zeros.                                     *)
Zero == -1
Ring == 0..(Residual - 1)

VARIABLES
  ring,       \* queries: slot -> position of the query stored there
  writePos,   \* _q_write_pos
  seen,       \* tokens so far
  seqlen,     \* cache_seqlens
  scored,     \* queries the last round read, in the order it read them
  roundAt     \* tokens seen at the last round; 0 before the first

vars == <<ring, writePos, seen, seqlen, scored, roundAt>>

Init ==
  /\ ring = [s \in Ring |-> Zero] /\ writePos = 0
  /\ seen = 0 /\ seqlen = 0 /\ scored = << >> /\ roundAt = 0

(* Faulty variant: a short prompt is taken to fill the buffer.             *)
FilledWhole(p) == Residual

Filled(p) == IF p < Residual THEN p ELSE Residual

(* Faulty variant: the first queries of the prompt instead of the last.    *)
PrefilledFirst(p) ==
  [s \in Ring |-> IF s < Filled(p) THEN s ELSE Zero]

Prefilled(p) ==
  [s \in Ring |-> IF s < Filled(p) THEN p - Filled(p) + s ELSE Zero]

(* The prompt's pass fills the buffer with its last queries.               *)
Prefill(p) ==
  /\ seen = 0
  /\ ring' = Prefilled(p) /\ writePos' = Filled(p) % Residual
  /\ seen' = p /\ seqlen' = p
  /\ UNCHANGED <<scored, roundAt>>

(* Faulty variant: the window ends at the slot written next.               *)
NewestShifted(buf, pos) ==
  [i \in 1..Window |-> buf[(pos - Window + i) % Residual]]

(* The newest queries, ending at the slot written last.                    *)
Newest(buf, pos) ==
  [i \in 1..Window |-> buf[(pos - Window + i - 1) % Residual]]

EvictionDue(len) == len > Budget /\ len % Residual = 0

(* One decode pass: the query goes into the buffer, then the token into    *)
(* the cache, then the round reads the buffer if it is due.                *)
Decode ==
  /\ seen > 0 /\ seen < MaxTokens
  /\ ring' = [ring EXCEPT ![writePos] = seen]
  /\ writePos' = (writePos + 1) % Residual
  /\ seen' = seen + 1
  /\ IF EvictionDue(seqlen + 1)
     THEN /\ seqlen' = Budget /\ roundAt' = seen'
          /\ scored' = Newest(ring', writePos')
     ELSE seqlen' = seqlen + 1 /\ UNCHANGED <<scored, roundAt>>

Next == Decode \/ \E p \in Prompts : Prefill(p)

Spec == Init /\ [][Next]_vars
-----------------------------------------------------------------------------
(* The buffer and its write position have their types: the position never  *)
(* leaves the ring.                                                        *)
TypeOK ==
  /\ ring \in [Ring -> Nat \cup {Zero}] /\ writePos \in Ring
  /\ seen \in Nat /\ seqlen \in Nat /\ roundAt \in Nat
  /\ scored \in Seq(Nat)

(* A round that averages over the whole buffer averages over exactly the   *)
(* newest queries: none is stale and no zero row is left in it.            *)
RoundSeesNewestQueries ==
  roundAt > 0 /\ roundAt = seen =>
    {ring[s] : s \in Ring} = (seen - Residual)..(seen - 1)

(* The window of a round is the newest queries in writing order, the query *)
(* of the pass that triggered the round last.                              *)
WindowInOrder ==
  roundAt > 0 => scored = [i \in 1..Window |-> roundAt - Window + i - 1]

\* What a round scores with: all of the newest queries, its window in writing order.
QueriesExact == RoundSeesNewestQueries /\ WindowInOrder
=============================================================================
