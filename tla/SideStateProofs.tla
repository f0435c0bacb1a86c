-------------------------- MODULE SideStateProofs --------------------------
(***************************************************************************)
(* Proofs about what lives beside the cache rows: the query buffer of one  *)
(* layer (QueryRing), the keep-set the layers share (SharedKeepSet), and   *)
(* the mapping of rows to samples of the two decoding loops                *)
(* (SampledBatches).  They have no variable in common.                     *)
(*                                                                         *)
(* The query buffer, for every budget, buffer length and prompt: the       *)
(* inductive invariant counts back from the slot written next: i slots     *)
(* before it lies the query of the i-th newest token, for as many tokens   *)
(* as there are and as the buffer holds.  Where in the buffer the prompt   *)
(* happened to start does not matter.                                      *)
(*                                                                         *)
(* The shared keep-set, for any number of layers, any budget and residual, *)
(* any batch and any number of generations: every layer of a round         *)
(* compacts with indices scored in that round of that generation on its    *)
(* own candidates, and the layers stay alike.                              *)
(*                                                                         *)
(* The decoding loops, for batches of any size, any vocabulary and any     *)
(* length limit: rows of a batch keep what is their own while others leave *)
(* it, and each is a sample of its own.                                    *)
(***************************************************************************)
EXTENDS
  QueryRing, SharedKeepSet, SampledBatches,
  FiniteSetTheorems, FunctionTheorems, SequenceTheorems, TLAPS

-----------------------------------------------------------------------------
(* The query buffer.                                                       *)

NewestFirst ==
  \A i \in 1..Residual : i <= seen => ring[(writePos - i) % Residual] = seen - i

RingSizes ==
  /\ seqlen <= seen /\ roundAt <= seen
  /\ roundAt > 0 => roundAt > Residual

RingInv == TypeOK /\ NewestFirst /\ RingSizes /\ WindowInOrder

(* One turn around the buffer, in either direction.                        *)
LEMMA RingWrap ==
  ASSUME NEW r \in Nat \ {0}, NEW x \in (0 - r)..r
  PROVE  x % r = IF x < 0 THEN x + r ELSE IF x = r THEN 0 ELSE x
<1>1. CASE x < 0
  <2>1. x + r \in 0..(r - 1)
    BY <1>1
  <2>2. x = (0 - 1) * r + (x + r)
    OBVIOUS
  <2>. QED BY <1>1, <2>1, <2>2, SMT
<1>2. CASE x = r
  BY <1>2, SMT
<1>3. CASE x >= 0 /\ x < r
  BY <1>3, SMT
<1>. QED BY <1>1, <1>2, <1>3

(* Counting back from a slot, and stepping to the next.                    *)
LEMMA RingBack ==
  ASSUME NEW w \in Ring, NEW i \in 0..Residual
  PROVE  /\ (w - i) % Residual = IF w < i THEN w - i + Residual ELSE w - i
         /\ (w - i) % Residual \in Ring
<1>. Residual \in Nat \ {0}
  BY RingAssumption
<1>1. DEFINE x == w - i
<1>2. x \in (0 - Residual)..Residual /\ x # Residual
  BY DEF Ring
<1>3. x % Residual = IF x < 0 THEN x + Residual ELSE IF x = Residual THEN 0 ELSE x
  <2>. HIDE DEF x
  <2>. QED BY <1>2, RingWrap, Zenon
<1>. QED BY <1>2, <1>3 DEF Ring

(* One pass forward: the write position advances by one around the ring.   *)
LEMMA NextSlot ==
  ASSUME NEW w \in Ring
  PROVE  (w + 1) % Residual = IF w + 1 = Residual THEN 0 ELSE w + 1
<1>. Residual \in Nat \ {0}
  BY RingAssumption
<1>1. DEFINE x == w + 1
<1>2. x \in (0 - Residual)..Residual /\ ~(x < 0)
  BY DEF Ring
<1>3. x % Residual = IF x < 0 THEN x + Residual ELSE IF x = Residual THEN 0 ELSE x
  <2>. HIDE DEF x
  <2>. QED BY <1>2, RingWrap, Zenon
<1>. QED BY <1>2, <1>3

(* The ring invariant holds of the empty buffer.                           *)
LEMMA RingInit == Init => RingInv
BY RingAssumption DEF Init, RingInv, TypeOK, NewestFirst, RingSizes, WindowInOrder, Ring, Zero

(* A prefill, shorter or longer than the buffer, establishes the ring      *)
(* invariant.                                                              *)
LEMMA PrefillKeeps ==
  ASSUME RingInv, NEW p \in Prompts, Prefill(p)
  PROVE  RingInv'
<1>. USE RingAssumption
<1>1. p \in Nat /\ p > 1 /\ Filled(p) \in 1..Residual /\ Filled(p) <= p
  BY DEF Filled
<1>2. DEFINE n == Filled(p)
<1>3. n % Residual = IF n = Residual THEN 0 ELSE n
  <2>1. n \in (0 - Residual)..Residual /\ ~(n < 0) /\ Residual \in Nat \ {0}
    BY <1>1
  <2>2. n % Residual = IF n < 0 THEN n + Residual ELSE IF n = Residual THEN 0 ELSE n
    <3>. HIDE DEF n
    <3>. QED BY <2>1, RingWrap, Zenon
  <2>. QED BY <2>1, <2>2
<1>4. writePos' = (IF n = Residual THEN 0 ELSE n) /\ writePos' \in Ring
  BY <1>1, <1>3 DEF Prefill, Ring
<1>5. ring' = [s \in Ring |-> IF s < n THEN p - n + s ELSE Zero]
  BY DEF Prefill, Prefilled
<1>6. roundAt = 0 /\ roundAt' = 0 /\ seen' = p /\ seqlen' = p /\ scored' = scored
  BY DEF RingInv, TypeOK, RingSizes, Prefill
<1>7. TypeOK'
  <2>1. ring' \in [Ring -> Nat \cup {Zero}]
    <3>1. \A s \in Ring : s < n => p - n + s \in Nat
      BY <1>1 DEF Ring
    <3>. QED BY <1>5, <3>1
  <2>. QED BY <1>1, <1>4, <1>6, <2>1 DEF TypeOK, RingInv
<1>8. NewestFirst'
  <2>. SUFFICES ASSUME NEW i \in 1..Residual, i <= p
                PROVE  ring'[(writePos' - i) % Residual] = p - i
    BY <1>6 DEF NewestFirst
  <2>1. (writePos' - i) % Residual = (IF writePos' < i THEN writePos' - i + Residual ELSE writePos' - i)
    BY <1>4, RingBack
  <2>2. (writePos' - i) % Residual \in Ring
    BY <1>4, RingBack
  <2>3. i <= n
    BY <1>1 DEF Filled
  <2>4. (writePos' - i) % Residual = n - i
    BY <1>1, <1>4, <2>1, <2>3 DEF Ring
  <2>. QED BY <1>1, <1>5, <2>2, <2>3, <2>4
<1>9. RingSizes' /\ WindowInOrder'
  BY <1>1, <1>6 DEF RingSizes, WindowInOrder
<1>. QED BY <1>7, <1>8, <1>9 DEF RingInv

(* A decode pass keeps it, whether or not it runs a round.                 *)
LEMMA DecodeKeeps ==
  ASSUME RingInv, Decode
  PROVE  RingInv'
<1>. USE RingAssumption
<1>1. /\ writePos \in Ring /\ seen \in Nat /\ seqlen \in Nat /\ roundAt \in Nat
      /\ ring \in [Ring -> Nat \cup {Zero}] /\ seen' = seen + 1
      /\ ring' = [ring EXCEPT ![writePos] = seen]
  BY DEF RingInv, TypeOK, Decode
<1>2. /\ writePos' = (IF writePos + 1 = Residual THEN 0 ELSE writePos + 1)
      /\ writePos' \in Ring
  BY <1>1, NextSlot DEF Decode, Ring
<1>3. NewestFirst'
  <2>. SUFFICES ASSUME NEW i \in 1..Residual, i <= seen + 1
                PROVE  ring'[(writePos' - i) % Residual] = seen + 1 - i
    BY <1>1 DEF NewestFirst
  <2>1. /\ (writePos' - i) % Residual = (IF writePos' < i THEN writePos' - i + Residual ELSE writePos' - i)
        /\ (writePos' - i) % Residual \in Ring
    BY <1>2, RingBack
  <2>2. CASE i = 1
    <3>1. (writePos' - i) % Residual = writePos
      BY <1>1, <1>2, <2>1, <2>2 DEF Ring
    <3>. QED BY <1>1, <2>2, <3>1
  <2>3. CASE i > 1
    <3>1. DEFINE j == i - 1
    <3>2. j \in 1..Residual /\ j <= seen /\ j < Residual
      BY <1>1, <2>3
    <3>3. /\ (writePos - j) % Residual = (IF writePos < j THEN writePos - j + Residual ELSE writePos - j)
          /\ ring[(writePos - j) % Residual] = seen - j
      <4>. HIDE DEF j
      <4>. QED BY <1>1, <3>2, RingBack DEF RingInv, NewestFirst
    <3>4. (writePos' - i) % Residual = (writePos - j) % Residual
      BY <1>1, <1>2, <2>1, <2>3, <3>3 DEF Ring
    <3>5. (writePos' - i) % Residual # writePos
      BY <1>1, <3>2, <3>3, <3>4 DEF Ring
    <3>6. ring'[(writePos' - i) % Residual] = ring[(writePos' - i) % Residual]
      BY <1>1, <2>1, <3>5
    <3>. QED BY <1>1, <3>3, <3>4, <3>6
  <2>. QED BY <2>2, <2>3
<1>4. ring' \in [Ring -> Nat \cup {Zero}]
  BY <1>1
<1>5. CASE EvictionDue(seqlen + 1)
  <2>1. /\ seqlen' = Budget /\ roundAt' = seen + 1 /\ scored' = Newest(ring', writePos')
        /\ seqlen + 1 > Budget
    BY <1>1, <1>5 DEF Decode, EvictionDue
  <2>2. RingSizes' /\ seen + 1 > Residual
    BY <1>1, <2>1 DEF RingSizes, RingInv
  <2>3. \A i \in 1..Window :
           ring'[(writePos' - Window + i - 1) % Residual] = roundAt' - Window + i - 1
    <3>. SUFFICES ASSUME NEW i \in 1..Window
                  PROVE  ring'[(writePos' - Window + i - 1) % Residual] = roundAt' - Window + i - 1
      OBVIOUS
    <3>1. DEFINE j == Window - i + 1
    <3>2. j \in 1..Residual /\ j <= seen + 1
      BY <1>1, <2>2
    <3>3. ring'[(writePos' - j) % Residual] = seen' - j
      <4>. HIDE DEF j
      <4>. QED BY <1>1, <1>3, <3>2 DEF NewestFirst
    <3>4. writePos' - Window + i - 1 = writePos' - j
      BY <1>2 DEF Ring
    <3>. QED BY <1>1, <2>1, <3>3, <3>4
  <2>4. scored' = [i \in 1..Window |-> roundAt' - Window + i - 1]
    BY <2>1, <2>3 DEF Newest
  <2>5. \A i \in 1..Window : roundAt' - Window + i - 1 \in Nat
    BY <1>1, <2>1, <2>2
  <2>6. scored' \in Seq(Nat)
    BY <2>4, <2>5
  <2>7. WindowInOrder'
    BY <2>4 DEF WindowInOrder
  <2>. QED BY <1>1, <1>2, <1>3, <1>4, <2>1, <2>2, <2>6, <2>7 DEF RingInv, TypeOK
<1>6. CASE ~EvictionDue(seqlen + 1)
  <2>1. seqlen' = seqlen + 1 /\ scored' = scored /\ roundAt' = roundAt
    BY <1>6 DEF Decode
  <2>. QED BY <1>1, <1>2, <1>3, <1>4, <2>1 DEF RingInv, TypeOK, RingSizes, WindowInOrder
<1>. QED BY <1>5, <1>6

(* The ring invariant is inductive.                                        *)
LEMMA RingStep == RingInv /\ [Next]_vars => RingInv'
<1>. SUFFICES ASSUME RingInv, [Next]_vars PROVE RingInv'
  OBVIOUS
<1>1. CASE Decode
  BY <1>1, DecodeKeeps
<1>2. ASSUME NEW p \in Prompts, Prefill(p) PROVE RingInv'
  BY <1>2, PrefillKeeps
<1>3. CASE UNCHANGED vars
  BY <1>3 DEF vars, RingInv, TypeOK, NewestFirst, RingSizes, WindowInOrder
<1>. QED BY <1>1, <1>2, <1>3 DEF Next

(* Hence it holds in every reachable state.                                *)
LEMMA RingAlways == Spec => []RingInv
BY RingInit, RingStep, PTL DEF Spec

(* From the invariant: at a round the buffer is full of the newest         *)
(* queries.                                                                *)
LEMMA RoundSees == RingInv => RoundSeesNewestQueries
<1>. USE RingAssumption
<1>. SUFFICES ASSUME RingInv, roundAt > 0, roundAt = seen
              PROVE  {ring[s] : s \in Ring} = (seen - Residual)..(seen - 1)
  BY DEF RoundSeesNewestQueries
<1>1. seen \in Nat /\ seen > Residual /\ writePos \in Ring
  BY DEF RingInv, TypeOK, RingSizes
<1>2. ASSUME NEW s \in Ring PROVE ring[s] \in (seen - Residual)..(seen - 1)
  <2>1. DEFINE i == IF s < writePos THEN writePos - s ELSE writePos - s + Residual
  <2>2. i \in 1..Residual
    BY <1>1 DEF Ring
  <2>3. (writePos - i) % Residual = IF writePos < i THEN writePos - i + Residual ELSE writePos - i
    <3>. HIDE DEF i
    <3>. QED BY <1>1, <2>2, RingBack
  <2>4. (writePos - i) % Residual = s
    BY <1>1, <2>3 DEF Ring
  <2>5. ring[(writePos - i) % Residual] = seen - i
    <3>. HIDE DEF i
    <3>. QED BY <1>1, <2>2 DEF RingInv, NewestFirst
  <2>. HIDE DEF i
  <2>. QED BY <1>1, <2>2, <2>4, <2>5
<1>3. ASSUME NEW q \in (seen - Residual)..(seen - 1)
      PROVE  \E s \in Ring : ring[s] = q
  <2>1. DEFINE i == seen - q
  <2>2. i \in 1..Residual /\ i <= seen /\ seen - i = q
    BY <1>1
  <2>. HIDE DEF i
  <2>3. (writePos - i) % Residual \in Ring /\ ring[(writePos - i) % Residual] = q
    BY <1>1, <2>2, RingBack DEF RingInv, NewestFirst
  <2>. QED BY <2>3
<1>. QED BY <1>2, <1>3

(* Every attention-scored round of post_attention_update, for every length of the
   query buffer, window and prompt: it reads no stale query and no unfilled row, and
   rkv_official scores with its newest queries in writing order.           *)
THEOREM QueriesStayExact == Spec => []QueriesExact
<1>1. RingInv => QueriesExact
  BY RoundSees DEF RingInv, QueriesExact
<1> QED BY <1>1, RingAlways, PTL

-----------------------------------------------------------------------------
(* The shared keep-set.                                                    *)

(* In the middle of a pass, the rows layer m has once its forward appended *)
(* this pass's tokens, and whether the round is due for it.                *)
Fresh(m) == IF cumulative[m] = 0 THEN promptLen ELSE 1
Appended(m) == kv[m] \o [i \in 1..Fresh(m) |-> cumulative[m] + i - 1]
Due(m) == Fresh(m) = 1 /\ Len(Appended(m)) > TokenBudget /\ Len(Appended(m)) % ResidualLength = 0
PassKey(m) == Key(Len(Appended(m)), cumulative[m] + Fresh(m))
Compacted(m, ids) ==
  [i \in 1..TokenBudget |-> IF i <= KeepCount THEN Appended(m)[ids[i]]
                       ELSE Appended(m)[Len(Appended(m)) - TokenBudget + i]]
Considered(m) == SubSeq(Appended(m), 1, Candidates(Len(Appended(m))))

(* Types, and a slot that is either empty or of the current generation,    *)
(* not ahead of the first layer, with indices inside its candidates.       *)
Types ==
  /\ generation \in Nat /\ turn \in Layers /\ promptLen \in Nat
  /\ generation > 0 => promptLen \in PromptLengths
  /\ cumulative \in [Layers -> Nat] /\ kv \in [Layers -> Seq(Nat)]

MemoCurrent ==
  memo # None =>
    /\ memo.key # << >>
    /\ memo.generation = generation
    /\ memo.at \in Nat /\ memo.at <= cumulative[1] /\ memo.key[4] = memo.at
    /\ memo.ids \in [1..KeepCount -> 1..Candidates(memo.key[1])]

(* Layers on the same side of the turn are alike.                          *)
Alike ==
  \A l, m \in Layers : (l < turn <=> m < turn) => kv[l] = kv[m] /\ cumulative[l] = cumulative[m]

(* A layer that ran is one pass ahead of one that did not, and what it     *)
(* holds is what the other will hold.                                      *)
Ahead ==
  \A l, m \in Layers : l < turn /\ turn <= m =>
    /\ generation > 0
    /\ cumulative[l] = cumulative[m] + Fresh(m)
    /\ ~Due(m) => kv[l] = Appended(m)
    /\ Due(m) => /\ memo # None /\ memo.key = PassKey(m)
                 /\ kv[l] = Compacted(m, memo.ids)
                 /\ memo.rows[m] = Considered(m)

IInv == Types /\ MemoCurrent /\ Alike /\ Ahead /\ ScoresAlignAcrossLayers

-----------------------------------------------------------------------------
(* Constants, sequences.                                                   *)

LEMMA Sizes ==
  ASSUME SharedAssumption
  PROVE  /\ NumLayers \in Nat /\ NumLayers >= 1 /\ ResidualLength \in Nat /\ ResidualLength >= 1
         /\ KeepCount \in Nat /\ KeepCount >= 1 /\ TokenBudget \in Nat
         /\ TokenBudget = KeepCount + ResidualLength
         /\ \A p \in PromptLengths : p \in Nat /\ p >= 2
BY DEF SharedAssumption, KeepCount

(* What a layer appends, and what an index set makes of it.                *)
LEMMA AppendedType ==
  ASSUME SharedAssumption, Types, generation > 0, NEW m \in Layers
  PROVE  /\ Fresh(m) \in Nat /\ Fresh(m) >= 1
         /\ Appended(m) \in Seq(Nat) /\ Len(Appended(m)) = Len(kv[m]) + Fresh(m)
         /\ Len(kv[m]) \in Nat /\ cumulative[m] \in Nat
<1>1. Fresh(m) \in Nat /\ Fresh(m) >= 1 /\ cumulative[m] \in Nat /\ kv[m] \in Seq(Nat)
  BY Sizes DEF Types, Fresh
<1>2. [i \in 1..Fresh(m) |-> cumulative[m] + i - 1] \in Seq(Nat)
  BY <1>1
<1>3. Len([i \in 1..Fresh(m) |-> cumulative[m] + i - 1]) = Fresh(m)
  BY <1>1
<1> QED BY <1>1, <1>2, <1>3 DEF Appended

LEMMA DueAppends ==
  ASSUME SharedAssumption, Types, generation > 0, NEW m \in Layers, Due(m)
  PROVE  /\ Fresh(m) = 1 /\ Appended(m) = Append(kv[m], cumulative[m])
         /\ Len(Appended(m)) > TokenBudget
         /\ Candidates(Len(Appended(m))) \in 1..Len(kv[m])
         /\ Considered(m) = SubSeq(kv[m], 1, Candidates(Len(Appended(m))))
<1>1. Fresh(m) = 1 /\ Len(Appended(m)) > TokenBudget
  BY DEF Due
<1>2. kv[m] \in Seq(Nat) /\ cumulative[m] \in Nat
  BY DEF Types
<1>3. [i \in 1..Fresh(m) |-> cumulative[m] + i - 1] = <<cumulative[m]>>
  BY <1>1, <1>2
<1>4. Appended(m) = Append(kv[m], cumulative[m])
  <2>1. Appended(m) = kv[m] \o <<cumulative[m]>>
    BY <1>3, Zenon DEF Appended
  <2>2. kv[m] \o <<cumulative[m]>> = Append(kv[m], cumulative[m])
    BY <1>2
  <2> QED BY <2>1, <2>2
<1>5. Len(Appended(m)) = Len(kv[m]) + 1
  BY <1>1, AppendedType
<1>6. Candidates(Len(Appended(m))) \in 1..Len(kv[m])
  BY <1>1, <1>5, <1>2, Sizes DEF Candidates
<1>7. Considered(m) = SubSeq(kv[m], 1, Candidates(Len(Appended(m))))
  BY <1>4, <1>6, <1>2 DEF Considered
<1> QED BY <1>1, <1>4, <1>6, <1>7

LEMMA CompactedType ==
  ASSUME SharedAssumption, Types, generation > 0, NEW m \in Layers, Due(m),
         NEW ids \in [1..KeepCount -> 1..Candidates(Len(Appended(m)))]
  PROVE  Compacted(m, ids) \in Seq(Nat) /\ Len(Compacted(m, ids)) = TokenBudget
<1>1. Appended(m) \in Seq(Nat) /\ Len(Appended(m)) > TokenBudget /\ TokenBudget \in Nat
  BY AppendedType, DueAppends, Sizes
<1>2. \A i \in 1..TokenBudget :
        (IF i <= KeepCount THEN Appended(m)[ids[i]]
         ELSE Appended(m)[Len(Appended(m)) - TokenBudget + i]) \in Nat
  <2> SUFFICES ASSUME NEW i \in 1..TokenBudget
               PROVE  (IF i <= KeepCount THEN Appended(m)[ids[i]]
                       ELSE Appended(m)[Len(Appended(m)) - TokenBudget + i]) \in Nat
    OBVIOUS
  <2>1. Candidates(Len(Appended(m))) \in Nat /\ Candidates(Len(Appended(m))) <= Len(Appended(m))
    BY <1>1, Sizes DEF Candidates
  <2>2. i <= KeepCount => ids[i] \in 1..Candidates(Len(Appended(m)))
    BY Sizes
  <2>3. \A k \in 1..Len(Appended(m)) : Appended(m)[k] \in Nat
    BY <1>1
  <2>4. i <= KeepCount => ids[i] \in 1..Len(Appended(m))
    BY <1>1, <2>1, <2>2
  <2>5. i > KeepCount => Len(Appended(m)) - TokenBudget + i \in 1..Len(Appended(m))
    BY <1>1, Sizes
  <2> QED BY <2>3, <2>4, <2>5, Sizes
<1> QED BY <1>1, <1>2 DEF Compacted

(* Two layers that are alike append alike.                                 *)
LEMMA AlikeAppend ==
  ASSUME NEW l \in Layers, NEW m \in Layers, kv[l] = kv[m], cumulative[l] = cumulative[m]
  PROVE  /\ Fresh(l) = Fresh(m) /\ Appended(l) = Appended(m) /\ (Due(l) <=> Due(m))
         /\ PassKey(l) = PassKey(m) /\ Considered(l) = Considered(m)
         /\ \A ids : Compacted(l, ids) = Compacted(m, ids)
<1>1. Fresh(l) = Fresh(m)
  BY DEF Fresh
<1>2. Appended(l) = Appended(m)
  BY <1>1 DEF Appended
<1> QED BY <1>1, <1>2 DEF Due, PassKey, Considered, Compacted

-----------------------------------------------------------------------------
(* The three ways a layer's forward goes: append only; compact with what   *)
(* the slot holds; score, leave the result in the slot and compact.        *)

AppendOnly ==
  /\ ~Due(turn) /\ memo' = memo /\ kv' = [kv EXCEPT ![turn] = Appended(turn)]

Reuses ==
  /\ Due(turn) /\ Hit(PassKey(turn)) /\ memo' = memo
  /\ kv' = [kv EXCEPT ![turn] = Compacted(turn, memo.ids)]

Rescored(ids) ==
  [key |-> PassKey(turn), ids |-> ids, generation |-> generation,
   at |-> cumulative[turn] + Fresh(turn),
   rows |-> [m \in Layers |->
               LET held == IF m = turn THEN Appended(turn) ELSE kv[m]
               IN  SubSeq(held, 1, Lesser(Candidates(Len(Appended(turn))), Len(held)))]]

Scores ==
  /\ Due(turn) /\ ~Hit(PassKey(turn))
  /\ \E ids \in [1..KeepCount -> 1..Candidates(Len(Appended(turn)))] :
       memo' = Rescored(ids) /\ kv' = [kv EXCEPT ![turn] = Compacted(turn, ids)]

LEMMA ForwardSteps ==
  ASSUME SharedAssumption, Types, Forward
  PROVE  /\ generation > 0 /\ UNCHANGED <<generation, promptLen, batch>>
         /\ cumulative' = [cumulative EXCEPT ![turn] = @ + Fresh(turn)]
         /\ turn' = (turn % NumLayers) + 1
         /\ AppendOnly \/ Reuses \/ Scores
<1> DEFINE full == [kv EXCEPT ![turn] = Appended(turn)]
           len == Len(Appended(turn))
           start == cumulative[turn] + Fresh(turn)
<1>1. turn \in Layers /\ kv \in [Layers -> Seq(Nat)] /\ cumulative \in [Layers -> Nat]
  BY DEF Types
<1>2. full[turn] = Appended(turn) /\ \A m \in Layers : full[m] = IF m = turn THEN Appended(turn) ELSE kv[m]
  BY <1>1
<1>3. /\ generation > 0 /\ UNCHANGED <<generation, promptLen, batch>>
      /\ cumulative' = [cumulative EXCEPT ![turn] = start]
      /\ turn' = (turn % NumLayers) + 1
      /\ IF Fresh(turn) = 1 /\ len > TokenBudget /\ len % ResidualLength = 0
         THEN /\ \/ Hit(Key(len, start)) /\ UNCHANGED memo
                 \/ /\ ~Hit(Key(len, start))
                    /\ memo' \in Scored(Key(len, start), full, len, start)
              /\ kv' = [full EXCEPT ![turn] =
                   [i \in 1..TokenBudget |-> IF i <= KeepCount THEN full[turn][memo'.ids[i]]
                                        ELSE full[turn][len - TokenBudget + i]]]
         ELSE kv' = full /\ UNCHANGED memo
  BY <1>1, <1>2 DEF Forward, Fresh, Appended
<1>4. \A s : [full EXCEPT ![turn] = s] = [kv EXCEPT ![turn] = s]
  BY <1>1
<1>5. CASE ~Due(turn)
  BY <1>3, <1>5 DEF Due, AppendOnly
<1>6. CASE Due(turn)
  <2>1. /\ \/ Hit(PassKey(turn)) /\ UNCHANGED memo
           \/ /\ ~Hit(PassKey(turn))
              /\ memo' \in Scored(PassKey(turn), full, len, start)
        /\ kv' = [kv EXCEPT ![turn] = Compacted(turn, memo'.ids)]
    BY <1>2, <1>3, <1>4, <1>6 DEF Due, PassKey, Compacted
  <2>2. CASE Hit(PassKey(turn)) /\ UNCHANGED memo
    BY <1>3, <1>6, <2>1, <2>2 DEF Reuses
  <2>3. CASE ~Hit(PassKey(turn)) /\ memo' \in Scored(PassKey(turn), full, len, start)
    <3>1. PICK ids \in Selections(Candidates(len)) :
            memo' = [key |-> PassKey(turn), ids |-> ids, generation |-> generation, at |-> start,
                     rows |-> [m \in Layers |->
                       SubSeq(full[m], 1, Lesser(Candidates(len), Len(full[m])))]]
      BY <2>3 DEF Scored
    <3>2. ids \in [1..KeepCount -> 1..Candidates(len)]
      BY DEF Selections
    <3>3. \A m \in Layers :
            SubSeq(full[m], 1, Lesser(Candidates(len), Len(full[m])))
              = LET held == IF m = turn THEN Appended(turn) ELSE kv[m]
                IN  SubSeq(held, 1, Lesser(Candidates(len), Len(held)))
      BY <1>2
    <3>4. memo' = Rescored(ids)
      BY <3>1, <3>3 DEF Rescored
    <3>5. memo'.ids = ids
      BY <3>1
    <3> QED BY <1>3, <1>6, <2>1, <2>3, <3>2, <3>4, <3>5 DEF Scores
  <2> QED BY <2>1, <2>2, <2>3
<1> QED BY <1>5, <1>6

(* A score adds up the same rows in every layer.                           *)
LEMMA ScoredRows ==
  ASSUME SharedAssumption, IInv, generation > 0, Scores
  PROVE  \A m \in Layers : turn <= m => memo'.rows[m] = Considered(turn)
<1> TAKE m \in Layers
<1> HAVE turn <= m
<1>1. turn \in Layers /\ Due(turn) /\ kv \in [Layers -> Seq(Nat)]
  BY DEF IInv, Types, Scores
<1>2. kv[m] = kv[turn]
  <2>1. ~(m < turn) /\ ~(turn < turn)
    BY <1>1 DEF Layers
  <2> QED BY <1>1, <2>1 DEF IInv, Alike
<1> DEFINE c == Candidates(Len(Appended(turn)))
           held == IF m = turn THEN Appended(turn) ELSE kv[m]
<1>3. memo'.rows[m] = SubSeq(held, 1, Lesser(c, Len(held)))
  <2>1. PICK ids : memo' = Rescored(ids)
    BY DEF Scores
  <2> QED BY <2>1 DEF Rescored
<1>4. /\ c \in 1..Len(kv[turn]) /\ Considered(turn) = SubSeq(kv[turn], 1, c)
      /\ Len(Appended(turn)) = Len(kv[turn]) + 1
      /\ Considered(turn) = SubSeq(Appended(turn), 1, c)
  BY <1>1, DueAppends, AppendedType DEF IInv, Considered
<1>5. Lesser(c, Len(held)) = c
  BY <1>1, <1>2, <1>4 DEF Lesser
<1> QED BY <1>2, <1>3, <1>4, <1>5

(* Only the first layer of a pass scores, for the key of a pass is newer   *)
(* than any key of the slot, and the others find the key of their pass.    *)
LEMMA FirstScores ==
  ASSUME SharedAssumption, IInv, generation > 0
  PROVE  /\ Scores => turn = 1
         /\ Reuses => turn # 1 /\ memo # None
<1>1. turn \in Layers /\ turn \in Nat /\ 1 \in Layers
  BY Sizes DEF IInv, Types, Layers
<1>2. ASSUME Scores, turn # 1 PROVE FALSE
  <2>1. 1 < turn /\ turn <= turn
    BY <1>1, <1>2 DEF Layers
  <2>2. Due(turn) /\ ~Hit(PassKey(turn))
    BY <1>2 DEF Scores
  <2> QED BY <1>1, <2>1, <2>2 DEF IInv, Ahead, Hit
<1>3. ASSUME Reuses PROVE memo # None
  <2>1. memo.key = PassKey(turn)
    BY <1>3 DEF Reuses, Hit
  <2>2. PassKey(turn) # << >>
    BY DEF PassKey, Key
  <2>3. None.key = << >>
    BY DEF None
  <2> QED BY <2>1, <2>2, <2>3
<1>4. ASSUME Reuses, turn = 1 PROVE FALSE
  <2>1. memo.key = PassKey(turn) /\ memo # None
    BY <1>3, <1>4 DEF Reuses, Hit
  <2>2. PassKey(turn)[4] = cumulative[turn] + Fresh(turn)
    BY DEF PassKey, Key
  <2>3. memo.at \in Nat /\ memo.at <= cumulative[1] /\ memo.key[4] = memo.at
    BY <2>1 DEF IInv, MemoCurrent
  <2>4. Fresh(turn) >= 1 /\ Fresh(turn) \in Nat /\ cumulative[turn] \in Nat
    BY <1>1, AppendedType DEF IInv
  <2> QED BY <1>4, <2>1, <2>2, <2>3, <2>4
<1> QED BY <1>2, <1>3, <1>4

(* The types of the step.                                                  *)
LEMMA ForwardTypes ==
  ASSUME SharedAssumption, IInv, Forward
  PROVE  Types' /\ MemoCurrent'
<1>1. /\ generation > 0 /\ UNCHANGED <<generation, promptLen, batch>>
      /\ cumulative' = [cumulative EXCEPT ![turn] = @ + Fresh(turn)]
      /\ turn' = (turn % NumLayers) + 1
      /\ AppendOnly \/ Reuses \/ Scores
  BY ForwardSteps DEF IInv
<1>2. /\ turn \in Layers /\ turn \in Nat /\ 1 \in Layers
      /\ kv \in [Layers -> Seq(Nat)] /\ cumulative \in [Layers -> Nat]
  BY Sizes DEF IInv, Types, Layers
<1>3. /\ Fresh(turn) \in Nat /\ Fresh(turn) >= 1 /\ Appended(turn) \in Seq(Nat)
      /\ Len(Appended(turn)) \in Nat
  BY <1>1, <1>2, AppendedType DEF IInv
<1>4. turn' \in Layers
  BY <1>1, <1>2, Sizes DEF Layers
<1>5. cumulative' \in [Layers -> Nat] /\ cumulative'[1] >= cumulative[1]
  BY <1>1, <1>2, <1>3
<1>6. CASE AppendOnly
  <2>1. memo' = memo /\ kv' \in [Layers -> Seq(Nat)]
    BY <1>2, <1>3, <1>6 DEF AppendOnly
  <2>2. Types'
    BY <1>1, <1>4, <1>5, <2>1 DEF IInv, Types
  <2>3. MemoCurrent'
    BY <1>1, <1>2, <1>5, <2>1 DEF IInv, MemoCurrent
  <2> QED BY <2>2, <2>3
<1>7. CASE Reuses
  <2>1. memo # None /\ memo.key = PassKey(turn) /\ memo' = memo /\ Due(turn)
    BY <1>1, <1>7, FirstScores DEF Reuses, Hit
  <2>2. memo.key[1] = Len(Appended(turn))
    BY <2>1 DEF PassKey, Key
  <2>3. memo.ids \in [1..KeepCount -> 1..Candidates(Len(Appended(turn)))]
    BY <2>1, <2>2 DEF IInv, MemoCurrent
  <2>4. Compacted(turn, memo.ids) \in Seq(Nat)
    BY <1>1, <1>2, <2>1, <2>3, CompactedType DEF IInv
  <2> QED BY <1>1, <1>2, <1>4, <1>5, <1>7, <2>1, <2>4 DEF Reuses, IInv, Types, MemoCurrent
<1>8. CASE Scores
  <2>1. PICK ids \in [1..KeepCount -> 1..Candidates(Len(Appended(turn)))] :
          memo' = Rescored(ids) /\ kv' = [kv EXCEPT ![turn] = Compacted(turn, ids)]
    BY <1>8 DEF Scores
  <2>2. Due(turn) /\ turn = 1
    BY <1>1, <1>8, FirstScores DEF Scores
  <2>3. Compacted(turn, ids) \in Seq(Nat)
    BY <1>1, <1>2, <2>2, CompactedType DEF IInv
  <2>4. /\ memo'.key = PassKey(turn) /\ memo'.generation = generation
        /\ memo'.at = cumulative[turn] + Fresh(turn) /\ memo'.ids = ids
    BY <2>1 DEF Rescored
  <2>5. /\ PassKey(turn) # << >> /\ PassKey(turn)[1] = Len(Appended(turn))
        /\ PassKey(turn)[4] = cumulative[turn] + Fresh(turn)
    BY DEF PassKey, Key
  <2>6. cumulative'[1] = cumulative[turn] + Fresh(turn) /\ cumulative'[1] \in Nat
    BY <1>1, <1>2, <1>5, <2>2
  <2>7. Types'
    BY <1>1, <1>2, <1>4, <1>5, <2>1, <2>3 DEF IInv, Types
  <2>8. MemoCurrent'
    BY <1>1, <2>4, <2>5, <2>6 DEF MemoCurrent
  <2> QED BY <2>7, <2>8
<1> QED BY <1>1, <1>6, <1>7, <1>8

(* What the layer whose turn it is makes of the pass is what every layer   *)
(* before it made, and what every layer behind it will make.               *)
LEMMA ForwardJoins ==
  ASSUME SharedAssumption, IInv, Forward, NEW l \in Layers, l < turn
  PROVE  /\ memo' = memo /\ kv'[l] = kv[l] /\ kv'[turn] = kv[l]
         /\ cumulative'[l] = cumulative[l] /\ cumulative'[turn] = cumulative[l]
<1>1. /\ generation > 0
      /\ cumulative' = [cumulative EXCEPT ![turn] = @ + Fresh(turn)]
      /\ AppendOnly \/ Reuses \/ Scores
  BY ForwardSteps DEF IInv
<1>2. /\ turn \in Layers /\ turn \in Nat /\ l # turn /\ turn # 1
      /\ kv \in [Layers -> Seq(Nat)] /\ cumulative \in [Layers -> Nat]
  BY Sizes DEF IInv, Types, Layers
<1>3. ~Scores
  BY <1>1, <1>2, FirstScores
<1>4. /\ cumulative[l] = cumulative[turn] + Fresh(turn)
      /\ ~Due(turn) => kv[l] = Appended(turn)
      /\ Due(turn) => kv[l] = Compacted(turn, memo.ids)
  <2>1. l < turn /\ turn <= turn
    BY <1>2
  <2> QED BY <1>2, <2>1 DEF IInv, Ahead
<1> QED BY <1>1, <1>2, <1>3, <1>4 DEF AppendOnly, Reuses

LEMMA ForwardLeaves ==
  ASSUME SharedAssumption, IInv, Forward, NEW m \in Layers, m # turn
  PROVE  kv'[m] = kv[m] /\ cumulative'[m] = cumulative[m]
<1>1. /\ cumulative' = [cumulative EXCEPT ![turn] = @ + Fresh(turn)]
      /\ AppendOnly \/ Reuses \/ Scores
  BY ForwardSteps DEF IInv
<1>2. kv \in [Layers -> Seq(Nat)] /\ cumulative \in [Layers -> Nat]
  BY DEF IInv, Types
<1> QED BY <1>1, <1>2 DEF AppendOnly, Reuses, Scores

LEMMA ForwardAlike ==
  ASSUME SharedAssumption, IInv, Forward
  PROVE  Alike'
<1>1. turn' = (turn % NumLayers) + 1 /\ turn \in 1..NumLayers /\ NumLayers \in Nat /\ NumLayers >= 1
  BY ForwardSteps, Sizes DEF IInv, Types, Layers
<1>2. CASE turn < NumLayers
  <2>1. turn' = turn + 1
    BY <1>1, <1>2
  <2>2. ASSUME NEW l \in Layers, NEW m \in Layers, l < turn', m < turn'
        PROVE  kv'[l] = kv'[m] /\ cumulative'[l] = cumulative'[m]
    <3>1. /\ l < turn \/ l = turn
          /\ m < turn \/ m = turn
      BY <1>1, <2>1, <2>2 DEF Layers
    <3>2. l < turn /\ m < turn => kv[l] = kv[m] /\ cumulative[l] = cumulative[m]
      BY DEF IInv, Alike
    <3> QED BY <3>1, <3>2, ForwardJoins
  <2>3. ASSUME NEW l \in Layers, NEW m \in Layers, ~(l < turn'), ~(m < turn')
        PROVE  kv'[l] = kv'[m] /\ cumulative'[l] = cumulative'[m]
    <3>1. l # turn /\ m # turn /\ ~(l < turn) /\ ~(m < turn)
      BY <1>1, <2>1, <2>3 DEF Layers
    <3>2. kv[l] = kv[m] /\ cumulative[l] = cumulative[m]
      BY <3>1 DEF IInv, Alike
    <3> QED BY <3>1, <3>2, ForwardLeaves
  <2> QED BY <2>2, <2>3 DEF Alike
<1>3. CASE turn = NumLayers
  <2>1. \A l \in Layers : l < turn \/ l = turn
    BY <1>1, <1>3 DEF Layers
  <2>2. \A l \in Layers : kv'[l] = kv'[turn] /\ cumulative'[l] = cumulative'[turn]
    <3> TAKE l \in Layers
    <3> QED BY <2>1, ForwardJoins
  <2> QED BY <2>2 DEF Alike
<1> QED BY <1>1, <1>2, <1>3

LEMMA ForwardAhead ==
  ASSUME SharedAssumption, IInv, Forward
  PROVE  Ahead'
<1>1. /\ turn' = (turn % NumLayers) + 1 /\ turn \in 1..NumLayers /\ NumLayers \in Nat /\ NumLayers >= 1
      /\ generation > 0 /\ UNCHANGED <<generation, promptLen, batch>>
      /\ cumulative' = [cumulative EXCEPT ![turn] = @ + Fresh(turn)]
      /\ AppendOnly \/ Reuses \/ Scores
  BY ForwardSteps, Sizes DEF IInv, Types, Layers
<1>2. /\ turn \in Layers /\ kv \in [Layers -> Seq(Nat)] /\ cumulative \in [Layers -> Nat]
  BY DEF IInv, Types
<1> SUFFICES ASSUME NEW l \in Layers, NEW m \in Layers, l < turn', turn' <= m
             PROVE  /\ generation' > 0
                    /\ cumulative'[l] = cumulative'[m] + Fresh(m)'
                    /\ ~Due(m)' => kv'[l] = Appended(m)'
                    /\ Due(m)' => /\ memo' # None /\ memo'.key = PassKey(m)'
                                  /\ kv'[l] = Compacted(m, memo.ids)'
                                  /\ memo'.rows[m] = Considered(m)'
  BY DEF Ahead
<1>3. turn < NumLayers /\ turn' = turn + 1
  <2>1. turn = NumLayers => turn' = 1
    BY <1>1
  <2>2. turn < NumLayers => turn' = turn + 1
    BY <1>1
  <2>3. ~(l < 1)
    BY DEF Layers
  <2> QED BY <1>1, <2>1, <2>2, <2>3
<1>4. /\ m # turn /\ turn <= m /\ ~(m < turn) /\ ~(turn < turn) /\ (l < turn \/ l = turn)
  BY <1>1, <1>3 DEF Layers
<1>5. kv'[m] = kv[m] /\ cumulative'[m] = cumulative[m] /\ kv[m] = kv[turn] /\ cumulative[m] = cumulative[turn]
  BY <1>2, <1>4, ForwardLeaves DEF IInv, Alike
<1>6. Fresh(m)' = Fresh(turn)
  BY <1>1, <1>5 DEF Fresh
<1>7. Appended(m)' = Appended(turn)
  BY <1>5, <1>6 DEF Appended
<1>8. (Due(m)' <=> Due(turn)) /\ Considered(m)' = Considered(turn)
  BY <1>6, <1>7 DEF Due, Considered
<1>9. PassKey(m)' = PassKey(turn)
  BY <1>1, <1>5, <1>6, <1>7 DEF PassKey, Key, Protected
<1>10. Compacted(m, memo.ids)' = Compacted(turn, memo'.ids)
  BY <1>7 DEF Compacted
<1>11. CASE l < turn
  <2>1. memo' = memo /\ kv'[l] = kv[l] /\ cumulative'[l] = cumulative[l]
    BY <1>11, ForwardJoins
  <2>2. /\ cumulative[l] = cumulative[m] + Fresh(m)
        /\ ~Due(m) => kv[l] = Appended(m)
        /\ Due(m) => /\ memo # None /\ memo.key = PassKey(m)
                     /\ kv[l] = Compacted(m, memo.ids)
                     /\ memo.rows[m] = Considered(m)
    BY <1>4, <1>11 DEF IInv, Ahead
  <2>3. /\ Fresh(m) = Fresh(turn) /\ Appended(m) = Appended(turn) /\ (Due(m) <=> Due(turn))
        /\ PassKey(m) = PassKey(turn) /\ Considered(m) = Considered(turn)
        /\ Compacted(m, memo.ids) = Compacted(turn, memo.ids)
    BY <1>2, <1>5, AlikeAppend
  <2> QED BY <1>1, <1>5, <1>6, <1>7, <1>8, <1>9, <1>10, <2>1, <2>2, <2>3
<1>12. CASE l = turn
  <2>1. cumulative'[l] = cumulative[turn] + Fresh(turn)
    BY <1>1, <1>2, <1>12
  <2>2. CASE AppendOnly
    BY <1>1, <1>2, <1>5, <1>6, <1>7, <1>8, <1>12, <2>1, <2>2 DEF AppendOnly
  <2>3. CASE Reuses
    <3>1. 1 \in Layers /\ 1 < turn
      BY <1>1, <1>2, <2>3, FirstScores DEF Layers
    <3>2. Due(turn) /\ memo' = memo /\ kv'[l] = Compacted(turn, memo.ids) /\ memo.key = PassKey(turn)
      BY <1>2, <1>12, <2>3 DEF Reuses, Hit
    <3>3. Due(m) /\ Considered(m) = Considered(turn)
      BY <1>2, <1>5, <3>2, AlikeAppend
    <3>4. memo.rows[m] = Considered(m)
      BY <1>4, <3>1, <3>3 DEF IInv, Ahead
    <3>5. memo # None
      BY <1>1, <2>3, FirstScores
    <3> QED BY <1>1, <1>5, <1>6, <1>8, <1>9, <1>10, <2>1, <3>2, <3>3, <3>4, <3>5
  <2>4. CASE Scores
    <3>1. PICK ids : memo' = Rescored(ids) /\ kv' = [kv EXCEPT ![turn] = Compacted(turn, ids)]
      BY <2>4 DEF Scores
    <3>2. memo'.key = PassKey(turn) /\ memo'.ids = ids
      BY <3>1 DEF Rescored
    <3>3. memo' # None
      <4>1. PassKey(turn) # << >> /\ None.key = << >>
        BY DEF PassKey, Key, None
      <4> QED BY <3>2, <4>1
    <3>4. memo'.rows[m] = Considered(turn)
      BY <1>1, <1>4, <2>4, ScoredRows
    <3>5. Due(turn)
      BY <2>4 DEF Scores
    <3>6. kv'[l] = Compacted(turn, ids)
      BY <1>2, <1>12, <3>1
    <3> QED BY <1>1, <1>5, <1>6, <1>8, <1>9, <1>10, <2>1, <3>2, <3>3, <3>4, <3>5, <3>6
  <2> QED BY <1>1, <2>2, <2>3, <2>4
<1> QED BY <1>4, <1>11, <1>12

LEMMA ForwardAligned ==
  ASSUME SharedAssumption, IInv, Forward
  PROVE  ScoresAlignAcrossLayers'
<1>1. generation > 0 /\ (AppendOnly \/ Reuses \/ Scores)
  BY ForwardSteps DEF IInv
<1>2. CASE AppendOnly \/ Reuses
  BY <1>2 DEF AppendOnly, Reuses, IInv, ScoresAlignAcrossLayers
<1>3. CASE Scores
  <2>1. \A m \in Layers : turn <= m
    BY <1>1, <1>3, FirstScores DEF Layers
  <2>2. \A m \in Layers : memo'.rows[m] = Considered(turn)
    BY <1>1, <1>3, <2>1, ScoredRows
  <2> QED BY <2>2 DEF ScoresAlignAcrossLayers
<1> QED BY <1>1, <1>2, <1>3

-----------------------------------------------------------------------------
(* The other steps, and the theorems.                                      *)

LEMMA Initially ==
  ASSUME SharedAssumption, SharedInit
  PROVE  IInv
<1>1. /\ generation = 0 /\ promptLen = 0 /\ turn = 1 /\ memo = None
      /\ cumulative = [l \in Layers |-> 0] /\ kv = [l \in Layers |-> << >>]
  BY DEF SharedInit
<1>2. Types
  BY <1>1, Sizes DEF Types, Layers
<1>3. Alike
  BY <1>1 DEF Alike
<1>4. Ahead
  BY <1>1, Sizes DEF Ahead, Layers
<1> QED BY <1>1, <1>2, <1>3, <1>4 DEF IInv, MemoCurrent, ScoresAlignAcrossLayers

(* A new problem finds the pass over and leaves an empty slot.             *)
LEMMA NewCacheKeeps ==
  ASSUME SharedAssumption, IInv, NEW p \in PromptLengths, NewCache(p)
  PROVE  IInv'
<1>1. /\ turn = 1 /\ turn' = turn /\ generation' = generation + 1 /\ promptLen' = p /\ memo' = None
      /\ cumulative' = [l \in Layers |-> 0] /\ kv' = [l \in Layers |-> << >>]
  BY DEF NewCache
<1>2. Types'
  BY <1>1, Sizes DEF IInv, Types
<1>3. Alike'
  BY <1>1 DEF Alike
<1>4. Ahead'
  BY <1>1, Sizes DEF Ahead, Layers
<1> QED BY <1>1, <1>2, <1>3, <1>4 DEF IInv, MemoCurrent, ScoresAlignAcrossLayers

(* Rows leave between two passes, where no layer waits for a key.          *)
LEMMA RowsLeaveKeeps ==
  ASSUME SharedAssumption, IInv, RowsLeave
  PROVE  IInv'
<1>1. turn = 1 /\ UNCHANGED <<generation, promptLen, turn, cumulative, kv, memo>>
  BY DEF RowsLeave
<1>2. Ahead'
  BY <1>1, Sizes DEF Ahead, Layers
<1> QED BY <1>1, <1>2 DEF IInv, Types, MemoCurrent, Alike, ScoresAlignAcrossLayers

LEMMA StutterKeeps ==
  ASSUME IInv, UNCHANGED sharedVars
  PROVE  IInv'
<1>1. UNCHANGED <<generation, promptLen, batch, turn, cumulative, kv, memo>>
  BY DEF sharedVars
<1>2. \A m : Fresh(m)' = Fresh(m)
  BY <1>1 DEF Fresh
<1>3. \A m : Appended(m)' = Appended(m)
  BY <1>1, <1>2 DEF Appended
<1>4. \A m : (Due(m)' <=> Due(m)) /\ PassKey(m)' = PassKey(m) /\ Considered(m)' = Considered(m)
  BY <1>1, <1>2, <1>3 DEF Due, PassKey, Key, Protected, Considered
<1>5. \A m : Compacted(m, memo.ids)' = Compacted(m, memo.ids)
  BY <1>1, <1>3 DEF Compacted
<1>6. Ahead'
  BY <1>1, <1>2, <1>3, <1>4, <1>5 DEF IInv, Ahead
<1> QED BY <1>1, <1>6 DEF IInv, Types, MemoCurrent, Alike, ScoresAlignAcrossLayers

LEMMA StepKeeps ==
  ASSUME SharedAssumption, IInv, [SharedNext]_sharedVars
  PROVE  IInv'
<1>1. ASSUME NEW p \in PromptLengths, NewCache(p) PROVE IInv'
  BY <1>1, NewCacheKeeps
<1>2. CASE RowsLeave
  BY <1>2, RowsLeaveKeeps
<1>3. CASE Forward
  BY <1>3, ForwardTypes, ForwardAlike, ForwardAhead, ForwardAligned DEF IInv
<1>4. CASE UNCHANGED sharedVars
  BY <1>4, StutterKeeps
<1> QED BY <1>1, <1>2, <1>3, <1>4 DEF SharedNext

LEMMA InvariantHolds ==
  ASSUME SharedAssumption
  PROVE  SharedSpec => []IInv
<1>1. SharedInit => IInv
  BY Initially
<1>2. IInv /\ [SharedNext]_sharedVars => IInv'
  BY StepKeeps
<1> QED BY <1>1, <1>2, PTL DEF SharedSpec

(* triattn_ph scores once and all layers apply the result: whatever was    *)
(* scored on, is in the same slots of every layer, and the layers on the   *)
(* same side of a pass hold the same tokens after any number of rounds,    *)
(* generations and rows that left.                                         *)
THEOREM KeepSetIsShared ==
  ASSUME SharedAssumption
  PROVE  SharedSpec => []LayersShareOneSet
<1>1. IInv => LayersShareOneSet
  BY DEF IInv, Alike, LayersShareOneSet, LayersAgree
<1> QED BY <1>1, InvariantHolds, PTL

(* No layer ever compacts with a keep-set of another round or another      *)
(* problem, nor with one scored on other rows than its own candidates,     *)
(* although the slot of the module outlives both.                          *)
THEOREM KeepSetStaysFresh ==
  ASSUME SharedAssumption
  PROVE  SharedSpec => KeepSetIsFresh
<1> DEFINE Compacts(l) == cumulative'[l] > cumulative[l] /\ Len(kv'[l]) <= Len(kv[l])
           Right(l) ==
             /\ memo'.generation = generation /\ memo'.at = cumulative'[l]
             /\ memo'.rows[l] =
                  SubSeq(Append(kv[l], cumulative[l]), 1, Candidates(Len(kv[l]) + 1))
           Judged == \A l \in Layers : Compacts(l) => Right(l)
<1>1. ASSUME IInv, [SharedNext]_sharedVars PROVE Judged
  <2> SUFFICES ASSUME NEW l \in Layers, Compacts(l) PROVE Right(l)
    OBVIOUS
  <2>1. /\ cumulative \in [Layers -> Nat] /\ kv \in [Layers -> Seq(Nat)] /\ turn \in Layers
        /\ turn \in Nat
    BY <1>1, Sizes DEF IInv, Types, Layers
  <2>2. Forward
    <3>1. ASSUME NEW p \in PromptLengths, NewCache(p) PROVE FALSE
      <4>1. cumulative'[l] = 0
        BY <3>1 DEF NewCache
      <4> QED BY <2>1, <4>1
    <3>2. CASE RowsLeave
      BY <2>1, <3>2 DEF RowsLeave
    <3>3. CASE UNCHANGED sharedVars
      BY <2>1, <3>3 DEF sharedVars
    <3> QED BY <1>1, <3>1, <3>2, <3>3 DEF SharedNext
  <2>3. /\ generation > 0 /\ generation' = generation
        /\ cumulative' = [cumulative EXCEPT ![turn] = @ + Fresh(turn)]
        /\ AppendOnly \/ Reuses \/ Scores
    BY <1>1, <2>2, ForwardSteps DEF IInv
  <2>4. l = turn
    BY <2>1, <2>3
  <2>5. cumulative'[l] = cumulative[turn] + Fresh(turn)
    BY <2>1, <2>3, <2>4
  <2>6. ~AppendOnly
    <3> SUFFICES ASSUME AppendOnly PROVE FALSE
      OBVIOUS
    <3>1. kv'[l] = Appended(turn)
      BY <2>1, <2>4 DEF AppendOnly
    <3>2. Len(Appended(turn)) = Len(kv[l]) + Fresh(turn) /\ Fresh(turn) >= 1 /\ Fresh(turn) \in Nat
          /\ Len(kv[l]) \in Nat
      BY <1>1, <2>1, <2>3, <2>4, AppendedType DEF IInv
    <3> QED BY <3>1, <3>2
  <2>7. Due(turn)
    BY <2>3, <2>6 DEF Reuses, Scores
  <2>8. /\ Fresh(turn) = 1 /\ Appended(turn) = Append(kv[l], cumulative[l])
        /\ Len(Appended(turn)) = Len(kv[l]) + 1
    BY <1>1, <2>1, <2>3, <2>4, <2>7, DueAppends, AppendedType DEF IInv
  <2>9. Considered(turn) = SubSeq(Append(kv[l], cumulative[l]), 1, Candidates(Len(kv[l]) + 1))
    BY <2>8 DEF Considered
  <2>10. CASE Scores
    <3>1. PICK ids : memo' = Rescored(ids)
      BY <2>10 DEF Scores
    <3>2. memo'.generation = generation /\ memo'.at = cumulative[turn] + Fresh(turn)
      BY <3>1 DEF Rescored
    <3>3. turn <= turn
      BY <2>1
    <3>4. memo'.rows[turn] = Considered(turn)
      BY <1>1, <2>1, <2>3, <2>10, <3>3, ScoredRows
    <3> QED BY <2>4, <2>5, <2>9, <3>2, <3>4
  <2>11. CASE Reuses
    <3>1. turn # 1 /\ memo # None
      BY <1>1, <2>3, <2>11, FirstScores
    <3>2. 1 \in Layers /\ 1 < turn /\ turn <= turn
      BY <2>1, <3>1, Sizes DEF Layers
    <3>3. memo.key = PassKey(turn) /\ memo.rows[turn] = Considered(turn)
      BY <1>1, <2>1, <2>7, <3>2 DEF IInv, Ahead
    <3>4. PassKey(turn)[4] = cumulative[turn] + Fresh(turn)
      BY DEF PassKey, Key
    <3>5. memo' = memo /\ memo.generation = generation /\ memo.at = cumulative[turn] + Fresh(turn)
      BY <1>1, <2>11, <3>1, <3>3, <3>4 DEF Reuses, IInv, MemoCurrent
    <3> QED BY <2>4, <2>5, <2>9, <3>3, <3>5
  <2> QED BY <2>3, <2>6, <2>10, <2>11
<1>2. IInv /\ [SharedNext]_sharedVars => [Judged]_sharedVars
  BY <1>1
<1>3. [][Judged]_sharedVars => KeepSetIsFresh
  BY DEF KeepSetIsFresh
<1> QED BY <1>2, <1>3, InvariantHolds, PTL DEF SharedSpec

-----------------------------------------------------------------------------
(* Sequences; sorted index lists.                                          *)

LEMMA FunctionIsSeq ==
  ASSUME NEW n \in Nat, NEW S, NEW f \in [1..n -> S]
  PROVE  f \in Seq(S) /\ Len(f) = n /\ DOMAIN f = 1..n
<1>1. f \in Seq(S)
  BY SeqDef
<1> QED BY <1>1

(* A sorted list of a set holds every member of it.                        *)
LEMMA SortedCovers ==
  ASSUME NEW S, IsFiniteSet(S), S \subseteq Int, NEW f \in Sorted(S)
  PROVE  /\ Cardinality(S) \in Nat /\ DOMAIN f = 1..Cardinality(S)
         /\ f \in [1..Cardinality(S) -> S]
         /\ \A i, j \in 1..Cardinality(S) : f[i] = f[j] => i = j
         /\ \A x \in S : \E i \in 1..Cardinality(S) : f[i] = x
<1> DEFINE n == Cardinality(S)
<1>1. n \in Nat
  BY FS_CardinalityType
<1>2. f \in [1..n -> S] /\ \A i, j \in 1..n : i < j => f[i] < f[j]
  BY DEF Sorted
<1>3. \A i, j \in 1..n : f[i] = f[j] => i = j
  <2> SUFFICES ASSUME NEW i \in 1..n, NEW j \in 1..n, f[i] = f[j], i # j PROVE FALSE
    OBVIOUS
  <2>1. i < j \/ j < i
    OBVIOUS
  <2>2. f[i] \in Int /\ f[j] \in Int
    BY <1>2
  <2> QED BY <1>2, <2>1, <2>2
<1>4. f \in Injection(1..n, S)
  BY <1>2, <1>3, Fun_IsInj
<1>5. IsFiniteSet(1..n) /\ Cardinality(1..n) = n
  BY <1>1, FS_Interval
<1>6. f \in Surjection(1..n, S)
  BY <1>4, <1>5, FS_Injection
<1> QED BY <1>1, <1>2, <1>3, <1>6 DEF Surjection

(* Picking, in order, the entries of a sorted list that lie in a set gives *)
(* the sorted list of that set.                                            *)
LEMMA SortedPick ==
  ASSUME NEW S, IsFiniteSet(S), S \subseteq Int, NEW f \in Sorted(S),
         NEW T, T \subseteq S, NEW g \in Sorted({i \in DOMAIN f : f[i] \in T})
  PROVE  Selected(f, g) \in Sorted(T)
<1> DEFINE n == Cardinality(S)
           G == {i \in DOMAIN f : f[i] \in T}
           h == [i \in G |-> f[i]]
<1>1. /\ n \in Nat /\ DOMAIN f = 1..n /\ f \in [1..n -> S]
      /\ \A i, j \in 1..n : f[i] = f[j] => i = j
      /\ \A x \in S : \E i \in 1..n : f[i] = x
  BY SortedCovers
<1>2. G \subseteq 1..n /\ G \subseteq Int
  BY <1>1
<1>3. IsFiniteSet(G)
  <2>1. IsFiniteSet(1..n)
    BY <1>1, FS_Interval
  <2> QED BY <1>2, <2>1, FS_Subset
<1>4. h \in Bijection(G, T)
  <2>1. h \in [G -> T]
    OBVIOUS
  <2>2. \A i, j \in G : h[i] = h[j] => i = j
    BY <1>1, <1>2
  <2>3. \A x \in T : \E i \in G : h[i] = x
    BY <1>1
  <2> QED BY <2>1, <2>2, <2>3, Fun_IsBij
<1>5. Cardinality(G) = Cardinality(T)
  BY <1>3, <1>4, FS_Bijection DEF ExistsBijection
<1>6. /\ DOMAIN g = 1..Cardinality(G) /\ g \in [1..Cardinality(G) -> G]
      /\ Cardinality(G) \in Nat
  BY <1>2, <1>3, SortedCovers
<1>7. Selected(f, g) \in [1..Cardinality(T) -> T]
  BY <1>5, <1>6 DEF Selected
<1>8. \A i, j \in 1..Cardinality(T) : i < j => f[g[i]] < f[g[j]]
  <2> SUFFICES ASSUME NEW i \in 1..Cardinality(T), NEW j \in 1..Cardinality(T), i < j
               PROVE  f[g[i]] < f[g[j]]
    OBVIOUS
  <2>1. g[i] < g[j] /\ g[i] \in DOMAIN f /\ g[j] \in DOMAIN f
    BY <1>5, <1>6 DEF Sorted
  <2> QED BY <2>1 DEF Sorted
<1> QED BY <1>5, <1>6, <1>7, <1>8 DEF Sorted, Selected

-----------------------------------------------------------------------------
(* One row's tokens: without an end of sequence while it goes on; up to    *)
(* its first one, with fillers behind it, when it has finished.            *)
UpToEnd(g) ==
  LET ends == {i \in DOMAIN g : g[i] \in EosIds}
  IN  IF ends = {} THEN g ELSE SubSeq(g, 1, CHOOSE i \in ends : \A j \in ends : i <= j)

EndsAt(g, e) ==
  /\ e \in 1..Len(g) /\ g[e] \in EosIds
  /\ \A i \in 1..(e - 1) : g[i] \notin EosIds
  /\ \A i \in (e + 1)..Len(g) : g[i] = Filler

GoesOn(g) == \A i \in 1..Len(g) : g[i] \notin EosIds

LEMMA OpenText ==
  ASSUME NEW g \in Seq(Vocabulary), GoesOn(g)
  PROVE  UpToEnd(g) = g
<1>1. DOMAIN g = 1..Len(g)
  OBVIOUS
<1>2. {i \in DOMAIN g : g[i] \in EosIds} = {}
  BY <1>1 DEF GoesOn
<1> QED BY <1>2 DEF UpToEnd

LEMMA EndedText ==
  ASSUME NEW g \in Seq(Vocabulary), NEW e, EndsAt(g, e)
  PROVE  UpToEnd(g) = SubSeq(g, 1, e)
<1> DEFINE ends == {i \in DOMAIN g : g[i] \in EosIds}
           first == CHOOSE i \in ends : \A j \in ends : i <= j
<1>1. DOMAIN g = 1..Len(g) /\ Len(g) \in Nat
  OBVIOUS
<1>2. e \in ends /\ e \in Int
  BY <1>1 DEF EndsAt
<1>3. \A j \in ends : e <= j
  BY <1>1 DEF EndsAt
<1>4. first \in ends /\ \A j \in ends : first <= j
  BY <1>2, <1>3
<1>5. first \in Int /\ first = e
  BY <1>1, <1>2, <1>3, <1>4
<1> QED BY <1>2, <1>5 DEF UpToEnd

(* A row that goes on takes any token, a finished one the filler.          *)
LEMMA OpenGrows ==
  ASSUME BatchAssumption, NEW g \in Seq(Vocabulary), GoesOn(g), NEW t \in Vocabulary
  PROVE  /\ t \notin EosIds => GoesOn(Append(g, t))
         /\ t \in EosIds => EndsAt(Append(g, t), Len(g) + 1)
         /\ UpToEnd(Append(g, t)) = Append(UpToEnd(g), t)
<1> DEFINE w == Append(g, t)
<1>1. /\ w \in Seq(Vocabulary) /\ Len(g) \in Nat /\ Len(w) = Len(g) + 1
      /\ w[Len(g) + 1] = t /\ \A i \in 1..Len(g) : w[i] = g[i]
  OBVIOUS
<1>2. t \notin EosIds => GoesOn(w)
  BY <1>1 DEF GoesOn
<1>3. t \in EosIds => EndsAt(w, Len(g) + 1)
  BY <1>1 DEF GoesOn, EndsAt
<1>4. SubSeq(w, 1, Len(g) + 1) = w
  BY <1>1
<1>5. UpToEnd(w) = w
  BY <1>1, <1>2, <1>3, <1>4, OpenText, EndedText
<1> QED BY <1>2, <1>3, <1>5, OpenText

LEMMA EndedGrows ==
  ASSUME BatchAssumption, NEW g \in Seq(Vocabulary), NEW e, EndsAt(g, e)
  PROVE  /\ EndsAt(Append(g, Filler), e)
         /\ UpToEnd(Append(g, Filler)) = UpToEnd(g)
<1> DEFINE w == Append(g, Filler)
<1>0. Filler \in Vocabulary
  BY DEF BatchAssumption
<1>1. /\ w \in Seq(Vocabulary) /\ Len(g) \in Nat /\ Len(w) = Len(g) + 1
      /\ w[Len(g) + 1] = Filler /\ \A i \in 1..Len(g) : w[i] = g[i]
  BY <1>0
<1>2. EndsAt(w, e)
  BY <1>1 DEF EndsAt
<1>3. SubSeq(w, 1, e) = SubSeq(g, 1, e)
  BY <1>1 DEF EndsAt
<1> QED BY <1>1, <1>2, <1>3, EndedText

-----------------------------------------------------------------------------
(* Tokens that differ from the filler are those of the text, less a filler *)
(* that closes it.                                                         *)
LEMMA OpenCount ==
  ASSUME BatchAssumption, NEW g \in Seq(Vocabulary), GoesOn(g)
  PROVE  /\ Cardinality({i \in DOMAIN g : g[i] # Filler}) = Len(g)
         /\ g # << >> => g[Len(g)] # Filler
<1>1. DOMAIN g = 1..Len(g) /\ Len(g) \in Nat
  OBVIOUS
<1>2. \A i \in 1..Len(g) : g[i] # Filler
  BY DEF GoesOn, BatchAssumption
<1>3. {i \in DOMAIN g : g[i] # Filler} = 1..Len(g)
  BY <1>1, <1>2
<1>4. g # << >> => Len(g) \in 1..Len(g)
  BY <1>1
<1>5. Cardinality(1..Len(g)) = Len(g)
  BY <1>1, FS_Interval
<1> QED BY <1>2, <1>3, <1>4, <1>5

LEMMA EndedCount ==
  ASSUME BatchAssumption, NEW g \in Seq(Vocabulary), NEW e, EndsAt(g, e)
  PROVE  Cardinality({i \in DOMAIN g : g[i] # Filler}) = IF g[e] = Filler THEN e - 1 ELSE e
<1> DEFINE count == IF g[e] = Filler THEN e - 1 ELSE e
<1>1. DOMAIN g = 1..Len(g) /\ Len(g) \in Nat /\ e \in Nat /\ e >= 1 /\ e <= Len(g)
  BY DEF EndsAt
<1>2. \A i \in 1..(e - 1) : g[i] # Filler
  BY DEF EndsAt, BatchAssumption
<1>3. \A i \in (e + 1)..Len(g) : g[i] = Filler
  BY DEF EndsAt
<1>4. {i \in DOMAIN g : g[i] # Filler} = 1..count
  BY <1>1, <1>2, <1>3
<1>5. count \in Nat
  BY <1>1
<1>6. Cardinality(1..count) = count
  BY ONLY <1>5, FS_Interval
<1> QED BY <1>4, <1>6

-----------------------------------------------------------------------------
(* The inductive invariant of the shrinking batch: every row has the same  *)
(* number of tokens, a text that goes on or is padded behind its end, and  *)
(* what BatchGenerate says of the cache, the mask and the mapping.         *)
Histories ==
  /\ Steps \in Nat
  /\ \A r \in Rows :
       /\ Len(generated[r]) = Steps
       /\ ~finished[r] => GoesOn(generated[r])
       /\ finished[r] => \E e \in 1..Steps : EndsAt(generated[r], e)

BatchIInv ==
  BatchTypeOK /\ Histories /\ CacheFollowsRow /\ MaskCoversContext /\ BatchIsUnfinished

LEMMA Constants ==
  ASSUME BatchAssumption
  PROVE  /\ Rows \subseteq Int /\ IsFiniteSet(Rows) /\ 1 \in Rows
         /\ Cardinality(Rows) = InitialBatchSize /\ InitialBatchSize \in Nat
         /\ Filler \in Vocabulary /\ Filler \in EosIds
         /\ PromptTokens \in Nat /\ MaxNew \in Nat
<1>1. InitialBatchSize \in Nat /\ InitialBatchSize >= 1
  BY DEF BatchAssumption
<1>2. IsFiniteSet(Rows) /\ Cardinality(Rows) = InitialBatchSize
  BY <1>1, FS_Interval DEF Rows
<1> QED BY <1>1, <1>2 DEF BatchAssumption, Rows, MaxNew

LEMMA InitIInv == ASSUME BatchAssumption, BatchInit PROVE BatchIInv
<1> USE Constants
<1>1. BatchTypeOK
  <2>1. \A S, x : x \in S => [i \in Rows |-> x] \in Seq(S)
    BY FunctionIsSeq DEF Rows
  <2>2. curToOrig \in Seq(Rows)
    BY FunctionIsSeq DEF BatchInit, Rows
  <2>3. curInput \in Seq(Vocabulary \cup {Prompt}) /\ mask \in Seq(Nat)
    BY <2>1 DEF BatchInit
  <2>4. << >> \in Seq(Vocabulary) /\ << >> \in Seq(Vocabulary \cup {Prompt})
    OBVIOUS
  <2>5. cache \in Seq(Seq(Vocabulary \cup {Prompt}))
    BY <2>1, <2>4 DEF BatchInit
  <2>6. /\ generated \in [Rows -> Seq(Vocabulary)] /\ finished \in [Rows -> BOOLEAN]
        /\ returned \in BOOLEAN
    BY <2>4 DEF BatchInit
  <2> QED BY <2>2, <2>3, <2>5, <2>6 DEF BatchTypeOK
<1>2. Steps = 0 /\ \A r \in Rows : generated[r] = << >> /\ ~finished[r]
  BY DEF BatchInit, Steps
<1>3. Histories
  BY <1>2 DEF Histories, GoesOn
<1>4. Len(cache) = InitialBatchSize /\ Len(curToOrig) = InitialBatchSize /\ Len(mask) = InitialBatchSize
  BY DEF BatchInit, Rows
<1>5. CacheFollowsRow
  <2> SUFFICES ASSUME NEW i \in Batch
               PROVE  Append(cache[i], curInput[i]) = <<Prompt>> \o generated[curToOrig[i]]
    BY <1>4 DEF CacheFollowsRow
  <2>1. i \in Rows /\ curToOrig[i] = i
    BY DEF BatchInit, Batch
  <2>2. cache[i] = << >> /\ curInput[i] = Prompt /\ generated[i] = << >>
    BY <2>1 DEF BatchInit
  <2> QED BY <2>1, <2>2
<1>6. MaskCoversContext
  BY <1>4 DEF MaskCoversContext, BatchInit, Rows
<1>7. BatchIsUnfinished
  <2>1. {r \in Rows : ~finished[r]} = Rows
    BY <1>2
  <2>2. curToOrig \in Sorted(Rows)
    BY DEF BatchInit, Sorted, Rows
  <2> QED BY <2>1, <2>2 DEF BatchIsUnfinished
<1> QED BY <1>1, <1>3, <1>5, <1>6, <1>7 DEF BatchIInv

-----------------------------------------------------------------------------
(* What a draw means for the rows: the batch is the unfinished rows, each  *)
(* of which gets the token drawn at its position; the others are padded.   *)
LEMMA BatchRows ==
  ASSUME BatchAssumption, BatchIInv, ~returned
  PROVE  LET live == {r \in Rows : ~finished[r]}
         IN  /\ curToOrig \in Sorted(live) /\ IsFiniteSet(live) /\ live \subseteq Int
             /\ Cardinality(live) \in Nat /\ Batch = 1..Cardinality(live)
             /\ curToOrig \in [Batch -> live]
             /\ \A i, j \in Batch : curToOrig[i] = curToOrig[j] => i = j
             /\ \A r \in live : \E i \in Batch : curToOrig[i] = r
<1> DEFINE live == {r \in Rows : ~finished[r]}
<1>1. live \subseteq Rows /\ IsFiniteSet(live) /\ live \subseteq Int
  BY Constants, FS_Subset
<1>2. curToOrig \in Sorted(live)
  BY DEF BatchIInv, BatchIsUnfinished
<1>3. /\ Cardinality(live) \in Nat /\ DOMAIN curToOrig = 1..Cardinality(live)
      /\ curToOrig \in [1..Cardinality(live) -> live]
      /\ \A i, j \in 1..Cardinality(live) : curToOrig[i] = curToOrig[j] => i = j
      /\ \A r \in live : \E i \in 1..Cardinality(live) : curToOrig[i] = r
  <2> HIDE DEF live
  <2> QED BY <1>1, <1>2, SortedCovers
<1> HIDE DEF live
<1>4. Batch = 1..Cardinality(live)
  BY <1>3 DEF Batch
<1>5. /\ curToOrig \in Sorted(live) /\ IsFiniteSet(live) /\ live \subseteq Int
      /\ Cardinality(live) \in Nat /\ Batch = 1..Cardinality(live)
      /\ curToOrig \in [Batch -> live]
      /\ \A i, j \in Batch : curToOrig[i] = curToOrig[j] => i = j
      /\ \A r \in live : \E i \in Batch : curToOrig[i] = r
  BY <1>1, <1>2, <1>3, <1>4
<1> QED BY <1>5 DEF live

LEMMA Drawn ==
  ASSUME BatchAssumption, BatchIInv, ~returned, NEW next \in [Batch -> Vocabulary]
  PROVE  /\ \A i \in Batch : NewTokens(next)[curToOrig[i]] = next[i]
         /\ \A r \in Rows :
              /\ NewTokens(next)[r] \in Vocabulary /\ Ends(next)[r] \in BOOLEAN
              /\ finished[r] => NewTokens(next)[r] = Filler /\ Ends(next)[r]
              /\ ~finished[r] => (Ends(next)[r] <=> NewTokens(next)[r] \in EosIds)
<1> DEFINE live == {r \in Rows : ~finished[r]}
<1>1. /\ curToOrig \in [Batch -> live]
      /\ \A i, j \in Batch : curToOrig[i] = curToOrig[j] => i = j
      /\ \A r \in live : \E i \in Batch : curToOrig[i] = r
  BY BatchRows
<1>2. \A i \in Batch : (CHOOSE j \in Batch : curToOrig[j] = curToOrig[i]) = i
  BY <1>1
<1>3. \A i \in Batch : NewTokens(next)[curToOrig[i]] = next[i]
  BY <1>1, <1>2 DEF NewTokens
<1>4. ASSUME NEW r \in Rows
      PROVE  /\ NewTokens(next)[r] \in Vocabulary /\ Ends(next)[r] \in BOOLEAN
             /\ finished[r] => NewTokens(next)[r] = Filler /\ Ends(next)[r]
             /\ ~finished[r] => (Ends(next)[r] <=> NewTokens(next)[r] \in EosIds)
  <2>1. CASE finished[r]
    <3>1. ~\E i \in Batch : curToOrig[i] = r
      BY <1>1, <2>1
    <3> QED BY <2>1, <3>1, Constants DEF NewTokens, Ends
  <2>2. CASE ~finished[r]
    <3>1. PICK i \in Batch : curToOrig[i] = r
      BY <1>1, <2>2
    <3>2. NewTokens(next)[r] = next[i] /\ next[i] \in Vocabulary
      BY <1>3, <3>1
    <3>3. Ends(next)[r] <=> next[i] \in EosIds
      BY <1>1, <2>2, <3>1 DEF Ends
    <3>4. Ends(next)[r] \in BOOLEAN
      BY <2>2 DEF Ends
    <3> QED BY <2>2, <3>2, <3>3, <3>4
  <2> QED BY <2>1, <2>2
<1> QED BY <1>3, <1>4

(* One row of one draw.                                                    *)
LEMMA HistoryGrows ==
  ASSUME BatchAssumption, BatchIInv, ~returned, Steps < MaxNew, NEW next \in [Batch -> Vocabulary],
         generated' = [r \in Rows |-> Append(generated[r], NewTokens(next)[r])],
         finished' = Ends(next), NEW r \in Rows
  PROVE  /\ generated'[r] \in Seq(Vocabulary) /\ Len(generated'[r]) = Steps + 1
         /\ generated'[r][Steps + 1] = NewTokens(next)[r]
         /\ ~finished'[r] => GoesOn(generated'[r])
         /\ finished'[r] => \E e \in 1..(Steps + 1) : EndsAt(generated'[r], e)
         /\ UpToEnd(generated'[r]) =
              IF finished[r] THEN UpToEnd(generated[r])
              ELSE Append(UpToEnd(generated[r]), NewTokens(next)[r])
<1> DEFINE g == generated[r]
           t == NewTokens(next)[r]
<1>1. /\ t \in Vocabulary /\ Ends(next)[r] \in BOOLEAN
      /\ finished[r] => t = Filler /\ Ends(next)[r]
      /\ ~finished[r] => (Ends(next)[r] <=> t \in EosIds)
  BY Drawn
<1>2. g \in Seq(Vocabulary) /\ Len(g) = Steps /\ Steps \in Nat /\ finished[r] \in BOOLEAN
  BY DEF BatchIInv, BatchTypeOK, Histories
<1>3. generated'[r] = Append(g, t)
  OBVIOUS
<1>4. /\ Append(g, t) \in Seq(Vocabulary) /\ Len(Append(g, t)) = Steps + 1
      /\ Append(g, t)[Steps + 1] = t
  BY <1>1, <1>2
<1>5. CASE finished[r]
  <2>1. PICK e \in 1..Steps : EndsAt(g, e)
    BY <1>5 DEF BatchIInv, Histories
  <2>2. EndsAt(Append(g, t), e) /\ UpToEnd(Append(g, t)) = UpToEnd(g)
    BY <1>1, <1>2, <1>5, <2>1, EndedGrows
  <2>3. e \in 1..(Steps + 1)
    BY <1>2
  <2> QED BY <1>1, <1>3, <1>4, <1>5, <2>2, <2>3
<1>6. CASE ~finished[r]
  <2>1. GoesOn(g)
    BY <1>6 DEF BatchIInv, Histories
  <2>2. /\ t \notin EosIds => GoesOn(Append(g, t))
        /\ t \in EosIds => EndsAt(Append(g, t), Steps + 1)
        /\ UpToEnd(Append(g, t)) = Append(UpToEnd(g), t)
    BY <1>1, <1>2, <2>1, OpenGrows
  <2>3. Steps + 1 \in 1..(Steps + 1)
    BY <1>2
  <2> QED BY <1>1, <1>3, <1>4, <1>6, <2>2, <2>3
<1> QED BY <1>2, <1>5, <1>6

-----------------------------------------------------------------------------
(* An iteration that goes on.                                              *)
LEMMA AppendBehind ==
  ASSUME NEW S, NEW u \in S, NEW g \in Seq(S), NEW t \in S
  PROVE  Append(<<u>> \o g, t) = <<u>> \o Append(g, t)
OBVIOUS

LEMMA BatchStepKeeps ==
  ASSUME BatchAssumption, BatchIInv, Step PROVE BatchIInv'
<1> USE Constants
<1> DEFINE Fed == Vocabulary \cup {Prompt}
           fed == [i \in Batch |-> Append(cache[i], curInput[i])]
           wide == [i \in Batch |-> mask[i] + 1]
           live == {r \in Rows : ~finished[r]}
           going == {r \in Rows : ~finished'[r]}
<1>1. ~returned /\ Steps < MaxNew
  BY DEF Step
<1>2. PICK next \in [Batch -> Vocabulary] :
        /\ generated' = [r \in Rows |-> Append(generated[r], NewTokens(next)[r])]
        /\ finished' = Ends(next)
        /\ returned' = \A r \in Rows : finished'[r]
        /\ IF returned'
           THEN cache' = fed /\ mask' = wide /\ UNCHANGED <<curToOrig, curInput>>
           ELSE /\ Filter(fed, wide, finished')
                /\ curInput' = [k \in DOMAIN curToOrig' |-> generated'[curToOrig'[k]][Steps + 1]]
  BY DEF Step
<1>3. /\ \A i \in Batch : NewTokens(next)[curToOrig[i]] = next[i]
      /\ \A r \in Rows :
           /\ NewTokens(next)[r] \in Vocabulary /\ Ends(next)[r] \in BOOLEAN
           /\ finished[r] => NewTokens(next)[r] = Filler /\ Ends(next)[r]
           /\ ~finished[r] => (Ends(next)[r] <=> NewTokens(next)[r] \in EosIds)
  BY <1>1, Drawn
<1>4. \A r \in Rows :
        /\ generated'[r] \in Seq(Vocabulary) /\ Len(generated'[r]) = Steps + 1
        /\ generated'[r][Steps + 1] = NewTokens(next)[r]
        /\ ~finished'[r] => GoesOn(generated'[r])
        /\ finished'[r] => \E e \in 1..(Steps + 1) : EndsAt(generated'[r], e)
  BY <1>1, <1>2, HistoryGrows
<1>5. Steps \in Nat /\ Steps' = Steps + 1
  BY <1>4 DEF Steps, BatchIInv, Histories
<1>6. Histories'
  BY <1>4, <1>5 DEF Histories
<1>7. generated' \in [Rows -> Seq(Vocabulary)] /\ finished' \in [Rows -> BOOLEAN]
  <2>1. generated' \in [Rows -> Seq(Vocabulary)]
    BY <1>2, <1>4
  <2>2. \A r \in Rows : finished'[r] \in BOOLEAN
    BY <1>2, <1>3
  <2> QED BY <1>2, <2>1, <2>2 DEF Ends
<1>8. /\ curToOrig \in Sorted(live) /\ IsFiniteSet(live) /\ live \subseteq Int
      /\ Cardinality(live) \in Nat /\ Batch = 1..Cardinality(live)
      /\ curToOrig \in [Batch -> live]
  BY <1>1, BatchRows
<1>9. Len(cache) = Cardinality(live) /\ Len(mask) = Cardinality(live) /\ Len(curToOrig) = Cardinality(live)
  BY <1>1, <1>8 DEF BatchIInv, CacheFollowsRow, MaskCoversContext, BatchTypeOK
<1>10. /\ fed \in [Batch -> Seq(Fed)] /\ wide \in [Batch -> Nat]
       /\ \A i \in Batch : /\ fed[i] = <<Prompt>> \o generated[curToOrig[i]]
                            /\ wide[i] = PromptTokens + Len(fed[i])
  <2>1. ASSUME NEW i \in Batch
        PROVE  /\ fed[i] \in Seq(Fed) /\ wide[i] \in Nat
               /\ fed[i] = <<Prompt>> \o generated[curToOrig[i]]
               /\ wide[i] = PromptTokens + Len(fed[i])
    <3>1. cache[i] \in Seq(Fed) /\ mask[i] \in Nat
      <4>1. cache \in Seq(Seq(Fed)) /\ mask \in Seq(Nat)
        BY DEF BatchIInv, BatchTypeOK
      <4>2. i \in 1..Len(cache) /\ i \in 1..Len(mask)
        BY <1>8, <1>9
      <4> QED BY <4>1, <4>2, ElementOfSeq
    <3>2. Append(cache[i], curInput[i]) = <<Prompt>> \o generated[curToOrig[i]]
      BY <1>1 DEF BatchIInv, CacheFollowsRow
    <3>3. mask[i] = PromptTokens + Len(cache[i])
      BY <1>1, <1>8, <1>9 DEF BatchIInv, MaskCoversContext, BatchTypeOK
    <3>4. generated[curToOrig[i]] \in Seq(Fed)
      BY <1>8 DEF BatchIInv, BatchTypeOK
    <3>5. <<Prompt>> \o generated[curToOrig[i]] \in Seq(Fed)
      BY <3>4
    <3>6. Len(fed[i]) = Len(cache[i]) + 1 /\ Len(cache[i]) \in Nat
      BY <3>1
    <3>7. fed[i] = Append(cache[i], curInput[i]) /\ wide[i] = mask[i] + 1
      OBVIOUS
    <3>8. wide[i] = PromptTokens + Len(fed[i]) /\ wide[i] \in Nat
      BY <3>1, <3>3, <3>6, <3>7
    <3> QED BY <3>2, <3>5, <3>7, <3>8
  <2> QED BY <2>1
<1> HIDE DEF Fed, fed, wide, live, going
<1>11. CASE returned'
  <2>1. cache' \in Seq(Seq(Fed)) /\ mask' \in Seq(Nat)
    <3>1. cache' = fed /\ mask' = wide
      BY <1>2, <1>11
    <3> QED BY <1>8, <1>10, <3>1, FunctionIsSeq
  <2>2. BatchTypeOK'
    BY <1>2, <1>7, <1>11, <2>1 DEF BatchTypeOK, BatchIInv, Fed
  <2> QED BY <1>6, <1>11, <2>2 DEF BatchIInv, CacheFollowsRow, MaskCoversContext, BatchIsUnfinished
<1>12. CASE ~returned'
  <2>1. PICK keep \in KeepLocal(finished') :
          /\ cache' = Selected(fed, keep) /\ mask' = Selected(wide, keep)
          /\ curToOrig' = Selected(curToOrig, keep)
    BY <1>2, <1>12 DEF Filter
  <2>2. going \subseteq live
    BY <1>2, <1>3, <1>7 DEF going, live
  <2>3. {i \in Batch : ~finished'[curToOrig[i]]} = {i \in DOMAIN curToOrig : curToOrig[i] \in going}
    BY <1>8 DEF Batch, going, live
  <2>4. curToOrig' \in Sorted(going)
    BY <1>8, <2>1, <2>2, <2>3, SortedPick DEF KeepLocal
  <2> DEFINE n == Cardinality(going)
  <2>15. going \subseteq Rows
    BY DEF going
  <2>5. n \in Nat /\ going \subseteq Rows /\ DOMAIN curToOrig' = 1..n /\ curToOrig' \in [1..n -> going]
    <3>1. IsFiniteSet(going) /\ going \subseteq Int
      BY <1>8, <2>2, FS_Subset
    <3> QED BY <2>4, <2>15, <3>1, SortedCovers
  <2>6. DOMAIN keep = 1..n /\ \A k \in 1..n : keep[k] \in Batch /\ curToOrig'[k] = curToOrig[keep[k]]
    <3>1. DOMAIN curToOrig' = DOMAIN keep /\ \A k \in DOMAIN keep : curToOrig'[k] = curToOrig[keep[k]]
      BY <2>1 DEF Selected
    <3>2. keep \in [DOMAIN keep -> {i \in Batch : ~finished'[curToOrig[i]]}]
      BY <2>1 DEF KeepLocal, Sorted
    <3> QED BY <2>5, <3>1, <3>2
  <2> HIDE DEF n
  <2>7. /\ cache' \in [1..n -> Seq(Fed)] /\ mask' \in [1..n -> Nat]
        /\ \A k \in 1..n : cache'[k] = fed[keep[k]] /\ mask'[k] = wide[keep[k]]
    BY <1>10, <2>1, <2>6 DEF Selected
  <2>8. \A k \in 1..n : curInput'[k] = generated'[curToOrig'[k]][Steps + 1]
    BY <1>2, <1>12, <2>5
  <2>9. curInput' \in [1..n -> Fed]
    <3>1. curInput' = [k \in 1..n |-> generated'[curToOrig'[k]][Steps + 1]]
      BY <1>2, <1>12, <2>5
    <3>2. \A k \in 1..n : generated'[curToOrig'[k]][Steps + 1] \in Fed
      BY <1>3, <1>4, <2>5 DEF Fed
    <3> QED BY <3>1, <3>2
  <2>10. BatchTypeOK'
    <3>1. curToOrig' \in Seq(Rows)
      BY <2>5, FunctionIsSeq
    <3>2. cache' \in Seq(Seq(Fed)) /\ mask' \in Seq(Nat) /\ curInput' \in Seq(Fed)
      BY <2>5, <2>7, <2>9, FunctionIsSeq
    <3> QED BY <1>2, <1>7, <3>1, <3>2 DEF BatchTypeOK, Fed
  <2>11. /\ Len(cache') = n /\ Len(mask') = n /\ Len(curToOrig') = n
         /\ DOMAIN mask' = 1..n
    BY <2>5, <2>7, FunctionIsSeq
  <2>12. CacheFollowsRow'
    <3> SUFFICES ASSUME NEW k \in 1..n
                 PROVE  Append(cache'[k], curInput'[k]) = <<Prompt>> \o generated'[curToOrig'[k]]
      BY <2>5, <2>11 DEF CacheFollowsRow, Batch
    <3>1. PICK r \in Rows : r = curToOrig'[k]
      BY <2>5
    <3>2. cache'[k] = <<Prompt>> \o generated[r]
      <4>1. keep[k] \in Batch /\ curToOrig[keep[k]] = r /\ cache'[k] = fed[keep[k]]
        BY <2>6, <2>7, <3>1
      <4> QED BY <1>10, <4>1
    <3>3. curInput'[k] = NewTokens(next)[r]
      BY <1>4, <2>8, <3>1
    <3>4. generated'[r] = Append(generated[r], NewTokens(next)[r])
      BY <1>2
    <3>5. generated[r] \in Seq(Fed) /\ NewTokens(next)[r] \in Fed /\ Prompt \in Fed
      BY <1>3 DEF BatchIInv, BatchTypeOK, Fed
    <3>6. Append(<<Prompt>> \o generated[r], NewTokens(next)[r]) = <<Prompt>> \o generated'[r]
      <4>1. \A u \in Fed, g \in Seq(Fed), t \in Fed :
              Append(<<u>> \o g, t) = <<u>> \o Append(g, t)
        BY AppendBehind
      <4> QED BY <3>4, <3>5, <4>1
    <3> QED BY <3>1, <3>2, <3>3, <3>6
  <2>13. MaskCoversContext'
    <3>1. \A k \in 1..n : mask'[k] = PromptTokens + Len(cache'[k])
      BY <1>10, <2>6, <2>7
    <3> QED BY <2>11, <3>1 DEF MaskCoversContext
  <2>14. BatchIsUnfinished'
    BY <2>4 DEF BatchIsUnfinished, going
  <2> QED BY <1>6, <2>10, <2>12, <2>13, <2>14 DEF BatchIInv
<1> QED BY <1>11, <1>12

-----------------------------------------------------------------------------
(* The refinement: an iteration lets every unfinished row draw.            *)
LEMMA InitSamples == ASSUME BatchAssumption, BatchInit PROVE Samples!Init
<1>1. \A r \in Rows : generated[r] = << >> /\ ~finished[r]
  BY DEF BatchInit
<1>2. \A r \in Rows : Text(r) = << >>
  BY <1>1 DEF Text
<1>3. {r \in Rows : finished[r] \/ Len(generated[r]) = MaxNew} = {r \in Rows : MaxNew = 0}
  BY <1>1
<1> QED BY <1>2, <1>3 DEF Samples!Init

LEMMA StepDraws == ASSUME BatchAssumption, BatchIInv, BatchIInv', Step PROVE Samples!Next
<1> DEFINE live == {r \in Rows : ~finished[r]}
           Ended == {r \in Rows : finished[r] \/ Len(generated[r]) = MaxNew}
<1>1. ~returned /\ Steps < MaxNew
  BY DEF Step
<1>2. PICK next \in [Batch -> Vocabulary] :
        /\ generated' = [r \in Rows |-> Append(generated[r], NewTokens(next)[r])]
        /\ finished' = Ends(next)
  BY DEF Step
<1> DEFINE t == [r \in live |-> NewTokens(next)[r]]
<1>3. \A r \in Rows :
        /\ NewTokens(next)[r] \in Vocabulary /\ Ends(next)[r] \in BOOLEAN
        /\ finished[r] => NewTokens(next)[r] = Filler /\ Ends(next)[r]
        /\ ~finished[r] => (Ends(next)[r] <=> NewTokens(next)[r] \in EosIds)
  BY <1>1, Drawn
<1>4. t \in [live -> Vocabulary]
  BY <1>3
<1>5. ASSUME NEW r \in Rows
      PROVE  /\ Len(generated[r]) = Steps /\ Len(generated'[r]) = Steps + 1
             /\ Text(r) = UpToEnd(generated[r]) /\ Text(r)' = UpToEnd(generated'[r])
             /\ Text(r)' = IF r \in live THEN Append(Text(r), t[r]) ELSE Text(r)
             /\ r \in live => Text(r) = generated[r]
  <2>1. /\ Len(generated'[r]) = Steps + 1
        /\ UpToEnd(generated'[r]) =
             IF finished[r] THEN UpToEnd(generated[r])
             ELSE Append(UpToEnd(generated[r]), NewTokens(next)[r])
    BY <1>1, <1>2, HistoryGrows
  <2>2. Text(r) = UpToEnd(generated[r]) /\ Text(r)' = UpToEnd(generated'[r])
    BY DEF Text, UpToEnd
  <2>3. Len(generated[r]) = Steps
    BY DEF BatchIInv, Histories
  <2>4. r \in live => Text(r) = generated[r]
    BY <2>2, OpenText DEF BatchIInv, Histories, BatchTypeOK
  <2> QED BY <2>1, <2>2, <2>3, <2>4
<1>6. live \in SUBSET (Rows \ Ended)
  BY <1>1, <1>5 DEF BatchIInv, Histories
<1>7. [r \in Rows |-> Text(r)]' = [r \in Rows |-> IF r \in live THEN Append([q \in Rows |-> Text(q)][r], t[r])
                                                 ELSE [q \in Rows |-> Text(q)][r]]
  BY <1>5
<1>8. Ended' = Ended \cup {r \in live : t[r] \in EosIds \/ Len([q \in Rows |-> Text(q)][r]) + 1 = MaxNew}
  <2> SUFFICES ASSUME NEW r \in Rows
               PROVE  (finished'[r] \/ Len(generated'[r]) = MaxNew) <=>
                        \/ finished[r] \/ Len(generated[r]) = MaxNew
                        \/ r \in live /\ (t[r] \in EosIds \/ Len(Text(r)) + 1 = MaxNew)
    OBVIOUS
  <2>1. Len(generated[r]) # MaxNew
    BY <1>1, <1>5 DEF BatchIInv, Histories
  <2>2. CASE finished[r]
    BY <1>2, <1>3, <2>2
  <2>3. CASE ~finished[r]
    <3>1. finished'[r] <=> t[r] \in EosIds
      BY <1>2, <1>3, <2>3
    <3>2. Len(generated'[r]) = MaxNew <=> Len(Text(r)) + 1 = MaxNew
      BY <1>5, <2>3
    <3> QED BY <2>1, <2>3, <3>1, <3>2
  <2> QED BY <2>2, <2>3
<1> QED BY <1>4, <1>6, <1>7, <1>8 DEF Samples!Next, Samples!Draw

LEMMA BatchStutters ==
  ASSUME UNCHANGED <<generated, finished>>
  PROVE  UNCHANGED Samples!svars
<1>1. \A r \in Rows : Text(r)' = Text(r)
  BY DEF Text
<1>2. {r \in Rows : finished[r] \/ Len(generated[r]) = MaxNew}'
        = {r \in Rows : finished[r] \/ Len(generated[r]) = MaxNew}
  OBVIOUS
<1> QED BY <1>1, <1>2 DEF Samples!svars

LEMMA NextKeeps == ASSUME BatchAssumption, BatchIInv, [BatchNext]_batchVars PROVE BatchIInv'
<1>1. CASE Step
  BY <1>1, BatchStepKeeps
<1>2. CASE Return
  <2>1. returned' /\ UNCHANGED <<generated, finished, curToOrig, curInput, cache, mask>>
    BY <1>2 DEF Return
  <2> QED BY <2>1 DEF BatchIInv, BatchTypeOK, Histories, Steps, CacheFollowsRow, MaskCoversContext,
                      BatchIsUnfinished
<1>3. CASE UNCHANGED batchVars
  BY <1>3 DEF batchVars, BatchIInv, BatchTypeOK, Histories, Steps, CacheFollowsRow,
              MaskCoversContext, BatchIsUnfinished, Batch
<1> QED BY <1>1, <1>2, <1>3 DEF BatchNext

LEMMA LengthsExact == ASSUME BatchAssumption, BatchIInv PROVE RecordedLengthsExact
<1> SUFFICES ASSUME NEW r \in Rows
             PROVE  LET sampled == Text(r)
                        closing == IF sampled # << >> /\ sampled[Len(sampled)] = Filler THEN 1 ELSE 0
                    IN  RecordedLength(r) = Len(sampled) - closing
  BY DEF RecordedLengthsExact
<1> DEFINE g == generated[r]
<1>1. g \in Seq(Vocabulary) /\ Text(r) = UpToEnd(g) /\ finished[r] \in BOOLEAN
  BY DEF BatchIInv, BatchTypeOK, Text, UpToEnd
<1>2. CASE ~finished[r]
  <2>1. GoesOn(g)
    BY <1>2 DEF BatchIInv, Histories
  <2>2. Text(r) = g
    BY <1>1, <2>1, OpenText
  <2>3. /\ RecordedLength(r) = Len(Text(r)) /\ Len(Text(r)) \in Nat
        /\ Text(r) # << >> => Text(r)[Len(Text(r))] # Filler
    BY <1>1, <2>1, <2>2, OpenCount DEF RecordedLength
  <2> QED BY <2>3
<1>3. CASE finished[r]
  <2>1. PICK e \in 1..Steps : EndsAt(g, e)
    BY <1>3 DEF BatchIInv, Histories
  <2>2. Text(r) = SubSeq(g, 1, e) /\ RecordedLength(r) = IF g[e] = Filler THEN e - 1 ELSE e
    BY <1>1, <2>1, EndedText, EndedCount DEF RecordedLength
  <2>3. e \in Nat /\ e >= 1 /\ e <= Len(g) /\ Len(g) \in Nat
    BY <1>1, <2>1 DEF EndsAt
  <2>4. Len(SubSeq(g, 1, e)) = e /\ SubSeq(g, 1, e)[e] = g[e] /\ SubSeq(g, 1, e) # << >>
    BY <1>1, <2>3
  <2> QED BY <2>2, <2>3, <2>4
<1> QED BY <1>1, <1>2, <1>3

-----------------------------------------------------------------------------
(* The pair: rows stay level, draws stop with the record, and the record   *)
(* of a finished row lies inside its buffer.                               *)
PairInv ==
  /\ step \in Nat
  /\ \A r \in PairRows :
       /\ output[r] \in Seq(PairVocabulary) /\ Len(output[r]) = step
       /\ done[r] \in BOOLEAN
       /\ ~done[r] => drawn[r] = step
       /\ done[r] => records[r] \in 1..step /\ drawn[r] = records[r]

LEMMA PairConstants ==
  ASSUME PairAssumption
  PROVE  /\ 1 \in PairRows /\ MaxNewTokens \in Nat /\ MaxNewTokens >= 1
         /\ PairFiller \in PairVocabulary
BY DEF PairAssumption

LEMMA PairInitInv == ASSUME PairAssumption, PairInit PROVE PairInv /\ PairSamples!Init
<1>1. PairInv
  BY PairConstants DEF PairInit, PairInv, step
<1>2. \A r \in PairRows : Answer(r) = << >>
  BY DEF PairInit, Answer
<1>3. {r \in PairRows : done[r]} = {r \in PairRows : MaxNewTokens = 0}
  BY PairConstants DEF PairInit
<1> QED BY <1>1, <1>2, <1>3 DEF PairSamples!Init

LEMMA PairStepKeeps ==
  ASSUME PairAssumption, PairInv, PairNext PROVE PairInv' /\ PairSamples!Next
<1>1. PICK draw \in [Drawers -> PairVocabulary] :
        LET token == [r \in PairRows |-> IF r \in Drawers THEN draw[r] ELSE PairFiller]
        IN  /\ output' = [r \in PairRows |-> Append(output[r], token[r])]
            /\ drawn' = [r \in PairRows |-> drawn[r] + IF r \in Drawers THEN 1 ELSE 0]
            /\ records' = RecordMade(token)
            /\ done' = [r \in PairRows |-> done[r] \/ r \in Finishers(token)]
  BY DEF PairNext
<1> DEFINE token == [r \in PairRows |-> IF r \in Drawers THEN draw[r] ELSE PairFiller]
           Ended == {r \in PairRows : done[r]}
           ends(r) == token[r] \in PairEosIds \/ step + 1 = MaxNewTokens
<1>2. step \in Nat /\ step' = step + 1
  BY <1>1, PairConstants DEF PairInv, step
<1>3. ASSUME NEW r \in PairRows
      PROVE  /\ token[r] \in PairVocabulary
             /\ output'[r] = Append(output[r], token[r]) /\ output'[r] \in Seq(PairVocabulary)
             /\ Len(output'[r]) = step + 1
             /\ ~done[r] => /\ done'[r] <=> ends(r)
                            /\ drawn'[r] = step + 1
                            /\ ends(r) => records'[r] = step + 1
             /\ done[r] => done'[r] /\ records'[r] = records[r] /\ drawn'[r] = drawn[r]
             /\ done'[r] \in BOOLEAN
  <2>1. token[r] \in PairVocabulary
    BY PairConstants
  <2>2. /\ output[r] \in Seq(PairVocabulary) /\ Len(output[r]) = step /\ done[r] \in BOOLEAN
        /\ ~done[r] => drawn[r] = step
        /\ done[r] => records[r] \in 1..step /\ drawn[r] = records[r]
    BY DEF PairInv
  <2>3. r \in Drawers <=> ~done[r]
    BY DEF Drawers, Live
  <2>4. r \in Finishers(token) <=> ~done[r] /\ ends(r)
    BY DEF Finishers, Live
  <2>5. /\ output'[r] = Append(output[r], token[r])
        /\ drawn'[r] = drawn[r] + IF r \in Drawers THEN 1 ELSE 0
        /\ records'[r] = IF r \in Finishers(token) THEN step + 1 ELSE records[r]
        /\ done'[r] = (done[r] \/ r \in Finishers(token))
    BY <1>1 DEF RecordMade
  <2>6. output'[r] \in Seq(PairVocabulary) /\ Len(output'[r]) = step + 1
    BY <1>2, <2>1, <2>2, <2>5
  <2>7. done'[r] \in BOOLEAN /\ (done'[r] <=> done[r] \/ ends(r))
    BY <2>2, <2>4, <2>5
  <2> HIDE DEF ends, token
  <2> QED BY <1>2, <2>1, <2>2, <2>3, <2>4, <2>5, <2>6, <2>7
<1> HIDE DEF token
<1>4. PairInv'
  BY <1>2, <1>3 DEF PairInv
<1> DEFINE t == [r \in Live |-> token[r]]
<1>5. t \in [Live -> PairVocabulary] /\ Live \in SUBSET (PairRows \ Ended)
  BY <1>3 DEF Live
<1>6. ASSUME NEW r \in PairRows
      PROVE  /\ Answer(r)' = IF r \in Live THEN Append(Answer(r), t[r]) ELSE Answer(r)
             /\ r \in Live => Len(Answer(r)) = step
  <2>1. CASE done[r]
    <3>1. Answer(r) = SubSeq(output[r], 1, records[r]) /\ r \notin Live
      BY <2>1 DEF Answer, Live
    <3>2. Answer(r)' = SubSeq(output'[r], 1, records[r])
      BY <1>3, <2>1 DEF Answer
    <3>3. SubSeq(Append(output[r], token[r]), 1, records[r]) = SubSeq(output[r], 1, records[r])
      BY <1>2, <1>3, <2>1 DEF PairInv
    <3> QED BY <1>3, <3>1, <3>2, <3>3
  <2>2. CASE ~done[r]
    <3>1. Answer(r) = output[r] /\ r \in Live /\ t[r] = token[r]
      BY <2>2 DEF Answer, Live
    <3>2. SubSeq(output'[r], 1, step + 1) = output'[r]
      BY <1>2, <1>3
    <3>3. Answer(r)' = output'[r]
      BY <1>3, <2>2, <3>2 DEF Answer
    <3> QED BY <1>3, <3>1, <3>3 DEF PairInv
  <2> QED BY <2>1, <2>2
<1>7. [r \in PairRows |-> Answer(r)]' =
        [r \in PairRows |-> IF r \in Live THEN Append([q \in PairRows |-> Answer(q)][r], t[r])
                            ELSE [q \in PairRows |-> Answer(q)][r]]
  BY <1>6
<1>8. Ended' = Ended \cup {r \in Live : \/ t[r] \in PairEosIds
                                       \/ Len([q \in PairRows |-> Answer(q)][r]) + 1 = MaxNewTokens}
  <2>1. \A r \in PairRows : done'[r] <=>
          done[r] \/ (r \in Live /\ (t[r] \in PairEosIds \/ Len(Answer(r)) + 1 = MaxNewTokens))
    BY <1>3, <1>6 DEF Live
  <2>2. Live \subseteq PairRows
    BY DEF Live
  <2> QED BY <2>1, <2>2
<1> QED BY <1>4, <1>5, <1>7, <1>8 DEF PairSamples!Next, PairSamples!Draw

-----------------------------------------------------------------------------
(* Cache row, mask, place in the mapping and recorded length of every row, *)
(* and the draws of a pair, are the row's own, whatever the rest of the    *)
(* batch does (generation_utils.py, qwen35/batch.py).                      *)
THEOREM RowsStayTheirOwn ==
  ASSUME BatchAssumption, PairAssumption
  PROVE  BatchSpec /\ PairSpec => []RowsStayWhole
<1>1. BatchInit => BatchIInv
  BY InitIInv
<1>2. BatchIInv /\ [BatchNext]_batchVars => BatchIInv'
  BY NextKeeps
<1>3. PairInit => PairInv
  BY PairInitInv
<1>4. PairInv /\ [PairNext]_pairVars => PairInv'
  <2>1. CASE UNCHANGED pairVars
    BY <2>1 DEF pairVars, PairInv, step
  <2> QED BY <2>1, PairStepKeeps
<1>5. BatchIInv /\ PairInv => RowsStayWhole
  BY LengthsExact DEF BatchIInv, RowsStayWhole, RowsKeepTheirOwn, PairInv, DrawsAreOwnTokens
<1> QED BY <1>1, <1>2, <1>3, <1>4, <1>5, PTL DEF BatchSpec, PairSpec

(* Both loops implement SampledRows: a sample grows by its own draws, ends *)
(* with its own end of sequence or the limit, and then stays.              *)
THEOREM BatchesStaySamples ==
  ASSUME BatchAssumption, PairAssumption
  PROVE  BatchSpec /\ PairSpec => BatchesImplementSamples
<1>1. BatchInit => BatchIInv /\ Samples!Init
  BY InitIInv, InitSamples
<1>2. BatchIInv /\ [BatchNext]_batchVars => BatchIInv'
  BY NextKeeps
<1>3. BatchIInv /\ BatchIInv' /\ [BatchNext]_batchVars => [Samples!Next]_Samples!svars
  <2> SUFFICES ASSUME BatchIInv, BatchIInv', [BatchNext]_batchVars
               PROVE  [Samples!Next]_Samples!svars
    OBVIOUS
  <2>1. CASE Step
    BY <2>1, StepDraws
  <2>2. CASE Return \/ UNCHANGED batchVars
    BY <2>2, BatchStutters DEF Return, batchVars
  <2> QED BY <2>1, <2>2 DEF BatchNext
<1>4. PairInit => PairInv /\ PairSamples!Init
  BY PairInitInv
<1>5. PairInv /\ [PairNext]_pairVars => PairInv' /\ [PairSamples!Next]_PairSamples!svars
  <2>1. CASE UNCHANGED pairVars
    <3>1. \A r \in PairRows : Answer(r)' = Answer(r)
      BY <2>1 DEF pairVars, Answer
    <3>2. UNCHANGED PairSamples!svars
      BY <2>1, <3>1 DEF pairVars, PairSamples!svars
    <3>3. PairInv => PairInv'
      BY <2>1 DEF pairVars, PairInv, step
    <3> QED BY <3>2, <3>3
  <2> QED BY <2>1, PairStepKeeps
<1>6. BatchSpec => ImplementsSamples
  BY <1>1, <1>2, <1>3, PTL DEF BatchSpec, ImplementsSamples, Samples!Spec
<1>7. PairSpec => PairImplementsSamples
  BY <1>4, <1>5, PTL DEF PairSpec, PairImplementsSamples, PairSamples!Spec
<1> QED BY <1>6, <1>7 DEF BatchesImplementSamples
=============================================================================
