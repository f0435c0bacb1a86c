---------------------------- MODULE Qwen35Layer ----------------------------
(***************************************************************************)
(* EvictionLayer of kvcompress/qwen35/cache.py: one full-attention layer   *)
(* of the hybrid model through one generation.  The forward pass calls     *)
(* update (append), attends, and the post-hook then records the query and  *)
(* evicts: two steps with the attention between them.  The post-hook only  *)
(* runs when install_eviction_hooks was called on the model.               *)
(*                                                                         *)
(* A stored row is represented by the absolute position of its token; the  *)
(* engine's position_storage is kept beside it.                            *)
(***************************************************************************)
EXTENDS Integers, Sequences, FiniteSets

CONSTANTS
  Heads,       \* KV heads
  Capacity,    \* EvictionConfig.capacity, C
  Recent,      \* EvictionConfig.recent, r
  Policies,    \* policies under study
  FirstPasses, \* lengths of the first forward pass
  MaxLogical   \* bound on the tokens of a generation

AllPolicies ==
  {"none", "random_pp", "random", "recency_pp", "random_shared_pp", "snapkv_pp"}
Protecting ==
  {"random_pp", "recency_pp", "random_shared_pp", "snapkv_pp"}

(* What the constructor of the configuration requires, and what the        *)
(* queries need.                                                           *)
ConfigAssumption ==
  /\ Heads # {} /\ Capacity \in Nat /\ Recent \in Nat
  /\ Recent >= 1 /\ Capacity > Recent
  /\ Policies \subseteq AllPolicies
  /\ FirstPasses \subseteq Nat \ {0}
  /\ MaxLogical \in Nat

VARIABLES
  policy,         \* settings.policy
  hooked,         \* install_eviction_hooks has been called on the model
  logicalLength,  \* logical_length
  length,         \* length
  promptLength,   \* prompt_length
  rows,           \* head -> slot -> position of the token whose K/V is there
  positions,      \* position_storage
  queries,        \* positions of the recorded queries, oldest first
  events,         \* rounds that have run
  phase           \* "forward", "hook", or the error the layer raised

hybridVars == <<policy, hooked, logicalLength, length, promptLength, rows, positions,
                queries, events, phase>>

KeepN == Capacity - Recent
Slots == 0..(length - 1)
Empty == [h \in Heads |-> [s \in {} |-> 0]]
Earlier(a, b) == IF a <= b THEN a ELSE b

HybridInit ==
  /\ policy \in Policies /\ hooked \in BOOLEAN
  /\ logicalLength = 0 /\ length = 0 /\ promptLength = 0
  /\ rows = Empty /\ positions = Empty
  /\ queries = << >> /\ events = 0
  /\ phase = "forward"

Written(buf, n) ==
  [h \in Heads |-> [s \in 0..(length + n - 1) |->
     IF s < length THEN buf[h][s] ELSE logicalLength + (s - length)]]

(* Two of update()'s checks raise before anything is written.              *)
PromptTooLong(n) == policy # "none" /\ logicalLength = 0 /\ n >= KeepN

(* Faulty variant: the write past the storage is not refused.              *)
OverflowsNever(n) == FALSE

Overflows(n) == policy # "none" /\ length + n > Capacity + Recent

(* update() of n new tokens: the prompt first, then one token at a time.   *)
Update(n) ==
  /\ phase = "forward"
  /\ IF logicalLength = 0 THEN n \in FirstPasses ELSE n = 1
  /\ logicalLength + n <= MaxLogical
  /\ promptLength' = IF logicalLength = 0 THEN n ELSE promptLength
  /\ IF PromptTooLong(n)
     THEN /\ phase' = "promptTooLong"
          /\ UNCHANGED <<logicalLength, length, rows, positions>>
     ELSE IF Overflows(n)
     THEN /\ phase' = "overflow"
          /\ UNCHANGED <<logicalLength, length, rows, positions>>
     ELSE /\ rows' = Written(rows, n)
          /\ positions' = IF policy = "none" THEN positions ELSE Written(positions, n)
          /\ logicalLength' = logicalLength + n /\ length' = length + n
          /\ phase' = IF hooked THEN "hook" ELSE "forward"
  /\ UNCHANGED <<policy, hooked, queries, events>>

(* Faulty variant: the oldest recorded queries are kept.                   *)
RecordedOldest ==
  LET newest == IF queries = << >> THEN 0 ELSE queries[Len(queries)] + 1
      all    == queries \o [i \in 1..(logicalLength - newest) |-> newest + i - 1]
  IN  SubSeq(all, 1, Earlier(Len(all), Recent))

(* record_queries: the newest r queries of what was recorded and what the  *)
(* pass that just ran computed.                                            *)
Recorded ==
  LET newest == IF queries = << >> THEN 0 ELSE queries[Len(queries)] + 1
      all    == queries \o [i \in 1..(logicalLength - newest) |-> newest + i - 1]
      drop   == Len(all) - Earlier(Len(all), Recent)
  IN  SubSeq(all, drop + 1, Len(all))

(* Faulty variant: the oldest position scores highest.                     *)
ScoreOldest(s, h) == IF policy = "recency_pp" THEN 0 - positions[h][s] ELSE 0

Score(s, h) == IF policy = "recency_pp" THEN positions[h][s] ELSE 0
(* Faulty variant: the last prompt token is not pinned.                    *)
PinnedButLast(s, h) == policy \in Protecting /\ positions[h][s] < promptLength - 1

Pinned(s, h) == policy \in Protecting /\ positions[h][s] < promptLength

(* The sorted top-k over the candidates: what is pinned scores +inf.       *)
Choices(h) ==
  LET cand == 0..(length - Recent - 1)
      Above(s, t) == Pinned(t, h) \/ (~Pinned(s, h) /\ Score(s, h) <= Score(t, h))
  IN  {f \in [0..(KeepN - 1) -> cand] :
         /\ \A i, j \in 0..(KeepN - 1) : i < j => f[i] < f[j]
         /\ LET kept == {f[i] : i \in 0..(KeepN - 1)}
            IN  \A s \in cand \ kept, t \in kept : Above(s, t)}

(* Faulty variants: the recent block in front; the old length kept.        *)
GatheredRecentFirst(buf, ids) ==
  [h \in Heads |-> [s \in 0..(Capacity - 1) |->
     IF s < Recent THEN buf[h][length - Recent + s] ELSE buf[h][ids[h][s - Recent]]]]

GatheredInPlace(buf, ids) ==
  [h \in Heads |-> [s \in Slots |->
     IF s < KeepN THEN buf[h][ids[h][s]]
     ELSE IF s < Capacity THEN buf[h][length - Capacity + s] ELSE buf[h][s]]]

Gathered(buf, ids) ==
  [h \in Heads |-> [s \in 0..(Capacity - 1) |->
     IF s < KeepN THEN buf[h][ids[h][s]] ELSE buf[h][length - Capacity + s]]]

(* Faulty variant: the round waits for one row more than the storage has.  *)
RoundDueLate == policy # "none" /\ length > Capacity + Recent

RoundDue == policy # "none" /\ length >= Capacity + Recent

(* The attention post-hook: record the query, evict when the store is full.*)
PostHook ==
  /\ phase = "hook"
  /\ queries' = IF policy = "snapkv_pp" THEN Recorded ELSE queries
  /\ IF ~RoundDue
     THEN UNCHANGED <<rows, positions, length, events>>
     ELSE /\ \E ids \in [Heads -> UNION {Choices(h) : h \in Heads}] :
               /\ \A h \in Heads : ids[h] \in Choices(h)
               /\ policy = "random_shared_pp" => \A g, h \in Heads : ids[g] = ids[h]
               /\ rows' = Gathered(rows, ids) /\ positions' = Gathered(positions, ids)
          /\ length' = Capacity
          /\ events' = events + 1
  /\ phase' = "forward"
  /\ UNCHANGED <<policy, hooked, logicalLength, promptLength>>

HybridNext == (\E n \in FirstPasses \cup {1} : Update(n)) \/ PostHook

HybridSpec == HybridInit /\ [][HybridNext]_hybridVars
-----------------------------------------------------------------------------
(* Every piece of the layer's state has its type; rows and positions cover *)
(* the live slots.                                                         *)
HybridTypeOK ==
  /\ policy \in Policies /\ hooked \in BOOLEAN
  /\ logicalLength \in 0..MaxLogical /\ length \in 0..MaxLogical
  /\ promptLength \in Nat
  /\ rows \in [Heads -> [Slots -> 0..MaxLogical]]
  /\ positions \in [Heads -> [IF policy = "none" THEN {} ELSE Slots -> 0..MaxLogical]]
  /\ queries \in Seq(0..MaxLogical) /\ events \in 0..MaxLogical
  /\ phase \in {"forward", "hook", "promptTooLong", "overflow"}

(* The mask Transformers builds from get_mask_sizes gives the newest       *)
(* physical slot the newest logical position, and every other row lies in  *)
(* its past: single-token decode needs no per-head mask.                   *)
NewestSlotIsNewestToken ==
  length > 0 => \A h \in Heads :
    /\ rows[h][length - 1] = logicalLength - 1
    /\ \A s \in Slots : rows[h][s] <= logicalLength - 1

(* recency_pp scores by tracked position, so what it holds after a round   *)
(* is the prompt and a sliding window of the newest tokens.                *)
RecencyIsSlidingWindow ==
  policy = "recency_pp" /\ events > 0 =>
    \A h \in Heads : \A s \in Slots :
      rows[h][s] = IF s < promptLength THEN s ELSE logicalLength - length + s

(* SnapKV scores candidates with the newest queries, the one of the pass   *)
(* that triggered the round included, and never with a stale window.       *)
QueriesAreNewest ==
  policy = "snapkv_pp" /\ hooked /\ phase = "forward" /\ logicalLength > 0 =>
    LET n == Earlier(logicalLength, Recent)
    IN  queries = [i \in 1..n |-> logicalLength - n + i - 1]

(* With the hooks installed the layer never reports an overflow: a round   *)
(* runs in time, whatever the length of the prompt it accepted.            *)
HookPreventsOverflow == hooked => phase # "overflow"

(* Without the hooks the layer stops with an error before a row would be   *)
(* written outside the storage or evicted.                                 *)
NeverPastStorage == policy # "none" => length <= Capacity + Recent

(* The layer implements the retention promise.                             *)
Promise == INSTANCE RetentionCache
  WITH Limit <- Capacity, Window <- Recent, seen <- logicalLength,
       held <- [h \in Heads |-> {rows[h][s] : s \in Slots}],
       pin <- [h \in Heads |-> IF events > 0 /\ policy \in Protecting THEN promptLength ELSE 0],
       trimmed <- (events > 0)

(* Every behaviour of the layer is a behaviour of the retention promise.   *)
HybridImplementsPromise == Promise!Spec

\* What is read off slot and queue order without a mask: the newest slot is the newest
\* token, under strict recency the others are its window, and the recorded queries are
\* the newest ones.
WindowsExact == NewestSlotIsNewestToken /\ RecencyIsSlidingWindow /\ QueriesAreNewest

\* The storage is never written past and never needs to be while the hooks are installed.
StorageSafe == HybridTypeOK /\ HookPreventsOverflow /\ NeverPastStorage

\* The layer keeps its windows and its storage bound.
HybridSafe == WindowsExact /\ StorageSafe
=============================================================================
