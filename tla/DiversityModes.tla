--------------------------- MODULE DiversityModes ---------------------------
(***************************************************************************)
(* The modes of kvcompress/engine/cache_utils.py that shape the kept set   *)
(* on purpose: blocks tiled over the heads (segment_pp, segment_pp_rot),   *)
(* whole blocks (random_block_pp), one token per stratum (random_strat_pp),*)
(* one window (random_cluster_pp), the interleaved union of three rankings *)
(* (union_topk_pp), and the redundancy penalty of rkv_official.            *)
(* KeepPolicies takes every order of the scores of these modes; here the   *)
(* scores are built as the code builds them and the rounds are followed,   *)
(* so that what a shape becomes after several rounds can be asked.         *)
(*                                                                         *)
(* A slot is an index below Budget into the candidates of a round, a held  *)
(* row is the absolute position of its token.  Prompts fit the budget, so  *)
(* every round sees Budget candidates and the Residual newest rows.        *)
(***************************************************************************)
EXTENDS Integers, FiniteSetsExt, SequencesExt

CONSTANTS
  Budget, Residual,
  HeadCounts,     \* n_heads
  Prompts,        \* prompt lengths
  LayerIndices,   \* layer_idx
  BlockSize,      \* BLOCK_SIZE
  MaxRounds,      \* bound on the rounds that are followed
  Ranked,         \* candidates of the ranking modes' single round
  RankedKeep      \* and how many of them are kept

ShapeAssumption ==
  /\ {Budget, Residual, BlockSize, RankedKeep} \subseteq Nat \ {0}
  /\ Residual < Budget /\ Budget % Residual = 0
  /\ HeadCounts \subseteq Nat \ {0} /\ LayerIndices \subseteq Nat
  /\ Prompts \subseteq 1..Budget /\ RankedKeep < Ranked

VARIABLES
  mode, layer, heads, promptLen,
  held,       \* head -> its rows in cache order, by position
  kept,       \* head -> the history slots its last round kept
  rounds,
  rankings,   \* union_topk_pp: three orders of the candidates, best first
  cluster     \* rkv_official: slot -> the cluster of near-duplicates it is in

vars == <<mode, layer, heads, promptLen, held, kept, rounds, rankings, cluster>>

SegmentModes == {"segment_pp", "segment_pp_rot"}
DrawnModes == {"random_block_pp", "random_strat_pp", "random_cluster_pp"}
RankingModes == {"union_topk_pp", "rkv_official"}

KeepCount == Budget - Residual
HeadIds == 0..(heads - 1)
pl == IF promptLen < KeepCount THEN promptLen ELSE KeepCount - 1
Scatter == KeepCount - pl
History == pl..(Budget - 1)
n_hist == Budget - pl
Abs(x) == IF x < 0 THEN -x ELSE x

\* topk(k, largest=True) over the history; among equals any will do.
TopK(score, k) ==
  LET D == DOMAIN score
      sure == {s \in D : Cardinality({t \in D : score[t] >= score[s]}) <= k}
      tied == {s \in D \ sure : Cardinality({t \in D : score[t] > score[s]}) < k}
  IN  {sure \cup T : T \in kSubset(k - Cardinality(sure), tied)}

-----------------------------------------------------------------------------
(* Blocks tiled over the heads.                                            *)

\* The slice of the history a head's block is centred in.
Segment(h) == IF mode = "segment_pp_rot" THEN (h + layer) % heads ELSE h

\* 2 * n_heads times a slot's distance from the centre.
\* Mutant: the centres are tiled over all candidates, the prompt included.
DistanceTiledOverAll(h, s) == Abs(2 * heads * (s - pl) - (2 * Segment(h) + 1) * Budget)
Distance(h, s) == Abs(2 * heads * (s - pl) - (2 * Segment(h) + 1) * n_hist)

SegmentChoices(h) == TopK([s \in History |-> -Distance(h, s)], Scatter)

-----------------------------------------------------------------------------
(* Whole blocks, strata, one window.                                       *)

\* One random score per block of BlockSize slots.
BlockChoices ==
  LET blocks == 0..((Budget - 1) \div BlockSize)
      orders == {f \in [blocks -> 1..Cardinality(blocks)] : \A a, b \in blocks : f[a] = f[b] => a = b}
  IN  UNION {TopK([s \in History |-> f[s \div BlockSize]], Scatter) : f \in orders}

\* As many chunks as rows are kept; the best draw of each chunk outranks all others.
\* Mutant: one chunk too few.
ChunkWide(s) == ((s - pl) * (Scatter - 1)) \div n_hist
Chunk(s) == ((s - pl) * Scatter) \div n_hist

StratChoices ==
  LET chunks == {Chunk(s) : s \in History}
      winners == {W \in kSubset(Cardinality(chunks), History) : {Chunk(s) : s \in W} = chunks}
  IN  UNION {TopK([s \in History |-> IF s \in W THEN 1 ELSE 0], Scatter) : W \in winners}

\* The rows nearest to one random centre, which keeps half a window from either end;
\* distances in quarters.
ClusterChoices ==
  LET lo == 4 * pl + 2 * Scatter
      hi == Max({4 * Budget - 2 * Scatter, lo})
  IN  UNION {TopK([s \in History |-> -Abs(4 * s - centre)], Scatter) : centre \in lo..hi}

\* Every head draws for itself.
DrawnSets ==
  CASE mode = "random_block_pp" -> BlockChoices
    [] mode = "random_strat_pp" -> StratChoices
    [] mode = "random_cluster_pp" -> ClusterChoices

KeptSets ==
  IF mode \in DrawnModes THEN [HeadIds -> DrawnSets]
  ELSE {k \in [HeadIds -> UNION {SegmentChoices(h) : h \in HeadIds}] :
          \A h \in HeadIds : k[h] \in SegmentChoices(h)}

-----------------------------------------------------------------------------
(* The interleaved union of three rankings, and the redundancy penalty.    *)

Slots == 0..(Ranked - 1)
Rank(j, s) == CHOOSE r \in Slots : rankings[j][r + 1] = s

\* The best of a slot's three places, ties broken by the ranking; the prompt is first.
\* Mutant: a slot's place in the last ranking decides.
PriorityOfLast(s) == IF s < promptLen THEN -1 ELSE 3 * Rank(3, s) + 2
Priority(s) == IF s < promptLen THEN -1 ELSE Min({3 * Rank(j, s) + (j - 1) : j \in 1..3})

UnionKept == TopK([s \in Slots |-> -Priority(s)], RankedKeep)

\* Near-duplicates of a slot, and the newest of them, which its row spares.  A row
\* without any spares slot 0.
Similar(s) == {t \in Slots \ {s} : cluster[t] = cluster[s]}

\* Mutant: the oldest near-duplicate is spared.
SparedOldest(s) == IF Similar(s) = {} THEN 0 ELSE Min(Similar(s))
Spared(s) == IF Similar(s) = {} THEN 0 ELSE Max(Similar(s))

\* How many rows hold a slot's redundancy against it.  The mean is over all cosines,
\* those below the threshold too: rows are near-duplicates or orthogonal here.
Penalty(s) == Cardinality({t \in Similar(s) : Spared(t) # s})

-----------------------------------------------------------------------------
Positions(n) == [i \in 1..n |-> i - 1]
Orders == {f \in [1..Ranked -> Slots] : \A i, j \in 1..Ranked : f[i] = f[j] => i = j}

Init ==
  /\ mode \in SegmentModes \cup DrawnModes \cup RankingModes
  /\ layer \in LayerIndices /\ (mode # "segment_pp_rot" => layer = Min(LayerIndices))
  /\ heads \in HeadCounts
  /\ promptLen \in Prompts
  /\ held = [h \in HeadIds |-> Positions(Budget + Residual)]
  /\ kept = [h \in HeadIds |-> {}]
  /\ rounds = 0
  /\ rankings \in IF mode = "union_topk_pp" THEN [1..3 -> Orders] ELSE {<<>>}
  /\ cluster \in IF mode = "rkv_official" THEN [Slots -> 1..Ranked] ELSE {<<>>}

\* The prompt and the kept slots in ascending order.
InOrder(S) == LET in(s) == s < pl \/ s \in S IN SelectSeq(Positions(Budget), in)

\* Kept rows in time order, then the residual.
\* Mutant: in the order of the scores of a recency mode, the newest slot first.
CompactedReversed(h, S) ==
  [i \in 1..KeepCount |-> held[h][Reverse(InOrder(S))[i] + 1]]
    \o SubSeq(held[h], Budget + 1, Len(held[h]))
Compacted(h, S) ==
  [i \in 1..KeepCount |-> held[h][InOrder(S)[i] + 1]]
    \o SubSeq(held[h], Budget + 1, Len(held[h]))

cumulative == Budget + Residual * (rounds + 1)

\* A round of all heads and the Residual tokens decoded until the next one is due.
Round ==
  /\ mode \notin RankingModes /\ rounds < MaxRounds
  /\ kept' \in KeptSets
  /\ held' = [h \in HeadIds |->
       Compacted(h, kept'[h]) \o [i \in 1..Residual |-> cumulative + i - 1]]
  /\ rounds' = rounds + 1
  /\ UNCHANGED <<mode, layer, heads, promptLen, rankings, cluster>>

Next == Round

-----------------------------------------------------------------------------
(* Properties.                                                             *)

Rows(h) == Range(held[h])
HistoryRows(h) == {p \in Rows(h) : p >= pl}
Shaped(m) == mode = m /\ rounds > 0

\* Every head holds the protected prompt: the logger's prompt_kept is 1 "by
\* construction" as long as the prompt is shorter than what a round keeps.
PromptKept ==
  mode \notin RankingModes => \A h \in HeadIds : 0..(pl - 1) \subseteq Rows(h)

\* The slots kept by any head, as LOG_UNION counts them.
LoggedUnion == UNION {kept[h] : h \in HeadIds}

\* At a round, blocks that overlap leave no slot of the history out (blocks that only
\* just meet may: two slots of an end block are then equally far from its centre) ...
SegmentsCover ==
  mode \in SegmentModes /\ rounds > 0 /\ heads * Scatter > n_hist => LoggedUnion = History

\* ... but slots are not positions: a head whose block reaches the start of the history
\* keeps the oldest rows for ever, one whose block reaches the end is a recency window,
\* and what lies between them is lost unless a block touches neither end.
LeftClipped(h) == (2 * Segment(h) + 1) * n_hist < heads * Scatter
RightClipped(h) == (2 * Segment(h) + 1) * n_hist > heads * (Residual + n_hist - 2)
SegmentsSettle ==
  mode \in SegmentModes /\ rounds > 0 => \A h \in HeadIds :
    /\ LeftClipped(h) => HistoryRows(h) = (pl..(KeepCount - 1))
                                          \cup ((cumulative - 2 * Residual)..(cumulative - 1))
    /\ RightClipped(h) =>
         HistoryRows(h) = (cumulative - Scatter - 2 * Residual)..(cumulative - 1)

\* "keeps the highest-scored blocks' tokens": at most one block is kept in part.
BlocksWhole ==
  Shaped("random_block_pp") => \A h \in HeadIds :
    LET part(b) == {s \in History : s \div BlockSize = b}
    IN  Cardinality({b \in 0..Budget : ~(part(b) \subseteq kept[h]) /\ part(b) \cap kept[h] # {}}) <= 1

\* "history is split into (K-pl) equal chunks per head and exactly one random token is
\* kept per chunk": whatever the remainder, none is empty and none keeps two.
StrataRepresented ==
  Shaped("random_strat_pp") => \A h \in HeadIds :
    LET bound(c) == pl + (c * n_hist + Scatter - 1) \div Scatter
    IN  \A c \in 0..(Scatter - 1) :
          Cardinality(kept[h] \cap (bound(c)..(bound(c + 1) - 1))) = 1

\* "one CONTIGUOUS window of K-pl tokens".
WindowWhole ==
  Shaped("random_cluster_pp") => \A h \in HeadIds :
    Cardinality(kept[h]) = Scatter /\ Max(kept[h]) - Min(kept[h]) = Scatter - 1

\* "exact interleaved-union: h1[0],h2[0],h3[0],h1[1],... dedup'd, first K kept", after
\* the prompt.
Interleaved ==
  LET turn(i) == rankings[(i % 3) + 1][(i \div 3) + 1]
      all == [i \in 1..(3 * Ranked) |-> turn(i - 1)]
      first(s) == CHOOSE i \in 1..(3 * Ranked) : all[i] = s /\ \A j \in 1..(i - 1) : all[j] # s
      free == {s \in Slots : s >= promptLen}
  IN  (0..(promptLen - 1)) \cup
      {s \in free : Cardinality({t \in free : first(t) < first(s)}) < RankedKeep - promptLen}
UnionIsInterleaving ==
  mode = "union_topk_pp" /\ promptLen < RankedKeep => UnionKept = {Interleaved}

\* "the newest copy of each redundant cluster keeps no penalty": and of a cluster of
\* three or more only the newest, while in a pair neither copy is penalised.
NewestSpared ==
  mode = "rkv_official" => \A s \in Slots :
    Penalty(s) = 0 <=> Cardinality(Similar(s)) <= 1 \/ \A t \in Similar(s) : t < s

\* Every shape is what its comment says of a round, and what it becomes over rounds.
ShapesExact ==
  /\ PromptKept /\ SegmentsCover /\ SegmentsSettle /\ BlocksWhole
  /\ StrataRepresented /\ WindowWhole /\ UnionIsInterleaving /\ NewestSpared
=============================================================================
