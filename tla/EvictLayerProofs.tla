-------------------------- MODULE EvictLayerProofs --------------------------
(***************************************************************************)
(* Theorems about EvictLayer, for every set of heads and modes, budget,    *)
(* residual length, prompt length and policy parameter, and for            *)
(* generations of any length.                                              *)
(*                                                                         *)
(* First what is pure: what a sorted top-k selection of KeepPolicies does  *)
(* to a pinned prefix.  An index vector is modelled as an ascending        *)
(* function, so that counting its values below a bound is a pigeonhole     *)
(* argument on intervals.                                                  *)
(***************************************************************************)
EXTENDS EvictLayer, FiniteSetTheorems, FunctionTheorems, TLAPS

(* A round keeps at least one candidate.                                   *)
LEMMA KeepCountType == KeepCount \in Nat /\ KeepCount >= 1 /\ KeepCount < Budget
BY BudgetAssumption DEF KeepCount

(* A kept index list is a function from kept ranks to candidates.          *)
LEMMA AscendingType ==
  ASSUME NEW n \in Nat, NEW f \in Ascending(n)
  PROVE  /\ f \in [0..(KeepCount - 1) -> 0..(n - 1)]
         /\ \A i, j \in 0..(KeepCount - 1) : i < j => f[i] < f[j]
BY DEF Ascending

(* Between two indices an ascending vector climbs at least one slot per    *)
(* index: its values there are as many different slots.                    *)
LEMMA AscendingGap ==
  ASSUME NEW n \in Nat, NEW f \in Ascending(n),
         NEW i \in 0..(KeepCount - 1), NEW j \in 0..(KeepCount - 1), i <= j
  PROVE  f[j] - f[i] >= j - i
<1> DEFINE S == i..j
           T == f[i]..f[j]
           g == [x \in S |-> f[x]]
<1>1. f \in [0..(KeepCount - 1) -> 0..(n - 1)] /\ KeepCount \in Nat
  BY KeepCountType, AscendingType
<1>2. \A x, y \in 0..(KeepCount - 1) : x < y => f[x] < f[y]
  BY AscendingType
<1>3. /\ f[i] \in Int /\ f[j] \in Int
      /\ \A x \in S : x \in 0..(KeepCount - 1) /\ f[x] \in Int
  BY <1>1
<1>4. f[i] <= f[j]
  BY <1>2, <1>3
<1>5. \A x \in S : f[x] \in T
  <2> SUFFICES ASSUME NEW x \in S PROVE f[i] <= f[x] /\ f[x] <= f[j]
    BY <1>3
  <2>1. x \in Int /\ i <= x /\ x <= j
    OBVIOUS
  <2> QED BY <2>1, <1>2, <1>3
<1>6. g \in [S -> T]
  BY <1>5
<1>7. \A x, y \in S : g[x] = g[y] => x = y
  <2> SUFFICES ASSUME NEW x \in S, NEW y \in S, f[x] = f[y], x # y PROVE FALSE
    OBVIOUS
  <2>1. x < y \/ y < x
    OBVIOUS
  <2> QED BY <2>1, <1>2, <1>3
<1>8. g \in Injection(S, T)
  BY <1>6, <1>7, Fun_IsInj
<1>9. /\ IsFiniteSet(S) /\ Cardinality(S) = j - i + 1
      /\ IsFiniteSet(T) /\ Cardinality(T) = f[j] - f[i] + 1
  BY <1>3, <1>4, FS_Interval
<1>10. Cardinality(S) <= Cardinality(T)
  BY <1>8, <1>9, FS_Injection
<1> QED BY <1>9, <1>10, <1>3

(* Hence slot i of the compacted block comes from slot i or a later one.   *)
LEMMA AscendingAbove ==
  ASSUME NEW n \in Nat, NEW f \in Ascending(n), NEW i \in 0..(KeepCount - 1)
  PROVE  f[i] >= i
<1>1. KeepCount \in Nat /\ KeepCount >= 1
  BY KeepCountType
<1>2. f \in [0..(KeepCount - 1) -> 0..(n - 1)]
  BY AscendingType
<1>3. 0 \in 0..(KeepCount - 1) /\ 0 <= i
  BY <1>1
<1>4. f[0] \in 0..(n - 1) /\ f[i] \in 0..(n - 1)
  BY <1>2, <1>3
<1>5. f[i] - f[0] >= i - 0
  BY <1>3, AscendingGap
<1> QED BY <1>4, <1>5

(* ... and leaves room above it for the indices that follow.               *)
LEMMA AscendingBelow ==
  ASSUME NEW n \in Nat, NEW f \in Ascending(n), NEW i \in 0..(KeepCount - 1)
  PROVE  f[i] <= n - KeepCount + i
<1>1. KeepCount \in Nat /\ KeepCount - 1 \in 0..(KeepCount - 1) /\ i <= KeepCount - 1
  BY KeepCountType
<1>2. f[i] \in 0..(n - 1) /\ f[KeepCount - 1] \in 0..(n - 1)
  BY <1>1, AscendingType
<1>3. f[KeepCount - 1] - f[i] >= KeepCount - 1 - i
  BY <1>1, AscendingGap
<1> QED BY <1>1, <1>2, <1>3

(* Slots a..b can be kept by an ascending vector only in indices that      *)
(* number at least as many: the indices are found by inverting it.         *)
LEMMA KeptInterval ==
  ASSUME NEW n \in Nat, NEW f \in Ascending(n),
         NEW a \in Int, NEW b \in Int, a <= b, a..b \subseteq Kept(f),
         NEW i \in 0..(KeepCount - 1), NEW j \in 0..(KeepCount - 1),
         f[i] <= a, b <= f[j]
  PROVE  b - a <= j - i
<1> DEFINE D == 0..(KeepCount - 1)
           g == [t \in a..b |-> CHOOSE k \in D : f[k] = t]
<1>1. KeepCount \in Nat /\ f \in [D -> 0..(n - 1)]
  BY KeepCountType, AscendingType
<1>2. \A t \in a..b : g[t] \in D /\ f[g[t]] = t
  <2> SUFFICES ASSUME NEW t \in a..b PROVE \E k \in D : f[k] = t
    OBVIOUS
  <2> QED BY DEF Kept
<1>3. \A t \in a..b : g[t] \in i..j
  <2> SUFFICES ASSUME NEW t \in a..b PROVE i <= g[t] /\ g[t] <= j
    BY <1>2, <1>1
  <2>0. f[g[t]] = t /\ g[t] \in D
    BY <1>2
  <2>1. f[i] <= f[g[t]] /\ f[g[t]] <= f[j] /\ g[t] \in D
    <3>1. f[i] \in Int /\ f[j] \in Int /\ t \in Int /\ a <= t /\ t <= b
      BY <1>1
    <3> HIDE DEF g
    <3> QED BY <2>0, <3>1
  <2>2. g[t] < i => f[g[t]] < f[i]
    BY <2>1, AscendingType
  <2>3. j < g[t] => f[j] < f[g[t]]
    BY <2>1, AscendingType
  <2>4. f[g[t]] \in Int /\ f[i] \in Int /\ f[j] \in Int /\ g[t] \in Int /\ i \in Int /\ j \in Int
    BY <2>1, <1>1
  <2> HIDE DEF g
  <2> QED BY <2>1, <2>2, <2>3, <2>4
<1>4. \A t, u \in a..b : g[t] = g[u] => t = u
  BY <1>2
<1>5. g \in Injection(a..b, i..j)
  <2>1. g \in [a..b -> i..j]
    BY <1>3
  <2> QED BY <2>1, <1>4, Fun_IsInj
<1>6. Cardinality(a..b) <= Cardinality(i..j)
  BY <1>5, FS_Interval, FS_Injection
<1>7. Cardinality(a..b) = b - a + 1 /\ Cardinality(i..j) = IF i > j THEN 0 ELSE j - i + 1
  BY FS_Interval
<1> QED BY <1>6, <1>7

(* A vector that keeps the first p slots keeps them in place.              *)
LEMMA PrefixInPlace ==
  ASSUME NEW n \in Nat, NEW f \in Ascending(n), NEW p \in 0..KeepCount,
         0..(p - 1) \subseteq Kept(f), NEW s \in 0..(p - 1)
  PROVE  f[s] = s
<1>1. KeepCount \in Nat /\ s \in 0..(KeepCount - 1) /\ 0 \in 0..(KeepCount - 1)
  BY KeepCountType
<1>2. f \in [0..(KeepCount - 1) -> 0..(n - 1)]
  BY AscendingType
<1>3. 0..s \subseteq Kept(f)
  BY <1>1
<1>4. PICK i \in 0..(KeepCount - 1) : f[i] = s
  BY <1>3 DEF Kept
<1>5. PICK k \in 0..(KeepCount - 1) : f[k] = 0
  BY <1>3 DEF Kept
<1>6. s - 0 <= i - k
  BY <1>1, <1>3, <1>4, <1>5, KeptInterval
<1>7. i <= s
  BY <1>4, AscendingAbove
<1>8. i = s
  BY <1>6, <1>7, <1>1
<1> QED BY <1>8, <1>4

(* A vector that keeps the last t slots moves them to the end of the block.*)
LEMMA TailInPlace ==
  ASSUME NEW n \in Nat, NEW f \in Ascending(n), NEW t \in 0..KeepCount,
         (n - t)..(n - 1) \subseteq Kept(f), NEW s \in (KeepCount - t)..(KeepCount - 1)
  PROVE  f[s] = n - KeepCount + s
<1>1. KeepCount \in Nat /\ s \in 0..(KeepCount - 1)
  BY KeepCountType
<1>2. f \in [0..(KeepCount - 1) -> 0..(n - 1)]
  BY AscendingType
<1> DEFINE a == n - KeepCount + s
<1>3. a..(n - 1) \subseteq Kept(f) /\ a \in Int /\ a <= n - 1
  BY <1>1
<1>4. PICK i \in 0..(KeepCount - 1) : f[i] = a
  BY <1>3 DEF Kept
<1>5. PICK j \in 0..(KeepCount - 1) : f[j] = n - 1
  BY <1>3 DEF Kept
<1>6. n - 1 - a <= j - i
  <2> HIDE DEF a
  <2> QED BY <1>3, <1>4, <1>5, KeptInterval
<1>7. f[i] <= n - KeepCount + i
  BY <1>4, AscendingBelow
<1>8. i = s
  BY <1>1, <1>4, <1>6, <1>7
<1> QED BY <1>8, <1>4

(* The pinned slots fit into the block, so a top-k keeps all of them: if   *)
(* one were missing, every kept slot would be pinned, and they are too few.*)
LEMMA TopKKeepsPinned ==
  ASSUME NEW n \in Nat, n >= KeepCount, NEW f \in Ascending(n), NEW prio,
         IsTopK(f, n, prio), NEW p \in 0..KeepCount, NEW t \in 0..(KeepCount - p),
         \A s \in 0..(n - 1) : prio[s] \in Int /\ prio[s] <= n,
         \A s \in 0..(n - 1) : prio[s] = n <=> (s < p \/ s >= n - t)
  PROVE  \A s \in 0..(n - 1) : s < p \/ s >= n - t => s \in Kept(f)
<1> DEFINE D == 0..(KeepCount - 1)
<1>1. KeepCount \in Nat /\ KeepCount >= 1 /\ f \in [D -> 0..(n - 1)]
  BY KeepCountType, AscendingType
<1> SUFFICES ASSUME NEW s \in 0..(n - 1), s < p \/ s >= n - t, s \notin Kept(f)
             PROVE  FALSE
  OBVIOUS
<1>2. \A i \in D : f[i] < p \/ f[i] >= n - t
  <2> SUFFICES ASSUME NEW i \in D PROVE prio[f[i]] = n
    BY <1>1
  <2>1. f[i] \in Kept(f) /\ f[i] \in 0..(n - 1)
    BY <1>1 DEF Kept
  <2>2. prio[s] = n /\ prio[s] <= prio[f[i]]
    BY <2>1 DEF IsTopK
  <2> QED BY <2>1, <2>2
<1>3. \A i \in D : i <= f[i] /\ f[i] <= n - KeepCount + i /\ f[i] \in Int
  BY <1>1, AscendingAbove, AscendingBelow
<1>4. \A i \in D : i < p => f[i] = i
  <2> SUFFICES ASSUME NEW i \in D, i < p, f[i] # i PROVE FALSE
    OBVIOUS
  <2>1. p - 1 \in D /\ i <= p - 1 /\ p \in Int /\ t \in Int /\ KeepCount - 1 \in D
    BY <1>1
  <2>2. f[p - 1] - f[i] >= (p - 1) - i
    BY <2>1, AscendingGap
  <2>3. f[p - 1] >= p
    BY <2>1, <2>2, <1>3
  <2>4. f[p - 1] >= n - t
    BY <2>1, <2>3, <1>2, <1>3
  <2>5. f[p - 1] <= n - KeepCount + (p - 1)
    BY <2>1, <1>3
  <2> QED BY <2>1, <2>4, <2>5, <1>3, <1>1
<1>5. \A i \in D : i >= p => f[i] >= n - t
  BY <1>2, <1>3, <1>1
<1>6. CASE s < p
  <2>1. s \in D /\ f[s] = s
    BY <1>4, <1>6, <1>1
  <2> QED BY <2>1 DEF Kept
<1>7. CASE s >= n - t
  <2>0. p \in Int /\ t \in Int /\ t >= 1
    BY <1>7
  <2>1. p \in D /\ p < KeepCount
    BY <1>7, <1>1
  <2>2. f[p] >= n - t /\ f[p] <= n - KeepCount + p
    BY <2>1, <1>5, <1>3
  <2>3. t = KeepCount - p
    BY <2>0, <2>1, <2>2, <1>1, <1>3
  <2> DEFINE i == s - (n - KeepCount)
  <2>4. i \in D /\ i >= p
    BY <2>3, <1>7, <1>1
  <2>5. f[i] - f[p] >= i - p
    BY <2>1, <2>4, AscendingGap
  <2>6. f[i] = n - KeepCount + i
    <3>1. f[i] <= n - KeepCount + i /\ f[i] \in Int /\ f[p] \in Int /\ i \in Int
      BY <2>1, <2>4, <1>3
    <3>2. KeepCount \in Int /\ n \in Int
      BY <1>1
    <3>3. f[p] >= n - (KeepCount - p)
      BY <2>2, <2>3
    <3> HIDE DEF i
    <3>4. f[i] >= n - KeepCount + i
      BY <3>1, <3>2, <3>3, <2>0, <2>5
    <3> QED BY <3>1, <3>2, <3>4
  <2> QED BY <2>4, <2>6, <1>1 DEF Kept
<1> QED BY <1>6, <1>7

(* Scored by slot behind a pinned prefix, a top-k keeps the newest slots.  *)
LEMMA TopKByAge ==
  ASSUME NEW n \in Nat, n >= KeepCount, NEW f \in Ascending(n), NEW prio,
         IsTopK(f, n, prio), NEW p \in 0..KeepCount,
         \A s \in 0..(n - 1) : prio[s] = IF s < p THEN n ELSE s,
         NEW i \in p..(KeepCount - 1)
  PROVE  f[i] = n - KeepCount + i
<1> DEFINE D == 0..(KeepCount - 1)
<1>1. KeepCount \in Nat /\ f \in [D -> 0..(n - 1)] /\ p \in D /\ i \in D
  BY KeepCountType, AscendingType
<1>2. p <= f[p] /\ f[p] \in 0..(n - 1) /\ f[i] \in 0..(n - 1)
  BY <1>1, AscendingAbove
<1>3. f[p]..(n - 1) \subseteq Kept(f)
  <2> SUFFICES ASSUME NEW x \in f[p]..(n - 1), x \notin Kept(f) PROVE FALSE
    OBVIOUS
  <2>1. f[p] \in Kept(f)
    BY <1>1 DEF Kept
  <2>2. x \in 0..(n - 1) /\ x > f[p] /\ x >= p
    BY <1>2, <2>1
  <2>3. prio[x] <= prio[f[p]]
    BY <2>1, <2>2 DEF IsTopK
  <2>4. prio[x] = x /\ prio[f[p]] = f[p]
    BY <2>2, <1>2
  <2> QED BY <2>2, <2>3, <2>4, <1>2
<1>4. PICK j \in D : f[j] = n - 1
  BY <1>3, <1>2 DEF Kept
<1>5. (n - 1) - f[p] <= j - p
  <2>1. f[p] \in Int /\ n - 1 \in Int /\ f[p] <= n - 1 /\ f[p] <= f[p] /\ n - 1 <= f[j]
    BY <1>2, <1>4
  <2> QED BY <2>1, <1>1, <1>3, KeptInterval
<1>6. f[p] >= n - KeepCount + p
  BY <1>1, <1>2, <1>4, <1>5
<1>9. p <= i
  OBVIOUS
<1>7. f[i] - f[p] >= i - p
  BY <1>1, <1>9, AscendingGap
<1>8. f[i] <= n - KeepCount + i
  BY <1>1, AscendingBelow
<1> QED BY <1>1, <1>2, <1>6, <1>7, <1>8
-----------------------------------------------------------------------------
(* A percentage of the free slots is at most all of them.                  *)
LEMMA PercentBound ==
  ASSUME NEW q \in 0..100, NEW free \in Nat
  PROVE  (q * free) \div 100 \in 0..free
<1>1. q * free \in Nat
  OBVIOUS
<1>2. q * free <= 100 * free
  <2>1. (100 - q) * free >= 0
    <3>1. 100 - q \in Nat
      OBVIOUS
    <3> DEFINE r == 100 - q
    <3>2. r \in Nat => r * free >= 0
      OBVIOUS
    <3> QED BY <3>1, <3>2
  <2>2. (100 - q) * free = 100 * free - q * free
    OBVIOUS
  <2> QED BY <2>1, <2>2
<1> DEFINE x == q * free
<1>3. x \in Nat /\ x <= 100 * free => x \div 100 \in 0..free
  <2> HIDE DEF x
  <2> QED OBVIOUS
<1> QED BY <1>1, <1>2, <1>3

(* Prompt protection always leaves one slot of the kept set free.          *)
LEMMA ProtectedType ==
  ASSUME NEW pl \in Nat
  PROVE  Protected(pl) \in 0..(KeepCount - 1)
BY KeepCountType DEF Protected, Least

(* The reserve of cusa fits into the kept set.                             *)
LEMMA CusaReserveType == CusaReserve \in 0..KeepCount
<1> DEFINE k == KeepCount
<1>1. k \in Nat /\ k >= 1
  BY KeepCountType
<1>2. k \div 4 \in Nat /\ 4 * (k \div 4) + (k % 4) = k /\ k % 4 \in 0..3
  BY <1>1
<1> QED BY <1>1, <1>2 DEF CusaReserve, Most

(* What a mode pins in front fits into the block ...                       *)
LEMMA PinnedPrefixType ==
  ASSUME NEW m, NEW h, NEW pl \in Nat, NEW arch
  PROVE  PinnedPrefix(m, h, pl, arch) \in 0..KeepCount
<1>1. Protected(pl) \in 0..(KeepCount - 1) /\ KeepCount \in Nat /\ KeepCount = Budget - Residual
  BY ProtectedType, KeepCountType DEF KeepCount
<1>2. Least(PmixSmall, Protected(pl)) \in 0..KeepCount
  BY <1>1, PolicyAssumption DEF Least
<1>3. Least(Protected(pl) + PlanPrefix, KeepCount - MinScatter) \in 0..KeepCount
  BY <1>1, PolicyAssumption DEF Least
<1>4. NumSink \in 0..KeepCount /\ 0 \in 0..KeepCount /\ Protected(pl) \in 0..KeepCount
  BY <1>1, PolicyAssumption
<1> HIDE DEF Protected, Least
<1> QED BY <1>2, <1>3, <1>4 DEF PinnedPrefix

(* ... and leaves room for the tail it pins.                               *)
LEMMA PinnedTailType ==
  ASSUME NEW m, NEW h, NEW pl \in Nat, NEW arch
  PROVE  PinnedTail(m, h, pl) \in 0..(KeepCount - PinnedPrefix(m, h, pl, arch))
<1> DEFINE free == KeepCount - Protected(pl)
           P == PinnedPrefix(m, h, pl, arch)
<1>1. Protected(pl) \in 0..(KeepCount - 1) /\ KeepCount \in Nat
  BY ProtectedType, KeepCountType
<1>2. free \in Nat /\ P \in 0..KeepCount
  BY <1>1, PinnedPrefixType
<1>3. CASE m = "random_pp_rec"
  <2>1. P = Protected(pl)
    BY <1>3 DEF PinnedPrefix, FreeModes, PositionModes, SinkModes
  <2>2. Least(RecentKeep, free) \in 0..free
    BY <1>2, PolicyAssumption DEF Least
  <2> QED BY <1>3, <2>1, <2>2 DEF PinnedTail
<1>4. CASE m \in {"carrier_softmix", "anti_softmix"}
  <2>1. P = Protected(pl)
    BY <1>4 DEF PinnedPrefix, FreeModes, PositionModes, SinkModes
  <2>2. (TailPercent * free) \div 100 \in 0..free
    BY <1>2, PercentBound, PolicyAssumption
  <2>3. 0 \in 0..free
    BY <1>2
  <2> HIDE DEF free
  <2>4. PinnedTail(m, h, pl) \in {0, (TailPercent * free) \div 100}
    BY <1>4 DEF PinnedTail, free
  <2> QED BY <2>1, <2>2, <2>3, <2>4 DEF free
<1>5. CASE m = "cusa"
  <2>1. P = 0
    BY <1>5 DEF PinnedPrefix, FreeModes, PositionModes, SinkModes
  <2>2. PinnedTail(m, h, pl) = CusaReserve
    BY <1>5 DEF PinnedTail
  <2> QED BY <1>1, <2>1, <2>2, CusaReserveType
<1>6. CASE m \notin {"random_pp_rec", "carrier_softmix", "anti_softmix", "cusa"}
  <2>1. PinnedTail(m, h, pl) = 0
    BY <1>6 DEF PinnedTail
  <2> QED BY <1>1, <1>2, <2>1
<1> QED BY <1>3, <1>4, <1>5, <1>6

(* Unless a mode also pins slots by the position they hold, exactly the    *)
(* prefix and the tail have the highest priority.                          *)
LEMMA PriorityOfPinned ==
  ASSUME NEW m, NEW h, NEW n \in Nat, NEW s \in 0..(n - 1), NEW p,
         NEW pl \in Nat, NEW arch, NEW hold,
         m \notin PositionModes, m = "random_pp" => ForceHi <= ForceLo
  PROVE  LET prio == Priority(m, h, n, s, p, pl, arch, hold)
         IN  /\ prio \in Int /\ prio <= n
             /\ prio = n <=> \/ s < PinnedPrefix(m, h, pl, arch)
                            \/ s >= n - PinnedTail(m, h, pl)
<1>1. ~Designated(m, h, p, pl, hold) /\ ~Blacklisted(m, h, p, hold)
  BY PolicyAssumption DEF Designated, Blacklisted, PositionModes
<1>2. s \in Int /\ s < n /\ s >= 0
  OBVIOUS
<1> QED BY <1>1, <1>2 DEF Priority

-----------------------------------------------------------------------------
(* Buffers.                                                                *)

(* A buffer whose heads all hold natural numbers in exactly n slots.       *)
Buffers(n) == [Heads -> [0..(n - 1) -> Nat]]

(* Appending n tokens keeps the live slots and puts consecutive positions  *)
(* behind them.                                                            *)
LEMMA AppendedType ==
  ASSUME seqlen \in Nat, cumulative \in Nat, NEW n \in Nat, NEW buf \in Buffers(seqlen)
  PROVE  /\ Appended(buf, n) \in Buffers(seqlen + n)
         /\ \A h \in Heads : \A s \in 0..(seqlen + n - 1) :
              Appended(buf, n)[h][s] =
                IF s < seqlen THEN buf[h][s] ELSE cumulative + (s - seqlen)
<1>1. \A h \in Heads : \A s \in 0..(seqlen + n - 1) :
        (IF s < seqlen THEN buf[h][s] ELSE cumulative + (s - seqlen)) \in Nat
  BY DEF Buffers
<1> QED BY <1>1 DEF Appended, Buffers

(* The index vectors of a round on a cache of len rows.                    *)
Choices(len) == [Heads -> Ascending(len - Residual)]

(* A compacted buffer has exactly Budget rows: the kept ones, then the     *)
(* residual.                                                               *)
LEMMA CompactedType ==
  ASSUME NEW len \in Nat, len > Budget, NEW buf \in Buffers(len), NEW ids \in Choices(len)
  PROVE  /\ Compacted(buf, ids, len) \in Buffers(Budget)
         /\ \A h \in Heads : \A s \in 0..(Budget - 1) :
              Compacted(buf, ids, len)[h][s] =
                IF s < KeepCount THEN buf[h][ids[h][s]] ELSE buf[h][len - Budget + s]
<1>1. /\ KeepCount \in Nat /\ Budget \in Nat /\ Residual \in Nat /\ len - Residual \in Nat
      /\ KeepCount = Budget - Residual /\ Residual >= 1
  BY KeepCountType, BudgetAssumption DEF KeepCount
<1>2. ASSUME NEW h \in Heads, NEW s \in 0..(Budget - 1)
      PROVE (IF s < KeepCount THEN buf[h][ids[h][s]] ELSE buf[h][len - Budget + s]) \in Nat
  <2>1. buf[h] \in [0..(len - 1) -> Nat] /\ ids[h] \in Ascending(len - Residual)
    BY DEF Buffers, Choices
  <2>2. CASE s < KeepCount
    <3>1. s \in 0..(KeepCount - 1)
      BY <2>2, <1>1
    <3>2. ids[h][s] \in 0..(len - Residual - 1)
      BY <3>1, <2>1, <1>1, AscendingType
    <3>3. ids[h][s] \in 0..(len - 1)
      BY <3>2, <1>1
    <3> QED BY <2>1, <2>2, <3>3
  <2>3. CASE ~(s < KeepCount)
    <3>1. len - Budget + s \in 0..(len - 1)
      BY <1>1
    <3> QED BY <2>1, <2>3, <3>1
  <2> QED BY <2>2, <2>3
<1> QED BY <1>2 DEF Compacted, Buffers

(* One head's index vector of a round: sorted, and over the candidates.    *)
LEMMA ChoiceOf ==
  ASSUME NEW len \in Nat, len > Budget, NEW ids \in Choices(len), NEW h \in Heads
  PROVE  /\ ids[h] \in Ascending(len - Residual)
         /\ len - Residual \in Nat /\ len - Residual >= KeepCount
         /\ \A i \in 0..(KeepCount - 1) : ids[h][i] \in 0..(len - Residual - 1)
         /\ \A i, j \in 0..(KeepCount - 1) : i < j => ids[h][i] < ids[h][j]
<1>1. /\ KeepCount \in Nat /\ Budget \in Nat /\ Residual \in Nat /\ len - Residual \in Nat
      /\ KeepCount = Budget - Residual /\ Residual >= 1
  BY KeepCountType, BudgetAssumption DEF KeepCount
<1>2. ids[h] \in Ascending(len - Residual)
  BY DEF Choices
<1>3. /\ ids[h] \in [0..(KeepCount - 1) -> 0..(len - Residual - 1)]
      /\ \A i, j \in 0..(KeepCount - 1) : i < j => ids[h][i] < ids[h][j]
  BY <1>1, <1>2, AscendingType
<1> QED BY <1>1, <1>2, <1>3

-----------------------------------------------------------------------------
(* Type correctness, with the buffers on exactly the live slots.           *)
LEMMA TypeInit == Init => TypeOK
<1> SUFFICES ASSUME Init PROVE TypeOK
  OBVIOUS
<1>1. Empty \in [Heads -> [0..(0 - 1) -> Nat]] /\ Empty \in [Heads -> [{} -> Nat]]
  BY DEF Empty
<1>2. holders \in [Spans -> SUBSET Heads]
  BY PolicyAssumption DEF Init
<1> QED BY <1>1, <1>2 DEF Init, TypeOK, Slots

(* A prefill of any length keeps the types.                                *)
LEMMA TypePrefill ==
  ASSUME TypeOK, NEW p \in Prompts, Prefill(p)
  PROVE  TypeOK'
<1>1. p \in Nat /\ seqlen = 0 /\ seqlen \in Nat /\ cumulative \in Nat
  BY LayerAssumption DEF Prefill, TypeOK
<1>2. kv \in Buffers(seqlen) /\ (Tracked => positions \in Buffers(seqlen))
  BY DEF TypeOK, Buffers, Slots
<1>3. Appended(kv, p) \in Buffers(p) /\ (Tracked => Appended(positions, p) \in Buffers(p))
  BY <1>1, <1>2, AppendedType
<1>4. mode' = mode /\ (Tracked' <=> Tracked) /\ seqlen' = p
  BY DEF Prefill, Tracked
<1>5. kv' \in [Heads -> [Slots' -> Nat]]
  BY <1>3, <1>4 DEF Prefill, Buffers, Slots
<1>6. positions' \in [Heads -> [IF Tracked' THEN Slots' ELSE {} -> Nat]]
  <2>1. CASE Tracked
    BY <2>1, <1>3, <1>4 DEF Prefill, Buffers, Slots
  <2>2. CASE ~Tracked
    BY <2>2, <1>4 DEF Prefill, TypeOK
  <2> QED BY <2>1, <2>2
<1> QED BY <1>1, <1>5, <1>6 DEF Prefill, TypeOK

(* The rows and positions a decode pass has written when it evicts.        *)
FullPositions == IF Tracked THEN Appended(positions, 1) ELSE positions

(* What a round leaves behind, in terms of the index vectors it chose.     *)
RoundWith(ids, len) ==
  /\ \A h \in Heads : IsChoice(ids[h], h, len - Residual, FullPositions)
  /\ kv' = Compacted(Appended(kv, 1), ids, len)
  /\ positions' = IF Tracked THEN Compacted(Appended(positions, 1), ids, len)
                             ELSE positions
  /\ seqlen' = Budget /\ evicted' = TRUE
  /\ DrawRoles /\ cumulative' = cumulative + 1
  /\ UNCHANGED <<mode, promptLen>>

(* A pass with a round due compacts what the append has written.           *)
LEMMA RoundEffect ==
  ASSUME Decode, EvictionDue(seqlen + 1)
  PROVE  \E ids \in Choices(seqlen + 1) : RoundWith(ids, seqlen + 1)
<1> DEFINE full == Appended(kv, 1)
           len == seqlen + 1
<1>1. /\ RunEviction(full, FullPositions, len)
      /\ cumulative' = cumulative + 1 /\ UNCHANGED <<mode, promptLen>>
  BY DEF Decode, FullPositions
<1> HIDE DEF len
<1>2. PICK ids \in Choices(len) :
        /\ \A h \in Heads : IsChoice(ids[h], h, len - Residual, FullPositions)
        /\ kv' = Compacted(full, ids, len)
        /\ positions' = IF Tracked THEN Compacted(FullPositions, ids, len) ELSE positions
  BY <1>1 DEF RunEviction, Choices
<1>3. seqlen' = Budget /\ evicted' = TRUE /\ DrawRoles
  BY <1>1 DEF RunEviction
<1>4. positions' = IF Tracked THEN Compacted(Appended(positions, 1), ids, len) ELSE positions
  BY <1>2 DEF FullPositions
<1>5. RoundWith(ids, len)
  BY <1>1, <1>2, <1>3, <1>4 DEF RoundWith
<1> QED BY <1>5 DEF len

(* A pass without a round only appends.                                    *)
LEMMA AppendEffect ==
  ASSUME Decode, ~EvictionDue(seqlen + 1)
  PROVE  /\ kv' = Appended(kv, 1)
         /\ positions' = IF Tracked THEN Appended(positions, 1) ELSE positions
         /\ seqlen' = seqlen + 1 /\ cumulative' = cumulative + 1
         /\ UNCHANGED <<archivists, holders, evicted, mode, promptLen>>
BY DEF Decode

(* A round is due only beyond the budget.                                  *)
LEMMA DueType ==
  ASSUME seqlen \in Nat, EvictionDue(seqlen + 1)
  PROVE  seqlen + 1 \in Nat /\ seqlen + 1 > Budget
BY DEF EvictionDue

(* Drawn, or kept from an earlier round, the roles are sets of heads.      *)
LEMMA RolesType ==
  ASSUME TypeOK, DrawRoles
  PROVE  archivists' \subseteq Heads /\ holders' \in [Spans -> SUBSET Heads]
BY DEF DrawRoles, TypeOK

(* A decode pass, with or without a round, keeps the types.                *)
LEMMA TypeDecode ==
  ASSUME TypeOK, Decode
  PROVE  TypeOK'
<1>1. /\ seqlen \in Nat /\ seqlen > 0 /\ cumulative \in Nat /\ cumulative < MaxTokens
      /\ mode' = mode /\ promptLen' = promptLen /\ (Tracked' <=> Tracked)
  BY DEF Decode, TypeOK, Tracked
<1>2. kv \in Buffers(seqlen) /\ (Tracked => positions \in Buffers(seqlen))
  BY DEF TypeOK, Buffers, Slots
<1>3. Appended(kv, 1) \in Buffers(seqlen + 1)
  BY <1>1, <1>2, AppendedType
<1>4. Tracked => Appended(positions, 1) \in Buffers(seqlen + 1)
  BY <1>1, <1>2, AppendedType
<1>5. CASE ~EvictionDue(seqlen + 1)
  <2>1. kv' \in [Heads -> [Slots' -> Nat]]
    BY <1>3, <1>5, AppendEffect DEF Buffers, Slots
  <2>2. positions' \in [Heads -> [IF Tracked' THEN Slots' ELSE {} -> Nat]]
    <3>1. CASE Tracked
      BY <3>1, <1>1, <1>4, <1>5, AppendEffect DEF Buffers, Slots
    <3>2. CASE ~Tracked
      BY <3>2, <1>1, <1>5, AppendEffect DEF TypeOK
    <3> QED BY <3>1, <3>2
  <2> QED BY <1>1, <1>5, <2>1, <2>2, AppendEffect DEF TypeOK
<1>6. CASE EvictionDue(seqlen + 1)
  <2>1. PICK ids \in Choices(seqlen + 1) :
          /\ kv' = Compacted(Appended(kv, 1), ids, seqlen + 1)
          /\ positions' = IF Tracked THEN Compacted(Appended(positions, 1), ids, seqlen + 1)
                                     ELSE positions
          /\ seqlen' = Budget /\ evicted' = TRUE
          /\ DrawRoles /\ cumulative' = cumulative + 1
    BY <1>6, RoundEffect DEF RoundWith
  <2>2. seqlen + 1 \in Nat /\ seqlen + 1 > Budget
    BY <1>1, <1>6, DueType
  <2>3. kv' \in [Heads -> [Slots' -> Nat]]
    <3>1. Compacted(Appended(kv, 1), ids, seqlen + 1) \in Buffers(Budget)
      BY <2>1, <2>2, <1>3, CompactedType
    <3> QED BY <3>1, <2>1 DEF Buffers, Slots
  <2>4. positions' \in [Heads -> [IF Tracked' THEN Slots' ELSE {} -> Nat]]
    <3>1. CASE Tracked
      <4>1. Compacted(Appended(positions, 1), ids, seqlen + 1) \in Buffers(Budget)
        BY <3>1, <2>1, <2>2, <1>4, CompactedType
      <4> QED BY <3>1, <4>1, <2>1, <1>1 DEF Buffers, Slots
    <3>2. CASE ~Tracked
      BY <3>2, <1>1, <2>1 DEF TypeOK
    <3> QED BY <3>1, <3>2
  <2>5. archivists' \subseteq Heads /\ holders' \in [Spans -> SUBSET Heads]
    BY <2>1, RolesType
  <2>6. Budget \in Nat
    BY BudgetAssumption
  <2> QED BY <1>1, <2>1, <2>3, <2>4, <2>5, <2>6 DEF TypeOK
<1> QED BY <1>5, <1>6

(* The buffers stay functions from exactly the live slots to token         *)
(* positions, in every mode and however long the generation runs.          *)
THEOREM TypeCorrect == Spec => []TypeOK
<1>1. Init => TypeOK
  BY TypeInit
<1>2. TypeOK /\ [Next]_vars => TypeOK'
  <2> SUFFICES ASSUME TypeOK, [Next]_vars PROVE TypeOK'
    OBVIOUS
  <2>1. ASSUME NEW p \in Prompts, Prefill(p) PROVE TypeOK'
    BY <2>1, TypePrefill
  <2>2. CASE Decode
    BY <2>2, TypeDecode
  <2>3. CASE UNCHANGED vars
    BY <2>3 DEF vars, TypeOK, Slots, Tracked
  <2> QED BY <2>1, <2>2, <2>3 DEF Next
<1> QED BY <1>1, <1>2, PTL DEF Spec
-----------------------------------------------------------------------------
(***************************************************************************)
(* The safety invariants.  None of them is inductive alone: that the rows  *)
(* stay in token order needs every stored position to lie in the past;     *)
(* that a prefix pinned BY SLOT is a prefix of TOKENS needs the buffer to  *)
(* be untouched until the first round, which also settles how long the     *)
(* prefix is (random_pmix draws it only then); and the guaranteed window   *)
(* needs every round's candidates to end in the window of the one before.  *)
(***************************************************************************)
BelowNow ==
  \A h \in Heads : \A s \in Slots : kv[h][s] < cumulative

UntouchedBeforeRound ==
  ~evicted => seqlen = cumulative /\ \A h \in Heads : \A s \in Slots : kv[h][s] = s

NothingBeforePrompt == seqlen = 0 => ~evicted

FullAfterRound == evicted => seqlen >= Budget

OrderInv ==
  /\ TypeOK /\ Chronological /\ BelowNow /\ UntouchedBeforeRound
  /\ NothingBeforePrompt /\ FullAfterRound /\ WindowIsNewest

(* The guaranteed tail is settled by the mode and the prompt alone, and    *)
(* fits between the pinned prefix and the end of a compacted cache.        *)
LEMMA GuaranteedTailSettled ==
  ASSUME TypeOK, NEW h \in Heads, mode' = mode, promptLen' = promptLen
  PROVE  GuaranteedTail(h)' = GuaranteedTail(h)
<1>1. CASE AgeScored(mode, h)
  <2>1. PinnedPrefix(mode, h, promptLen, archivists') = PinnedPrefix(mode, h, promptLen, archivists)
    BY <1>1 DEF AgeScored, PinnedPrefix, FreeModes, PositionModes, SinkModes
  <2> QED BY <2>1, <1>1 DEF GuaranteedTail
<1>2. CASE ~AgeScored(mode, h)
  BY <1>2 DEF GuaranteedTail
<1> QED BY <1>1, <1>2

(* The guaranteed tail fits into the budget.                               *)
LEMMA GuaranteedTailType ==
  ASSUME TypeOK, NEW h \in Heads
  PROVE  GuaranteedTail(h) \in Nat /\ GuaranteedTail(h) <= Budget
<1>1. promptLen \in Nat
  BY DEF TypeOK
<1> DEFINE P == PinnedPrefix(mode, h, promptLen, archivists)
           T == PinnedTail(mode, h, promptLen)
<1>2. P \in 0..KeepCount /\ T \in 0..(KeepCount - P)
  BY <1>1, PinnedPrefixType, PinnedTailType
<1>3. Budget \in Nat /\ Residual \in Nat /\ KeepCount = Budget - Residual
  BY BudgetAssumption DEF KeepCount
<1>4. GuaranteedTail(h) = Residual + IF AgeScored(mode, h) THEN KeepCount - P ELSE T
  BY DEF GuaranteedTail
<1> HIDE DEF P, T
<1> QED BY <1>2, <1>3, <1>4

(* The rows of a decode pass before any round: the old rows and the new    *)
(* token's behind them.                                                    *)
LEMMA AppendedRows ==
  ASSUME OrderInv, Decode, NEW h \in Heads
  PROVE  /\ Appended(kv, 1) \in Buffers(seqlen + 1)
         /\ \A s \in 0..seqlen :
              /\ Appended(kv, 1)[h][s] \in Nat /\ Appended(kv, 1)[h][s] < cumulative + 1
              /\ s < seqlen => Appended(kv, 1)[h][s] = kv[h][s]
              /\ ~evicted => Appended(kv, 1)[h][s] = s
              /\ (evicted => s >= seqlen + 1 - GuaranteedTail(h))
                    => Appended(kv, 1)[h][s] = cumulative - seqlen + s
         /\ \A s, t \in 0..seqlen : s < t => Appended(kv, 1)[h][s] < Appended(kv, 1)[h][t]
<1>1. seqlen \in Nat /\ cumulative \in Nat /\ seqlen > 0 /\ TypeOK
  BY DEF OrderInv, TypeOK, Decode
<1>2. kv \in Buffers(seqlen) /\ Slots = 0..(seqlen - 1)
  BY <1>1 DEF TypeOK, Buffers, Slots
<1>3. /\ Appended(kv, 1) \in Buffers(seqlen + 1)
      /\ \A s \in 0..seqlen : Appended(kv, 1)[h][s] =
            IF s < seqlen THEN kv[h][s] ELSE cumulative + (s - seqlen)
  <2>1. 0..(seqlen + 1 - 1) = 0..seqlen
    BY <1>1
  <2>2. /\ Appended(kv, 1) \in Buffers(seqlen + 1)
        /\ \A s \in 0..(seqlen + 1 - 1) : Appended(kv, 1)[h][s] =
              IF s < seqlen THEN kv[h][s] ELSE cumulative + (s - seqlen)
    BY <1>1, <1>2, AppendedType
  <2> QED BY <2>1, <2>2
<1>4. \A s \in 0..(seqlen - 1) :
        /\ kv[h][s] \in Nat /\ kv[h][s] < cumulative
        /\ ~evicted => kv[h][s] = s /\ seqlen = cumulative
        /\ evicted /\ s >= seqlen - GuaranteedTail(h) => kv[h][s] = cumulative - seqlen + s
  BY <1>2 DEF OrderInv, BelowNow, UntouchedBeforeRound, WindowIsNewest, Buffers
<1>5. \A s, t \in 0..(seqlen - 1) : s < t => kv[h][s] < kv[h][t]
  BY <1>2 DEF OrderInv, Chronological
<1>6. ~evicted => seqlen = cumulative
  BY DEF OrderInv, UntouchedBeforeRound
<1>7. GuaranteedTail(h) \in Nat
  BY <1>1, GuaranteedTailType
<1>8. ASSUME NEW s \in 0..seqlen
      PROVE  /\ Appended(kv, 1)[h][s] \in Nat /\ Appended(kv, 1)[h][s] < cumulative + 1
             /\ s < seqlen => Appended(kv, 1)[h][s] = kv[h][s]
             /\ ~evicted => Appended(kv, 1)[h][s] = s
             /\ (evicted => s >= seqlen + 1 - GuaranteedTail(h))
                   => Appended(kv, 1)[h][s] = cumulative - seqlen + s
  <2>1. CASE s < seqlen
    <3>1. s \in 0..(seqlen - 1)
      BY <2>1, <1>1
    <3> QED BY <3>1, <2>1, <1>1, <1>3, <1>4, <1>6, <1>7
  <2>2. CASE ~(s < seqlen)
    <3>1. s = seqlen
      BY <2>2, <1>1
    <3> QED BY <3>1, <1>1, <1>3, <1>6
  <2> QED BY <2>1, <2>2
<1>9. ASSUME NEW s \in 0..seqlen, NEW t \in 0..seqlen, s < t
      PROVE  Appended(kv, 1)[h][s] < Appended(kv, 1)[h][t]
  <2>1. s \in 0..(seqlen - 1) /\ s < seqlen
    BY <1>9, <1>1
  <2>2. CASE t < seqlen
    BY <2>1, <2>2, <1>1, <1>3, <1>5, <1>9
  <2>3. CASE ~(t < seqlen)
    <3>1. t = seqlen
      BY <2>3, <1>1
    <3> QED BY <3>1, <2>1, <1>1, <1>3, <1>4
  <2> QED BY <2>2, <2>3
<1> QED BY <1>3, <1>8, <1>9

(* The slots a round's sorted top-k takes in one head: the pinned tail of  *)
(* the candidates, and for a mode that scores by age everything behind the *)
(* prefix, ends up in order at the end of the kept block.                  *)
LEMMA ChosenTail ==
  ASSUME TypeOK, NEW h \in Heads, NEW n \in Nat, n >= KeepCount, NEW pos,
         NEW f \in Ascending(n), IsChoice(f, h, n, pos),
         NEW i \in 0..(KeepCount - 1), i >= Budget - GuaranteedTail(h)
  PROVE  f[i] = n - KeepCount + i
<1>1. promptLen \in Nat /\ KeepCount = Budget - Residual /\ Budget \in Nat /\ Residual \in Nat
  BY BudgetAssumption DEF TypeOK, KeepCount
<1> DEFINE P == PinnedPrefix(mode, h, promptLen, archivists')
           T == PinnedTail(mode, h, promptLen)
           prio == [s \in 0..(n - 1) |->
                     Priority(mode, h, n, s, pos[h][s], promptLen, archivists', holders')]
<1>2. P \in 0..KeepCount /\ T \in 0..(KeepCount - P)
  BY <1>1, PinnedPrefixType, PinnedTailType
<1>3. IsTopK(f, n, prio)
  BY DEF IsChoice
<1>4. CASE AgeScored(mode, h)
  <2>1. P = PinnedPrefix(mode, h, promptLen, archivists)
    BY <1>4 DEF AgeScored, PinnedPrefix, FreeModes, PositionModes, SinkModes
  <2>2. T = 0 /\ mode \notin PositionModes /\ mode # "random_pp" /\ mode # "synth_pin"
    BY <1>4 DEF AgeScored, PinnedTail, PositionModes
  <2>3. i \in P..(KeepCount - 1)
    BY <1>1, <1>2, <1>4, <2>1 DEF GuaranteedTail
  <2>4. \A s \in 0..(n - 1) : prio[s] = IF s < P THEN n ELSE s
    <3> SUFFICES ASSUME NEW s \in 0..(n - 1)
                 PROVE  Priority(mode, h, n, s, pos[h][s], promptLen, archivists', holders')
                          = IF s < P THEN n ELSE s
      OBVIOUS
    <3>1. ~Designated(mode, h, pos[h][s], promptLen, holders')
      BY <2>2 DEF Designated, PositionModes
    <3>2. ~Blacklisted(mode, h, pos[h][s], holders')
      BY <2>2 DEF Blacklisted
    <3>3. ~(s >= n - T)
      BY <2>2
    <3> QED BY <3>1, <3>2, <3>3, <1>4 DEF Priority
  <2> HIDE DEF P, prio
  <2> QED BY <1>2, <1>3, <2>3, <2>4, TopKByAge
<1>5. CASE ~AgeScored(mode, h)
  <2>1. i \in (KeepCount - T)..(KeepCount - 1) /\ T >= 1
    BY <1>1, <1>2, <1>5 DEF GuaranteedTail
  <2>2. mode \notin PositionModes /\ mode # "random_pp"
    BY <2>1 DEF PinnedTail, PositionModes
  <2>3. \A s \in 0..(n - 1) : /\ prio[s] \in Int /\ prio[s] <= n
                              /\ prio[s] = n <=> (s < P \/ s >= n - T)
    <3> SUFFICES ASSUME NEW s \in 0..(n - 1)
                 PROVE  LET q == Priority(mode, h, n, s, pos[h][s], promptLen, archivists', holders')
                        IN  q \in Int /\ q <= n /\ (q = n <=> (s < P \/ s >= n - T))
      OBVIOUS
    <3> QED BY <1>1, <2>2, PriorityOfPinned
  <2>4. (n - T)..(n - 1) \subseteq Kept(f)
    <3> HIDE DEF P, T, prio
    <3>1. \A s \in 0..(n - 1) : s < P \/ s >= n - T => s \in Kept(f)
      BY <1>2, <1>3, <2>3, TopKKeepsPinned
    <3>2. \A s \in (n - T)..(n - 1) : s \in 0..(n - 1) /\ s >= n - T
      BY <1>1, <1>2
    <3> QED BY <3>1, <3>2
  <2>5. T \in 0..KeepCount
    BY <1>1, <1>2
  <2> HIDE DEF T
  <2> QED BY <2>1, <2>4, <2>5, TailInPlace
<1> QED BY <1>4, <1>5

(* ... and the pinned prefix stays where it is, unless FORCE_KEEP_RANGE    *)
(* adds slots to what random_pp pins.                                      *)
LEMMA ChosenPrefix ==
  ASSUME TypeOK, NEW h \in Heads, NEW n \in Nat, n >= KeepCount, NEW pos,
         NEW f \in Ascending(n), IsChoice(f, h, n, pos), ForceHi <= ForceLo,
         NEW s \in 0..(PinnedPrefix(mode, h, promptLen, archivists') - 1)
  PROVE  f[s] = s
<1>1. promptLen \in Nat
  BY DEF TypeOK
<1> DEFINE P == PinnedPrefix(mode, h, promptLen, archivists')
           T == PinnedTail(mode, h, promptLen)
           prio == [x \in 0..(n - 1) |->
                     Priority(mode, h, n, x, pos[h][x], promptLen, archivists', holders')]
<1>2. P \in 0..KeepCount /\ T \in 0..(KeepCount - P) /\ s \in 0..(P - 1) /\ KeepCount \in Nat
  BY <1>1, PinnedPrefixType, PinnedTailType, KeepCountType
<1>3. IsTopK(f, n, prio)
  BY DEF IsChoice
<1>4. mode \notin PositionModes
  <2>1. mode \in PositionModes => P = 0
    BY DEF PinnedPrefix, PositionModes, SinkModes
  <2> QED BY <2>1, <1>2
<1>5. \A x \in 0..(n - 1) : /\ prio[x] \in Int /\ prio[x] <= n
                            /\ prio[x] = n <=> (x < P \/ x >= n - T)
  <2> SUFFICES ASSUME NEW x \in 0..(n - 1)
               PROVE  LET q == Priority(mode, h, n, x, pos[h][x], promptLen, archivists', holders')
                      IN  q \in Int /\ q <= n /\ (q = n <=> (x < P \/ x >= n - T))
    OBVIOUS
  <2> QED BY <1>1, <1>4, PriorityOfPinned
<1> HIDE DEF P, T, prio
<1>6. \A x \in 0..(n - 1) : x < P \/ x >= n - T => x \in Kept(f)
  BY <1>2, <1>3, <1>5, TopKKeepsPinned
<1>7. 0..(P - 1) \subseteq Kept(f)
  BY <1>2, <1>6
<1> QED BY <1>2, <1>7, PrefixInPlace

(* The same two facts about the index vectors of a round on len rows.      *)
LEMMA RoundTail ==
  ASSUME TypeOK, NEW len \in Nat, len > Budget, NEW ids \in Choices(len),
         RoundWith(ids, len), NEW h \in Heads,
         NEW s \in 0..(KeepCount - 1), s >= Budget - GuaranteedTail(h)
  PROVE  ids[h][s] = len - Budget + s
<1> DEFINE n == len - Residual
<1>1. n \in Nat /\ n >= KeepCount /\ ids[h] \in Ascending(n)
  BY ChoiceOf
<1>2. IsChoice(ids[h], h, n, FullPositions)
  BY DEF RoundWith
<1>3. n - KeepCount = len - Budget
  BY BudgetAssumption DEF KeepCount
<1> HIDE DEF n
<1>4. ids[h][s] = n - KeepCount + s
  BY <1>1, <1>2, ChosenTail
<1> QED BY <1>3, <1>4

(* A round of the layer keeps every slot of the pinned prefix in its       *)
(* place.                                                                  *)
LEMMA RoundPrefix ==
  ASSUME TypeOK, NEW len \in Nat, len > Budget, NEW ids \in Choices(len),
         RoundWith(ids, len), NEW h \in Heads, ForceHi <= ForceLo,
         NEW s \in 0..(PinnedPrefix(mode, h, promptLen, archivists') - 1)
  PROVE  ids[h][s] = s
<1> DEFINE n == len - Residual
<1>1. n \in Nat /\ n >= KeepCount /\ ids[h] \in Ascending(n)
  BY ChoiceOf
<1>2. IsChoice(ids[h], h, n, FullPositions)
  BY DEF RoundWith
<1> HIDE DEF n
<1> QED BY <1>1, <1>2, ChosenPrefix

(* The order invariant holds of the empty layer.                           *)
LEMMA OrderInit == Init => OrderInv
<1> SUFFICES ASSUME Init PROVE OrderInv
  OBVIOUS
<1>1. TypeOK
  BY TypeInit
<1>2. Slots = {} /\ seqlen = 0 /\ cumulative = 0 /\ evicted = FALSE
  BY DEF Init, Slots
<1> QED BY <1>1, <1>2 DEF OrderInv, Chronological, BelowNow, UntouchedBeforeRound,
                       NothingBeforePrompt, FullAfterRound, WindowIsNewest

(* A prefill establishes the order invariant for the rows of the prompt.   *)
LEMMA OrderPrefill ==
  ASSUME OrderInv, NEW p \in Prompts, Prefill(p)
  PROVE  OrderInv'
<1>1. /\ p \in Nat /\ p # 0 /\ TypeOK /\ seqlen = 0 /\ cumulative \in Nat
      /\ ~evicted /\ cumulative = 0
  BY LayerAssumption DEF Prefill, OrderInv, TypeOK, NothingBeforePrompt, UntouchedBeforeRound
<1>2. TypeOK'
  BY <1>1, TypePrefill
<1>3. seqlen' = p /\ cumulative' = p /\ evicted' = evicted /\ Slots' = 0..(p - 1)
  BY DEF Prefill, Slots
<1>4. kv \in Buffers(seqlen)
  BY <1>1 DEF TypeOK, Buffers, Slots
<1>5. \A h \in Heads : \A s \in 0..(p - 1) : kv'[h][s] = s
  <2>1. \A h \in Heads : \A s \in 0..(seqlen + p - 1) : Appended(kv, p)[h][s] =
           IF s < seqlen THEN kv[h][s] ELSE cumulative + (s - seqlen)
    BY <1>1, <1>4, AppendedType
  <2>2. kv' = Appended(kv, p)
    BY DEF Prefill
  <2> QED BY <1>1, <2>1, <2>2
<1>6. Chronological' /\ BelowNow' /\ UntouchedBeforeRound'
  BY <1>1, <1>3, <1>5 DEF Chronological, BelowNow, UntouchedBeforeRound
<1>7. NothingBeforePrompt' /\ FullAfterRound' /\ WindowIsNewest'
  BY <1>1, <1>3 DEF NothingBeforePrompt, FullAfterRound, WindowIsNewest
<1> QED BY <1>2, <1>6, <1>7 DEF OrderInv

(* An append without a round puts the newest token behind the older ones.  *)
LEMMA OrderAppend ==
  ASSUME OrderInv, Decode, ~EvictionDue(seqlen + 1)
  PROVE  OrderInv'
<1>1. TypeOK /\ seqlen \in Nat /\ cumulative \in Nat /\ seqlen > 0
  BY DEF OrderInv, TypeOK, Decode
<1>2. TypeOK'
  BY <1>1, TypeDecode
<1>3. /\ kv' = Appended(kv, 1) /\ seqlen' = seqlen + 1 /\ cumulative' = cumulative + 1
      /\ evicted' = evicted /\ mode' = mode /\ promptLen' = promptLen
  BY AppendEffect
<1>4. Slots' = 0..seqlen
  BY <1>1, <1>3 DEF Slots
<1>5. Chronological'
  BY <1>3, <1>4, AppendedRows DEF Chronological
<1>6. BelowNow'
  BY <1>3, <1>4, AppendedRows DEF BelowNow
<1>7. UntouchedBeforeRound'
  <2>1. ~evicted => seqlen = cumulative
    BY DEF OrderInv, UntouchedBeforeRound
  <2> QED BY <2>1, <1>3, <1>4, AppendedRows DEF UntouchedBeforeRound
<1>8. NothingBeforePrompt'
  BY <1>1, <1>3 DEF NothingBeforePrompt
<1>9. FullAfterRound'
  BY <1>1, <1>3, BudgetAssumption DEF OrderInv, FullAfterRound
<1>10. WindowIsNewest'
  <2> SUFFICES ASSUME evicted', NEW h \in Heads, NEW s \in Slots',
                      s >= seqlen' - GuaranteedTail(h)'
               PROVE  kv'[h][s] = cumulative' - seqlen' + s
    BY DEF WindowIsNewest
  <2>1. GuaranteedTail(h)' = GuaranteedTail(h)
    BY <1>1, <1>3, GuaranteedTailSettled
  <2>2. s \in 0..seqlen /\ s >= seqlen + 1 - GuaranteedTail(h)
    BY <1>1, <1>3, <1>4, <2>1, GuaranteedTailType
  <2>3. kv'[h][s] = cumulative - seqlen + s
    BY <1>3, <2>2, AppendedRows
  <2> QED BY <1>1, <1>3, <2>2, <2>3
<1> QED BY <1>2, <1>5, <1>6, <1>7, <1>8, <1>9, <1>10 DEF OrderInv

(* The rows of a compacted cache, from the rows and the chosen indices.    *)
LEMMA CompactedRows ==
  ASSUME OrderInv, Decode, EvictionDue(seqlen + 1), NEW ids,
         ids \in Choices(seqlen + 1), RoundWith(ids, seqlen + 1), NEW h \in Heads
  PROVE  /\ \A s \in 0..(Budget - 1) :
              LET src == IF s < KeepCount THEN ids[h][s] ELSE seqlen + 1 - Budget + s
              IN  src \in 0..seqlen /\ kv'[h][s] = Appended(kv, 1)[h][src]
         /\ ids[h] \in Ascending(seqlen + 1 - Residual)
         /\ seqlen + 1 - Residual \in Nat /\ seqlen + 1 - Residual >= KeepCount
<1>1. seqlen \in Nat /\ cumulative \in Nat
  BY DEF OrderInv, TypeOK
<1>2. seqlen + 1 \in Nat /\ seqlen + 1 > Budget
  BY <1>1, DueType
<1>3. /\ KeepCount \in Nat /\ Budget \in Nat /\ Residual \in Nat
      /\ KeepCount = Budget - Residual /\ Residual >= 1
  BY KeepCountType, BudgetAssumption DEF KeepCount
<1>4. /\ ids[h] \in Ascending(seqlen + 1 - Residual)
      /\ seqlen + 1 - Residual \in Nat /\ seqlen + 1 - Residual >= KeepCount
      /\ \A i \in 0..(KeepCount - 1) : ids[h][i] \in 0..(seqlen + 1 - Residual - 1)
  BY <1>1, <1>2, <1>3, ChoiceOf
<1>5. Appended(kv, 1) \in Buffers(seqlen + 1)
  BY AppendedRows
<1>6. \A s \in 0..(Budget - 1) : kv'[h][s] =
        IF s < KeepCount THEN Appended(kv, 1)[h][ids[h][s]]
                         ELSE Appended(kv, 1)[h][seqlen + 1 - Budget + s]
  <2>1. kv' = Compacted(Appended(kv, 1), ids, seqlen + 1)
    BY DEF RoundWith
  <2> QED BY <2>1, <1>1, <1>2, <1>3, <1>5, CompactedType
<1>7. ASSUME NEW s \in 0..(Budget - 1)
      PROVE  LET src == IF s < KeepCount THEN ids[h][s] ELSE seqlen + 1 - Budget + s
             IN  src \in 0..seqlen /\ kv'[h][s] = Appended(kv, 1)[h][src]
  <2>1. CASE s < KeepCount
    <3>1. s \in 0..(KeepCount - 1)
      BY <2>1, <1>3
    <3>2. ids[h][s] \in 0..(seqlen + 1 - Residual - 1)
      BY <3>1, <1>4
    <3>3. ids[h][s] \in 0..seqlen
      BY <3>2, <1>1, <1>3
    <3> QED BY <2>1, <3>3, <1>6
  <2>2. CASE ~(s < KeepCount)
    <3>1. seqlen + 1 - Budget + s \in 0..seqlen
      BY <1>1, <1>2, <1>3
    <3> QED BY <2>2, <3>1, <1>6
  <2> QED BY <2>1, <2>2
<1> QED BY <1>4, <1>7

(* A round keeps the order, for the kept indices ascend and the residual   *)
(* is the newest.                                                          *)
LEMMA OrderRound ==
  ASSUME OrderInv, Decode, EvictionDue(seqlen + 1)
  PROVE  OrderInv'
<1>1. TypeOK /\ seqlen \in Nat /\ cumulative \in Nat /\ seqlen > 0
  BY DEF OrderInv, TypeOK, Decode
<1>2. TypeOK'
  BY <1>1, TypeDecode
<1>3. PICK ids : ids \in Choices(seqlen + 1) /\ RoundWith(ids, seqlen + 1)
  BY RoundEffect
<1>4. /\ seqlen' = Budget /\ evicted' = TRUE /\ cumulative' = cumulative + 1
      /\ mode' = mode /\ promptLen' = promptLen
  BY <1>3 DEF RoundWith
<1>5. /\ KeepCount \in Nat /\ Budget \in Nat /\ Residual \in Nat
      /\ KeepCount = Budget - Residual /\ Residual >= 1 /\ seqlen + 1 > Budget
  BY KeepCountType, BudgetAssumption, <1>1, DueType DEF KeepCount
<1>6. Slots' = 0..(Budget - 1)
  BY <1>4 DEF Slots
<1> DEFINE Src(h, s) == IF s < KeepCount THEN ids[h][s] ELSE seqlen + 1 - Budget + s
<1>7. ASSUME NEW h \in Heads, NEW s \in 0..(Budget - 1)
      PROVE  Src(h, s) \in 0..seqlen /\ kv'[h][s] = Appended(kv, 1)[h][Src(h, s)]
  BY <1>3, CompactedRows
<1>8. Chronological'
  <2> SUFFICES ASSUME NEW h \in Heads, NEW s \in 0..(Budget - 1), NEW t \in 0..(Budget - 1), s < t
               PROVE  kv'[h][s] < kv'[h][t]
    BY <1>6 DEF Chronological
  <2>1. Src(h, s) < Src(h, t)
    <3>1. seqlen + 1 \in Nat
      BY <1>1
    <3>2. /\ \A i \in 0..(KeepCount - 1) : ids[h][i] \in 0..(seqlen + 1 - Residual - 1)
          /\ \A i, j \in 0..(KeepCount - 1) : i < j => ids[h][i] < ids[h][j]
      BY <3>1, <1>1, <1>3, <1>5, ChoiceOf
    <3>3. CASE t < KeepCount
      <4>1. s \in 0..(KeepCount - 1) /\ t \in 0..(KeepCount - 1)
        BY <3>3, <1>5
      <4> QED BY <4>1, <3>2, <3>3, <1>5
    <3>4. CASE s < KeepCount /\ ~(t < KeepCount)
      <4>1. s \in 0..(KeepCount - 1)
        BY <3>4, <1>5
      <4>2. ids[h][s] \in 0..(seqlen + 1 - Residual - 1)
        BY <4>1, <3>2
      <4> QED BY <4>2, <3>4, <1>1, <1>5
    <3>5. CASE ~(s < KeepCount) /\ ~(t < KeepCount)
      BY <3>5, <1>1, <1>5
    <3> QED BY <3>3, <3>4, <3>5, <1>5
  <2>2. \A x, y \in 0..seqlen : x < y => Appended(kv, 1)[h][x] < Appended(kv, 1)[h][y]
    BY AppendedRows
  <2> HIDE DEF Src
  <2> QED BY <2>1, <2>2, <1>7
<1>9. BelowNow'
  <2> SUFFICES ASSUME NEW h \in Heads, NEW s \in 0..(Budget - 1)
               PROVE  kv'[h][s] < cumulative + 1
    BY <1>4, <1>6 DEF BelowNow
  <2>1. \A x \in 0..seqlen : Appended(kv, 1)[h][x] < cumulative + 1
    BY AppendedRows
  <2> HIDE DEF Src
  <2> QED BY <2>1, <1>7
<1>10. UntouchedBeforeRound' /\ NothingBeforePrompt' /\ FullAfterRound'
  BY <1>4, <1>5, BudgetAssumption DEF UntouchedBeforeRound, NothingBeforePrompt, FullAfterRound
<1>11. WindowIsNewest'
  <2> SUFFICES ASSUME NEW h \in Heads, NEW s \in 0..(Budget - 1),
                      s >= Budget - GuaranteedTail(h)
               PROVE  kv'[h][s] = cumulative + 1 - Budget + s
    <3>1. \A g \in Heads : GuaranteedTail(g)' = GuaranteedTail(g)
      BY <1>1, <1>4, GuaranteedTailSettled
    <3>2. \A g \in Heads : GuaranteedTail(g) \in Nat
      BY <1>1, GuaranteedTailType
    <3> QED BY <3>1, <3>2, <1>1, <1>4, <1>5, <1>6 DEF WindowIsNewest
  <2>1. Src(h, s) = seqlen + 1 - Budget + s
    <3>1. CASE s < KeepCount
      <4>1. s \in 0..(KeepCount - 1)
        BY <3>1, <1>5
      <4>2. seqlen + 1 \in Nat
        BY <1>1
      <4>3. ids[h][s] = seqlen + 1 - Budget + s
        BY <1>1, <1>3, <1>5, <4>1, <4>2, RoundTail
      <4> QED BY <4>3, <3>1
    <3>2. CASE ~(s < KeepCount)
      BY <3>2
    <3> QED BY <3>1, <3>2
  <2>2. GuaranteedTail(h) \in Nat
    BY <1>1, GuaranteedTailType
  <2>3. Src(h, s) >= seqlen + 1 - GuaranteedTail(h)
    BY <2>1, <2>2, <1>1, <1>5
  <2>4. Appended(kv, 1)[h][Src(h, s)] = cumulative - seqlen + Src(h, s)
    <3> HIDE DEF Src
    <3> QED BY <2>3, <1>7, AppendedRows
  <2> HIDE DEF Src
  <2> QED BY <2>1, <2>4, <1>1, <1>5, <1>7
<1> QED BY <1>2, <1>8, <1>9, <1>10, <1>11 DEF OrderInv

(* The order invariant is inductive.                                       *)
LEMMA OrderStep == OrderInv /\ [Next]_vars => OrderInv'
<1> SUFFICES ASSUME OrderInv, [Next]_vars PROVE OrderInv'
  OBVIOUS
<1>1. ASSUME NEW p \in Prompts, Prefill(p) PROVE OrderInv'
  BY <1>1, OrderPrefill
<1>2. CASE Decode
  BY <1>2, OrderAppend, OrderRound
<1>3. CASE UNCHANGED vars
  BY <1>3 DEF vars, OrderInv, TypeOK, Slots, Tracked, Chronological, BelowNow,
     UntouchedBeforeRound, NothingBeforePrompt, FullAfterRound, WindowIsNewest, GuaranteedTail
<1> QED BY <1>1, <1>2, <1>3 DEF Next

(* In every mode, every head stores its rows in strictly increasing token  *)
(* order, whatever its rounds kept: the ground of "index = time".          *)
THEOREM ChronologyKept == Spec => []Chronological
<1>1. OrderInv => Chronological
  BY DEF OrderInv
<1> QED BY <1>1, OrderInit, OrderStep, PTL DEF Spec

(* After any number of rounds the newest rows of a head are the residual,  *)
(* the tail its mode pins, and all rows behind the prefix if it scores by  *)
(* age: the sliding window loses nothing.                                  *)
THEOREM WindowKept == Spec => []WindowIsNewest
<1>1. OrderInv => WindowIsNewest
  BY DEF OrderInv
<1> QED BY <1>1, OrderInit, OrderStep, PTL DEF Spec
-----------------------------------------------------------------------------
(* Prompt protection.  A round keeps the pinned SLOTS where they are; that *)
(* they hold the pinned TOKENS is carried from round to round, and starts  *)
(* from the buffer nothing has touched before the first one.               *)
PrefixInv == OrderInv /\ PinnedPrefixIntact

(* A round leaves the pinned prefix holding the pinned tokens.             *)
LEMMA PrefixRound ==
  ASSUME PrefixInv, Decode, EvictionDue(seqlen + 1), ForceHi <= ForceLo
  PROVE  PinnedPrefixIntact'
<1>1. /\ OrderInv /\ TypeOK /\ seqlen \in Nat /\ seqlen + 1 \in Nat /\ seqlen + 1 > Budget
  BY DueType DEF PrefixInv, OrderInv, TypeOK
<1>2. PICK ids : ids \in Choices(seqlen + 1) /\ RoundWith(ids, seqlen + 1)
  BY RoundEffect
<1>3. /\ seqlen' = Budget /\ mode' = mode /\ promptLen' = promptLen /\ DrawRoles
  BY <1>2 DEF RoundWith
<1>4. KeepCount \in Nat /\ Budget \in Nat /\ KeepCount <= Budget
  BY KeepCountType, BudgetAssumption DEF KeepCount
<1> SUFFICES ASSUME NEW h \in Heads, NEW s \in Nat,
                    s < PinnedPrefix(mode, h, promptLen, archivists')
             PROVE  kv'[h][s] = s
  BY <1>1, <1>3, <1>4 DEF PinnedPrefixIntact, Slots
<1>5. PinnedPrefix(mode, h, promptLen, archivists') \in 0..KeepCount
  BY <1>1, PinnedPrefixType DEF TypeOK
<1>6. s \in 0..(Budget - 1) /\ s < KeepCount /\ s < seqlen /\ s \in 0..seqlen
  BY <1>1, <1>4, <1>5
<1>7. ids[h][s] = s
  <2>1. s \in 0..(PinnedPrefix(mode, h, promptLen, archivists') - 1)
    BY <1>5
  <2> QED BY <2>1, <1>1, <1>2, <1>4, RoundPrefix
<1>8. kv'[h][s] = Appended(kv, 1)[h][s]
  BY <1>1, <1>2, <1>6, <1>7, CompactedRows
<1>9. CASE ~evicted
  BY <1>1, <1>6, <1>8, <1>9, AppendedRows
<1>10. CASE evicted
  <2>1. archivists' = archivists
    BY <1>3, <1>10 DEF DrawRoles
  <2>2. s \in Slots /\ kv[h][s] = s
    BY <2>1, <1>1, <1>6 DEF PrefixInv, PinnedPrefixIntact, Slots
  <2> QED BY <2>2, <1>1, <1>6, <1>8, AppendedRows
<1> QED BY <1>9, <1>10

(* An append touches no pinned slot.                                       *)
LEMMA PrefixAppend ==
  ASSUME PrefixInv, Decode, ~EvictionDue(seqlen + 1)
  PROVE  PinnedPrefixIntact'
<1>1. /\ OrderInv /\ OrderInv' /\ TypeOK /\ seqlen \in Nat
  BY OrderAppend DEF PrefixInv, OrderInv, TypeOK
<1>2. /\ kv' = Appended(kv, 1) /\ seqlen' = seqlen + 1 /\ evicted' = evicted
      /\ mode' = mode /\ promptLen' = promptLen /\ archivists' = archivists
  BY AppendEffect
<1>3. CASE ~evicted
  BY <1>1, <1>2, <1>3 DEF OrderInv, UntouchedBeforeRound, PinnedPrefixIntact
<1>4. CASE evicted
  <2> SUFFICES ASSUME NEW h \in Heads, NEW s \in 0..seqlen,
                      s < PinnedPrefix(mode, h, promptLen, archivists)
               PROVE  Appended(kv, 1)[h][s] = s
    BY <1>1, <1>2 DEF PinnedPrefixIntact, Slots
  <2>1. PinnedPrefix(mode, h, promptLen, archivists) \in 0..KeepCount
    BY <1>1, PinnedPrefixType DEF TypeOK
  <2>2. seqlen >= Budget /\ KeepCount \in Nat /\ Budget \in Nat /\ KeepCount <= Budget
    BY <1>1, <1>4, KeepCountType, BudgetAssumption DEF OrderInv, FullAfterRound, KeepCount
  <2>3. s < seqlen /\ s \in Slots
    BY <1>1, <2>1, <2>2 DEF Slots
  <2>4. kv[h][s] = s
    BY <2>3 DEF PrefixInv, PinnedPrefixIntact
  <2> QED BY <2>3, <2>4, <1>1, AppendedRows
<1> QED BY <1>3, <1>4

(* Unless FORCE_KEEP_RANGE is set, the slots a mode pins at the front of a *)
(* head hold the first tokens of the prompt, after any number of rounds.   *)
THEOREM PrefixKept == ForceHi <= ForceLo => (Spec => []PinnedPrefixIntact)
<1> SUFFICES ASSUME ForceHi <= ForceLo PROVE Spec => []PinnedPrefixIntact
  OBVIOUS
<1>1. Init => PrefixInv
  BY OrderInit DEF PrefixInv, PinnedPrefixIntact, Init, Slots
<1>2. PrefixInv /\ [Next]_vars => PrefixInv'
  <2> SUFFICES ASSUME PrefixInv, [Next]_vars PROVE PinnedPrefixIntact'
    BY OrderStep DEF PrefixInv
  <2>1. ASSUME NEW p \in Prompts, Prefill(p) PROVE PinnedPrefixIntact'
    <3>1. OrderInv' /\ evicted' = evicted /\ ~evicted
      BY <2>1, OrderPrefill DEF PrefixInv, OrderInv, NothingBeforePrompt, Prefill
    <3> QED BY <3>1 DEF OrderInv, UntouchedBeforeRound, PinnedPrefixIntact
  <2>2. CASE Decode
    BY <2>2, PrefixRound, PrefixAppend
  <2>3. CASE UNCHANGED vars
    BY <2>3 DEF PrefixInv, PinnedPrefixIntact, vars, Slots
  <2> QED BY <2>1, <2>2, <2>3 DEF Next
<1>3. PrefixInv => PinnedPrefixIntact
  BY DEF PrefixInv
<1> QED BY <1>1, <1>2, <1>3, PTL DEF Spec
-----------------------------------------------------------------------------
(***************************************************************************)
(* Capacity.  A round is due only when the length is a multiple of the     *)
(* residual length above the budget, so the cache grows past the buffer    *)
(* unless every interval of Residual lengths holds such a multiple; and    *)
(* the residual move is disjoint because two multiples are that far apart. *)
(***************************************************************************)
LEMMA DivMod ==
  ASSUME NEW a \in Nat, NEW r \in Nat \ {0}
  PROVE  a = r * (a \div r) + (a % r) /\ a \div r \in Nat /\ a % r \in 0..(r - 1)
OBVIOUS

(* Two different multiples of the residual are at least a residual apart.  *)
LEMMA MultiplesApart ==
  ASSUME NEW a \in Nat, NEW b \in Nat, NEW r \in Nat \ {0}, a % r = 0, b % r = 0, a < b
  PROVE  b >= a + r
<1> DEFINE p == a \div r
           q == b \div r
<1>1. a = r * p /\ b = r * q /\ p \in Nat /\ q \in Nat
  BY DivMod
<1> HIDE DEF p, q
<1>2. p + 1 <= q
  BY <1>1, Z3
<1>3. r * (p + 1) <= r * q
  BY <1>1, <1>2
<1> QED BY <1>1, <1>3

(* Above a length there is a multiple of the residual within one residual. *)
LEMMA MultipleAbove ==
  ASSUME NEW a \in Nat, NEW r \in Nat \ {0}
  PROVE  \E n \in (a + 1)..(a + r) : n % r = 0
<1> DEFINE q == a \div r
<1>1. a = r * q + (a % r) /\ q \in Nat /\ a % r \in 0..(r - 1)
  BY DivMod
<1> HIDE DEF q
<1>2. r * (q + 1) = r * q + r
  BY <1>1
<1>3. r * (q + 1) \in (a + 1)..(a + r) /\ (r * (q + 1)) % r = 0
  BY <1>1, <1>2
<1> QED BY <1>3

(* The length the buffers must hold before a late round.                   *)
LongestKept == Most(promptLen, Budget)

NoRoundMissed ==
  seqlen > 0 => \A n \in (LongestKept + 1)..seqlen : n % Residual # 0

CapacityInv == TypeOK /\ NoRoundMissed

(* No append is ever out of the preallocated buffers: the prompt fits, and *)
(* the next round comes at most Residual appends after the last kept row.  *)
THEOREM CapacityKept == Spec => []WithinCapacity
<1>1. Init => CapacityInv
  BY TypeInit DEF CapacityInv, NoRoundMissed, Init
<1>2. CapacityInv /\ [Next]_vars => CapacityInv'
  <2> SUFFICES ASSUME CapacityInv, [Next]_vars PROVE CapacityInv'
    OBVIOUS
  <2>1. TypeOK /\ seqlen \in Nat /\ promptLen \in Nat /\ Budget \in Nat /\ Residual \in Nat
    BY BudgetAssumption DEF CapacityInv, TypeOK
  <2>2. ASSUME NEW p \in Prompts, Prefill(p) PROVE CapacityInv'
    <3>1. TypeOK' /\ p \in Nat /\ promptLen' = p /\ seqlen' = p
      BY <2>1, <2>2, TypePrefill, LayerAssumption DEF Prefill
    <3> QED BY <3>1, <2>1 DEF CapacityInv, NoRoundMissed, LongestKept, Most
  <2>3. CASE Decode
    <3>1. TypeOK' /\ promptLen' = promptLen /\ seqlen > 0
      BY <2>1, <2>3, TypeDecode DEF Decode
    <3>2. LongestKept' = LongestKept /\ LongestKept \in Nat /\ LongestKept >= Budget
      BY <2>1, <3>1 DEF LongestKept, Most
    <3>3. CASE EvictionDue(seqlen + 1)
      <4>1. seqlen' = Budget
        BY <2>3, <3>3, RoundEffect DEF RoundWith
      <4> QED BY <4>1, <2>1, <3>1, <3>2 DEF CapacityInv, NoRoundMissed
    <3>4. CASE ~EvictionDue(seqlen + 1)
      <4>1. seqlen' = seqlen + 1
        BY <2>3, <3>4, AppendEffect
      <4>2. \A n \in (LongestKept + 1)..(seqlen + 1) : n % Residual # 0
        <5> SUFFICES ASSUME NEW n \in (LongestKept + 1)..(seqlen + 1) PROVE n % Residual # 0
          OBVIOUS
        <5>1. CASE n = seqlen + 1
          <6>1. seqlen + 1 > Budget
            BY <2>1, <3>2, <5>1
          <6> QED BY <6>1, <3>4, <5>1 DEF EvictionDue
        <5>2. CASE n # seqlen + 1
          <6>1. n \in (LongestKept + 1)..seqlen
            BY <2>1, <3>2, <5>2
          <6> QED BY <6>1, <3>1 DEF CapacityInv, NoRoundMissed
        <5> QED BY <5>1, <5>2
      <4> QED BY <4>1, <4>2, <3>1, <3>2 DEF CapacityInv, NoRoundMissed
    <3> QED BY <3>3, <3>4
  <2>4. CASE UNCHANGED vars
    BY <2>4 DEF vars, CapacityInv, TypeOK, Slots, Tracked, NoRoundMissed, LongestKept
  <2> QED BY <2>2, <2>3, <2>4 DEF Next
<1>3. CapacityInv => WithinCapacity
  <2> SUFFICES ASSUME CapacityInv, seqlen > 0 PROVE seqlen <= MaxCacheLen
    BY DEF WithinCapacity
  <2>1. seqlen \in Nat /\ Residual \in Nat \ {0} /\ LongestKept \in Nat
    BY BudgetAssumption DEF CapacityInv, TypeOK, LongestKept, Most
  <2>2. PICK n \in (LongestKept + 1)..(LongestKept + Residual) : n % Residual = 0
    BY <2>1, MultipleAbove
  <2>3. ~(n <= seqlen)
    BY <2>1, <2>2 DEF CapacityInv, NoRoundMissed
  <2>4. seqlen <= LongestKept + Residual
    BY <2>1, <2>2, <2>3
  <2> QED BY <2>4 DEF MaxCacheLen, LongestKept
<1> QED BY <1>1, <1>2, <1>3, PTL DEF Spec

(* The slice copies of a round never overlap: the residual's rows lie      *)
(* wholly behind the slots they are moved to.                              *)
THEOREM MoveDisjoint == Spec => ResidualMoveDisjoint
<1>1. TypeOK /\ [Next]_vars =>
        [seqlen > 0 /\ seqlen' <= seqlen => seqlen + 1 - Residual >= Budget]_vars
  <2> SUFFICES ASSUME TypeOK, [Next]_vars, seqlen > 0, seqlen' <= seqlen, vars' # vars
               PROVE  seqlen + 1 - Residual >= Budget
    OBVIOUS
  <2>1. seqlen \in Nat /\ Budget \in Nat /\ Residual \in Nat \ {0} /\ Budget % Residual = 0
    BY BudgetAssumption DEF TypeOK
  <2>2. ASSUME NEW p \in Prompts, Prefill(p) PROVE FALSE
    BY <2>1, <2>2 DEF Prefill
  <2>3. Decode
    BY <2>2 DEF Next
  <2>4. EvictionDue(seqlen + 1)
    BY <2>1, <2>3, AppendEffect
  <2>5. seqlen + 1 > Budget /\ (seqlen + 1) % Residual = 0
    BY <2>4 DEF EvictionDue
  <2>6. seqlen + 1 >= Budget + Residual
    <3> DEFINE len == seqlen + 1
    <3>1. len \in Nat /\ len > Budget /\ len % Residual = 0
      BY <2>1, <2>5
    <3> HIDE DEF len
    <3>2. len >= Budget + Residual
      BY <2>1, <3>1, MultiplesApart
    <3> QED BY <3>2 DEF len
  <2> QED BY <2>1, <2>6
<1>2. Spec => []TypeOK
  BY TypeCorrect
<1> QED BY <1>1, <1>2, PTL DEF Spec, ResidualMoveDisjoint

(***************************************************************************)
(* What EvictLayer retains: a tracked layer's stamps are true and a capped *)
(* prompt stays whole; span copies stay where they were designed to be;    *)
(* and the layer implements RetentionCache.                                *)
(***************************************************************************)
-----------------------------------------------------------------------------
(* Counting.                                                               *)

(* k different members of a finite set are at most its cardinality.        *)
LEMMA DifferentMembers ==
  ASSUME NEW k \in Nat, NEW T, IsFiniteSet(T), NEW f \in [0..(k - 1) -> T],
         \A i, j \in 0..(k - 1) : i # j => f[i] # f[j]
  PROVE  k <= Cardinality(T)
<1>1. f \in Injection(0..(k - 1), T)
  BY Fun_IsInj
<1>2. Cardinality(0..(k - 1)) = k
  BY ONLY k \in Nat, FS_Interval
<1> QED BY <1>1, <1>2, FS_Injection

(* An increasing function on k ranks has k values.                         *)
LEMMA IncreasingImage ==
  ASSUME NEW k \in Nat, NEW f, \A i \in 0..(k - 1) : f[i] \in Int,
         \A i, j \in 0..(k - 1) : i < j => f[i] < f[j]
  PROVE  LET image == {f[i] : i \in 0..(k - 1)}
         IN  IsFiniteSet(image) /\ Cardinality(image) = k
<1> DEFINE D == 0..(k - 1)
           image == {f[i] : i \in D}
           g == [i \in D |-> f[i]]
<1>1. IsFiniteSet(D) /\ Cardinality(D) = k
  BY ONLY k \in Nat, FS_Interval
<1>2. \A i, j \in D : g[i] = g[j] => i = j
  <2> SUFFICES ASSUME NEW i \in D, NEW j \in D, f[i] = f[j], i # j PROVE FALSE
    OBVIOUS
  <2>1. i < j \/ j < i
    OBVIOUS
  <2> QED BY <2>1
<1>3. g \in Injection(D, image)
  <2>1. g \in [D -> image]
    OBVIOUS
  <2> QED BY <1>2, <2>1, Fun_IsInj
<1>4. g \in Surjection(D, image)
  BY DEF Surjection
<1>5. IsFiniteSet(image) /\ (Cardinality(image) = Cardinality(D) <=> g \in Injection(D, image))
  BY <1>1, <1>4, FS_Surjection
<1> QED BY <1>1, <1>3, <1>5

-----------------------------------------------------------------------------
(* A round, row by row.                                                    *)

(* One head's part of a round: the candidates are the first n of the rows  *)
(* the append has written, of which the ranks of f are kept.               *)
LEMMA RoundOf ==
  ASSUME OrderInv, Decode, EvictionDue(seqlen + 1), NEW ids,
         ids \in Choices(seqlen + 1), RoundWith(ids, seqlen + 1), NEW h \in Heads
  PROVE  LET n == (seqlen + 1) - Residual
             row == Appended(kv, 1)[h]
         IN  /\ n \in Nat /\ n >= KeepCount /\ n < seqlen + 1 /\ seqlen \in Nat
             /\ ids[h] \in Ascending(n)
             /\ \A i \in 0..(KeepCount - 1) :
                  /\ ids[h][i] \in 0..(n - 1) /\ ids[h][i] \in 0..seqlen
                  /\ kv'[h][i] = row[ids[h][i]]
             /\ \A i, j \in 0..(KeepCount - 1) : i < j => ids[h][i] < ids[h][j]
             /\ \A s \in n..seqlen : /\ s - (seqlen + 1 - Budget) \in KeepCount..(Budget - 1)
                                     /\ kv'[h][s - (seqlen + 1 - Budget)] = row[s]
<1> DEFINE n == (seqlen + 1) - Residual
           row == Appended(kv, 1)[h]
<1>1. /\ KeepCount \in Nat /\ Budget \in Nat /\ Residual \in Nat /\ Residual >= 1
      /\ KeepCount = Budget - Residual /\ seqlen \in Nat /\ seqlen + 1 > Budget
  BY KeepCountType, BudgetAssumption, DueType DEF KeepCount, OrderInv, TypeOK
<1>2. /\ ids[h] \in Ascending(n) /\ n \in Nat /\ n >= KeepCount
      /\ \A i \in 0..(KeepCount - 1) : ids[h][i] \in 0..(n - 1)
      /\ \A i, j \in 0..(KeepCount - 1) : i < j => ids[h][i] < ids[h][j]
  <2>1. seqlen + 1 \in Nat
    BY <1>1
  <2> QED BY <1>1, <2>1, ChoiceOf
<1>4. \A s \in 0..(Budget - 1) :
        kv'[h][s] = row[IF s < KeepCount THEN ids[h][s] ELSE seqlen + 1 - Budget + s]
  BY CompactedRows
<1>5. \A i \in 0..(KeepCount - 1) : kv'[h][i] = row[ids[h][i]] /\ ids[h][i] \in 0..seqlen
  BY <1>1, <1>2, <1>4
<1>6. ASSUME NEW s \in n..seqlen
      PROVE  /\ s - (seqlen + 1 - Budget) \in KeepCount..(Budget - 1)
             /\ kv'[h][s - (seqlen + 1 - Budget)] = row[s]
  <2> DEFINE t == s - (seqlen + 1 - Budget)
  <2>1. t \in KeepCount..(Budget - 1) /\ seqlen + 1 - Budget + t = s
    BY <1>1
  <2>2. t \in 0..(Budget - 1) /\ ~(t < KeepCount)
    BY <1>1, <2>1
  <2> HIDE DEF t, row
  <2>3. kv'[h][t] = row[s]
    BY <1>4, <2>1, <2>2
  <2> QED BY <2>1, <2>3 DEF t
<1>7. n < seqlen + 1
  BY <1>1
<1> HIDE DEF row
<1> QED BY <1>1, <1>2, <1>5, <1>6, <1>7 DEF row

(* A round drops no candidate of a higher priority than one it keeps.      *)
LEMMA RoundPriority ==
  ASSUME NEW len \in Nat, len > Budget, NEW ids \in Choices(len), RoundWith(ids, len),
         NEW h \in Heads, NEW s \in Nat, s < len - Residual, s \notin Kept(ids[h]),
         NEW t \in Kept(ids[h])
  PROVE  Priority(mode, h, len - Residual, s, FullPositions[h][s],
                  promptLen, archivists', holders')
           <= Priority(mode, h, len - Residual, t, FullPositions[h][t],
                       promptLen, archivists', holders')
<1> DEFINE n == len - Residual
<1>1. IsChoice(ids[h], h, n, FullPositions)
  BY DEF RoundWith
<1>2. t \in 0..(n - 1) /\ s \in 0..(n - 1)
  BY ChoiceOf DEF Kept
<1> QED BY <1>1, <1>2 DEF IsChoice, IsTopK

-----------------------------------------------------------------------------
(***************************************************************************)
(* Tracked positions.  Both buffers go through the same append, gather and *)
(* move, so that a designation by position is one by token; and the tokens *)
(* a capped prompt designates are fewer than the kept slots, so that a     *)
(* round that dropped one would have kept only designated rows, of which   *)
(* there are too few.                                                      *)
(***************************************************************************)
LEMMA PositionsStep ==
  ASSUME PositionsDescribeRows, [Next]_vars
  PROVE  PositionsDescribeRows'
<1>1. Tracked' <=> Tracked
  BY DEF Next, Prefill, Decode, vars, Tracked
<1> SUFFICES ASSUME Tracked PROVE positions' = kv'
  BY <1>1 DEF PositionsDescribeRows
<1>2. positions = kv
  BY DEF PositionsDescribeRows
<1>3. ASSUME NEW p \in Prompts, Prefill(p) PROVE positions' = kv'
  BY <1>2, <1>3 DEF Prefill
<1>4. CASE Decode
  <2>1. CASE EvictionDue(seqlen + 1)
    BY <1>2, <1>4, <2>1, RoundEffect DEF RoundWith
  <2>2. CASE ~EvictionDue(seqlen + 1)
    BY <1>2, <1>4, <2>2, AppendEffect
  <2> QED BY <2>1, <2>2
<1>5. CASE UNCHANGED vars
  BY <1>2, <1>5 DEF vars
<1> QED BY <1>3, <1>4, <1>5 DEF Next

(* An append drops no row.                                                 *)
LEMMA AppendHolds ==
  ASSUME OrderInv, Decode, ~EvictionDue(seqlen + 1), NEW h \in Heads, NEW p, Holds(h, p)
  PROVE  Holds(h, p)'
<1>1. PICK s \in Slots : kv[h][s] = p
  BY DEF Holds
<1>2. kv' = Appended(kv, 1) /\ seqlen' = seqlen + 1 /\ seqlen \in Nat
  BY AppendEffect DEF OrderInv, TypeOK
<1>3. s \in 0..seqlen /\ s < seqlen /\ s \in Slots'
  BY <1>1, <1>2 DEF Slots
<1>4. kv'[h][s] = p
  BY <1>1, <1>2, <1>3, AppendedRows
<1> QED BY <1>3, <1>4 DEF Holds

(* A round leaves the rows it kept and the residual, and no other.         *)
LEMMA RoundHolds ==
  ASSUME OrderInv, Decode, EvictionDue(seqlen + 1), NEW ids,
         ids \in Choices(seqlen + 1), RoundWith(ids, seqlen + 1), NEW h \in Heads, NEW p
  PROVE  Holds(h, p)' <=>
           \E s \in 0..seqlen : /\ Appended(kv, 1)[h][s] = p
                                /\ s \in Kept(ids[h]) \/ s >= (seqlen + 1) - Residual
<1> DEFINE n == (seqlen + 1) - Residual
           row == Appended(kv, 1)[h]
<1>1. /\ n \in Nat /\ n < seqlen + 1 /\ seqlen \in Nat
      /\ \A i \in 0..(KeepCount - 1) :
           ids[h][i] \in 0..seqlen /\ kv'[h][i] = row[ids[h][i]]
      /\ \A s \in n..seqlen : /\ s - (seqlen + 1 - Budget) \in KeepCount..(Budget - 1)
                              /\ kv'[h][s - (seqlen + 1 - Budget)] = row[s]
  BY RoundOf
<1>2. /\ KeepCount \in Nat /\ Budget \in Nat /\ Residual \in Nat
      /\ KeepCount = Budget - Residual
  BY KeepCountType, BudgetAssumption DEF KeepCount
<1>3. seqlen' = Budget /\ Slots' = 0..(Budget - 1)
  BY DEF RoundWith, Slots
<1> HIDE DEF row
<1>4. ASSUME NEW t \in 0..(Budget - 1), kv'[h][t] = p
      PROVE  \E s \in 0..seqlen : row[s] = p /\ (s \in Kept(ids[h]) \/ s >= n)
  <2>1. CASE t < KeepCount
    <3>1. t \in 0..(KeepCount - 1)
      BY <1>2, <2>1
    <3>2. ids[h][t] \in Kept(ids[h])
      BY <3>1 DEF Kept
    <3> QED BY <1>1, <1>4, <3>1, <3>2
  <2>2. CASE ~(t < KeepCount)
    <3>1. PICK s \in n..seqlen : t = s - (seqlen + 1 - Budget)
      <4> DEFINE s == t + (seqlen + 1 - Budget)
      <4>1. s \in n..seqlen /\ t = s - (seqlen + 1 - Budget)
        BY <1>1, <1>2, <2>2
      <4> QED BY <4>1
    <3>2. row[s] = p /\ s \in 0..seqlen /\ s >= n
      BY <1>1, <1>4, <3>1
    <3> QED BY <3>2
  <2> QED BY <2>1, <2>2
<1>5. ASSUME NEW s \in 0..seqlen, row[s] = p, s \in Kept(ids[h]) \/ s >= n
      PROVE  \E t \in 0..(Budget - 1) : kv'[h][t] = p
  <2>1. CASE s \in Kept(ids[h])
    <3>1. PICK i \in 0..(KeepCount - 1) : ids[h][i] = s
      BY <2>1 DEF Kept
    <3>2. kv'[h][i] = p /\ i \in 0..(Budget - 1)
      BY <1>1, <1>2, <1>5, <3>1
    <3> QED BY <3>2
  <2>2. CASE s >= n
    <3>1. s \in n..seqlen
      BY <1>1, <2>2
    <3>2. s - (seqlen + 1 - Budget) \in 0..(Budget - 1)
      BY <1>1, <1>2, <3>1
    <3> QED BY <1>1, <1>5, <3>1, <3>2
  <2> QED BY <1>5, <2>1, <2>2
<1>6. Holds(h, p)' <=> \E t \in 0..(Budget - 1) : kv'[h][t] = p
  BY <1>3 DEF Holds
<1> QED BY <1>4, <1>5, <1>6 DEF row

(* A mode that goes by positions pins no slot, and what it designates has  *)
(* a higher priority than anything else.                                   *)
LEMMA PriorityByPosition ==
  ASSUME mode \in PositionModes, NEW h \in Heads, NEW n \in Nat, n >= 1,
         NEW s \in 0..(n - 1), NEW p, NEW hold
  PROVE  LET prio == Priority(mode, h, n, s, p, promptLen, archivists', hold)
             designated == Designated(mode, h, p, promptLen, hold)
             blacklisted == Blacklisted(mode, h, p, hold)
         IN  prio = IF designated THEN n ELSE IF blacklisted THEN -1 ELSE 0
<1>1. PinnedPrefix(mode, h, promptLen, archivists') = 0
  BY DEF PinnedPrefix, FreeModes, SinkModes, PositionModes
<1>2. PinnedTail(mode, h, promptLen) = 0
  BY DEF PinnedTail, PositionModes
<1>3. ~AgeScored(mode, h)
  BY DEF AgeScored, PositionModes
<1> QED BY <1>1, <1>2, <1>3 DEF Priority

(* The rows of a round in which a designated candidate went missing are    *)
(* all designated.                                                         *)
LEMMA OnlyDesignatedKept ==
  ASSUME OrderInv, PositionsDescribeRows, Decode, EvictionDue(seqlen + 1),
         mode \in PositionModes, NEW ids, ids \in Choices(seqlen + 1),
         RoundWith(ids, seqlen + 1), NEW h \in Heads,
         NEW s \in 0..seqlen, s < (seqlen + 1) - Residual, s \notin Kept(ids[h]),
         Designated(mode, h, Appended(kv, 1)[h][s], promptLen, holders')
  PROVE  \A t \in Kept(ids[h]) :
           Designated(mode, h, Appended(kv, 1)[h][t], promptLen, holders')
<1> SUFFICES ASSUME NEW t \in Kept(ids[h])
             PROVE  Designated(mode, h, Appended(kv, 1)[h][t], promptLen, holders')
  OBVIOUS
<1> DEFINE n == (seqlen + 1) - Residual
           row == Appended(kv, 1)[h]
           prio(x) == Priority(mode, h, n, x, row[x], promptLen, archivists', holders')
<1>1. /\ n \in Nat /\ n >= KeepCount /\ KeepCount >= 1 /\ KeepCount \in Nat
      /\ seqlen \in Nat
      /\ \A i \in 0..(KeepCount - 1) : ids[h][i] \in 0..(n - 1)
  BY RoundOf, KeepCountType
<1>2. t \in 0..(n - 1) /\ s \in 0..(n - 1)
  <2>1. PICK i \in 0..(KeepCount - 1) : t = ids[h][i]
    BY DEF Kept
  <2>2. t \in 0..(n - 1)
    BY <1>1, <2>1
  <2>3. s \in 0..(n - 1)
    BY <1>1
  <2> QED BY <2>2, <2>3
<1>3. FullPositions = Appended(kv, 1)
  BY DEF FullPositions, Tracked, PositionsDescribeRows, PositionModes
<1>4. prio(s) <= prio(t)
  <2>1. seqlen + 1 \in Nat /\ seqlen + 1 > Budget
    BY DueType DEF OrderInv, TypeOK
  <2>2. Priority(mode, h, (seqlen + 1) - Residual, s, FullPositions[h][s],
                 promptLen, archivists', holders')
          <= Priority(mode, h, (seqlen + 1) - Residual, t, FullPositions[h][t],
                      promptLen, archivists', holders')
    BY <2>1, RoundPriority
  <2> QED BY <1>3, <2>2
<1>5. prio(s) = n
  BY <1>1, <1>2, PriorityByPosition
<1>6. prio(t) \in {n, 0, -1} /\ (prio(t) = n => n = 0 \/ Designated(mode, h, row[t], promptLen, holders'))
  BY <1>1, <1>2, PriorityByPosition
<1> HIDE DEF prio, n, row
<1>7. Designated(mode, h, row[t], promptLen, holders')
  BY <1>1, <1>4, <1>5, <1>6
<1> QED BY <1>7 DEF row

LEMMA CappedRound ==
  ASSUME OrderInv, PositionsDescribeRows, CappedPromptIntact, Decode, EvictionDue(seqlen + 1)
  PROVE  CappedPromptIntact'
<1>1. PICK ids : ids \in Choices(seqlen + 1) /\ RoundWith(ids, seqlen + 1)
  BY RoundEffect
<1>2. mode' = mode /\ promptLen' = promptLen /\ seqlen \in Nat /\ promptLen \in Nat
  BY <1>1 DEF RoundWith, OrderInv, TypeOK
<1> SUFFICES ASSUME mode = "random_pcap", NEW h \in Heads, NEW p \in 0..(promptLen - 1),
                    Designated(mode, h, p, promptLen, holders')
             PROVE  Holds(h, p)'
  BY <1>2 DEF CappedPromptIntact
<1>3. \A q \in Int : \A hold : Designated(mode, h, q, promptLen, hold) => q < Protected(promptLen)
  BY <1>2, PolicyAssumption, ProtectedType, KeepCountType DEF Designated, Least
<1>4. Designated(mode, h, p, promptLen, holders)
  BY DEF Designated
<1>5. PICK s \in Slots : kv[h][s] = p
  BY <1>4 DEF CappedPromptIntact, Holds
<1> DEFINE n == (seqlen + 1) - Residual
           row == Appended(kv, 1)[h]
<1>6. s \in 0..seqlen /\ row[s] = p
  <2>1. s \in 0..seqlen /\ s < seqlen
    BY <1>2, <1>5 DEF Slots
  <2> QED BY <1>5, <2>1, AppendedRows
<1>7. s \in Kept(ids[h]) \/ s >= n
  <2> SUFFICES ASSUME s \notin Kept(ids[h]), s < n PROVE FALSE
    BY <1>2, <1>6, BudgetAssumption
  <2>1. /\ n \in Nat /\ KeepCount \in Nat /\ KeepCount >= 1
        /\ \A i \in 0..(KeepCount - 1) : ids[h][i] \in 0..seqlen
        /\ \A i, j \in 0..(KeepCount - 1) : i < j => ids[h][i] < ids[h][j]
    BY <1>1, RoundOf, KeepCountType
  <2>2. \A t \in Kept(ids[h]) : Designated(mode, h, row[t], promptLen, holders')
    <3>1. s \in 0..seqlen /\ s < (seqlen + 1) - Residual
      BY <1>6
    <3>2. mode \in PositionModes
      BY DEF PositionModes
    <3>3. Designated(mode, h, Appended(kv, 1)[h][s], promptLen, holders')
      BY <1>6
    <3> QED BY <1>1, <3>1, <3>2, <3>3, OnlyDesignatedKept
  <2>3. \A x \in 0..seqlen : row[x] \in Nat
    BY AppendedRows
  <2>4. \A x, y \in 0..seqlen : x < y => row[x] < row[y]
    BY AppendedRows
  <2> HIDE DEF row, n
  <2> DEFINE g == [i \in 0..(KeepCount - 1) |-> row[ids[h][i]]]
             T == 0..(Protected(promptLen) - 1)
  <2>5. Protected(promptLen) \in 0..(KeepCount - 1)
    BY <1>2, ProtectedType
  <2>6. g \in [0..(KeepCount - 1) -> T]
    <3> SUFFICES ASSUME NEW i \in 0..(KeepCount - 1)
                 PROVE  row[ids[h][i]] \in T
      OBVIOUS
    <3>1. ids[h][i] \in Kept(ids[h]) /\ ids[h][i] \in 0..seqlen
      BY <2>1 DEF Kept
    <3>2. row[ids[h][i]] \in Nat /\ row[ids[h][i]] < Protected(promptLen)
      BY <1>3, <2>2, <2>3, <3>1
    <3> QED BY <2>5, <3>2
  <2>7. \A i, j \in 0..(KeepCount - 1) : i # j => g[i] # g[j]
    <3> SUFFICES ASSUME NEW i \in 0..(KeepCount - 1), NEW j \in 0..(KeepCount - 1), i < j
                 PROVE  row[ids[h][i]] < row[ids[h][j]]
      <4>1. \A x \in 0..(KeepCount - 1) : g[x] \in Int
        BY <2>5, <2>6
      <4> QED BY <2>1, <4>1
    <3> QED BY <2>1, <2>4
  <2>8. IsFiniteSet(T) /\ Cardinality(T) = Protected(promptLen)
    <3>1. Protected(promptLen) - 1 \in Int /\ Protected(promptLen) >= 0 /\ Protected(promptLen) \in Int
      BY <2>5
    <3> HIDE DEF Protected
    <3> QED BY ONLY <3>1, FS_Interval
  <2> HIDE DEF g, T
  <2>9. KeepCount <= Cardinality(T)
    BY <2>1, <2>6, <2>7, <2>8, DifferentMembers
  <2> QED BY <2>1, <2>5, <2>8, <2>9
<1> QED BY <1>1, <1>6, <1>7, RoundHolds

LEMMA CappedStep ==
  ASSUME OrderInv, PositionsDescribeRows, CappedPromptIntact, [Next]_vars
  PROVE  CappedPromptIntact'
<1>1. ASSUME NEW p \in Prompts, Prefill(p) PROVE CappedPromptIntact'
  <2>1. OrderInv' /\ ~evicted' /\ seqlen' = p /\ promptLen' = p
    BY <1>1, OrderPrefill DEF Prefill, OrderInv, NothingBeforePrompt
  <2>2. \A h \in Heads : \A s \in 0..(p - 1) : kv'[h][s] = s /\ s \in Slots'
    BY <2>1 DEF OrderInv, UntouchedBeforeRound, Slots
  <2>3. \A h \in Heads : \A s \in 0..(p - 1) : Holds(h, s)'
    BY <2>2 DEF Holds
  <2> QED BY <2>1, <2>3 DEF CappedPromptIntact
<1>2. CASE Decode /\ ~EvictionDue(seqlen + 1)
  <2>1. mode' = mode /\ promptLen' = promptLen /\ holders' = holders
    BY <1>2, AppendEffect
  <2>2. \A h \in Heads : \A q \in 0..(promptLen - 1) : Holds(h, q) => Holds(h, q)'
    BY <1>2, AppendHolds
  <2> QED BY <2>1, <2>2 DEF CappedPromptIntact
<1>3. CASE UNCHANGED vars
  BY <1>3 DEF vars, CappedPromptIntact, Holds, Slots
<1> QED BY <1>1, <1>2, <1>3, CappedRound DEF Next

(* The tracked positions name the tokens of the rows, in every mode that   *)
(* keeps them, and a capped prompt keeps every token it designates: for    *)
(* any number of rounds, heads, tokens and any cap.                        *)
THEOREM TrackedPromptKept == Spec => []TrackedPromptIntact
<1> DEFINE TrackInv == OrderInv /\ PositionsDescribeRows /\ CappedPromptIntact
<1>1. Init => TrackInv
  BY OrderInit DEF Init, PositionsDescribeRows, CappedPromptIntact
<1>2. TrackInv /\ [Next]_vars => TrackInv'
  BY OrderStep, PositionsStep, CappedStep
<1>3. TrackInv => TrackedPromptIntact
  BY DEF OrderInv, TrackedPromptIntact
<1> QED BY <1>1, <1>2, <1>3, PTL DEF Spec

-----------------------------------------------------------------------------
(***************************************************************************)
(* The refinement.  A pass without a round admits the new token; a pass    *)
(* with one is a round of the promise: it takes rows only from what was    *)
(* held, leaves as many as the budget, the prefix that the first round     *)
(* settled among them, and the residual.                                   *)
(***************************************************************************)
RefinementInv == OrderInv /\ PinnedPrefixIntact /\ seqlen <= cumulative

HeldBy(h) == {kv[h][s] : s \in Slots}
PinOf(h) == IF evicted THEN PinnedPrefix(mode, h, promptLen, archivists) ELSE 0

LEMMA RefinementInvInit ==
  ASSUME Init
  PROVE  RefinementInv
BY OrderInit DEF Init, RefinementInv, PinnedPrefixIntact, Slots

(* The invariant of PrefixKept, with the length of the cache added.        *)
LEMMA RefinementInvStep ==
  ASSUME RefinementInv, [Next]_vars, ForceHi <= ForceLo
  PROVE  RefinementInv'
<1>1. OrderInv' /\ seqlen \in Nat /\ cumulative \in Nat /\ seqlen <= cumulative
  BY OrderStep DEF RefinementInv, OrderInv, TypeOK
<1>2. PrefixInv
  BY DEF RefinementInv, PrefixInv
<1>3. ASSUME NEW p \in Prompts, Prefill(p)
      PROVE  PinnedPrefixIntact' /\ seqlen' <= cumulative'
  <2>1. ~evicted' /\ seqlen' = p /\ cumulative' = p /\ p \in Nat
    BY <1>3, LayerAssumption DEF Prefill, RefinementInv, OrderInv, NothingBeforePrompt
  <2> QED BY <1>1, <2>1 DEF OrderInv, UntouchedBeforeRound, PinnedPrefixIntact
<1>4. CASE Decode
  <2>1. PinnedPrefixIntact'
    BY <1>2, <1>4, PrefixRound, PrefixAppend
  <2>2. seqlen' <= cumulative'
    <3>1. CASE EvictionDue(seqlen + 1)
      <4>1. seqlen' = Budget /\ cumulative' = cumulative + 1
        BY <1>4, <3>1, RoundEffect DEF RoundWith
      <4> QED BY <1>1, <3>1, <4>1, DueType, BudgetAssumption
    <3>2. CASE ~EvictionDue(seqlen + 1)
      BY <1>1, <1>4, <3>2, AppendEffect
    <3> QED BY <3>1, <3>2
  <2> QED BY <1>1, <2>1, <2>2 DEF RefinementInv
<1>5. CASE UNCHANGED vars
  <2>1. PinnedPrefixIntact'
    BY <1>5 DEF vars, RefinementInv, PinnedPrefixIntact, Slots
  <2>2. seqlen' <= cumulative'
    BY <1>1, <1>5 DEF vars
  <2> QED BY <1>1, <2>1, <2>2 DEF RefinementInv
<1> QED BY <1>1, <1>3, <1>4, <1>5 DEF Next, RefinementInv

(* The promise counts as the layer does.                                   *)
LEMMA SameCount == \A S : Promise!Cardinality(S) = Cardinality(S)
BY DEF Promise!Cardinality, Cardinality

LEMMA InitPromised == Init => Promise!Init
<1> SUFFICES ASSUME Init PROVE Promise!Init
  OBVIOUS
<1>1. Slots = {} /\ cumulative = 0 /\ evicted = FALSE
  BY DEF Init, Slots
<1> QED BY <1>1 DEF Promise!Init

(* The prompt enters as a whole.                                           *)
LEMMA PrefillPromised ==
  ASSUME RefinementInv, NEW p \in Prompts, Prefill(p)
  PROVE  Promise!Next
<1>1. /\ p \in Nat /\ p # 0 /\ ~evicted /\ ~evicted' /\ cumulative = 0 /\ Slots = {}
      /\ cumulative' = p /\ seqlen' = p
  BY LayerAssumption
  DEF Prefill, RefinementInv, OrderInv, NothingBeforePrompt, UntouchedBeforeRound, Slots
<1>2. \A h \in Heads : HeldBy(h) = {} /\ HeldBy(h)' = 0..(p - 1)
  <2> SUFFICES ASSUME NEW h \in Heads PROVE HeldBy(h)' = 0..(p - 1)
    BY <1>1 DEF HeldBy
  <2>1. OrderInv'
    BY OrderPrefill DEF RefinementInv
  <2>2. Slots' = 0..(p - 1)
    BY <1>1 DEF Slots
  <2>3. \A s \in 0..(p - 1) : kv'[h][s] = s
    BY <1>1, <2>1, <2>2 DEF OrderInv, UntouchedBeforeRound
  <2> QED BY <2>2, <2>3 DEF HeldBy
<1>3. [h \in Heads |-> HeldBy(h)'] =
        [h \in Heads |-> HeldBy(h) \cup cumulative..(cumulative + cumulative' - 1)]
  BY <1>1, <1>2
<1>4. Promise!Admit(cumulative')
  <2>1. cumulative' = cumulative + cumulative'
    BY <1>1
  <2>4. evicted' = evicted
    BY DEF Prefill
  <2>2. [h \in Heads |-> {kv[h][s] : s \in Slots}]' =
          [h \in Heads |-> [g \in Heads |-> {kv[g][s] : s \in Slots}][h]
                              \cup cumulative..(cumulative + cumulative' - 1)]
    BY <1>3 DEF HeldBy
  <2>3. [h \in Heads |-> IF evicted THEN PinnedPrefix(mode, h, promptLen, archivists) ELSE 0]' =
          [h \in Heads |-> IF evicted THEN PinnedPrefix(mode, h, promptLen, archivists) ELSE 0]
    BY <1>1
  <2> QED BY <2>1, <2>2, <2>3, <2>4 DEF Promise!Admit
<1> QED BY <1>1, <1>4 DEF Promise!Next

(* A generated token that makes no round due enters every head.            *)
LEMMA AppendPromised ==
  ASSUME RefinementInv, Decode, ~EvictionDue(seqlen + 1)
  PROVE  Promise!Next
<1>1. /\ kv' = Appended(kv, 1) /\ seqlen' = seqlen + 1 /\ cumulative' = cumulative + 1
      /\ UNCHANGED <<archivists, evicted, mode, promptLen>>
      /\ seqlen \in Nat /\ cumulative \in Nat /\ seqlen > 0 /\ seqlen <= cumulative
  BY AppendEffect DEF Decode, RefinementInv, OrderInv, TypeOK
<1>2. \A h \in Heads : HeldBy(h)' = HeldBy(h) \cup cumulative..(cumulative + 1 - 1)
  <2> SUFFICES ASSUME NEW h \in Heads
               PROVE  HeldBy(h)' = HeldBy(h) \cup {cumulative}
    BY <1>1
  <2>1. Slots' = 0..seqlen /\ Slots = 0..(seqlen - 1) /\ 0..seqlen = 0..(seqlen - 1) \cup {seqlen}
    BY <1>1 DEF Slots
  <2>2. /\ \A s \in 0..(seqlen - 1) : kv'[h][s] = kv[h][s]
        /\ kv'[h][seqlen] = cumulative
    <3>1. kv \in Buffers(seqlen)
      BY DEF RefinementInv, OrderInv, TypeOK, Buffers, Slots
    <3>2. \A s \in 0..(seqlen + 1 - 1) :
            kv'[h][s] = IF s < seqlen THEN kv[h][s] ELSE cumulative + (s - seqlen)
      BY <1>1, <3>1, AppendedType
    <3> QED BY <1>1, <3>2
  <2> QED BY <2>1, <2>2 DEF HeldBy
<1>3. \A h \in Heads : PinOf(h)' = PinOf(h)
  BY <1>1 DEF PinOf
<1>4. Promise!Admit(1)
  BY <1>1, <1>2, <1>3 DEF Promise!Admit, HeldBy, PinOf
<1>5. cumulative > 0
  BY <1>1
<1> QED BY <1>4, <1>5 DEF Promise!Next

(* What a round leaves in one head.                                        *)
LEMMA RoundLeaves ==
  ASSUME RefinementInv, Decode, EvictionDue(seqlen + 1), ForceHi <= ForceLo, NEW h \in Heads
  PROVE  /\ HeldBy(h)' \subseteq HeldBy(h) \cup {cumulative}
         /\ HeldBy(h)' \subseteq 0..cumulative
         /\ Cardinality(HeldBy(h)') = Budget
         /\ PinOf(h)' \in 0..KeepCount
         /\ 0..(PinOf(h)' - 1) \subseteq HeldBy(h)'
         /\ (cumulative + 1 - Residual)..cumulative \subseteq HeldBy(h)'
<1>1. RefinementInv' /\ OrderInv' /\ OrderInv
  BY RefinementInvStep DEF RefinementInv, Next
<1>2. PICK ids : ids \in Choices(seqlen + 1) /\ RoundWith(ids, seqlen + 1)
  BY RoundEffect
<1>3. /\ seqlen' = Budget /\ evicted' /\ cumulative' = cumulative + 1 /\ Slots' = 0..(Budget - 1)
      /\ promptLen' \in Nat /\ cumulative \in Nat /\ seqlen \in Nat
  BY <1>1, <1>2 DEF RoundWith, Slots, OrderInv, TypeOK
<1>4. /\ Budget \in Nat /\ Residual \in Nat /\ KeepCount \in Nat
      /\ KeepCount = Budget - Residual /\ KeepCount < Budget
  BY KeepCountType, BudgetAssumption DEF KeepCount
<1>5. \A s \in 0..(Budget - 1) : kv'[h][s] \in Nat /\ kv'[h][s] < cumulative + 1
  BY <1>1, <1>3 DEF OrderInv, TypeOK, BelowNow
<1>6. HeldBy(h)' = {kv'[h][s] : s \in 0..(Budget - 1)}
  BY <1>3 DEF HeldBy
<1>7. HeldBy(h)' \subseteq 0..cumulative
  BY <1>3, <1>5, <1>6
<1>8. HeldBy(h)' \subseteq HeldBy(h) \cup {cumulative}
  <2> SUFFICES ASSUME NEW p \in HeldBy(h)', p # cumulative PROVE p \in HeldBy(h)
    OBVIOUS
  <2>1. Holds(h, p)'
    BY <1>3, <1>6 DEF Holds
  <2>2. PICK s \in 0..seqlen : Appended(kv, 1)[h][s] = p
    BY <1>1, <1>2, <2>1, RoundHolds
  <2>3. CASE s < seqlen
    <3>1. kv[h][s] = p /\ s \in Slots
      BY <1>1, <1>3, <2>2, <2>3, AppendedRows DEF Slots
    <3> QED BY <3>1 DEF HeldBy
  <2>4. CASE ~(s < seqlen)
    <3>1. s = seqlen
      BY <1>3, <2>4
    <3>2. kv \in Buffers(seqlen)
      BY <1>1 DEF OrderInv, TypeOK, Buffers, Slots
    <3>3. \A x \in 0..(seqlen + 1 - 1) : Appended(kv, 1)[h][x] =
            IF x < seqlen THEN kv[h][x] ELSE cumulative + (x - seqlen)
      BY <1>3, <3>2, AppendedType
    <3>4. p = cumulative
      BY <1>3, <2>2, <3>1, <3>3
    <3> QED BY <2>2, <3>4
  <2> QED BY <2>3, <2>4
<1>9. Cardinality(HeldBy(h)') = Budget
  <2>1. \A s, t \in 0..(Budget - 1) : s < t => kv'[h][s] < kv'[h][t]
    BY <1>1, <1>3 DEF OrderInv, Chronological
  <2> DEFINE f == [s \in 0..(Budget - 1) |-> kv'[h][s]]
  <2>2. /\ \A s \in 0..(Budget - 1) : f[s] \in Int
        /\ \A s, t \in 0..(Budget - 1) : s < t => f[s] < f[t]
        /\ HeldBy(h)' = {f[s] : s \in 0..(Budget - 1)}
    BY <1>5, <1>6, <2>1
  <2> HIDE DEF f
  <2> QED BY <1>4, <2>2, IncreasingImage
<1>10. PinOf(h)' \in 0..KeepCount
  BY <1>3, PinnedPrefixType DEF PinOf
<1>11. 0..(PinOf(h)' - 1) \subseteq HeldBy(h)'
  <2> SUFFICES ASSUME NEW s \in 0..(PinOf(h)' - 1) PROVE s \in HeldBy(h)'
    OBVIOUS
  <2>1. s \in Slots' /\ s < PinOf(h)'
    BY <1>3, <1>4, <1>10
  <2>2. kv'[h][s] = s
    BY <1>1, <1>3, <2>1 DEF RefinementInv, PinnedPrefixIntact, PinOf
  <2> QED BY <2>1, <2>2 DEF HeldBy
<1>12. (cumulative + 1 - Residual)..cumulative \subseteq HeldBy(h)'
  <2> SUFFICES ASSUME NEW p \in (cumulative + 1 - Residual)..cumulative
               PROVE  p \in HeldBy(h)'
    OBVIOUS
  <2>1. PICK s \in KeepCount..(Budget - 1) : p = cumulative + 1 - Budget + s
    <3> DEFINE s == p - (cumulative + 1 - Budget)
    <3>1. s \in KeepCount..(Budget - 1) /\ p = cumulative + 1 - Budget + s
      BY <1>3, <1>4
    <3> QED BY <3>1
  <2>2. GuaranteedTail(h)' \in Nat /\ GuaranteedTail(h)' >= Residual
    <3>1. /\ PinnedPrefix(mode, h, promptLen, archivists)' \in 0..KeepCount
          /\ PinnedTail(mode, h, promptLen)' \in 0..(KeepCount - PinnedPrefix(mode, h, promptLen, archivists)')
      BY <1>3, PinnedPrefixType, PinnedTailType
    <3> QED BY <1>4, <3>1 DEF GuaranteedTail
  <2>3. s \in Slots' /\ s >= seqlen' - GuaranteedTail(h)'
    BY <1>3, <1>4, <2>2
  <2>4. kv'[h][s] = cumulative' - seqlen' + s
    BY <1>1, <1>3, <2>3 DEF OrderInv, WindowIsNewest
  <2>5. kv'[h][s] = p
    BY <1>3, <1>4, <2>1, <2>4
  <2> QED BY <2>3, <2>5 DEF HeldBy
<1> QED BY <1>7, <1>8, <1>9, <1>10, <1>11, <1>12

LEMMA RoundPromised ==
  ASSUME RefinementInv, Decode, EvictionDue(seqlen + 1), ForceHi <= ForceLo
  PROVE  Promise!Next
<1>1. /\ evicted' = TRUE /\ cumulative' = cumulative + 1 /\ cumulative \in Nat
      /\ mode' = mode /\ promptLen' = promptLen /\ DrawRoles
      /\ seqlen > 0 /\ seqlen <= cumulative /\ seqlen \in Nat
  BY RoundEffect DEF RoundWith, Decode, RefinementInv, OrderInv, TypeOK
<1>2. \A h \in Heads :
        /\ HeldBy(h)' \subseteq HeldBy(h) \cup {cumulative}
        /\ HeldBy(h)' \subseteq 0..cumulative
        /\ Cardinality(HeldBy(h)') = Budget
        /\ PinOf(h)' \in 0..KeepCount
        /\ 0..(PinOf(h)' - 1) \subseteq HeldBy(h)'
        /\ (cumulative + 1 - Residual)..cumulative \subseteq HeldBy(h)'
  BY RoundLeaves
<1>3. evicted => \A h \in Heads : PinOf(h)' = PinOf(h)
  BY <1>1 DEF PinOf, DrawRoles
<1> DEFINE now == [h \in Heads |-> HeldBy(h)]
           next == [h \in Heads |-> HeldBy(h)']
           pinned == [h \in Heads |-> PinOf(h)']
<1>4. IF evicted THEN pinned = [h \in Heads |-> PinOf(h)]
                 ELSE pinned \in [Heads -> 0..(Budget - Residual)]
  BY <1>2, <1>3 DEF KeepCount
<1>5. /\ cumulative..(cumulative + 1 - 1) = {cumulative}
      /\ 0..(cumulative + 1 - 1) = 0..cumulative
      /\ (cumulative + 1 - Residual)..(cumulative + 1 - 1) = (cumulative + 1 - Residual)..cumulative
  BY <1>1
<1>6. next \in [Heads -> SUBSET (0..(cumulative + 1 - 1))]
  BY <1>2, <1>5
<1>7. \A h \in Heads :
        /\ next[h] \subseteq now[h] \cup cumulative..(cumulative + 1 - 1)
        /\ Cardinality(next[h]) = Budget
        /\ 0..(pinned[h] - 1) \subseteq next[h]
        /\ (cumulative + 1 - Residual)..(cumulative + 1 - 1) \subseteq next[h]
  BY <1>2, <1>5
<1>8. Promise!Round(1)
  <2> DEFINE held == [h \in Heads |-> {kv[h][s] : s \in Slots}]
             pin == [h \in Heads |-> IF evicted
                                      THEN PinnedPrefix(mode, h, promptLen, archivists)
                                      ELSE 0]
  <2>1. held = now /\ held' = next /\ pin = [h \in Heads |-> PinOf(h)] /\ pin' = pinned
    BY DEF HeldBy, PinOf
  <2>2. IF evicted THEN pin' = pin ELSE pin' \in [Heads -> 0..(Budget - Residual)]
    BY <1>4, <2>1
  <2>3. held' \in [Heads -> SUBSET (0..(cumulative + 1 - 1))]
    BY <1>6, <2>1
  <2>4. \A h \in Heads :
          /\ held'[h] \subseteq held[h] \cup cumulative..(cumulative + 1 - 1)
          /\ Promise!Cardinality(held'[h]) = Budget
          /\ 0..(pin'[h] - 1) \subseteq held'[h]
          /\ (cumulative + 1 - Residual)..(cumulative + 1 - 1) \subseteq held'[h]
    BY <1>7, <2>1, SameCount
  <2>5. cumulative' = cumulative + 1
    BY <1>1
  <2>6. evicted' = TRUE
    BY <1>1
  <2> HIDE DEF now, next, pinned
  <2> QED BY <2>2, <2>3, <2>4, <2>5, <2>6, Zenon DEF Promise!Round
<1>9. cumulative > 0
  BY <1>1
<1> QED BY <1>8, <1>9 DEF Promise!Next

(* Unless FORCE_KEEP_RANGE is set, every behaviour of the layer is one of  *)
(* the retention promise, in every mode and for every number of rounds.    *)
THEOREM PromiseImplemented == ForceHi <= ForceLo => (Spec => ImplementsPromise)
<1> SUFFICES ASSUME ForceHi <= ForceLo PROVE Spec => ImplementsPromise
  OBVIOUS
<1>1. Init => RefinementInv
  BY RefinementInvInit
<1>2. RefinementInv /\ [Next]_vars => RefinementInv'
  BY RefinementInvStep
<1>3. RefinementInv /\ [Next]_vars => [Promise!Next]_(Promise!rvars)
  <2>1. CASE UNCHANGED vars
    BY <2>1 DEF vars, Promise!rvars, Slots
  <2> QED BY <2>1, PrefillPromised, AppendPromised, RoundPromised DEF Next
<1>4. Init => Promise!Init
  BY InitPromised
<1> QED BY <1>1, <1>2, <1>3, <1>4, PTL DEF Spec, ImplementsPromise, Promise!Spec

-----------------------------------------------------------------------------
(***************************************************************************)
(* Span copies.  That a pinned token stays needs the spans to be smaller   *)
(* than the kept set; that a blacklisted one goes needs, at the first      *)
(* round, fewer of them than the round drops, and at least a residual is   *)
(* dropped.  Later rounds need no more: the kept rows of the last one hold *)
(* no blacklisted token, so they alone fill the next one.                  *)
(***************************************************************************)
SpanTokens == UNION {sp.lo..(sp.hi - 1) : sp \in Spans}

SpansFit ==
  /\ IsFiniteSet(SpanTokens)
  /\ Cardinality(SpanTokens) <= KeepCount
  /\ Cardinality(SpanTokens) <= Residual

(* Behind the kept rows of the last round the rows follow without a gap.   *)
BehindKept ==
  evicted => \A h \in Heads : \A s \in Slots :
               s >= KeepCount => kv[h][s] = cumulative - seqlen + s

SpanInv == OrderInv /\ PositionsDescribeRows /\ BehindKept /\ SpanCopiesExact

LEMMA BehindKeptStep ==
  ASSUME OrderInv, BehindKept, [Next]_vars
  PROVE  BehindKept'
<1>1. /\ KeepCount \in Nat /\ Budget \in Nat /\ Residual \in Nat
      /\ KeepCount = Budget - Residual /\ KeepCount < Budget
  BY KeepCountType, BudgetAssumption DEF KeepCount
<1>2. OrderInv' /\ seqlen \in Nat /\ cumulative \in Nat
  BY OrderStep DEF OrderInv, TypeOK
<1>3. ASSUME NEW p \in Prompts, Prefill(p) PROVE BehindKept'
  BY <1>3 DEF Prefill, OrderInv, NothingBeforePrompt, BehindKept
<1>4. CASE Decode /\ ~EvictionDue(seqlen + 1)
  <2>1. /\ kv' = Appended(kv, 1) /\ seqlen' = seqlen + 1 /\ cumulative' = cumulative + 1
        /\ evicted' = evicted /\ Slots' = 0..seqlen
    BY <1>2, <1>4, AppendEffect DEF Slots
  <2> SUFFICES ASSUME evicted, NEW h \in Heads, NEW s \in 0..seqlen, s >= KeepCount
               PROVE  Appended(kv, 1)[h][s] = cumulative - seqlen + s
    BY <1>2, <2>1 DEF BehindKept
  <2>2. CASE s < seqlen
    <3>1. s \in Slots /\ Appended(kv, 1)[h][s] = kv[h][s]
      BY <1>2, <1>4, <2>2, AppendedRows DEF Slots
    <3> QED BY <3>1 DEF BehindKept
  <2>3. CASE ~(s < seqlen)
    <3>1. s = seqlen /\ GuaranteedTail(h) \in Nat /\ GuaranteedTail(h) >= 1
      <4>1. /\ PinnedPrefix(mode, h, promptLen, archivists) \in 0..KeepCount
            /\ PinnedTail(mode, h, promptLen) \in 0..(KeepCount - PinnedPrefix(mode, h, promptLen, archivists))
        BY PinnedPrefixType, PinnedTailType DEF OrderInv, TypeOK
      <4>2. Residual >= 1
        BY BudgetAssumption
      <4> QED BY <1>1, <1>2, <2>3, <4>1, <4>2 DEF GuaranteedTail
    <3> QED BY <1>2, <1>4, <3>1, AppendedRows
  <2> QED BY <2>2, <2>3
<1>5. CASE Decode /\ EvictionDue(seqlen + 1)
  <2>1. seqlen' = Budget /\ cumulative' = cumulative + 1 /\ evicted'
    BY <1>5, RoundEffect DEF RoundWith
  <2> SUFFICES ASSUME NEW h \in Heads, NEW s \in Slots', s >= KeepCount
               PROVE  kv'[h][s] = cumulative' - seqlen' + s
    BY DEF BehindKept
  <2>2. GuaranteedTail(h)' \in Nat /\ GuaranteedTail(h)' >= Residual
    <3>1. promptLen' \in Nat
      BY <1>2 DEF OrderInv, TypeOK
    <3>2. /\ PinnedPrefix(mode, h, promptLen, archivists)' \in 0..KeepCount
          /\ PinnedTail(mode, h, promptLen)' \in 0..(KeepCount - PinnedPrefix(mode, h, promptLen, archivists)')
      BY <3>1, PinnedPrefixType, PinnedTailType
    <3> QED BY <1>1, <3>2 DEF GuaranteedTail
  <2>3. s >= seqlen' - GuaranteedTail(h)'
    BY <1>1, <2>1, <2>2 DEF Slots
  <2> QED BY <1>2, <2>1, <2>3 DEF OrderInv, WindowIsNewest
<1>6. CASE UNCHANGED vars
  BY <1>6 DEF vars, BehindKept, Slots
<1> QED BY <1>3, <1>4, <1>5, <1>6 DEF Next

(* Between rounds no token a span is judged by comes or goes.              *)
LEMMA SpanAppend ==
  ASSUME OrderInv, SpanCopiesExact, Decode, ~EvictionDue(seqlen + 1)
  PROVE  SpanCopiesExact'
<1>1. /\ kv' = Appended(kv, 1) /\ seqlen' = seqlen + 1 /\ cumulative' = cumulative + 1
      /\ evicted' = evicted /\ mode' = mode /\ holders' = holders
      /\ seqlen \in Nat /\ cumulative \in Nat
  BY AppendEffect DEF OrderInv, TypeOK
<1>2. /\ KeepCount \in Nat /\ Budget \in Nat /\ KeepCount < Budget
      /\ evicted => seqlen >= Budget
  BY KeepCountType, BudgetAssumption DEF KeepCount, OrderInv, FullAfterRound
<1> SUFFICES ASSUME mode = "synth_pin", evicted, NEW sp \in Spans,
                    NEW p \in sp.lo..(sp.hi - 1), p < Judged', NEW h \in Heads
             PROVE  Holds(h, p)' <=> h \in holders[sp]
  BY <1>1 DEF SpanCopiesExact
<1>3. p \in Int
  BY PolicyAssumption
<1>4. Judged' = Judged /\ Judged <= cumulative /\ Judged \in Int
  BY <1>1, <1>2 DEF Judged
<1>5. Holds(h, p) <=> h \in holders[sp]
  BY <1>4 DEF SpanCopiesExact
<1>6. Holds(h, p) => Holds(h, p)'
  BY AppendHolds
<1>7. ASSUME Holds(h, p)' PROVE Holds(h, p)
  <2>1. PICK s \in 0..seqlen : Appended(kv, 1)[h][s] = p
    BY <1>1, <1>7 DEF Holds, Slots
  <2>2. kv \in Buffers(seqlen)
    BY DEF OrderInv, TypeOK, Buffers, Slots
  <2>3. \A x \in 0..(seqlen + 1 - 1) : Appended(kv, 1)[h][x] =
          IF x < seqlen THEN kv[h][x] ELSE cumulative + (x - seqlen)
    BY <1>1, <2>2, AppendedType
  <2>4. s < seqlen /\ kv[h][s] = p
    BY <1>1, <1>3, <1>4, <2>1, <2>3
  <2> QED BY <1>1, <2>1, <2>4 DEF Holds, Slots
<1> QED BY <1>5, <1>6, <1>7

(* A token of two spans would be of the same one.                          *)
LEMMA SpanOf ==
  ASSUME NEW sp \in Spans, NEW other \in Spans, NEW p \in Int, InSpan(sp, p), InSpan(other, p)
  PROVE  sp = other
<1>1. /\ sp.lo \in Nat /\ sp.hi \in Nat /\ other.lo \in Nat /\ other.hi \in Nat
      /\ sp = other \/ sp.hi <= other.lo \/ other.hi <= sp.lo
  BY PolicyAssumption
<1> QED BY <1>1 DEF InSpan

LEMMA InSpanTokens ==
  ASSUME NEW sp \in Spans, NEW p \in Int, InSpan(sp, p)
  PROVE  p \in SpanTokens
<1>1. p \in sp.lo..(sp.hi - 1)
  BY PolicyAssumption DEF InSpan
<1> QED BY <1>1 DEF SpanTokens

(* The rows of a pass with a round due: the judged tokens are the          *)
(* candidates' ones, and every token a head must still hold is there.      *)
LEMMA SpanRows ==
  ASSUME SpanInv, mode = "synth_pin", Decode, EvictionDue(seqlen + 1), DrawRoles,
         NEW h \in Heads, NEW sp \in Spans, NEW p \in Int, InSpan(sp, p)
  PROVE  LET n == (seqlen + 1) - Residual
             row == Appended(kv, 1)[h]
         IN  /\ p < cumulative + 1 - Residual =>
                  \A s \in 0..seqlen : row[s] = p => s < n
             /\ p < cumulative + 1 - Residual /\ h \in holders'[sp] =>
                  \E s \in 0..seqlen : row[s] = p
             /\ evicted /\ h \notin holders'[sp] =>
                  \A s \in 0..(n - 1) : row[s] = p => s >= KeepCount
<1> DEFINE n == (seqlen + 1) - Residual
           row == Appended(kv, 1)[h]
<1>1. /\ KeepCount \in Nat /\ Budget \in Nat /\ Residual \in Nat /\ Residual >= 1
      /\ KeepCount = Budget - Residual /\ KeepCount < Budget
      /\ seqlen \in Nat /\ cumulative \in Nat /\ seqlen + 1 > Budget
  BY KeepCountType, BudgetAssumption, DueType DEF KeepCount, SpanInv, OrderInv, TypeOK
<1>2. GuaranteedTail(h) \in Nat /\ GuaranteedTail(h) >= Residual
  <2>1. /\ PinnedPrefix(mode, h, promptLen, archivists) \in 0..KeepCount
        /\ PinnedTail(mode, h, promptLen) \in 0..(KeepCount - PinnedPrefix(mode, h, promptLen, archivists))
    BY PinnedPrefixType, PinnedTailType DEF SpanInv, OrderInv, TypeOK
  <2> QED BY <1>1, <2>1 DEF GuaranteedTail
<1>3. \A s \in 0..seqlen :
        /\ s < seqlen => row[s] = kv[h][s]
        /\ ~evicted => row[s] = s
        /\ (evicted => s >= seqlen + 1 - GuaranteedTail(h)) => row[s] = cumulative - seqlen + s
  BY AppendedRows DEF SpanInv
<1>4. /\ ~evicted => seqlen = cumulative
      /\ evicted => seqlen >= Budget /\ holders' = holders
  BY DEF SpanInv, OrderInv, UntouchedBeforeRound, FullAfterRound, DrawRoles
<1>5. p \in sp.lo..(sp.hi - 1) /\ p \in Nat
  BY PolicyAssumption DEF InSpan
<1> HIDE DEF row
<1>6. ASSUME p < cumulative + 1 - Residual, NEW s \in 0..seqlen, row[s] = p
      PROVE  s < n
  <2> SUFFICES ASSUME s >= n PROVE FALSE
    BY <1>1
  <2>1. row[s] = cumulative - seqlen + s
    BY <1>1, <1>2, <1>3
  <2> QED BY <1>1, <1>6, <2>1
<1>7. ASSUME p < cumulative + 1 - Residual, h \in holders'[sp]
      PROVE  \E s \in 0..seqlen : row[s] = p
  <2>1. CASE ~evicted
    <3>1. p \in 0..seqlen /\ row[p] = p
      BY <1>1, <1>3, <1>4, <1>5, <1>7, <2>1
    <3> QED BY <3>1
  <2>2. CASE evicted /\ p < Judged
    <3>1. Holds(h, p)
      BY <1>4, <1>5, <1>7, <2>2 DEF SpanInv, SpanCopiesExact
    <3>2. PICK s \in 0..(seqlen - 1) : kv[h][s] = p
      BY <3>1 DEF Holds, Slots
    <3> QED BY <1>1, <1>3, <3>2
  <2>3. CASE evicted /\ ~(p < Judged)
    <3> DEFINE s == p - cumulative + seqlen
    <3>1. s \in 0..(seqlen - 1) /\ s >= KeepCount /\ s < seqlen /\ cumulative - seqlen + s = p
      BY <1>1, <1>4, <1>5, <1>7, <2>3 DEF Judged
    <3> HIDE DEF s
    <3>2. kv[h][s] = p
      BY <2>3, <3>1 DEF SpanInv, BehindKept, Slots
    <3>3. s \in 0..seqlen /\ row[s] = p
      BY <1>1, <1>3, <3>1, <3>2
    <3> QED BY <3>3
  <2> QED BY <2>1, <2>2, <2>3
<1>8. ASSUME evicted, h \notin holders'[sp], NEW s \in 0..(n - 1), row[s] = p
      PROVE  s >= KeepCount
  <2> SUFFICES ASSUME s < KeepCount PROVE FALSE
    BY <1>1
  <2>1. s \in Slots /\ KeepCount \in Slots /\ kv[h][s] = p
    BY <1>1, <1>3, <1>4, <1>8 DEF Slots
  <2>2. kv[h][s] < kv[h][KeepCount]
    BY <1>1, <2>1 DEF SpanInv, OrderInv, Chronological
  <2>3. kv[h][KeepCount] = Judged
    BY <1>1, <1>8, <2>1 DEF SpanInv, BehindKept, Judged
  <2>4. p < Judged /\ Holds(h, p)
    BY <2>1, <2>2, <2>3 DEF Holds
  <2> QED BY <1>4, <1>5, <1>8, <2>4 DEF SpanInv, SpanCopiesExact
<1> QED BY <1>6, <1>7, <1>8 DEF row

(* A candidate the head pins is kept: a round that dropped it would have   *)
(* kept only pinned rows, and there are too few.                           *)
LEMMA PinnedStays ==
  ASSUME SpanInv, SpansFit, mode = "synth_pin", Decode, EvictionDue(seqlen + 1), NEW ids,
         ids \in Choices(seqlen + 1), RoundWith(ids, seqlen + 1), NEW h \in Heads,
         NEW sp \in Spans, h \in holders'[sp], NEW p \in Int, InSpan(sp, p),
         NEW s \in 0..seqlen, s < (seqlen + 1) - Residual, Appended(kv, 1)[h][s] = p
  PROVE  s \in Kept(ids[h])
<1> SUFFICES ASSUME s \notin Kept(ids[h]) PROVE FALSE
  OBVIOUS
<1> DEFINE row == Appended(kv, 1)[h]
<1>1. /\ KeepCount \in Nat /\ seqlen \in Nat /\ OrderInv
      /\ \A i \in 0..(KeepCount - 1) : ids[h][i] \in 0..seqlen
      /\ \A i, j \in 0..(KeepCount - 1) : i < j => ids[h][i] < ids[h][j]
  BY RoundOf, KeepCountType DEF SpanInv
<1>2. Designated(mode, h, row[s], promptLen, holders')
  BY DEF Designated
<1>3. \A t \in Kept(ids[h]) : Designated(mode, h, row[t], promptLen, holders')
  <2>1. mode \in PositionModes
    BY DEF PositionModes
  <2> QED BY <1>2, <2>1, OnlyDesignatedKept DEF SpanInv
<1>4. \A x \in 0..seqlen : row[x] \in Nat
  BY <1>1, AppendedRows
<1>5. \A x, y \in 0..seqlen : x < y => row[x] < row[y]
  BY <1>1, AppendedRows
<1> HIDE DEF row
<1>6. ASSUME NEW q \in Int, Designated(mode, h, q, promptLen, holders')
      PROVE  q \in SpanTokens
  BY <1>6, InSpanTokens DEF Designated
<1> DEFINE T == SpanTokens \ {p}
           g == [i \in 0..(KeepCount - 1) |-> row[ids[h][i]]]
<1>7. g \in [0..(KeepCount - 1) -> T]
  <2> SUFFICES ASSUME NEW i \in 0..(KeepCount - 1) PROVE row[ids[h][i]] \in T
    OBVIOUS
  <2>1. ids[h][i] \in 0..seqlen /\ ids[h][i] \in Kept(ids[h])
    BY <1>1 DEF Kept
  <2>2. row[ids[h][i]] \in Nat /\ row[ids[h][i]] \in SpanTokens
    BY <1>3, <1>4, <1>6, <2>1
  <2>3. row[ids[h][i]] # p
    <3>1. ids[h][i] # s
      BY <2>1
    <3>2. ids[h][i] < s \/ s < ids[h][i]
      BY <1>1, <2>1, <3>1
    <3> QED BY <1>4, <1>5, <2>1, <3>2 DEF row
  <2> QED BY <2>2, <2>3
<1>8. \A i, j \in 0..(KeepCount - 1) : i # j => g[i] # g[j]
  <2>1. \A i, j \in 0..(KeepCount - 1) : i < j => row[ids[h][i]] < row[ids[h][j]]
    BY <1>1, <1>5
  <2>2. \A i \in 0..(KeepCount - 1) : row[ids[h][i]] \in Nat
    BY <1>1, <1>4
  <2> QED BY <1>1, <2>1, <2>2
<1>9. IsFiniteSet(T) /\ Cardinality(T) = Cardinality(SpanTokens) - 1 /\ Cardinality(SpanTokens) \in Nat
  BY InSpanTokens, FS_RemoveElement, FS_CardinalityType DEF SpansFit
<1> HIDE DEF T, g
<1>10. KeepCount <= Cardinality(T)
  BY <1>1, <1>7, <1>8, <1>9, DifferentMembers
<1> QED BY <1>1, <1>9, <1>10 DEF SpansFit

(* A candidate the head does not pin is dropped: a round that kept it      *)
(* would have dropped only blacklisted rows, and there are too few.        *)
LEMMA BlacklistedGoes ==
  ASSUME SpanInv, SpansFit, mode = "synth_pin", Decode, EvictionDue(seqlen + 1), NEW ids,
         ids \in Choices(seqlen + 1), RoundWith(ids, seqlen + 1), NEW h \in Heads,
         NEW sp \in Spans, h \notin holders'[sp], NEW p \in Int, InSpan(sp, p),
         NEW s \in Kept(ids[h]), Appended(kv, 1)[h][s] = p
  PROVE  FALSE
<1> DEFINE n == (seqlen + 1) - Residual
           row == Appended(kv, 1)[h]
           prio(x) == Priority(mode, h, n, x, row[x], promptLen, archivists', holders')
           lost(q) == \E other \in Spans : InSpan(other, q) /\ h \notin holders'[other]
           U == ((0..(n - 1)) \ Kept(ids[h])) \cup {s}
<1>1. /\ KeepCount \in Nat /\ KeepCount >= 1 /\ seqlen \in Nat /\ OrderInv
      /\ n \in Nat /\ n >= KeepCount /\ n < seqlen + 1
      /\ \A i \in 0..(KeepCount - 1) : ids[h][i] \in 0..(n - 1)
      /\ \A i, j \in 0..(KeepCount - 1) : i < j => ids[h][i] < ids[h][j]
  BY RoundOf, KeepCountType DEF SpanInv
<1>2. /\ Budget \in Nat /\ Residual \in Nat \ {0} /\ KeepCount = Budget - Residual
      /\ Budget % Residual = 0 /\ seqlen + 1 > Budget /\ seqlen + 1 \in Nat
  BY <1>1, BudgetAssumption, DueType DEF KeepCount
<1>3. Kept(ids[h]) \subseteq 0..(n - 1)
  BY <1>1 DEF Kept
<1>4. \A x \in 0..(n - 1) : row[x] \in Nat
  <2>1. \A x \in 0..seqlen : row[x] \in Nat
    BY <1>1, AppendedRows
  <2> QED BY <1>1, <2>1
<1>5. \A q : Blacklisted(mode, h, q, holders') <=> lost(q)
  BY DEF Blacklisted
<1>6. \A q \in Int : lost(q) => ~Designated(mode, h, q, promptLen, holders')
  <2> SUFFICES ASSUME NEW q \in Int, NEW other \in Spans, InSpan(other, q),
                      h \notin holders'[other],
                      Designated(mode, h, q, promptLen, holders')
               PROVE  FALSE
    OBVIOUS
  <2>1. PICK pinned \in Spans : InSpan(pinned, q) /\ h \in holders'[pinned]
    BY DEF Designated
  <2>2. pinned = other
    BY <2>1, SpanOf
  <2> QED BY <2>1, <2>2
<1>7. \A x \in 0..(n - 1) :
        prio(x) = IF Designated(mode, h, row[x], promptLen, holders') THEN n
                  ELSE IF lost(row[x]) THEN -1 ELSE 0
  <2>1. mode \in PositionModes /\ n >= 1
    BY <1>1 DEF PositionModes
  <2> QED BY <1>1, <1>5, <2>1, PriorityByPosition
<1>8. prio(s) = -1
  <2>1. s \in 0..(n - 1) /\ lost(row[s]) /\ row[s] \in Int
    BY <1>3
  <2> QED BY <1>6, <1>7, <2>1
<1>9. \A x \in U : x \in 0..(n - 1) /\ lost(row[x])
  <2> SUFFICES ASSUME NEW x \in 0..(n - 1), x \notin Kept(ids[h])
               PROVE  lost(row[x])
    BY <1>3
  <2>1. FullPositions = Appended(kv, 1)
    BY DEF FullPositions, Tracked, SpanInv, PositionsDescribeRows
  <2>2. prio(x) <= prio(s)
    <3>1. x \in Nat /\ x < n
      BY <1>1
    <3>2. Priority(mode, h, (seqlen + 1) - Residual, x, FullPositions[h][x],
                   promptLen, archivists', holders')
            <= Priority(mode, h, (seqlen + 1) - Residual, s, FullPositions[h][s],
                        promptLen, archivists', holders')
      BY <1>2, <3>1, RoundPriority
    <3> QED BY <2>1, <3>2
  <2> HIDE DEF prio, lost, row, n
  <2> QED BY <1>1, <1>7, <1>8, <2>2
<1> HIDE DEF prio, row
<1>10. IsFiniteSet(U) /\ Cardinality(U) = n - KeepCount + 1
  <2>1. IsFiniteSet(Kept(ids[h])) /\ Cardinality(Kept(ids[h])) = KeepCount
    <3>1. \A i \in 0..(KeepCount - 1) : ids[h][i] \in Int
      BY <1>1
    <3> QED BY <1>1, <3>1, IncreasingImage DEF Kept
  <2>2. IsFiniteSet(0..(n - 1)) /\ Cardinality(0..(n - 1)) = n
    <3> HIDE DEF n
    <3>1. n \in Nat
      BY <1>1
    <3> QED BY ONLY <3>1, FS_Interval
  <2>3. (0..(n - 1)) \cap Kept(ids[h]) = Kept(ids[h])
    BY <1>3
  <2>4. /\ IsFiniteSet((0..(n - 1)) \ Kept(ids[h]))
        /\ Cardinality((0..(n - 1)) \ Kept(ids[h])) = n - KeepCount
    <3> DEFINE D == 0..(n - 1)
               K == Kept(ids[h])
    <3>1. IsFiniteSet(D) /\ Cardinality(D) = n /\ D \cap K = K /\ Cardinality(K) = KeepCount
      BY <2>1, <2>2, <2>3
    <3> HIDE DEF D, K, n
    <3>2. IsFiniteSet(D \ K) /\ Cardinality(D \ K) = Cardinality(D) - Cardinality(D \cap K)
      BY <3>1, FS_Difference
    <3>3. IsFiniteSet(D \ K) /\ Cardinality(D \ K) = n - KeepCount
      BY <3>1, <3>2
    <3> QED BY <3>3 DEF D, K
  <2>5. s \notin (0..(n - 1)) \ Kept(ids[h])
    OBVIOUS
  <2> HIDE DEF n
  <2> QED BY <2>4, <2>5, FS_AddElement
<1>11. CASE evicted
  <2>1. U \subseteq KeepCount..(n - 1)
    <3>0. \A x \in U : x \in 0..(n - 1)
      BY <1>9
    <3> SUFFICES ASSUME NEW x \in U PROVE x >= KeepCount
      <4> HIDE DEF U, n
      <4> QED BY <1>1, <3>0
    <3>1. PICK other \in Spans : InSpan(other, row[x]) /\ h \notin holders'[other]
      BY <1>9
    <3>2. DrawRoles
      BY DEF RoundWith
    <3>3. x \in 0..(n - 1) /\ row[x] \in Int
      BY <1>4, <3>0
    <3>4. PICK q \in Int : q = row[x]
      BY <3>3
    <3> QED BY <1>11, <3>1, <3>2, <3>3, <3>4, SpanRows DEF row
  <2>2. IsFiniteSet(KeepCount..(n - 1)) /\ Cardinality(KeepCount..(n - 1)) = n - KeepCount
    <3> HIDE DEF n
    <3>1. n \in Nat /\ KeepCount \in Nat /\ n >= KeepCount
      BY <1>1
    <3>2. KeepCount \in Int /\ n - 1 \in Int
      BY <3>1
    <3>3. IsFiniteSet(KeepCount..(n - 1))
          /\ Cardinality(KeepCount..(n - 1)) = IF KeepCount > n - 1 THEN 0 ELSE (n - 1) - KeepCount + 1
      BY ONLY <3>2, FS_Interval
    <3> QED BY <3>1, <3>3
  <2>3. Cardinality(U) <= n - KeepCount
    BY <2>1, <2>2, FS_Subset
  <2> QED BY <1>1, <1>10, <2>3
<1>12. CASE ~evicted
  <2>1. U \subseteq SpanTokens
    <3> SUFFICES ASSUME NEW x \in U PROVE x \in SpanTokens
      OBVIOUS
    <3>1. x \in 0..seqlen
      BY <1>1, <1>9
    <3>2. row[x] = x
      BY <1>1, <1>12, <3>1, AppendedRows DEF row
    <3> QED BY <1>9, <3>1, <3>2, InSpanTokens
  <2>2. Cardinality(U) <= Residual
    <3>1. Cardinality(U) <= Cardinality(SpanTokens)
      BY <2>1, FS_Subset DEF SpansFit
    <3>2. Cardinality(U) \in Nat /\ Cardinality(SpanTokens) \in Nat
      BY <1>10, FS_CardinalityType DEF SpansFit
    <3> QED BY <1>2, <3>1, <3>2 DEF SpansFit
  <2>3. seqlen + 1 >= Budget + Residual
    <3>1. PICK len \in Nat : len = seqlen + 1
      BY <1>2
    <3>2. len % Residual = 0
      BY <3>1 DEF EvictionDue
    <3>3. len >= Budget + Residual
      BY <1>2, <3>1, <3>2, MultiplesApart
    <3> QED BY <3>1, <3>3
  <2> QED BY <1>1, <1>2, <1>10, <2>2, <2>3
<1> QED BY <1>11, <1>12

LEMMA SpanRound ==
  ASSUME SpanInv, SpansFit, Decode, EvictionDue(seqlen + 1)
  PROVE  SpanCopiesExact'
<1>1. PICK ids : ids \in Choices(seqlen + 1) /\ RoundWith(ids, seqlen + 1)
  BY RoundEffect
<1>2. /\ mode' = mode /\ DrawRoles /\ seqlen' = Budget /\ cumulative' = cumulative + 1
      /\ seqlen \in Nat /\ cumulative \in Nat /\ OrderInv
  BY <1>1 DEF RoundWith, SpanInv, OrderInv, TypeOK
<1>3. Judged' = cumulative + 1 - Residual
  BY <1>2, BudgetAssumption DEF Judged, KeepCount
<1> SUFFICES ASSUME mode = "synth_pin", NEW sp \in Spans, NEW p \in sp.lo..(sp.hi - 1),
                    p < cumulative + 1 - Residual, NEW h \in Heads
             PROVE  Holds(h, p)' <=> h \in holders'[sp]
  BY <1>2, <1>3 DEF SpanCopiesExact
<1>4. p \in Int /\ InSpan(sp, p)
  BY PolicyAssumption DEF InSpan
<1>5. Holds(h, p)' <=>
        \E s \in 0..seqlen : /\ Appended(kv, 1)[h][s] = p
                             /\ s \in Kept(ids[h]) \/ s >= (seqlen + 1) - Residual
  BY <1>1, <1>2, RoundHolds
<1>6. \A s \in 0..seqlen : Appended(kv, 1)[h][s] = p => s < (seqlen + 1) - Residual
  BY <1>2, <1>4, SpanRows
<1>7. ASSUME h \in holders'[sp] PROVE Holds(h, p)'
  <2>1. PICK s \in 0..seqlen : Appended(kv, 1)[h][s] = p
    BY <1>2, <1>4, <1>7, SpanRows
  <2>2. s \in Kept(ids[h])
    BY <1>1, <1>4, <1>6, <1>7, <2>1, PinnedStays
  <2> QED BY <1>5, <2>1, <2>2
<1>8. ASSUME h \notin holders'[sp], Holds(h, p)' PROVE FALSE
  <2>1. PICK s \in 0..seqlen : /\ Appended(kv, 1)[h][s] = p
                               /\ s \in Kept(ids[h]) \/ s >= (seqlen + 1) - Residual
    BY <1>5, <1>8
  <2>2. s < (seqlen + 1) - Residual
    BY <1>6, <2>1
  <2>3. s \in Kept(ids[h])
    BY <1>2, <2>1, <2>2, BudgetAssumption
  <2> QED BY <1>1, <1>4, <1>8, <2>1, <2>3, BlacklistedGoes
<1> QED BY <1>7, <1>8

(* With spans of at most a residual's and a kept set's length of tokens,   *)
(* once a span's token has been a candidate exactly the heads that pin the *)
(* span hold it: the number of its copies is the designed one, for any     *)
(* number of heads, spans and rounds.                                      *)
THEOREM SpanCopiesKept == SpansFit => (Spec => []SpanCopiesExact)
<1> SUFFICES ASSUME SpansFit PROVE Spec => []SpanCopiesExact
  OBVIOUS
<1>1. Init => SpanInv
  BY OrderInit DEF Init, SpanInv, PositionsDescribeRows, BehindKept, SpanCopiesExact
<1>2. SpanInv /\ [Next]_vars => SpanInv'
  <2> SUFFICES ASSUME SpanInv, [Next]_vars PROVE SpanCopiesExact'
    BY OrderStep, PositionsStep, BehindKeptStep DEF SpanInv
  <2>1. ASSUME NEW p \in Prompts, Prefill(p) PROVE SpanCopiesExact'
    BY <2>1 DEF Prefill, SpanInv, OrderInv, NothingBeforePrompt, SpanCopiesExact
  <2>2. CASE Decode
    BY <2>2, SpanAppend, SpanRound DEF SpanInv
  <2>3. CASE UNCHANGED vars
    BY <2>3 DEF vars, SpanInv, SpanCopiesExact, Judged, Holds, Slots
  <2> QED BY <2>1, <2>2, <2>3 DEF Next
<1>3. SpanInv => SpanCopiesExact
  BY DEF SpanInv
<1> QED BY <1>1, <1>2, <1>3, PTL DEF Spec
=============================================================================
