------------------------- MODULE HybridCacheProofs -------------------------
(***************************************************************************)
(* The Qwen3.5 layer, for any capacity, recency window, prompt, policy and *)
(* number of heads and rounds: it keeps its windows and its storage bound, *)
(* it implements the retention promise, and the closed forms of the audits *)
(* are what it does.                                                       *)
(***************************************************************************)
EXTENDS CacheAccounting, FiniteSetTheorems, FunctionTheorems, SequenceTheorems, TLAPS

(* Types and the order of events: an error is final, a layer that has seen *)
(* nothing holds nothing, every round was preceded by a token of its own.  *)
Types ==
  /\ policy \in Policies /\ hooked \in BOOLEAN
  /\ logicalLength \in 0..MaxLogical /\ length \in Nat /\ length <= logicalLength
  /\ promptLength \in Nat /\ events \in Nat
  /\ rows \in [Heads -> [Slots -> Nat]]
  /\ phase \in {"forward", "hook", "promptTooLong", "overflow"}
  /\ logicalLength = 0 => length = 0 /\ events = 0 /\ phase # "hook"
  /\ logicalLength > 0 => length > 0 /\ promptLength > 0 /\ promptLength <= length
  /\ events <= logicalLength
  /\ phase = "hook" => hooked /\ events < logicalLength
  /\ phase = "overflow" => policy # "none" /\ ~hooked

(* Storage: a layer that evicts has accepted a prompt below its kept rows, *)
(* and a hooked one is never full when it takes a token.                   *)
Bounds ==
  policy # "none" =>
    /\ logicalLength > 0 => promptLength < KeepN
    /\ length <= Capacity + Recent
    /\ hooked /\ phase # "hook" => length < Capacity + Recent
    /\ events > 0 => length >= Capacity /\ (phase = "hook" => length > Capacity)
    /\ length = logicalLength - Recent * events

(* The rows of a head: tracked as they are, in token order, all in the     *)
(* past, the newest ones consecutive, and untouched before a round.        *)
RowsExact ==
  /\ positions = IF policy = "none" THEN Empty ELSE rows
  /\ policy = "none" => events = 0
  /\ \A h \in Heads :
       /\ \A s \in Slots : rows[h][s] < logicalLength
       /\ \A s, t \in Slots : s < t => rows[h][s] < rows[h][t]
       /\ \A s \in Slots : s >= length - Recent => rows[h][s] = logicalLength - length + s
  /\ events = 0 => length = logicalLength /\ \A h \in Heads : \A s \in Slots : rows[h][s] = s

(* What the policy decides: the prompt stays, the window slides, the heads *)
(* of a shared draw hold the same rows.                                    *)
PromptStays ==
  policy \in Protecting => \A h \in Heads : \A s \in Slots : s < promptLength => rows[h][s] = s
SharedAlike ==
  policy = "random_shared_pp" => \A g, h \in Heads : rows[g] = rows[h]

(* Until P tokens had passed the hook, the newest queries were recorded.   *)
Newest(P) == [i \in 1..Earlier(P, Recent) |-> P - Earlier(P, Recent) + i - 1]
QueriesFollow ==
  IF policy = "snapkv_pp" /\ hooked
  THEN \E P \in 0..logicalLength :
         queries = Newest(P) /\ (phase # "hook" => P = logicalLength)
  ELSE queries = << >>

IInv ==
  /\ Types /\ Bounds /\ RowsExact /\ PromptStays /\ SharedAlike
  /\ RecencyIsSlidingWindow /\ QueriesFollow

-----------------------------------------------------------------------------
(* Ascending index lists.                                                  *)

LEMMA Sizes ==
  ASSUME ConfigAssumption
  PROVE  /\ Capacity \in Nat /\ Recent \in Nat /\ Recent >= 1 /\ Capacity > Recent
         /\ KeepN \in Nat /\ KeepN >= 1 /\ KeepN = Capacity - Recent /\ Capacity = KeepN + Recent
         /\ MaxLogical \in Nat /\ \A n \in FirstPasses : n \in Nat /\ n >= 1
         /\ Policies \subseteq AllPolicies
BY DEF ConfigAssumption, KeepN

(* An increasing vector has as many values as indices.                     *)
LEMMA IncreasingImage ==
  ASSUME NEW k \in Nat, NEW f, \A i \in 0..(k - 1) : f[i] \in Int,
         \A i, j \in 0..(k - 1) : i < j => f[i] < f[j]
  PROVE  LET image == {f[i] : i \in 0..(k - 1)}
         IN  IsFiniteSet(image) /\ Cardinality(image) = k
<1> DEFINE D == 0..(k - 1)
           image == {f[i] : i \in D}
           g == [i \in D |-> f[i]]
<1>1. IsFiniteSet(D) /\ Cardinality(D) = k
  BY ONLY k \in Nat, FS_Interval
<1>2. \A i, j \in D : g[i] = g[j] => i = j
  <2> SUFFICES ASSUME NEW i \in D, NEW j \in D, f[i] = f[j], i # j PROVE FALSE
    OBVIOUS
  <2>1. i < j \/ j < i
    OBVIOUS
  <2> QED BY <2>1
<1>3. g \in Injection(D, image)
  <2>1. g \in [D -> image]
    OBVIOUS
  <2> QED BY <1>2, <2>1, Fun_IsInj
<1>4. g \in Surjection(D, image)
  BY DEF Surjection
<1>5. IsFiniteSet(image) /\ (Cardinality(image) = Cardinality(D) <=> g \in Injection(D, image))
  BY <1>1, <1>4, FS_Surjection
<1> QED BY <1>1, <1>3, <1>5

(* It climbs at least one value per index.                                 *)
LEMMA Climbs ==
  ASSUME NEW k \in Nat, NEW f, \A i \in 0..(k - 1) : f[i] \in Int,
         \A i, j \in 0..(k - 1) : i < j => f[i] < f[j],
         NEW i \in 0..(k - 1), NEW j \in 0..(k - 1), i <= j
  PROVE  f[j] - f[i] >= j - i
<1> DEFINE S == i..j
           T == f[i]..f[j]
           g == [x \in S |-> f[x]]
<1>1. /\ f[i] \in Int /\ f[j] \in Int /\ i \in Int /\ j \in Int
      /\ \A x \in S : x \in 0..(k - 1) /\ f[x] \in Int
  OBVIOUS
<1>2. f[i] <= f[j]
  BY <1>1
<1>3. \A x \in S : f[x] \in T
  <2> SUFFICES ASSUME NEW x \in S PROVE f[i] <= f[x] /\ f[x] <= f[j]
    BY <1>1
  <2>1. x \in Int /\ i <= x /\ x <= j /\ x \in 0..(k - 1)
    OBVIOUS
  <2> QED BY <2>1, <1>1
<1>4. g \in Injection(S, T)
  <2>1. g \in [S -> T]
    BY <1>3
  <2>2. \A x, y \in S : g[x] = g[y] => x = y
    <3> SUFFICES ASSUME NEW x \in S, NEW y \in S, f[x] = f[y], x # y PROVE FALSE
      OBVIOUS
    <3>1. x < y \/ y < x
      OBVIOUS
    <3> QED BY <3>1, <1>1
  <2> QED BY <2>1, <2>2, Fun_IsInj
<1>5. /\ IsFiniteSet(S) /\ Cardinality(S) = j - i + 1
      /\ IsFiniteSet(T) /\ Cardinality(T) = f[j] - f[i] + 1
  BY <1>1, <1>2, FS_Interval
<1>6. Cardinality(S) <= Cardinality(T)
  BY <1>4, <1>5, FS_Injection
<1> QED BY <1>1, <1>5, <1>6

(* Between its values of two indices it skips none only if the indices are *)
(* as far apart: if all of 0..p-1 are values, they are at their places.    *)
LEMMA PrefixInPlace ==
  ASSUME NEW k \in Nat, NEW f, \A i \in 0..(k - 1) : f[i] \in Nat,
         \A i, j \in 0..(k - 1) : i < j => f[i] < f[j],
         NEW p \in 0..k, 0..(p - 1) \subseteq {f[i] : i \in 0..(k - 1)},
         NEW s \in 0..(p - 1)
  PROVE  f[s] = s
<1> DEFINE D == 0..(k - 1)
           g == [t \in 0..s |-> CHOOSE i \in D : f[i] = t]
<1>1. \A t \in 0..s : \E i \in D : f[i] = t
  OBVIOUS
<1>2. \A t \in 0..s : g[t] \in D /\ f[g[t]] = t
  BY <1>1
<1>3. s \in D /\ 0 \in D /\ s \in Nat
  OBVIOUS
<1>4. f[s] >= s
  <2>1. 0 <= s /\ \A i \in D : f[i] \in Int
    BY <1>3
  <2>2. f[s] - f[0] >= s - 0
    BY <1>3, <2>1, Climbs
  <2> QED BY <1>3, <2>1, <2>2
<1>5. g[s] <= s
  <2>1. g[s] \in D /\ f[g[s]] = s
    BY <1>2, <1>3
  <2> HIDE DEF g
  <2> QED BY <1>3, <1>4, <2>1
<1>6. \A t \in 0..s : g[t] \in 0..g[s]
  <2> SUFFICES ASSUME NEW t \in 0..s PROVE g[t] <= g[s]
    BY <1>2, <1>3
  <2>1. g[t] \in D /\ f[g[t]] = t /\ g[s] \in D /\ f[g[s]] = s
    BY <1>2, <1>3
  <2> HIDE DEF g
  <2> QED BY <2>1
<1>7. g \in Injection(0..s, 0..g[s])
  <2>1. g \in [0..s -> 0..g[s]]
    BY <1>6
  <2>2. \A t, u \in 0..s : g[t] = g[u] => t = u
    BY <1>2
  <2> QED BY <2>1, <2>2, Fun_IsInj
<1>8. g[s] \in Nat /\ f[g[s]] = s
  <2>1. g[s] \in D /\ f[g[s]] = s
    BY <1>2, <1>3
  <2> HIDE DEF g
  <2> QED BY <2>1
<1>9. /\ IsFiniteSet(0..g[s]) /\ Cardinality(0..s) = s + 1 /\ Cardinality(0..g[s]) = g[s] + 1
  <2>1. \A n \in Nat : IsFiniteSet(0..n) /\ Cardinality(0..n) = n + 1
    BY FS_Interval
  <2> HIDE DEF g
  <2> QED BY <1>3, <1>8, <2>1
<1>10. Cardinality(0..s) <= Cardinality(0..g[s])
  BY <1>7, <1>9, FS_Injection
<1> HIDE DEF g
<1>11. g[s] = s
  BY <1>3, <1>5, <1>8, <1>9, <1>10
<1> QED BY <1>8, <1>11

-----------------------------------------------------------------------------
(* update(): the prompt, then one token at a time.                         *)

LEMMA WrittenRows ==
  ASSUME Types, NEW n \in Nat, NEW h \in Heads, NEW s \in 0..(length + n - 1)
  PROVE  Written(rows, n)[h][s] = IF s < length THEN rows[h][s] ELSE logicalLength + (s - length)
BY DEF Written

LEMMA WrittenType ==
  ASSUME ConfigAssumption, Types, NEW n \in Nat
  PROVE  Written(rows, n) \in [Heads -> [0..(length + n - 1) -> Nat]]
<1>1. ASSUME NEW h \in Heads, NEW s \in 0..(length + n - 1)
      PROVE  (IF s < length THEN rows[h][s] ELSE logicalLength + (s - length)) \in Nat
  BY <1>1, Sizes DEF Types, Slots
<1> QED BY <1>1 DEF Written

(* What a call does: raise, or write.                                      *)
Raises(n) ==
  /\ policy # "none" /\ phase = "forward" /\ UNCHANGED <<logicalLength, length, rows, positions>>
  /\ \/ logicalLength = 0 /\ promptLength' = n /\ phase' = "promptTooLong"
     \/ logicalLength > 0 /\ promptLength' = promptLength /\ phase' = "overflow" /\ ~hooked

Writes(n) ==
  /\ phase = "forward" /\ logicalLength + n <= MaxLogical
  /\ IF logicalLength = 0 THEN promptLength' = n ELSE promptLength' = promptLength /\ n = 1
  /\ policy # "none" => /\ logicalLength = 0 => n < KeepN
                        /\ length + n <= Capacity + Recent
  /\ rows' = Written(rows, n)
  /\ positions' = IF policy = "none" THEN positions ELSE Written(positions, n)
  /\ logicalLength' = logicalLength + n /\ length' = length + n
  /\ phase' = IF hooked THEN "hook" ELSE "forward"

LEMMA UpdateSteps ==
  ASSUME ConfigAssumption, IInv, NEW n \in FirstPasses \cup {1}, Update(n)
  PROVE  /\ n \in Nat /\ n >= 1 /\ UNCHANGED <<policy, hooked, queries, events>>
         /\ Raises(n) \/ Writes(n)
<1>1. n \in Nat /\ n >= 1
  BY Sizes
<1>2. logicalLength \in Nat /\ length \in Nat /\ phase = "forward"
  BY Sizes DEF IInv, Types, Update
<1>3. CASE PromptTooLong(n)
  BY <1>1, <1>2, <1>3 DEF PromptTooLong, Update, Raises
<1>4. CASE ~PromptTooLong(n) /\ Overflows(n)
  <2>1. policy # "none" /\ length + n > Capacity + Recent
    BY <1>4 DEF Overflows
  <2>2. logicalLength > 0
    BY <1>1, <1>2, <1>4, <2>1, Sizes DEF PromptTooLong, IInv, Types
  <2>3. n = 1 /\ promptLength' = promptLength
    BY <1>2, <2>2 DEF Update
  <2>4. ~hooked
    BY <1>2, <2>1, <2>3, Sizes DEF IInv, Bounds
  <2> QED BY <1>1, <1>2, <1>4, <2>1, <2>2, <2>3, <2>4 DEF Update, Raises
<1>5. CASE ~PromptTooLong(n) /\ ~Overflows(n)
  <2>1. policy # "none" => (logicalLength = 0 => n < KeepN) /\ length + n <= Capacity + Recent
    BY <1>1, <1>2, <1>5, Sizes DEF PromptTooLong, Overflows
  <2>2. IF logicalLength = 0 THEN promptLength' = n ELSE promptLength' = promptLength /\ n = 1
    BY DEF Update
  <2> QED BY <1>1, <1>2, <1>5, <2>1, <2>2 DEF Update, Writes
<1> QED BY <1>3, <1>4, <1>5

LEMMA RaiseKeeps ==
  ASSUME ConfigAssumption, IInv, NEW n \in Nat, n >= 1,
         UNCHANGED <<policy, hooked, queries, events>>, Raises(n)
  PROVE  IInv'
<1>1. /\ UNCHANGED <<policy, hooked, queries, events, logicalLength, length, rows, positions>>
      /\ Slots' = Slots /\ phase = "forward" /\ policy # "none"
      /\ phase' \in {"promptTooLong", "overflow"}
  BY DEF Raises, Slots
<1>2. Types'
  BY <1>1 DEF Raises, IInv, Types
<1>3. Bounds'
  BY <1>1 DEF Raises, IInv, Types, Bounds
<1>4. RowsExact'
  BY <1>1 DEF IInv, RowsExact
<1>5. logicalLength = 0 => Slots = {} /\ events = 0
  BY DEF IInv, Types, Slots
<1>6. PromptStays' /\ SharedAlike' /\ RecencyIsSlidingWindow'
  <2>1. CASE logicalLength = 0
    BY <1>1, <1>5, <2>1 DEF IInv, PromptStays, SharedAlike, RecencyIsSlidingWindow
  <2>2. CASE logicalLength > 0
    BY <1>1, <2>2 DEF Raises, IInv, PromptStays, SharedAlike, RecencyIsSlidingWindow
  <2>3. logicalLength \in Nat
    BY Sizes DEF IInv, Types
  <2> QED BY <2>1, <2>2, <2>3
<1>7. QueriesFollow'
  <2>1. phase # "hook" /\ phase' # "hook"
    BY <1>1
  <2> QED BY <1>1, <2>1 DEF IInv, QueriesFollow, Newest
<1> QED BY <1>2, <1>3, <1>4, <1>6, <1>7 DEF IInv

(* A pass's tokens go behind the rows that are there.                      *)
LEMMA WriteKeeps ==
  ASSUME ConfigAssumption, IInv, NEW n \in Nat, n >= 1,
         UNCHANGED <<policy, hooked, queries, events>>, Writes(n)
  PROVE  IInv'
<1>1. /\ UNCHANGED <<policy, hooked, queries, events>> /\ phase = "forward"
      /\ logicalLength' = logicalLength + n /\ length' = length + n
      /\ logicalLength \in Nat /\ length \in Nat /\ length <= logicalLength
      /\ promptLength \in Nat /\ events \in Nat /\ logicalLength + n <= MaxLogical
      /\ Recent \in Nat /\ Recent >= 1 /\ rows' = Written(rows, n) /\ MaxLogical \in Nat
      /\ phase' = IF hooked THEN "hook" ELSE "forward"
  BY Sizes DEF Writes, IInv, Types
<1>2. Slots' = 0..(length + n - 1) /\ Slots = 0..(length - 1)
  BY <1>1 DEF Slots
<1>3. \A h \in Heads : \A s \in 0..(length + n - 1) :
        rows'[h][s] = IF s < length THEN rows[h][s] ELSE logicalLength + (s - length)
  BY <1>1, WrittenRows DEF IInv
<1>4. rows' \in [Heads -> [Slots' -> Nat]]
  BY <1>1, <1>2, WrittenType DEF IInv
<1>5. /\ logicalLength = 0 => /\ length = 0 /\ events = 0 /\ promptLength' = n
                              /\ length + n = n
      /\ logicalLength > 0 => /\ promptLength' = promptLength /\ n = 1 /\ promptLength > 0
                              /\ promptLength <= length
  BY <1>1 DEF Writes, IInv, Types
<1>6. Types'
  <2>1. promptLength' \in Nat /\ promptLength' > 0 /\ promptLength' <= length'
    BY <1>1, <1>5
  <2>2. events <= logicalLength
    BY DEF IInv, Types
  <2>3. phase' = "hook" => hooked' /\ events' < logicalLength'
    BY <1>1, <2>2
  <2>4. policy' \in Policies /\ hooked' \in BOOLEAN
    BY <1>1 DEF IInv, Types
  <2>5. logicalLength' \in 0..MaxLogical /\ logicalLength' > 0 /\ length' > 0 /\ length' \in Nat
        /\ length' <= logicalLength' /\ events' <= logicalLength' /\ events' \in Nat
    BY <1>1, <2>2
  <2>6. phase' \in {"forward", "hook", "promptTooLong", "overflow"} /\ phase' # "overflow"
    BY <1>1
  <2> QED BY <1>4, <2>1, <2>3, <2>4, <2>5, <2>6 DEF Types
<1>7. Bounds'
  <2> SUFFICES ASSUME policy # "none" PROVE Bounds'
    BY <1>1 DEF Bounds
  <2> DEFINE x == Recent * events
  <2>1. x \in Int
    BY <1>1
  <2>2. /\ length = logicalLength - x /\ (events > 0 => length >= Capacity)
        /\ (logicalLength > 0 => promptLength < KeepN)
    BY DEF IInv, Bounds
  <2>3. (logicalLength = 0 => n < KeepN) /\ length + n <= Capacity + Recent
    BY DEF Writes
  <2>4. Recent * events' = x
    BY <1>1
  <2>5. hooked' => phase' = "hook"
    BY <1>1
  <2>7. promptLength' < KeepN
    BY <1>1, <1>5, <2>2, <2>3
  <2> HIDE DEF x
  <2>8. length' = logicalLength' - x
    BY <1>1, <2>1, <2>2
  <2>9. length' <= Capacity + Recent /\ (events' > 0 => length' > Capacity /\ length' >= Capacity)
    BY <1>1, <2>2, <2>3, Sizes
  <2> QED BY <2>4, <2>5, <2>7, <2>8, <2>9 DEF Bounds
<1>8. RowsExact'
  <2>1. positions' = IF policy' = "none" THEN Empty ELSE rows'
    BY <1>1 DEF Writes, IInv, RowsExact
  <2>2. policy' = "none" => events' = 0
    BY <1>1 DEF IInv, RowsExact
  <2>3. ASSUME NEW h \in Heads
        PROVE  /\ \A s \in Slots' : rows'[h][s] < logicalLength'
               /\ \A s, t \in Slots' : s < t => rows'[h][s] < rows'[h][t]
               /\ \A s \in Slots' : s >= length' - Recent =>
                    rows'[h][s] = logicalLength' - length' + s
    <3>1. /\ \A s \in Slots : rows[h][s] < logicalLength /\ rows[h][s] \in Nat
          /\ \A s, t \in Slots : s < t => rows[h][s] < rows[h][t]
          /\ \A s \in Slots : s >= length - Recent => rows[h][s] = logicalLength - length + s
      BY DEF IInv, RowsExact, Types
    <3>2. ASSUME NEW s \in Slots', s < length
          PROVE  s \in Slots /\ rows'[h][s] = rows[h][s]
      BY <1>1, <1>2, <1>3, <3>2
    <3>3. ASSUME NEW s \in Slots', ~(s < length)
          PROVE  s \in Nat /\ s < length + n /\ rows'[h][s] = logicalLength + (s - length)
      BY <1>1, <1>2, <1>3, <3>3
    <3>4. ASSUME NEW s \in Slots' PROVE rows'[h][s] < logicalLength'
      BY <1>1, <3>1, <3>2, <3>3
    <3>5. ASSUME NEW s \in Slots', NEW t \in Slots', s < t PROVE rows'[h][s] < rows'[h][t]
      <4>1. s \in Nat /\ t \in Nat
        BY <1>1, <1>2
      <4>2. CASE t < length
        BY <1>1, <3>1, <3>2, <3>5, <4>1, <4>2
      <4>3. CASE s < length /\ ~(t < length)
        BY <1>1, <3>1, <3>2, <3>3, <4>1, <4>3
      <4>4. CASE ~(s < length)
        BY <1>1, <3>3, <3>5, <4>1, <4>4
      <4> QED BY <4>2, <4>3, <4>4
    <3>6. ASSUME NEW s \in Slots', s >= length' - Recent
          PROVE  rows'[h][s] = logicalLength' - length' + s
      <4>1. s \in Nat
        BY <1>1, <1>2
      <4>2. CASE s < length
        <5>1. s >= length - Recent /\ s \in Slots /\ rows'[h][s] = rows[h][s]
          BY <1>1, <3>2, <3>6, <4>1, <4>2
        <5> QED BY <1>1, <3>1, <4>1, <5>1
      <4>3. CASE ~(s < length)
        BY <1>1, <3>3, <4>1, <4>3
      <4> QED BY <4>2, <4>3
    <3> QED BY <3>4, <3>5, <3>6
  <2>4. events' = 0 => length' = logicalLength' /\ \A h \in Heads : \A s \in Slots' : rows'[h][s] = s
    <3> SUFFICES ASSUME events = 0
                 PROVE  length' = logicalLength' /\ \A h \in Heads : \A s \in Slots' : rows'[h][s] = s
      BY <1>1
    <3>1. length = logicalLength /\ \A h \in Heads : \A s \in Slots : rows[h][s] = s
      BY DEF IInv, RowsExact
    <3>2. ASSUME NEW h \in Heads, NEW s \in Slots' PROVE rows'[h][s] = s
      <4>1. s \in Nat /\ s < length + n
        BY <1>1, <1>2
      <4>2. CASE s < length
        <5>1. s \in Slots /\ rows'[h][s] = rows[h][s]
          BY <1>1, <1>2, <1>3, <4>1, <4>2
        <5> QED BY <3>1, <5>1
      <4>3. CASE ~(s < length)
        <5>1. rows'[h][s] = logicalLength + (s - length)
          BY <1>1, <1>2, <1>3, <4>1, <4>3
        <5> QED BY <1>1, <3>1, <4>1, <5>1
      <4> QED BY <4>2, <4>3
    <3> QED BY <1>1, <3>1, <3>2
  <2> QED BY <1>1, <2>1, <2>2, <2>3, <2>4 DEF RowsExact
<1>9. PromptStays'
  <2> SUFFICES ASSUME policy \in Protecting, NEW h \in Heads, NEW s \in Slots', s < promptLength'
               PROVE  rows'[h][s] = s
    BY <1>1 DEF PromptStays
  <2>1. CASE logicalLength = 0
    BY <1>1, <1>2, <1>3, <1>5, <2>1
  <2>2. CASE logicalLength > 0
    <3>1. s < promptLength /\ s < length /\ s \in Slots
      BY <1>1, <1>2, <1>5, <2>2
    <3> QED BY <1>2, <1>3, <3>1 DEF IInv, PromptStays
  <2> QED BY <1>1, <2>1, <2>2
<1>10. SharedAlike'
  <2> SUFFICES ASSUME policy = "random_shared_pp", NEW g \in Heads, NEW h \in Heads
               PROVE  rows'[g] = rows'[h]
    BY <1>1 DEF SharedAlike
  <2>1. rows[g] = rows[h]
    BY DEF IInv, SharedAlike
  <2> QED BY <1>1, <2>1 DEF Written
<1>11. RecencyIsSlidingWindow'
  <2> SUFFICES ASSUME policy = "recency_pp", events > 0, NEW h \in Heads, NEW s \in Slots'
               PROVE  rows'[h][s] = IF s < promptLength' THEN s ELSE logicalLength' - length' + s
    BY <1>1 DEF RecencyIsSlidingWindow
  <2>1. logicalLength > 0 /\ promptLength' = promptLength /\ promptLength <= length
    BY <1>1, <1>5
  <2>2. s \in Nat /\ s < length + n
    BY <1>1, <1>2
  <2>3. CASE s < length
    <3>1. s \in Slots /\ rows'[h][s] = rows[h][s]
      BY <1>1, <1>2, <1>3, <2>2, <2>3
    <3>2. rows[h][s] = IF s < promptLength THEN s ELSE logicalLength - length + s
      BY <3>1 DEF IInv, RecencyIsSlidingWindow
    <3> QED BY <1>1, <2>1, <2>2, <3>1, <3>2
  <2>4. CASE ~(s < length)
    BY <1>1, <1>2, <1>3, <2>1, <2>2, <2>4
  <2> QED BY <2>3, <2>4
<1>12. QueriesFollow'
  <2>1. CASE policy = "snapkv_pp" /\ hooked
    <3>1. PICK P \in 0..logicalLength : queries = Newest(P)
      BY <2>1 DEF IInv, QueriesFollow
    <3>2. P \in 0..logicalLength' /\ queries' = Newest(P) /\ Newest(P)' = Newest(P) /\ phase' = "hook"
      BY <1>1, <2>1, <3>1 DEF Newest
    <3> QED BY <1>1, <2>1, <3>2 DEF QueriesFollow
  <2>2. CASE ~(policy = "snapkv_pp" /\ hooked)
    BY <1>1, <2>2 DEF IInv, QueriesFollow
  <2> QED BY <2>1, <2>2
<1> QED BY <1>6, <1>7, <1>8, <1>9, <1>10, <1>11, <1>12 DEF IInv

-----------------------------------------------------------------------------
(* The post-hook.                                                          *)

LEMMA RecordedNewest ==
  ASSUME ConfigAssumption, Types, NEW P \in 0..logicalLength, queries = Newest(P)
  PROVE  Recorded = Newest(logicalLength)
<1> DEFINE L == logicalLength
           m == Earlier(P, Recent)
           newest == IF queries = << >> THEN 0 ELSE queries[Len(queries)] + 1
           tail == [i \in 1..(L - newest) |-> newest + i - 1]
           all == queries \o tail
           n == Earlier(L, Recent)
<1>1. /\ L \in Nat /\ P \in Nat /\ P <= L /\ Recent \in Nat /\ Recent >= 1
      /\ m \in Nat /\ m <= P /\ n \in Nat /\ n <= L /\ (P = 0 <=> m = 0)
  BY Sizes DEF Types, Earlier
<1>2. queries = [i \in 1..m |-> P - m + i - 1] /\ queries \in Seq(Nat) /\ Len(queries) = m
  <2>1. queries = [i \in 1..m |-> P - m + i - 1]
    BY DEF Newest
  <2>2. \A i \in 1..m : P - m + i - 1 \in Nat
    BY <1>1
  <2> HIDE DEF m
  <2> QED BY <1>1, <2>1, <2>2
<1>3. newest = P
  <2> HIDE DEF m
  <2>1. CASE m = 0
    BY <1>1, <1>2, <2>1
  <2>2. CASE m # 0
    <3>1. queries # << >> /\ queries[m] = P - m + m - 1
      BY <1>1, <1>2, <2>2
    <3> QED BY <1>1, <1>2, <3>1
  <2> QED BY <2>1, <2>2
<1> HIDE DEF m, newest, n
<1>4. tail \in Seq(Nat) /\ Len(tail) = L - P /\ \A i \in 1..(L - P) : tail[i] = P + i - 1
  BY <1>1, <1>3
<1> HIDE DEF tail
<1>5. Len(all) = m + L - P /\ \A j \in 1..(m + L - P) : all[j] = P - m + j - 1
  <2>1. Len(all) = m + L - P /\ all \in Seq(Nat)
    <3>1. all \in Seq(Nat) /\ Len(all) = Len(queries) + Len(tail)
      <4>1. queries \in Seq(Nat) /\ tail \in Seq(Nat)
        BY <1>2, <1>4
      <4> QED BY <4>1, ConcatProperties
    <3> HIDE DEF all
    <3> QED BY <1>1, <1>2, <1>4, <3>1
  <2>2. ASSUME NEW j \in 1..(m + L - P) PROVE all[j] = P - m + j - 1
    <3>1. CASE j <= m
      <4>1. all[j] = queries[j] /\ j \in 1..m
        BY <1>1, <1>2, <1>4, <3>1
      <4> QED BY <1>2, <4>1
    <3>2. CASE ~(j <= m)
      <4>1. all[j] = tail[j - m] /\ j - m \in 1..(L - P)
        BY <1>1, <1>2, <1>4, <3>2
      <4> QED BY <1>1, <1>4, <4>1
    <3> QED BY <3>1, <3>2
  <2> QED BY <2>1, <2>2
<1>6. Earlier(Len(all), Recent) = n
  BY <1>1, <1>5 DEF Earlier, m, n
<1>7. m + L - P >= n
  BY <1>1 DEF Earlier, m, n
<1> DEFINE drop == m + L - P - n
<1>8. Recorded = SubSeq(all, drop + 1, m + L - P)
  <2>1. Recorded = SubSeq(all, Len(all) - Earlier(Len(all), Recent) + 1, Len(all))
    BY DEF Recorded, newest, tail
  <2> HIDE DEF all
  <2> QED BY <1>1, <1>5, <1>6, <2>1
<1>9. SubSeq(all, drop + 1, m + L - P) = [i \in 1..n |-> L - n + i - 1]
  <2> DEFINE s == SubSeq(all, drop + 1, m + L - P)
             w == [i \in 1..n |-> L - n + i - 1]
  <2>1. /\ drop \in Nat /\ m + L - P \in Nat /\ (m + L - P) - (drop + 1) + 1 = n
        /\ \A i \in 1..n : drop + i \in 1..(m + L - P) /\ (drop + 1) + i - 1 = drop + i
    BY <1>1, <1>7
  <2>2. \A j \in (drop + 1)..(m + L - P) : all[j] \in Nat
    <3> SUFFICES ASSUME NEW j \in (drop + 1)..(m + L - P) PROVE all[j] \in Nat
      OBVIOUS
    <3>1. j \in 1..(m + L - P)
      BY <2>1
    <3>2. all[j] = P - m + j - 1
      BY <1>5, <3>1
    <3> HIDE DEF all
    <3> QED BY <1>1, <3>1, <3>2
  <2>3. w \in Seq(Nat) /\ Len(w) = n
    <3>1. \A i \in 1..n : L - n + i - 1 \in Nat
      BY <1>1
    <3> QED BY <1>1, <3>1
  <2> HIDE DEF all
  <2>4. s \in Seq(Nat)
    BY <2>1, <2>2, SubSeqProperties
  <2>5. \A i \in 1..n : s[i] = all[drop + i]
    <3>1. \A i \in 1..((m + L - P) - (drop + 1) + 1) : s[i] = all[(drop + 1) + i - 1]
      BY <2>1, <2>2, SubSeqProperties
    <3> HIDE DEF drop, s
    <3> QED BY <2>1, <3>1
  <2>6. Len(s) = n
    <3>1. Len(s) = IF drop + 1 <= m + L - P THEN (m + L - P) - (drop + 1) + 1 ELSE 0
      BY <2>1, <2>2, SubSeqProperties
    <3>2. ~(drop + 1 <= m + L - P) => n = 0
      BY <1>1, <2>1
    <3> HIDE DEF drop, s
    <3> QED BY <2>1, <3>1, <3>2
  <2>7. \A i \in 1..n : s[i] = w[i]
    <3> SUFFICES ASSUME NEW i \in 1..n PROVE s[i] = w[i]
      OBVIOUS
    <3>1. s[i] = P - m + (drop + i) - 1
      BY <1>5, <2>1, <2>5
    <3> HIDE DEF s
    <3> QED BY <1>1, <3>1
  <2> HIDE DEF s, w
  <2> QED BY <2>3, <2>4, <2>6, <2>7, SeqEqual DEF s, w
<1> QED BY <1>8, <1>9 DEF Newest, n

(* After the hook, recorded or not.                                        *)
LEMMA HookRecords ==
  ASSUME ConfigAssumption, IInv, PostHook
  PROVE  QueriesFollow'
<1>1. /\ UNCHANGED <<policy, hooked, logicalLength>> /\ hooked /\ phase' = "forward"
      /\ queries' = IF policy = "snapkv_pp" THEN Recorded ELSE queries
      /\ logicalLength \in Nat
  BY Sizes DEF PostHook, IInv, Types
<1>2. CASE policy = "snapkv_pp"
  <2>1. PICK P \in 0..logicalLength : queries = Newest(P)
    BY <1>1, <1>2 DEF IInv, QueriesFollow
  <2>2. queries' = Newest(logicalLength)
    BY <1>1, <1>2, <2>1, RecordedNewest DEF IInv
  <2>3. Newest(logicalLength)' = Newest(logicalLength)
    BY <1>1 DEF Newest
  <2>4. logicalLength \in 0..logicalLength'
    BY <1>1
  <2> QED BY <1>1, <1>2, <2>2, <2>3, <2>4 DEF QueriesFollow
<1>3. CASE policy # "snapkv_pp"
  BY <1>1, <1>3 DEF IInv, QueriesFollow
<1> QED BY <1>2, <1>3

LEMMA QuietHookKeeps ==
  ASSUME ConfigAssumption, IInv, PostHook, ~RoundDue
  PROVE  IInv'
<1>1. /\ UNCHANGED <<policy, hooked, logicalLength, promptLength, rows, positions, length, events>>
      /\ phase = "hook" /\ phase' = "forward" /\ Slots' = Slots /\ hooked
  BY DEF PostHook, IInv, Types, Slots
<1>2. Types'
  BY <1>1 DEF IInv, Types
<1>3. Bounds'
  <2>1. policy # "none" => length < Capacity + Recent
    BY Sizes DEF RoundDue, IInv, Types
  <2> QED BY <1>1, <2>1 DEF IInv, Bounds
<1>4. RowsExact' /\ PromptStays' /\ SharedAlike' /\ RecencyIsSlidingWindow'
  BY <1>1 DEF IInv, RowsExact, PromptStays, SharedAlike, RecencyIsSlidingWindow
<1> QED BY <1>2, <1>3, <1>4, HookRecords DEF IInv

(* The values of an increasing vector below c that fill all from one of    *)
(* them up to c - 1 end there.                                             *)
LEMMA SuffixInPlace ==
  ASSUME NEW k \in Nat, NEW c \in Nat, NEW f, \A i \in 0..(k - 1) : f[i] \in 0..(c - 1),
         \A i, j \in 0..(k - 1) : i < j => f[i] < f[j],
         NEW i \in 0..(k - 1), f[i]..(c - 1) \subseteq {f[j] : j \in 0..(k - 1)}
  PROVE  f[i] = c - k + i
<1> DEFINE D == 0..(k - 1)
           S == f[i]..(c - 1)
           T == i..(k - 1)
           g == [t \in S |-> CHOOSE j \in D : f[j] = t]
<1>1. /\ i \in Nat /\ i \in D /\ k - 1 \in D /\ k - 1 \in Nat /\ i <= k - 1
      /\ f[i] \in Nat /\ f[i] <= c - 1 /\ f[k - 1] \in Nat /\ f[k - 1] <= c - 1
      /\ \A j \in D : f[j] \in Int
  OBVIOUS
<1>2. \A t \in S : \E j \in D : f[j] = t
  OBVIOUS
<1>3. \A t \in S : g[t] \in D /\ f[g[t]] = t
  BY <1>2
<1>4. f[k - 1] - f[i] >= (k - 1) - i
  BY <1>1, Climbs
<1>5. \A t \in S : g[t] \in T
  <2> SUFFICES ASSUME NEW t \in S PROVE g[t] \in T
    OBVIOUS
  <2>1. g[t] \in D /\ f[g[t]] = t
    BY <1>3
  <2> HIDE DEF g
  <2>2. t >= f[i] /\ t \in Int
    BY <1>1
  <2>3. g[t] \in Int /\ 0 <= g[t] /\ g[t] <= k - 1
    BY <2>1
  <2>4. ~(g[t] < i)
    <3> SUFFICES ASSUME g[t] < i PROVE FALSE
      OBVIOUS
    <3>1. f[g[t]] < f[i]
      BY <1>1, <2>1
    <3> QED BY <1>1, <2>1, <2>2, <3>1
  <2> QED BY <1>1, <2>3, <2>4
<1>6. g \in Injection(S, T)
  <2>1. g \in [S -> T]
    BY <1>5
  <2>2. \A t, u \in S : g[t] = g[u] => t = u
    BY <1>3
  <2> QED BY <2>1, <2>2, Fun_IsInj
<1>7. /\ Cardinality(S) = (c - 1) - f[i] + 1
      /\ IsFiniteSet(T) /\ Cardinality(T) = (k - 1) - i + 1
  <2>1. /\ f[i] \in Int /\ c - 1 \in Int /\ ~(f[i] > c - 1)
        /\ i \in Int /\ k - 1 \in Int /\ ~(i > k - 1)
    BY <1>1
  <2>2. \A a, b \in Int : ~(a > b) => IsFiniteSet(a..b) /\ Cardinality(a..b) = b - a + 1
    BY FS_Interval
  <2> QED BY <2>1, <2>2
<1>8. Cardinality(S) <= Cardinality(T)
  BY <1>6, <1>7, FS_Injection
<1> HIDE DEF S, T
<1> QED BY <1>1, <1>4, <1>7, <1>8

(* A head's choice in a round: of all but the recent rows, in order, the   *)
(* pinned prompt first, and under strict recency the newest ones after it. *)
Full == hooked /\ policy # "none" /\ length = Capacity + Recent

LEMMA ChosenRows ==
  ASSUME ConfigAssumption, IInv, Full, logicalLength > 0,
         NEW h \in Heads, NEW f \in Choices(h)
  PROVE  /\ f \in [0..(KeepN - 1) -> 0..(Capacity - 1)]
         /\ \A i, j \in 0..(KeepN - 1) : i < j => f[i] < f[j]
         /\ policy \in Protecting => \A i \in 0..(promptLength - 1) : f[i] = i
         /\ policy = "recency_pp" => \A i \in promptLength..(KeepN - 1) : f[i] = Recent + i
<1> DEFINE D == 0..(KeepN - 1)
           cand == 0..(Capacity - 1)
           kept == {f[i] : i \in D}
           Above(s, t) == Pinned(t, h) \/ (~Pinned(s, h) /\ Score(s, h) <= Score(t, h))
<1>1. /\ Capacity \in Nat /\ Recent \in Nat /\ KeepN \in Nat /\ KeepN >= 1 /\ Recent >= 1
      /\ Capacity = KeepN + Recent /\ length = Capacity + Recent /\ policy # "none"
      /\ promptLength \in Nat /\ promptLength < KeepN /\ promptLength > 0
      /\ Slots = 0..(Capacity + Recent - 1) /\ length - Recent - 1 = Capacity - 1
  <2>1. /\ Capacity \in Nat /\ Recent \in Nat /\ KeepN \in Nat /\ KeepN >= 1 /\ Recent >= 1
        /\ Capacity = KeepN + Recent
    BY Sizes
  <2>2. length = Capacity + Recent /\ policy # "none"
    BY DEF Full
  <2>3. promptLength \in Nat /\ promptLength > 0
    BY DEF IInv, Types
  <2>4. promptLength < KeepN
    BY <2>2 DEF IInv, Bounds
  <2>5. Slots = 0..(Capacity + Recent - 1) /\ length - Recent - 1 = Capacity - 1
    BY <2>1, <2>2 DEF Slots
  <2> QED BY <2>1, <2>2, <2>3, <2>4, <2>5
<1>2. /\ f \in [D -> cand] /\ \A i, j \in D : i < j => f[i] < f[j]
      /\ \A s \in cand \ kept, t \in kept : Above(s, t)
  BY <1>1 DEF Choices
<1>3. /\ \A i \in D : f[i] \in cand /\ f[i] \in Nat /\ f[i] \in Int /\ f[i] <= Capacity - 1
      /\ \A t \in kept : t \in cand /\ t \in Nat
  BY <1>1, <1>2
<1>4. \A i, j \in D : i <= j => f[j] - f[i] >= j - i
  BY <1>1, <1>2, <1>3, Climbs
<1>5. /\ positions = rows /\ rows \in [Heads -> [Slots -> Nat]]
      /\ \A s, t \in Slots : s < t => rows[h][s] < rows[h][t]
  BY <1>1 DEF IInv, RowsExact, Types
<1>6. /\ cand \subseteq Slots
      /\ \A s \in cand : s \in Nat /\ rows[h][s] \in Nat /\ positions[h][s] = rows[h][s]
      /\ 0 \in D /\ KeepN - 1 \in D /\ promptLength - 1 \in D /\ promptLength - 1 \in Slots
      /\ \A i \in 0..(promptLength - 1) : i \in D
  BY <1>1, <1>5
<1>7. ASSUME policy \in Protecting, NEW s \in cand
      PROVE  Pinned(s, h) <=> s < promptLength
  <2>1. \A t \in Slots : t < promptLength => rows[h][t] = t
    BY <1>7 DEF IInv, PromptStays
  <2>2. rows[h][promptLength - 1] = promptLength - 1
    BY <1>1, <1>6, <2>1
  <2>3. CASE s < promptLength
    BY <1>6, <1>7, <2>1, <2>3 DEF Pinned
  <2>4. CASE ~(s < promptLength)
    <3>1. s = promptLength - 1 \/ promptLength - 1 < s
      BY <1>1, <1>6, <2>4
    <3>2. promptLength - 1 < s
      BY <1>1, <1>6, <2>4
    <3>3. promptLength - 1 < rows[h][s]
      BY <1>5, <1>6, <2>2, <3>2
    <3>4. ~(rows[h][s] < promptLength)
      BY <1>1, <1>6, <3>3
    <3> QED BY <1>6, <2>4, <3>4 DEF Pinned
  <2> QED BY <2>3, <2>4
<1> HIDE DEF Above
<1>8. ASSUME policy \in Protecting
      PROVE  /\ 0..(promptLength - 1) \subseteq kept
             /\ \A i \in 0..(promptLength - 1) : f[i] = i
  <2>1. 0..(promptLength - 1) \subseteq kept
    <3> SUFFICES ASSUME NEW s \in 0..(promptLength - 1), s \notin kept PROVE FALSE
      OBVIOUS
    <3>1. s \in cand \ kept /\ s < promptLength
      BY <1>1
    <3>2. f[KeepN - 1] \in kept /\ f[KeepN - 1] \in cand /\ f[KeepN - 1] \in Nat
      BY <1>3, <1>6
    <3>3. Above(s, f[KeepN - 1])
      BY <1>2, <3>1, <3>2
    <3>4. Pinned(s, h)
      BY <1>7, <1>8, <3>1
    <3>5. Pinned(f[KeepN - 1], h)
      BY <3>3, <3>4 DEF Above
    <3>6. f[KeepN - 1] < promptLength
      BY <1>7, <1>8, <3>2, <3>5
    <3>7. f[KeepN - 1] - f[0] >= (KeepN - 1) - 0 /\ f[0] \in Nat
      BY <1>1, <1>3, <1>4, <1>6
    <3>8. \A a, b \in Nat : a - b >= (KeepN - 1) - 0 => a >= KeepN - 1
      BY <1>1
    <3>9. f[KeepN - 1] >= KeepN - 1
      BY <3>2, <3>7, <3>8
    <3>10. \A a \in Nat : a >= KeepN - 1 => ~(a < promptLength)
      BY <1>1
    <3> QED BY <3>2, <3>6, <3>9, <3>10
  <2>2. promptLength \in 0..KeepN /\ \A i \in D : f[i] \in Nat
    BY <1>1, <1>3
  <2>3. \A i \in 0..(promptLength - 1) : f[i] = i
    <3> SUFFICES ASSUME NEW i \in 0..(promptLength - 1) PROVE f[i] = i
      OBVIOUS
    <3> QED BY <1>1, <1>2, <2>1, <2>2, PrefixInPlace
  <2> QED BY <2>1, <2>3
<1>9. ASSUME policy = "recency_pp", NEW i \in promptLength..(KeepN - 1)
      PROVE  f[i] = Recent + i
  <2>1. policy \in Protecting /\ i \in D /\ i \in Nat /\ promptLength - 1 < i
    BY <1>1, <1>9 DEF Protecting
  <2>2. f[promptLength - 1] = promptLength - 1
    BY <1>1, <1>8, <2>1
  <2>3. f[i] \in cand /\ f[i] \in Nat /\ ~(f[i] < promptLength) /\ f[i] \in kept
    <3>1. f[promptLength - 1] < f[i]
      BY <1>2, <1>6, <2>1
    <3> QED BY <1>1, <1>3, <2>1, <2>2, <3>1
  <2>4. f[i]..(Capacity - 1) \subseteq kept
    <3> SUFFICES ASSUME NEW s \in f[i]..(Capacity - 1), s \notin kept PROVE FALSE
      OBVIOUS
    <3>1. s \in cand /\ s # f[i] /\ s \in Nat /\ f[i] < s
      BY <1>1, <2>3
    <3>2. Above(s, f[i])
      BY <1>2, <2>3, <3>1
    <3>3. ~Pinned(f[i], h)
      BY <1>7, <2>1, <2>3
    <3>4. Score(s, h) <= Score(f[i], h)
      BY <3>2, <3>3 DEF Above
    <3>5. rows[h][s] <= rows[h][f[i]]
      BY <1>6, <1>9, <2>3, <3>1, <3>4 DEF Score
    <3>6. rows[h][f[i]] < rows[h][s]
      BY <1>5, <1>6, <2>3, <3>1
    <3> QED BY <1>6, <2>3, <3>1, <3>5, <3>6
  <2>5. \A j \in D : f[j] \in 0..(Capacity - 1)
    BY <1>3
  <2>6. f[i] = Capacity - KeepN + i
    <3>1. KeepN \in Nat /\ Capacity \in Nat /\ i \in 0..(KeepN - 1)
      BY <1>1, <2>1
    <3>2. \A a, b \in 0..(KeepN - 1) : a < b => f[a] < f[b]
      BY <1>2
    <3>3. f[i]..(Capacity - 1) \subseteq {f[j] : j \in 0..(KeepN - 1)}
      BY <2>4
    <3> QED BY <2>5, <3>1, <3>2, <3>3, SuffixInPlace
  <2> QED BY <1>1, <2>1, <2>6
<1> QED BY <1>2, <1>8, <1>9

(* A round: where every row that stays comes from.                         *)
Source(f) == [s \in 0..(Capacity - 1) |-> IF s < KeepN THEN f[s] ELSE Recent + s]

Rounds(ids) ==
  /\ UNCHANGED <<policy, hooked, logicalLength, promptLength>>
  /\ Full /\ phase = "hook" /\ phase' = "forward"
  /\ \A h \in Heads : ids[h] \in Choices(h)
  /\ policy = "random_shared_pp" => \A g, h \in Heads : ids[g] = ids[h]
  /\ rows' = [h \in Heads |-> [s \in 0..(Capacity - 1) |-> rows[h][Source(ids[h])[s]]]]
  /\ positions' = rows' /\ length' = Capacity /\ events' = events + 1

LEMMA RoundSteps ==
  ASSUME ConfigAssumption, IInv, PostHook, RoundDue
  PROVE  \E ids : Rounds(ids)
<1>1. Full
  <2>1. hooked /\ policy # "none" /\ length >= Capacity + Recent /\ length \in Nat
    BY DEF PostHook, RoundDue, IInv, Types
  <2>2. length <= Capacity + Recent
    BY <2>1 DEF IInv, Bounds
  <2> QED BY <2>1, <2>2, Sizes DEF Full
<1>2. PICK ids \in [Heads -> UNION {Choices(h) : h \in Heads}] :
        /\ \A h \in Heads : ids[h] \in Choices(h)
        /\ policy = "random_shared_pp" => \A g, h \in Heads : ids[g] = ids[h]
        /\ rows' = Gathered(rows, ids) /\ positions' = Gathered(positions, ids)
  BY DEF PostHook
<1>3. positions = rows /\ length - Capacity = Recent /\ length = Capacity + Recent
  BY <1>1, Sizes DEF Full, IInv, RowsExact
<1>4. Gathered(rows, ids) = [h \in Heads |-> [s \in 0..(Capacity - 1) |-> rows[h][Source(ids[h])[s]]]]
  BY <1>3 DEF Gathered, Source
<1> QED BY <1>1, <1>2, <1>3, <1>4 DEF PostHook, Rounds

(* The source of a slot: a row that is there, in token order; the recent   *)
(* rows, the pinned prompt and the window of strict recency by their place.*)
LEMMA SourceOrder ==
  ASSUME ConfigAssumption, IInv, Full, logicalLength > 0,
         NEW h \in Heads, NEW f \in Choices(h)
  PROVE  LET src == Source(f)
         IN  /\ \A s \in 0..(Capacity - 1) : src[s] \in Slots
             /\ \A s, t \in 0..(Capacity - 1) : s < t => src[s] < src[t]
             /\ \A s \in 0..(Capacity - 1) : s >= KeepN => src[s] = Recent + s
             /\ policy \in Protecting => \A s \in 0..(promptLength - 1) : src[s] = s
             /\ policy = "recency_pp" =>
                  \A s \in 0..(Capacity - 1) : s >= promptLength => src[s] = Recent + s
<1>1. /\ Capacity \in Nat /\ Recent \in Nat /\ KeepN \in Nat /\ KeepN >= 1 /\ Recent >= 1
      /\ Capacity = KeepN + Recent
  BY Sizes
<1>2. Slots = 0..(Capacity + Recent - 1) /\ policy # "none"
  BY <1>1 DEF Full, Slots
<1>3. promptLength \in Nat /\ promptLength < KeepN
  BY <1>2 DEF IInv, Types, Bounds
<1> DEFINE src == Source(f)
<1>4. \A s \in 0..(Capacity - 1) : src[s] = IF s < KeepN THEN f[s] ELSE Recent + s
  BY DEF Source
<1> HIDE DEF src
<1>5. /\ \A i \in 0..(KeepN - 1) : f[i] \in 0..(Capacity - 1)
      /\ \A i, j \in 0..(KeepN - 1) : i < j => f[i] < f[j]
      /\ policy \in Protecting => \A i \in 0..(promptLength - 1) : f[i] = i
      /\ policy = "recency_pp" => \A i \in promptLength..(KeepN - 1) : f[i] = Recent + i
  BY ChosenRows
<1>6. ASSUME NEW s \in 0..(Capacity - 1)
      PROVE  /\ s \in Nat /\ (s < KeepN => s \in 0..(KeepN - 1) /\ src[s] = f[s])
             /\ (~(s < KeepN) => src[s] = Recent + s)
  BY <1>1, <1>4
<1>7. \A s \in 0..(Capacity - 1) : src[s] \in Slots
  <2> SUFFICES ASSUME NEW s \in 0..(Capacity - 1) PROVE src[s] \in Slots
    OBVIOUS
  <2>1. CASE s < KeepN
    <3>1. src[s] \in 0..(Capacity - 1)
      BY <1>5, <1>6, <2>1
    <3> QED BY <1>1, <1>2, <3>1
  <2>2. CASE ~(s < KeepN)
    BY <1>1, <1>2, <1>6, <2>2
  <2> QED BY <2>1, <2>2
<1>8. \A s, t \in 0..(Capacity - 1) : s < t => src[s] < src[t]
  <2> SUFFICES ASSUME NEW s \in 0..(Capacity - 1), NEW t \in 0..(Capacity - 1), s < t
               PROVE  src[s] < src[t]
    OBVIOUS
  <2>1. CASE t < KeepN
    <3>1. s < KeepN
      BY <1>1, <1>6, <2>1
    <3> QED BY <1>5, <1>6, <2>1, <3>1
  <2>2. CASE s < KeepN /\ ~(t < KeepN)
    <3>1. src[s] \in 0..(Capacity - 1) /\ src[t] = Recent + t
      BY <1>5, <1>6, <2>2
    <3> QED BY <1>1, <1>6, <2>2, <3>1
  <2>3. CASE ~(s < KeepN)
    <3>1. ~(t < KeepN)
      BY <1>1, <1>6, <2>3
    <3> QED BY <1>1, <1>6, <2>3, <3>1
  <2> QED BY <2>1, <2>2, <2>3
<1>9. \A s \in 0..(Capacity - 1) : s >= KeepN => src[s] = Recent + s
  BY <1>1, <1>6
<1>10. policy \in Protecting => \A s \in 0..(promptLength - 1) : src[s] = s
  <2>1. \A s \in 0..(promptLength - 1) : s \in 0..(Capacity - 1) /\ s < KeepN
    BY <1>1, <1>3
  <2> QED BY <1>5, <1>6, <2>1
<1>11. policy = "recency_pp" =>
         \A s \in 0..(Capacity - 1) : s >= promptLength => src[s] = Recent + s
  <2> SUFFICES ASSUME policy = "recency_pp", NEW s \in 0..(Capacity - 1), s >= promptLength
               PROVE  src[s] = Recent + s
    OBVIOUS
  <2>1. CASE s < KeepN
    <3>1. s \in promptLength..(KeepN - 1)
      BY <1>1, <1>3, <1>6, <2>1
    <3> QED BY <1>5, <1>6, <2>1, <3>1
  <2> QED BY <1>6, <2>1
<1> QED BY <1>7, <1>8, <1>9, <1>10, <1>11 DEF src

LEMMA RoundKeeps ==
  ASSUME ConfigAssumption, IInv, NEW ids, Rounds(ids), QueriesFollow'
  PROVE  IInv'
<1>1. /\ UNCHANGED <<policy, hooked, logicalLength, promptLength>> /\ Full /\ hooked /\ policy # "none"
      /\ phase = "hook" /\ phase' = "forward" /\ length' = Capacity /\ events' = events + 1
      /\ positions' = rows' /\ \A h \in Heads : ids[h] \in Choices(h)
      /\ rows' = [h \in Heads |-> [s \in 0..(Capacity - 1) |-> rows[h][Source(ids[h])[s]]]]
  BY DEF Rounds, Full
<1>2. /\ Capacity \in Nat /\ Recent \in Nat /\ KeepN \in Nat /\ KeepN >= 1 /\ Recent >= 1
      /\ Capacity = KeepN + Recent
  BY Sizes
<1>3. /\ length = Capacity + Recent /\ logicalLength \in Nat /\ events \in Nat
      /\ promptLength \in Nat /\ logicalLength > 0 /\ events < logicalLength
      /\ length <= logicalLength /\ promptLength > 0
  BY <1>1 DEF Full, IInv, Types
<1>4. promptLength < KeepN /\ length = logicalLength - Recent * events
  BY <1>1, <1>3 DEF IInv, Bounds
<1>5. Slots' = 0..(Capacity - 1) /\ Slots = 0..(Capacity + Recent - 1)
  BY <1>1, <1>2, <1>3 DEF Slots
<1>6. ASSUME NEW h \in Heads, NEW s \in 0..(Capacity - 1)
      PROVE  rows'[h][s] = rows[h][Source(ids[h])[s]]
  BY <1>1
<1>7. ASSUME NEW h \in Heads
      PROVE  /\ \A s \in Slots : rows[h][s] \in Nat /\ rows[h][s] < logicalLength
             /\ \A s, t \in Slots : s < t => rows[h][s] < rows[h][t]
             /\ \A s \in Slots : s >= length - Recent => rows[h][s] = logicalLength - length + s
  BY DEF IInv, Types, RowsExact
<1>8. ASSUME NEW h \in Heads
      PROVE  LET src == Source(ids[h])
             IN  /\ \A s \in 0..(Capacity - 1) : src[s] \in Slots
                 /\ \A s, t \in 0..(Capacity - 1) : s < t => src[s] < src[t]
                 /\ \A s \in 0..(Capacity - 1) : s >= KeepN => src[s] = Recent + s
                 /\ policy \in Protecting => \A s \in 0..(promptLength - 1) : src[s] = s
                 /\ policy = "recency_pp" =>
                      \A s \in 0..(Capacity - 1) : s >= promptLength => src[s] = Recent + s
  BY <1>1, <1>3, SourceOrder
<1>9. rows' \in [Heads -> [Slots' -> Nat]]
  <2>1. \A h \in Heads : \A s \in 0..(Capacity - 1) : rows[h][Source(ids[h])[s]] \in Nat
    BY <1>7, <1>8
  <2> QED BY <1>1, <1>5, <2>1
<1>10. Types'
  <2>1. policy' \in Policies /\ hooked' \in BOOLEAN /\ logicalLength' \in 0..MaxLogical
    BY <1>1 DEF IInv, Types
  <2>2. length' \in Nat /\ length' <= logicalLength' /\ length' > 0 /\ promptLength' <= length'
    BY <1>1, <1>2, <1>3, <1>4
  <2>3. events' \in Nat /\ events' <= logicalLength' /\ promptLength' \in Nat /\ promptLength' > 0
    BY <1>1, <1>3
  <2>4. logicalLength' # 0 /\ phase' # "hook" /\ phase' # "overflow"
    BY <1>1, <1>3
  <2>5. phase' \in {"forward", "hook", "promptTooLong", "overflow"}
    BY <1>1
  <2> QED BY <1>9, <2>1, <2>2, <2>3, <2>4, <2>5 DEF Types
<1>11. Bounds'
  <2> DEFINE x == Recent * events
  <2>1. x \in Int
    BY <1>2, <1>3
  <2>2. Recent * events' = x + Recent
    <3>1. \A e \in Nat : Recent * (e + 1) = Recent * e + Recent
      BY <1>2
    <3> QED BY <1>1, <1>3, <3>1
  <2>3. length = logicalLength - x
    BY <1>4
  <2> HIDE DEF x
  <2>4. length' = logicalLength' - (x + Recent)
    BY <1>1, <1>2, <1>3, <2>1, <2>3
  <2> QED BY <1>1, <1>2, <1>4, <2>2, <2>4 DEF Bounds
<1>12. RowsExact'
  <2>1. ASSUME NEW h \in Heads
        PROVE  /\ \A s \in Slots' : rows'[h][s] < logicalLength'
               /\ \A s, t \in Slots' : s < t => rows'[h][s] < rows'[h][t]
               /\ \A s \in Slots' : s >= length' - Recent =>
                    rows'[h][s] = logicalLength' - length' + s
    <3>1. \A s \in Slots' : rows'[h][s] < logicalLength'
      BY <1>1, <1>5, <1>6, <1>7, <1>8
    <3>2. \A s, t \in Slots' : s < t => rows'[h][s] < rows'[h][t]
      BY <1>5, <1>6, <1>7, <1>8
    <3>3. ASSUME NEW s \in Slots', s >= length' - Recent
          PROVE  rows'[h][s] = logicalLength' - length' + s
      <4>1. s \in Nat /\ s \in 0..(Capacity - 1) /\ s >= KeepN
        BY <1>1, <1>2, <1>5, <3>3
      <4>2. Source(ids[h])[s] = Recent + s
        BY <1>8, <4>1
      <4>3. rows'[h][s] = rows[h][Recent + s]
        BY <1>6, <4>1, <4>2
      <4>4. Recent + s \in Slots /\ Recent + s >= length - Recent
        BY <1>2, <1>3, <1>5, <4>1
      <4>5. rows[h][Recent + s] = logicalLength - length + (Recent + s)
        BY <1>7, <4>4
      <4> QED BY <1>1, <1>2, <1>3, <4>1, <4>3, <4>5
    <3> QED BY <3>1, <3>2, <3>3
  <2>2. events' # 0 /\ policy' # "none"
    BY <1>1, <1>3
  <2> QED BY <1>1, <2>1, <2>2 DEF RowsExact
<1>13. PromptStays'
  <2> SUFFICES ASSUME policy \in Protecting, NEW h \in Heads, NEW s \in Slots', s < promptLength
               PROVE  rows'[h][s] = s
    BY <1>1 DEF PromptStays
  <2>1. s \in 0..(promptLength - 1) /\ s \in 0..(Capacity - 1) /\ s \in Slots
    BY <1>2, <1>3, <1>5
  <2>2. Source(ids[h])[s] = s
    BY <1>8, <2>1
  <2>3. rows[h][s] = s
    BY <2>1 DEF IInv, PromptStays
  <2> QED BY <1>6, <2>1, <2>2, <2>3
<1>14. SharedAlike'
  <2> SUFFICES ASSUME policy = "random_shared_pp", NEW g \in Heads, NEW h \in Heads
               PROVE  rows'[g] = rows'[h]
    BY <1>1 DEF SharedAlike
  <2>1. rows[g] = rows[h] /\ ids[g] = ids[h]
    BY DEF IInv, SharedAlike, Rounds
  <2> QED BY <1>1, <2>1
<1>15. RecencyIsSlidingWindow'
  <2> SUFFICES ASSUME policy = "recency_pp", NEW h \in Heads, NEW s \in Slots'
               PROVE  rows'[h][s] = IF s < promptLength THEN s ELSE logicalLength - Capacity + s
    BY <1>1 DEF RecencyIsSlidingWindow
  <2>1. s \in Nat /\ s \in 0..(Capacity - 1)
    BY <1>2, <1>5
  <2>2. CASE s < promptLength
    <3>1. policy' \in Protecting
      BY <1>1 DEF Protecting
    <3> QED BY <1>1, <1>13, <2>2, <3>1 DEF PromptStays
  <2>3. CASE ~(s < promptLength)
    <3>1. Source(ids[h])[s] = Recent + s
      BY <1>3, <1>8, <2>1, <2>3
    <3>2. Recent + s \in Slots /\ ~(Recent + s < promptLength)
      BY <1>2, <1>3, <1>5, <2>1, <2>3
    <3>3. rows[h][Recent + s] = logicalLength - length + (Recent + s)
      <4>1. CASE events > 0
        BY <3>2, <4>1 DEF IInv, RecencyIsSlidingWindow
      <4>2. CASE events = 0
        <5>1. length = logicalLength /\ rows[h][Recent + s] = Recent + s
          BY <3>2, <4>2 DEF IInv, RowsExact
        <5> QED BY <1>2, <1>3, <2>1, <5>1
      <4> QED BY <1>3, <4>1, <4>2
    <3>4. logicalLength - length + (Recent + s) = logicalLength - Capacity + s
      BY <1>2, <1>3, <2>1
    <3> QED BY <1>6, <2>1, <2>3, <3>1, <3>3, <3>4
  <2> QED BY <2>2, <2>3
<1> QED BY <1>10, <1>11, <1>12, <1>13, <1>14, <1>15 DEF IInv

-----------------------------------------------------------------------------
LEMMA StepKeeps ==
  ASSUME ConfigAssumption, IInv, [HybridNext]_hybridVars
  PROVE  IInv'
<1>1. ASSUME NEW n \in FirstPasses \cup {1}, Update(n) PROVE IInv'
  <2>1. n \in Nat /\ n >= 1 /\ UNCHANGED <<policy, hooked, queries, events>>
        /\ (Raises(n) \/ Writes(n))
    BY <1>1, UpdateSteps
  <2>2. CASE Raises(n)
    BY <2>1, <2>2, RaiseKeeps
  <2>3. CASE Writes(n)
    BY <2>1, <2>3, WriteKeeps
  <2> QED BY <2>1, <2>2, <2>3
<1>2. CASE PostHook
  <2>1. CASE ~RoundDue
    BY <1>2, <2>1, QuietHookKeeps
  <2>2. CASE RoundDue
    <3>1. PICK ids : Rounds(ids)
      BY <1>2, <2>2, RoundSteps
    <3> QED BY <1>2, <3>1, HookRecords, RoundKeeps
  <2> QED BY <2>1, <2>2
<1>3. CASE UNCHANGED hybridVars
  BY <1>3 DEF hybridVars, IInv, Types, Bounds, RowsExact, PromptStays, SharedAlike,
              RecencyIsSlidingWindow, QueriesFollow, Newest, Slots
<1> QED BY <1>1, <1>2, <1>3 DEF HybridNext

LEMMA InitHolds ==
  ASSUME ConfigAssumption, HybridInit
  PROVE  IInv
<1>1. /\ policy \in Policies /\ hooked \in BOOLEAN /\ logicalLength = 0 /\ length = 0
      /\ promptLength = 0 /\ rows = Empty /\ positions = Empty /\ queries = << >> /\ events = 0
      /\ phase = "forward" /\ Slots = {}
  BY DEF HybridInit, Slots
<1>2. rows \in [Heads -> [Slots -> Nat]]
  BY <1>1 DEF Empty
<1>3. Types
  BY <1>1, <1>2, Sizes DEF Types
<1>4. Bounds
  BY <1>1, Sizes DEF Bounds
<1>5. RowsExact /\ PromptStays /\ RecencyIsSlidingWindow
  BY <1>1 DEF RowsExact, PromptStays, RecencyIsSlidingWindow
<1>6. SharedAlike
  BY <1>1 DEF SharedAlike, Empty
<1>7. QueriesFollow
  <2>1. Newest(0) = << >>
    BY Sizes DEF Newest, Earlier
  <2> QED BY <1>1, <2>1 DEF QueriesFollow
<1> QED BY <1>3, <1>4, <1>5, <1>6, <1>7 DEF IInv

LEMMA InvariantHolds ==
  ASSUME ConfigAssumption
  PROVE  HybridSpec => []IInv
<1>1. HybridInit => IInv
  BY InitHolds
<1>2. IInv /\ [HybridNext]_hybridVars => IInv'
  BY StepKeeps
<1> QED BY <1>1, <1>2, PTL DEF HybridSpec

-----------------------------------------------------------------------------
(* Every slot, window and recorded query of the layer is where the engine  *)
(* and the model read it, and the storage is never written past: for any   *)
(* capacity, recency window, policy and number of heads and tokens.        *)
THEOREM HybridStaysSafe ==
  ASSUME ConfigAssumption
  PROVE  HybridSpec => []HybridSafe
<1>1. ASSUME IInv PROVE HybridSafe
  <2>1. /\ logicalLength \in Nat /\ length \in Nat /\ length <= logicalLength
        /\ MaxLogical \in Nat /\ logicalLength <= MaxLogical /\ Recent \in Nat /\ Recent >= 1
    BY <1>1, Sizes DEF IInv, Types
  <2>2. ASSUME NEW h \in Heads, NEW s \in Slots
        PROVE  rows[h][s] \in Nat /\ rows[h][s] < logicalLength
    BY <1>1 DEF IInv, Types, RowsExact
  <2>3. NewestSlotIsNewestToken
    <3> SUFFICES ASSUME length > 0, NEW h \in Heads
                 PROVE  /\ rows[h][length - 1] = logicalLength - 1
                        /\ \A s \in Slots : rows[h][s] <= logicalLength - 1
      BY DEF NewestSlotIsNewestToken
    <3>1. length - 1 \in Slots /\ length - 1 >= length - Recent
      BY <2>1 DEF Slots
    <3>2. rows[h][length - 1] = logicalLength - length + (length - 1)
      BY <1>1, <3>1 DEF IInv, RowsExact
    <3>3. rows[h][length - 1] = logicalLength - 1
      BY <2>1, <3>2
    <3> QED BY <2>1, <2>2, <3>3
  <2>4. QueriesAreNewest
    BY <1>1 DEF IInv, QueriesFollow, Newest, QueriesAreNewest
  <2>5. HookPreventsOverflow
    BY <1>1 DEF IInv, Types, HookPreventsOverflow
  <2>6. NeverPastStorage
    BY <1>1 DEF IInv, Bounds, NeverPastStorage
  <2>7. rows \in [Heads -> [Slots -> 0..MaxLogical]]
    <3>1. rows \in [Heads -> [Slots -> Nat]]
      BY <1>1 DEF IInv, Types
    <3>2. \A h \in Heads : \A s \in Slots : rows[h][s] \in 0..MaxLogical
      BY <2>1, <2>2
    <3> QED BY <3>1, <3>2
  <2>8. positions \in [Heads -> [IF policy = "none" THEN {} ELSE Slots -> 0..MaxLogical]]
    <3>1. positions = IF policy = "none" THEN Empty ELSE rows
      BY <1>1 DEF IInv, RowsExact
    <3> QED BY <2>7, <3>1 DEF Empty
  <2>9. queries \in Seq(0..MaxLogical)
    <3>1. CASE policy = "snapkv_pp" /\ hooked
      <4>1. PICK P \in 0..logicalLength : queries = Newest(P)
        BY <1>1, <3>1 DEF IInv, QueriesFollow
      <4> DEFINE m == Earlier(P, Recent)
      <4>2. m \in Nat /\ m <= P /\ P <= MaxLogical /\ P \in Nat
        BY <2>1 DEF Earlier
      <4> HIDE DEF m
      <4>3. \A i \in 1..m : P - m + i - 1 \in 0..MaxLogical
        BY <2>1, <4>2
      <4>4. Newest(P) = [i \in 1..m |-> P - m + i - 1]
        BY DEF Newest, m
      <4> QED BY <4>1, <4>2, <4>3, <4>4
    <3>2. CASE ~(policy = "snapkv_pp" /\ hooked)
      <4>1. queries = << >>
        BY <1>1, <3>2 DEF IInv, QueriesFollow
      <4> QED BY <4>1
    <3> QED BY <3>1, <3>2
  <2>10. HybridTypeOK
    <3>1. /\ policy \in Policies /\ hooked \in BOOLEAN /\ promptLength \in Nat
          /\ phase \in {"forward", "hook", "promptTooLong", "overflow"}
      BY <1>1 DEF IInv, Types
    <3>2. /\ logicalLength \in 0..MaxLogical /\ length \in 0..MaxLogical /\ events \in 0..MaxLogical
      BY <1>1, <2>1 DEF IInv, Types
    <3> QED BY <2>7, <2>8, <2>9, <3>1, <3>2 DEF HybridTypeOK
  <2>11. RecencyIsSlidingWindow
    BY <1>1 DEF IInv
  <2> QED BY <2>3, <2>4, <2>5, <2>6, <2>10, <2>11 DEF HybridSafe, WindowsExact, StorageSafe
<1>2. IInv => HybridSafe
  BY <1>1
<1> QED BY <1>2, InvariantHolds, PTL

-----------------------------------------------------------------------------
(* The audits.                                                             *)

LEMMA Quotient ==
  ASSUME NEW d \in Nat, d >= 1, NEW q \in Nat, NEW r \in Nat, r < d
  PROVE  (d * q + r) \div d = q
<1> DEFINE a == d * q + r
           k == a \div d
           m == a % d
<1>1. a \in Nat /\ k \in Int /\ m \in Nat /\ m < d /\ a = d * k + m
  OBVIOUS
<1>2. \A x, y \in Int : d * x - d * y = d * (x - y)
  OBVIOUS
<1>3. d * q - d * k = d * (q - k)
  BY <1>1, <1>2
<1>4. \A z \in Int : (z >= 1 => d * z >= d) /\ (z <= 0 - 1 => d * z <= 0 - d)
  OBVIOUS
<1>5. (q - k >= 1 => d * (q - k) >= d) /\ (q - k <= 0 - 1 => d * (q - k) <= 0 - d)
  BY <1>1, <1>4
<1>6. d * (q - k) = m - r
  <2> DEFINE u == d * q
             v == d * k
             w == d * (q - k)
  <2>1. u \in Int /\ v \in Int /\ w \in Int /\ u + r = v + m /\ u - v = w
    BY <1>1, <1>3
  <2> HIDE DEF u, v, w, a, k, m
  <2>2. w = m - r
    BY <1>1, <2>1
  <2> QED BY <2>2 DEF w
<1> DEFINE w == d * (q - k)
<1>7. w \in Int /\ w = m - r /\ (q - k >= 1 => w >= d) /\ (q - k <= 0 - 1 => w <= 0 - d)
  BY <1>1, <1>5, <1>6
<1> HIDE DEF w, k, m, a
<1>8. q = k
  BY <1>1, <1>7
<1> QED BY <1>8 DEF k, a

(* What is left between two passes says how many rounds there were.        *)
LEMMA RoundsCounted ==
  ASSUME ConfigAssumption, IInv, Measured
  PROVE  /\ events = AuditedEvents(logicalLength)
         /\ length = logicalLength - Recent * events
         /\ length < Capacity + Recent
<1>1. /\ logicalLength \in Nat /\ length \in Nat /\ length <= logicalLength /\ events \in Nat
      /\ Recent \in Nat /\ Recent >= 1 /\ Capacity \in Nat /\ policy # "none"
  BY Sizes DEF IInv, Types, Measured
<1>2. /\ length = logicalLength - Recent * events /\ length < Capacity + Recent
      /\ events > 0 => length >= Capacity
  BY DEF IInv, Bounds, Measured
<1>3. CASE logicalLength < Capacity
  BY <1>1, <1>2, <1>3 DEF AuditedEvents
<1>4. CASE ~(logicalLength < Capacity)
  <2> DEFINE x == Recent * events
             r == length - Capacity
  <2>1. x \in Int /\ length = logicalLength - x /\ (events = 0 => x = 0)
    BY <1>1, <1>2
  <2> HIDE DEF x
  <2>2. r \in Nat /\ r < Recent /\ logicalLength - Capacity = x + r
    BY <1>1, <1>2, <1>4, <2>1
  <2> HIDE DEF r
  <2>3. (Recent * events + r) \div Recent = events
    BY <1>1, <2>2, Quotient
  <2> QED BY <1>2, <1>4, <2>2, <2>3 DEF AuditedEvents, x
<1> QED BY <1>2, <1>3, <1>4

LEMMA HeadHolds ==
  ASSUME IInv, NEW h \in Heads
  PROVE  /\ IsFiniteSet({rows[h][s] : s \in Slots})
         /\ Cardinality({rows[h][s] : s \in Slots}) = length
<1>1. length \in Nat /\ Slots = 0..(length - 1) /\ rows \in [Heads -> [Slots -> Nat]]
  BY DEF IInv, Types, Slots
<1>2. \A s, t \in 0..(length - 1) : s < t => rows[h][s] < rows[h][t]
  BY <1>1 DEF IInv, RowsExact
<1> DEFINE f == rows[h]
<1>3. /\ \A s \in 0..(length - 1) : f[s] \in Int
      /\ \A s, t \in 0..(length - 1) : s < t => f[s] < f[t]
      /\ {rows[h][s] : s \in Slots} = {f[s] : s \in 0..(length - 1)}
  BY <1>1, <1>2
<1> HIDE DEF f
<1> QED BY <1>1, <1>3, IncreasingImage

(* Between two passes a layer is past its first round as soon as it has    *)
(* seen more than its storage.                                             *)
LEMMA BeforeTheFirstRound ==
  ASSUME ConfigAssumption, IInv, policy # "none", hooked, phase \in {"forward", "hook"},
         logicalLength > 0
  PROVE  /\ events = 0 => /\ length = logicalLength
                          /\ \A h \in Heads : {rows[h][s] : s \in Slots} = 0..(logicalLength - 1)
         /\ events = 0 => logicalLength <= Capacity + Recent
         /\ events > 0 => length < logicalLength
         /\ events > 0 => IF phase = "hook" THEN logicalLength > Capacity + Recent
                                            ELSE logicalLength >= Capacity + Recent
<1>1. /\ logicalLength \in Nat /\ length \in Nat /\ length <= logicalLength /\ events \in Nat
      /\ Recent \in Nat /\ Recent >= 1 /\ Capacity \in Nat
  BY Sizes DEF IInv, Types
<1>2. /\ length = logicalLength - Recent * events /\ length <= Capacity + Recent
      /\ events > 0 => length >= Capacity /\ (phase = "hook" => length > Capacity)
  BY DEF IInv, Bounds
<1>3. ASSUME events = 0
      PROVE  /\ length = logicalLength
             /\ \A h \in Heads : {rows[h][s] : s \in Slots} = 0..(logicalLength - 1)
  BY <1>1, <1>3 DEF IInv, RowsExact, Slots
<1>4. ASSUME events > 0
      PROVE  length <= logicalLength - Recent
  <2> DEFINE x == Recent * events
  <2>1. x \in Int /\ x >= Recent
    <3>1. \A e \in Nat : e >= 1 => Recent * e >= Recent
      BY <1>1
    <3> QED BY <1>1, <1>4, <3>1
  <2>2. length = logicalLength - x
    BY <1>2
  <2> HIDE DEF x
  <2> QED BY <1>1, <2>1, <2>2
<1>5. events > 0 => length < logicalLength
  BY <1>1, <1>4
<1>6. events > 0 => IF phase = "hook" THEN logicalLength > Capacity + Recent
                                      ELSE logicalLength >= Capacity + Recent
  BY <1>1, <1>2, <1>4
<1> QED BY <1>2, <1>3, <1>5, <1>6

(* Whenever a generation ends, the closed forms by which its record is     *)
(* judged are what the layer did.                                          *)
THEOREM AuditsStayTrue ==
  ASSUME ConfigAssumption
  PROVE  HybridSpec => []AuditsAgree
<1>1. ASSUME IInv PROVE RecordsPassAudit
  <2> SUFFICES ASSUME Measured
               PROVE  /\ promptLength < Capacity - Recent
                      /\ events = AuditedEvents(logicalLength)
                      /\ length = AuditedLength(logicalLength) /\ length <= Capacity + Recent
    BY DEF RecordsPassAudit
  <2>1. promptLength < Capacity - Recent
    BY <1>1 DEF IInv, Bounds, Measured, KeepN
  <2>2. /\ events = AuditedEvents(logicalLength) /\ length = logicalLength - Recent * events
        /\ length <= Capacity + Recent
    BY <1>1, RoundsCounted DEF IInv, Bounds, Measured
  <2> QED BY <2>1, <2>2 DEF AuditedLength
<1>2. ASSUME IInv PROVE PrefixGateExact
  <2> SUFFICES ASSUME policy # "none", hooked, phase = "hook"
               PROVE  Sampled <= SharedPrefix(promptLength) <=>
                        \A h \in Heads : {rows[h][s] : s \in Slots} = 0..(logicalLength - 1)
    BY DEF PrefixGateExact
  <2>1. /\ logicalLength \in Nat /\ logicalLength > 0 /\ length \in Nat /\ promptLength \in Nat
        /\ events \in Nat /\ Capacity \in Nat /\ Recent \in Nat
    BY <1>2, Sizes DEF IInv, Types
  <2>2. Sampled <= SharedPrefix(promptLength) <=> logicalLength <= Capacity + Recent
    BY <2>1 DEF Sampled, SharedPrefix
  <2>3. /\ events = 0 => /\ logicalLength <= Capacity + Recent
                         /\ \A h \in Heads : {rows[h][s] : s \in Slots} = 0..(logicalLength - 1)
        /\ events > 0 => logicalLength > Capacity + Recent /\ length < logicalLength
    BY <1>2, <2>1, BeforeTheFirstRound
  <2>4. ASSUME events > 0, NEW h \in Heads
        PROVE  {rows[h][s] : s \in Slots} # 0..(logicalLength - 1)
    <3>1. Cardinality(0..(logicalLength - 1)) = logicalLength
      <4>1. \A a, b \in Int : ~(a > b) => Cardinality(a..b) = b - a + 1
        BY FS_Interval
      <4>2. Cardinality(0..(logicalLength - 1)) = (logicalLength - 1) - 0 + 1
        BY <2>1, <4>1
      <4> QED BY <2>1, <4>2
    <3>2. Cardinality({rows[h][s] : s \in Slots}) = length
      BY <1>2, HeadHolds
    <3>3. length # logicalLength
      BY <2>1, <2>3, <2>4
    <3> QED BY <3>1, <3>2, <3>3
  <2>5. Heads # {}
    BY DEF ConfigAssumption
  <2>6. CASE events = 0
    BY <2>2, <2>3, <2>6
  <2>7. CASE events > 0
    <3>1. ~(logicalLength <= Capacity + Recent)
      BY <2>1, <2>3, <2>7
    <3> QED BY <2>2, <2>4, <2>5, <2>7, <3>1
  <2> QED BY <2>1, <2>6, <2>7
<1>3. ASSUME IInv PROVE ProbeCountsPass
  <2> SUFFICES ASSUME Measured
               PROVE  /\ AuditedEvents(logicalLength) = 0 =>
                           \A h \in Heads : Held(h) = 0..(logicalLength - 1)
                      /\ policy = "recency_pp" =>
                           \A h \in Heads, end \in promptLength..logicalLength :
                             AuditedForgotten(end) => HeldOf(h, promptLength, end) = {}
                      /\ policy \in {"recency_pp", "random_shared_pp"} =>
                           \A g, h \in Heads : Older(g) = Older(h)
    BY DEF ProbeCountsPass
  <2>1. /\ logicalLength \in Nat /\ logicalLength > 0 /\ length \in Nat /\ promptLength \in Nat
        /\ events \in Nat /\ Capacity \in Nat /\ Recent \in Nat /\ length < Capacity + Recent
        /\ rows \in [Heads -> [Slots -> Nat]] /\ Slots = 0..(length - 1)
        /\ length <= logicalLength
    <3>1. /\ logicalLength \in Nat /\ length \in Nat /\ promptLength \in Nat /\ events \in Nat
          /\ rows \in [Heads -> [Slots -> Nat]] /\ Slots = 0..(length - 1)
          /\ length <= logicalLength
      BY <1>3, Sizes DEF IInv, Types, Slots
    <3>2. Capacity \in Nat /\ Recent \in Nat /\ length < Capacity + Recent
      BY <1>3, RoundsCounted, Sizes
    <3>3. logicalLength > 0
      BY DEF Measured
    <3> QED BY <3>1, <3>2, <3>3
  <2>2. positions = rows /\ policy # "none" /\ hooked /\ phase = "forward"
    BY <1>3 DEF IInv, RowsExact, Measured
  <2>3. \A h \in Heads : Held(h) = {rows[h][s] : s \in Slots}
    BY <2>2 DEF Held
  <2>4. events = AuditedEvents(logicalLength)
    BY <1>3, RoundsCounted
  <2>5. /\ events = 0 => /\ length = logicalLength
                         /\ \A h \in Heads : {rows[h][s] : s \in Slots} = 0..(logicalLength - 1)
    BY <1>3, <2>1, <2>2, BeforeTheFirstRound
  <2>6. ASSUME policy = "recency_pp", NEW h \in Heads, NEW s \in Slots
        PROVE  rows[h][s] = IF events > 0 /\ s < promptLength THEN s ELSE logicalLength - length + s
    <3>1. s \in Nat
      BY <2>1
    <3>2. CASE events > 0
      BY <1>3, <2>6, <3>2 DEF IInv, RecencyIsSlidingWindow
    <3>3. CASE events = 0
      <4>1. rows[h][s] = s /\ length = logicalLength
        BY <1>3, <3>3 DEF IInv, RowsExact
      <4> QED BY <2>1, <3>1, <3>3, <4>1
    <3> QED BY <2>1, <3>2, <3>3
  <2>7. ASSUME policy = "recency_pp", NEW h \in Heads, NEW end \in promptLength..logicalLength,
               AuditedForgotten(end)
        PROVE  HeldOf(h, promptLength, end) = {}
    <3>1. logicalLength - Recent >= Capacity
          /\ end <= logicalLength - (Capacity - promptLength + Recent) /\ end \in Nat
      BY <2>1, <2>7 DEF AuditedForgotten
    <3>2. events > 0
      BY <2>1, <2>5, <3>1
    <3> SUFFICES ASSUME NEW s \in Slots, rows[h][s] \in promptLength..(end - 1) PROVE FALSE
      BY <2>3 DEF HeldOf
    <3>3. s \in Nat /\ rows[h][s] = IF s < promptLength THEN s ELSE logicalLength - length + s
      BY <2>1, <2>6, <2>7, <3>2
    <3>4. CASE s < promptLength
      BY <2>1, <3>3, <3>4
    <3>5. CASE ~(s < promptLength)
      <4>1. rows[h][s] = logicalLength - length + s /\ s >= promptLength
        BY <2>1, <3>3, <3>5
      <4>2. logicalLength - length + s < end
        BY <2>1, <3>1, <3>3, <4>1
      <4> QED BY <2>1, <3>1, <3>3, <4>1, <4>2
    <3> QED BY <3>4, <3>5
  <2>8. ASSUME policy \in {"recency_pp", "random_shared_pp"}, NEW g \in Heads, NEW h \in Heads
        PROVE  Older(g) = Older(h)
    <3>1. rows[g] = rows[h]
      <4>1. CASE policy = "recency_pp"
        <5>1. \A s \in Slots : rows[g][s] = rows[h][s]
          BY <2>6, <4>1
        <5> QED BY <2>1, <5>1
      <4>2. CASE policy = "random_shared_pp"
        BY <1>3, <4>2 DEF IInv, SharedAlike
      <4> QED BY <2>8, <4>1, <4>2
    <3>2. Held(g) = Held(h)
      BY <2>3, <3>1
    <3> QED BY <3>2 DEF Older, HeldOf
  <2> QED BY <2>3, <2>4, <2>5, <2>7, <2>8
<1>4. IInv => AuditsAgree
  BY <1>1, <1>2, <1>3 DEF AuditsAgree
<1> QED BY <1>4, InvariantHolds, PTL

-----------------------------------------------------------------------------
(***************************************************************************)
(* The refinement.  A pass admits its tokens; a post-hook that is not due  *)
(* changes nothing the promise speaks of; a round is a round of the        *)
(* promise behind the token that filled the storage.                       *)
(***************************************************************************)
HeldBy(h) == {rows[h][s] : s \in Slots}
PinOf == IF events > 0 /\ policy \in Protecting THEN promptLength ELSE 0

(* The promise counts as the layer does.                                   *)
LEMMA SameCount == \A S : Promise!Cardinality(S) = Cardinality(S)
BY DEF Promise!Cardinality, Cardinality

LEMMA InitPromised == HybridInit => Promise!Init
<1> SUFFICES ASSUME HybridInit PROVE Promise!Init
  OBVIOUS
<1>1. Slots = {} /\ logicalLength = 0 /\ events = 0 /\ (events > 0) = FALSE
  BY DEF HybridInit, Slots
<1> QED BY <1>1 DEF Promise!Init

(* Nothing the promise speaks of has changed.                              *)
LEMMA Stutters ==
  ASSUME UNCHANGED <<logicalLength, rows, length, events, policy>>,
         events > 0 => UNCHANGED promptLength
  PROVE  UNCHANGED Promise!rvars
<1>1. Slots' = Slots
  BY DEF Slots
<1> QED BY <1>1 DEF Promise!rvars

LEMMA AdmitPromised ==
  ASSUME ConfigAssumption, IInv, NEW n \in Nat, n >= 1,
         UNCHANGED <<policy, hooked, queries, events>>, Writes(n)
  PROVE  Promise!Next
<1>1. /\ logicalLength' = logicalLength + n /\ length' = length + n
      /\ logicalLength \in Nat /\ length \in Nat /\ rows' = Written(rows, n)
      /\ events \in Nat
      /\ logicalLength = 0 => length = 0 /\ events = 0
      /\ logicalLength > 0 => n = 1 /\ promptLength' = promptLength
  BY Sizes DEF Writes, IInv, Types
<1>2. Slots = 0..(length - 1) /\ Slots' = 0..(length + n - 1)
  BY <1>1 DEF Slots
<1>3. ASSUME NEW h \in Heads
      PROVE  HeldBy(h)' = HeldBy(h) \cup logicalLength..(logicalLength + n - 1)
  <2>1. \A s \in 0..(length + n - 1) :
          rows'[h][s] = IF s < length THEN rows[h][s] ELSE logicalLength + (s - length)
    BY <1>1, WrittenRows DEF IInv
  <2>2. HeldBy(h)' \subseteq HeldBy(h) \cup logicalLength..(logicalLength + n - 1)
    <3> SUFFICES ASSUME NEW s \in 0..(length + n - 1)
                 PROVE  rows'[h][s] \in HeldBy(h) \cup logicalLength..(logicalLength + n - 1)
      BY <1>2 DEF HeldBy
    <3>1. CASE s < length
      <4>1. s \in Slots /\ rows'[h][s] = rows[h][s]
        BY <1>1, <1>2, <2>1, <3>1
      <4> QED BY <4>1 DEF HeldBy
    <3>2. CASE ~(s < length)
      <4>1. rows'[h][s] = logicalLength + (s - length)
        BY <2>1, <3>2
      <4>2. logicalLength + (s - length) \in logicalLength..(logicalLength + n - 1)
        BY <1>1, <3>2
      <4> QED BY <4>1, <4>2
    <3> QED BY <3>1, <3>2
  <2>3. HeldBy(h) \subseteq HeldBy(h)'
    <3> SUFFICES ASSUME NEW s \in Slots PROVE rows[h][s] \in HeldBy(h)'
      BY DEF HeldBy
    <3>1. s \in 0..(length + n - 1) /\ s < length
      BY <1>1, <1>2
    <3>2. rows'[h][s] = rows[h][s]
      BY <2>1, <3>1
    <3> QED BY <1>2, <3>1, <3>2 DEF HeldBy
  <2>4. logicalLength..(logicalLength + n - 1) \subseteq HeldBy(h)'
    <3> SUFFICES ASSUME NEW t \in logicalLength..(logicalLength + n - 1)
                 PROVE  t \in HeldBy(h)'
      OBVIOUS
    <3> DEFINE s == length + (t - logicalLength)
    <3>1. s \in 0..(length + n - 1) /\ ~(s < length) /\ logicalLength + (s - length) = t
      BY <1>1
    <3> HIDE DEF s
    <3>2. rows'[h][s] = t
      BY <2>1, <3>1
    <3> QED BY <1>2, <3>1, <3>2 DEF HeldBy
  <2> QED BY <2>2, <2>3, <2>4
<1>4. events > 0 => promptLength' = promptLength
  BY <1>1
<1> DEFINE now == [h \in Heads |-> HeldBy(h)]
<1>5. [h \in Heads |-> HeldBy(h)'] =
        [h \in Heads |-> now[h] \cup logicalLength..(logicalLength + n - 1)]
  BY <1>3
<1>6. Promise!Admit(n)
  <2>1. [h \in Heads |-> {rows[h][s] : s \in Slots}]' =
          [h \in Heads |-> [g \in Heads |-> {rows[g][s] : s \in Slots}][h]
                              \cup logicalLength..(logicalLength + n - 1)]
    BY <1>5 DEF HeldBy
  <2>2. [h \in Heads |-> IF events > 0 /\ policy \in Protecting THEN promptLength ELSE 0]' =
          [h \in Heads |-> IF events > 0 /\ policy \in Protecting THEN promptLength ELSE 0]
    BY <1>4
  <2>3. logicalLength' = logicalLength + n /\ (events > 0)' = (events > 0)
    BY <1>1
  <2> QED BY <2>1, <2>2, <2>3 DEF Promise!Admit
<1>7. CASE logicalLength = 0
  <2>1. logicalLength' = n /\ n \in Nat \ {0}
    BY <1>1, <1>7
  <2>2. Promise!Admit(logicalLength')
    BY <1>6, <2>1 DEF Promise!Admit
  <2> QED BY <1>7, <2>1, <2>2 DEF Promise!Next
<1>8. CASE logicalLength > 0
  <2>1. n = 1
    BY <1>1, <1>8
  <2>2. Promise!Admit(1)
    BY <1>6, <2>1
  <2> QED BY <1>8, <2>2 DEF Promise!Next
<1> QED BY <1>1, <1>7, <1>8

(* What a round leaves in one head.                                        *)
LEMMA RoundLeaves ==
  ASSUME ConfigAssumption, IInv, IInv', NEW ids, Rounds(ids), NEW h \in Heads
  PROVE  /\ HeldBy(h)' \subseteq HeldBy(h)
         /\ HeldBy(h)' \subseteq 0..(logicalLength - 1)
         /\ Cardinality(HeldBy(h)') = Capacity
         /\ PinOf' \in 0..KeepN
         /\ 0..(PinOf' - 1) \subseteq HeldBy(h)'
         /\ (logicalLength - Recent)..(logicalLength - 1) \subseteq HeldBy(h)'
<1>1. /\ UNCHANGED <<policy, hooked, logicalLength, promptLength>> /\ Full /\ policy # "none"
      /\ length' = Capacity /\ events' = events + 1 /\ ids[h] \in Choices(h)
      /\ rows' = [g \in Heads |-> [s \in 0..(Capacity - 1) |-> rows[g][Source(ids[g])[s]]]]
      /\ phase = "hook"
  BY DEF Rounds, Full
<1>2. /\ Capacity \in Nat /\ Recent \in Nat /\ KeepN \in Nat /\ Capacity = KeepN + Recent
      /\ Recent >= 1 /\ logicalLength \in Nat /\ logicalLength > 0 /\ events \in Nat
      /\ promptLength \in Nat /\ length \in Nat
  BY <1>1, Sizes DEF IInv, Types
<1>3. promptLength < KeepN
  BY <1>1, <1>2 DEF IInv, Bounds
<1>4. Slots' = 0..(Capacity - 1)
  BY <1>1 DEF Slots
<1>5. \A s \in 0..(Capacity - 1) : rows'[h][s] \in Nat /\ rows'[h][s] < logicalLength
  BY <1>1, <1>4 DEF IInv, Types, RowsExact
<1>6. HeldBy(h)' = {rows'[h][s] : s \in 0..(Capacity - 1)}
  BY <1>4 DEF HeldBy
<1>7. HeldBy(h)' \subseteq 0..(logicalLength - 1)
  BY <1>2, <1>5, <1>6
<1>8. HeldBy(h)' \subseteq HeldBy(h)
  <2>1. \A s \in 0..(Capacity - 1) : Source(ids[h])[s] \in Slots
    BY <1>1, <1>2, SourceOrder
  <2>2. \A s \in 0..(Capacity - 1) : rows'[h][s] = rows[h][Source(ids[h])[s]]
    BY <1>1
  <2> QED BY <1>6, <2>1, <2>2 DEF HeldBy
<1>9. Cardinality(HeldBy(h)') = Capacity
  <2>1. \A s, t \in 0..(Capacity - 1) : s < t => rows'[h][s] < rows'[h][t]
    BY <1>4 DEF IInv, RowsExact
  <2> DEFINE f == [s \in 0..(Capacity - 1) |-> rows'[h][s]]
  <2>2. /\ \A s \in 0..(Capacity - 1) : f[s] \in Int
        /\ \A s, t \in 0..(Capacity - 1) : s < t => f[s] < f[t]
        /\ HeldBy(h)' = {f[s] : s \in 0..(Capacity - 1)}
    BY <1>5, <1>6, <2>1
  <2> HIDE DEF f
  <2> QED BY <1>2, <2>2, IncreasingImage
<1>10. PinOf' = IF policy \in Protecting THEN promptLength ELSE 0
  BY <1>1, <1>2 DEF PinOf
<1>11. 0..(PinOf' - 1) \subseteq HeldBy(h)'
  <2> SUFFICES ASSUME policy \in Protecting, NEW s \in 0..(promptLength - 1)
               PROVE  s \in HeldBy(h)'
    BY <1>10
  <2>1. s \in Slots' /\ s < promptLength'
    BY <1>1, <1>2, <1>3, <1>4
  <2>2. rows'[h][s] = s
    BY <1>1, <2>1 DEF IInv, PromptStays
  <2> QED BY <2>1, <2>2 DEF HeldBy
<1>12. (logicalLength - Recent)..(logicalLength - 1) \subseteq HeldBy(h)'
  <2> SUFFICES ASSUME NEW p \in (logicalLength - Recent)..(logicalLength - 1)
               PROVE  p \in HeldBy(h)'
    OBVIOUS
  <2> DEFINE s == p - (logicalLength - Capacity)
  <2>1. s \in 0..(Capacity - 1) /\ s >= Capacity - Recent /\ logicalLength - Capacity + s = p
    BY <1>2
  <2> HIDE DEF s
  <2>2. rows'[h][s] = logicalLength' - length' + s
    BY <1>1, <1>4, <2>1 DEF IInv, RowsExact
  <2>3. rows'[h][s] = p
    BY <1>1, <2>1, <2>2
  <2> QED BY <1>6, <2>1, <2>3
<1>13. PinOf' \in 0..KeepN
  BY <1>2, <1>3, <1>10
<1> QED BY <1>7, <1>8, <1>9, <1>11, <1>12, <1>13

LEMMA RoundPromised ==
  ASSUME ConfigAssumption, IInv, IInv', NEW ids, Rounds(ids)
  PROVE  Promise!Next
<1>1. /\ UNCHANGED <<policy, logicalLength, promptLength>> /\ events' = events + 1
      /\ events \in Nat /\ logicalLength \in Nat /\ logicalLength > 0
      /\ Recent \in Nat /\ Capacity \in Nat
  BY Sizes DEF Rounds, IInv, Types
<1>2. \A h \in Heads :
        /\ HeldBy(h)' \subseteq HeldBy(h)
        /\ HeldBy(h)' \subseteq 0..(logicalLength - 1)
        /\ Cardinality(HeldBy(h)') = Capacity
        /\ PinOf' \in 0..KeepN
        /\ 0..(PinOf' - 1) \subseteq HeldBy(h)'
        /\ (logicalLength - Recent)..(logicalLength - 1) \subseteq HeldBy(h)'
  BY RoundLeaves
<1>3. events > 0 => PinOf' = PinOf
  BY <1>1 DEF PinOf
<1> DEFINE held == [h \in Heads |-> {rows[h][s] : s \in Slots}]
           pin == [h \in Heads |-> IF events > 0 /\ policy \in Protecting THEN promptLength ELSE 0]
<1>4. held = [h \in Heads |-> HeldBy(h)] /\ held' = [h \in Heads |-> HeldBy(h)']
      /\ pin = [h \in Heads |-> PinOf] /\ pin' = [h \in Heads |-> PinOf']
  BY DEF HeldBy, PinOf
<1>5. /\ logicalLength + 0 = logicalLength /\ logicalLength + 0 - 1 = logicalLength - 1
      /\ logicalLength + 0 - Recent = logicalLength - Recent
  BY <1>1
<1>6. IF events > 0 THEN pin' = pin ELSE pin' \in [Heads -> 0..(Capacity - Recent)]
  BY <1>2, <1>3, <1>4 DEF KeepN
<1>7. held' \in [Heads -> SUBSET (0..(logicalLength + 0 - 1))]
  BY <1>2, <1>4, <1>5
<1>8. \A h \in Heads :
        /\ held'[h] \subseteq held[h] \cup logicalLength..(logicalLength + 0 - 1)
        /\ Promise!Cardinality(held'[h]) = Capacity
        /\ 0..(pin'[h] - 1) \subseteq held'[h]
        /\ (logicalLength + 0 - Recent)..(logicalLength + 0 - 1) \subseteq held'[h]
  BY <1>2, <1>4, <1>5, SameCount
<1>9. logicalLength' = logicalLength + 0 /\ (events > 0)' = TRUE
  BY <1>1
<1>10. Promise!Round(0)
  BY <1>6, <1>7, <1>8, <1>9, Zenon DEF Promise!Round
<1> QED BY <1>1, <1>10 DEF Promise!Next

(* For every policy, storage size and number of rounds, with the hooks     *)
(* installed or not, the layer keeps the retention promise.                *)
THEOREM HybridKeepsPromise ==
  ASSUME ConfigAssumption
  PROVE  HybridSpec => HybridImplementsPromise
<1>1. HybridInit => IInv /\ Promise!Init
  BY InitHolds, InitPromised
<1>2. IInv /\ [HybridNext]_hybridVars => IInv'
  BY StepKeeps
<1>3. IInv /\ [HybridNext]_hybridVars => [Promise!Next]_(Promise!rvars)
  <2> SUFFICES ASSUME IInv, [HybridNext]_hybridVars PROVE [Promise!Next]_(Promise!rvars)
    OBVIOUS
  <2>1. ASSUME NEW n \in FirstPasses \cup {1}, Update(n) PROVE [Promise!Next]_(Promise!rvars)
    <3>1. n \in Nat /\ n >= 1 /\ UNCHANGED <<policy, hooked, queries, events>>
          /\ (Raises(n) \/ Writes(n))
      BY <2>1, UpdateSteps
    <3>2. CASE Raises(n)
      <4>1. UNCHANGED <<logicalLength, rows, length, events, policy>>
        BY <3>1, <3>2 DEF Raises
      <4>2. events > 0 => UNCHANGED promptLength
        BY <3>2 DEF Raises, IInv, Types
      <4> QED BY <4>1, <4>2, Stutters
    <3>3. CASE Writes(n)
      BY <3>1, <3>3, AdmitPromised
    <3> QED BY <3>1, <3>2, <3>3
  <2>2. CASE PostHook
    <3>1. CASE ~RoundDue
      <4>1. UNCHANGED <<logicalLength, rows, length, events, policy, promptLength>>
        BY <2>2, <3>1 DEF PostHook
      <4> QED BY <4>1, Stutters
    <3>2. CASE RoundDue
      <4>1. PICK ids : Rounds(ids)
        BY <2>2, <3>2, RoundSteps
      <4>2. IInv'
        BY <1>2
      <4> QED BY <4>1, <4>2, RoundPromised
    <3> QED BY <3>1, <3>2
  <2>3. CASE UNCHANGED hybridVars
    BY <2>3, Stutters DEF hybridVars
  <2> QED BY <2>1, <2>2, <2>3 DEF HybridNext
<1> QED BY <1>1, <1>2, <1>3, PTL DEF HybridSpec, HybridImplementsPromise, Promise!Spec
=============================================================================
