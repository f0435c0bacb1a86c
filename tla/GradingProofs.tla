--------------------------- MODULE GradingProofs ---------------------------
(***************************************************************************)
(* Theorems about grading: the audit and repair of a cell's files          *)
(* (CellAudit), the execution grading of LiveCodeBench programs            *)
(* (LcbGrading) and the merge of its subsets (SubsetMerge), for any number *)
(* of problems, shardings, runs, launches, methods, threads, programs,     *)
(* sources and merges.                                                     *)
(***************************************************************************)
EXTENDS CellAudit, LcbGrading, SubsetMerge, TLAPS, FiniteSetTheorems, WellFoundedInduction

-----------------------------------------------------------------------------
(* Least numbers, sizes and sums.                                          *)

(* Any set of natural numbers that is not empty has a least one.           *)
LEMMA Least ==
  ASSUME NEW T, T \subseteq Nat, T # {}
  PROVE  \E n \in T : \A m \in T : n <= m
<1> DEFINE R == OpToRel(<, Nat)
<1>1. IsWellFoundedOn(R, Nat)
  BY NatLessThanWellFounded
<1>2. \A m \in Nat, k \in Nat : m < k => <<m, k>> \in R
  BY DEF R, OpToRel
<1> HIDE DEF R
<1>3. PICK n \in T : \A m \in T : <<m, n>> \notin R
  BY <1>1, WFMin
<1>4. ASSUME NEW m \in T PROVE n <= m
  <2>1. m \in Nat /\ n \in Nat
    OBVIOUS
  <2>2. ~(m < n)
    BY <1>2, <1>3, <2>1, Zenon
  <2> QED BY <2>1, <2>2, SMT
<1> QED BY <1>4

(* What holds of a set if it holds of all smaller ones holds of all.       *)
LEMMA BySize ==
  ASSUME NEW U, IsFiniteSet(U), NEW G,
         \A s \in SUBSET U :
           (\A r \in SUBSET U : Cardinality(r) < Cardinality(s) => r \in G) => s \in G
  PROVE  SUBSET U \subseteq G
<1> SUFFICES ASSUME NEW s0 \in SUBSET U, s0 \notin G PROVE FALSE
  OBVIOUS
<1> DEFINE T == {n \in Nat : \E s \in SUBSET U : s \notin G /\ Cardinality(s) = n}
<1>1. \A s \in SUBSET U : Cardinality(s) \in Nat
  BY FS_Subset, FS_CardinalityType
<1>2. T \subseteq Nat /\ Cardinality(s0) \in T
  BY <1>1
<1>3. PICK n \in T : \A m \in T : n <= m
  <2> HIDE DEF T
  <2> QED BY <1>2, Least
<1>4. PICK s \in SUBSET U : s \notin G /\ Cardinality(s) = n
  OBVIOUS
<1>5. ASSUME NEW r \in SUBSET U, Cardinality(r) < Cardinality(s) PROVE r \in G
  <2> SUFFICES ASSUME r \notin G PROVE FALSE
    OBVIOUS
  <2> DEFINE k == Cardinality(r)
  <2>1. k \in Nat /\ k \in T /\ k < n
    BY <1>1, <1>4, <1>5
  <2> HIDE DEF k, T
  <2>2. n \in Nat /\ n <= k
    BY <1>2, <1>3, <2>1
  <2> QED BY <2>1, <2>2
<1> QED BY <1>4, <1>5

-----------------------------------------------------------------------------
IsSum(f, S, g) ==
  g = [s \in SUBSET S |->
         IF s = {} THEN 0
         ELSE f[CHOOSE x \in s : TRUE] + g[s \ {CHOOSE x \in s : TRUE}]]

(* The sum of the library, written as one function of the subsets.         *)
LEMMA SumIs ==
  ASSUME NEW f, NEW S
  PROVE  SumFunctionOnSet(f, S) = (CHOOSE g : IsSum(f, S, g))[S]
BY DEF SumFunctionOnSet, FoldFunctionOnSet, MapThenFoldSet, IsSum

(* A set that is not empty, without the element the library picks.         *)
LEMMA Picked ==
  ASSUME NEW U, IsFiniteSet(U), NEW s \in SUBSET U, s # {}
  PROVE  LET x == CHOOSE y \in s : TRUE
         IN  /\ x \in s /\ x \in U /\ s \ {x} \in SUBSET U
             /\ Cardinality(s \ {x}) = Cardinality(s) - 1
             /\ Cardinality(s) \in Nat /\ Cardinality(s \ {x}) \in Nat
<1> DEFINE x == CHOOSE y \in s : TRUE
<1>1. x \in s
  OBVIOUS
<1> HIDE DEF x
<1>2. IsFiniteSet(s) /\ IsFiniteSet(s \ {x})
  BY FS_Subset
<1>3. Cardinality(s \ {x}) = Cardinality(s) - 1
  BY <1>1, <1>2, FS_RemoveElement
<1>4. Cardinality(s) \in Nat /\ Cardinality(s \ {x}) \in Nat
  BY <1>2, FS_CardinalityType
<1> QED BY <1>1, <1>3, <1>4 DEF x

(* The sums over all subsets of a finite set exist.                        *)
LEMMA PartialSums ==
  ASSUME NEW f, NEW U, IsFiniteSet(U), \A x \in U : f[x] \in Nat
  PROVE  \E g \in [SUBSET U -> Nat] : IsSum(f, U, g)
<1> DEFINE Upto(n) == {s \in SUBSET U : Cardinality(s) <= n}
           step(h, s) == IF s = {} THEN 0
                         ELSE f[CHOOSE x \in s : TRUE] + h[s \ {CHOOSE x \in s : TRUE}]
           Good(n) == \E g \in [Upto(n) -> Nat] : g = [s \in Upto(n) |-> step(g, s)]
           Bad == {n \in Nat : ~Good(n)}
<1>1. \A s \in SUBSET U : IsFiniteSet(s) /\ Cardinality(s) \in Nat /\ Cardinality(s) <= Cardinality(U)
  BY FS_Subset, FS_CardinalityType
<1>2. Cardinality(U) \in Nat /\ Upto(Cardinality(U)) = SUBSET U
  BY <1>1, FS_CardinalityType
<1>3. Good(0)
  <2>1. \A s \in Upto(0) : s = {}
    BY <1>1, FS_EmptySet
  <2>2. DEFINE g == [s \in Upto(0) |-> 0]
  <2>3. g \in [Upto(0) -> Nat] /\ g = [s \in Upto(0) |-> step(g, s)]
    BY <2>1
  <2> QED BY <2>3
<1>4. ASSUME NEW n \in Nat, Good(n) PROVE Good(n + 1)
  <2>1. PICK h \in [Upto(n) -> Nat] : h = [s \in Upto(n) |-> step(h, s)]
    BY <1>4
  <2> DEFINE g == [s \in Upto(n + 1) |-> step(h, s)]
  <2>2. ASSUME NEW s \in Upto(n + 1), s # {}
        PROVE  s \ {CHOOSE x \in s : TRUE} \in Upto(n) /\ f[CHOOSE x \in s : TRUE] \in Nat
    <3> DEFINE x == CHOOSE y \in s : TRUE
    <3>1. /\ x \in U /\ s \ {x} \in SUBSET U
          /\ Cardinality(s \ {x}) = Cardinality(s) - 1 /\ Cardinality(s) \in Nat
      BY <2>2, Picked
    <3> HIDE DEF x
    <3>2. Cardinality(s \ {x}) <= n
      BY <3>1
    <3>3. f[x] \in Nat /\ s \ {x} \in Upto(n)
      BY <3>1, <3>2
    <3> QED BY <3>3 DEF x
  <2>3. g \in [Upto(n + 1) -> Nat]
    BY <2>2
  <2>4. \A s \in Upto(n) : s \in Upto(n + 1) /\ g[s] = h[s]
    <3>1. \A s \in Upto(n) : s \in Upto(n + 1)
      BY <1>1
    <3> QED BY <2>1, <3>1
  <2>5. \A s \in Upto(n + 1) : step(g, s) = step(h, s)
    <3> HIDE DEF g, Upto
    <3> QED BY <2>2, <2>4
  <2>6. g = [s \in Upto(n + 1) |-> step(g, s)]
    <3>1. g = [s \in Upto(n + 1) |-> step(h, s)]
      OBVIOUS
    <3> HIDE DEF g, step
    <3> QED BY <2>5, <3>1
  <2> QED BY <2>3, <2>6
<1>5. Bad = {}
  <2> SUFFICES ASSUME Bad # {} PROVE FALSE
    OBVIOUS
  <2> HIDE DEF Good
  <2>1. PICK n \in Bad : \A m \in Bad : n <= m
    BY Least
  <2>2. n # 0 /\ n \in Nat /\ ~Good(n)
    BY <1>3
  <2>3. n - 1 \in Nat /\ (n - 1) + 1 = n
    BY <2>2
  <2>4. ~Good(n - 1)
    BY <1>4, <2>2, <2>3
  <2>5. n <= n - 1
    BY <2>1, <2>3, <2>4
  <2> QED BY <2>2, <2>5
<1>6. Good(Cardinality(U))
  <2> HIDE DEF Good
  <2> QED BY <1>2, <1>5
<1> QED BY <1>2, <1>6 DEF IsSum

(* The sums over the subsets of a subset are the same ones.                *)
LEMMA SumsAgree ==
  ASSUME NEW f, NEW U, IsFiniteSet(U), NEW V \in SUBSET U,
         NEW g, IsSum(f, U, g), NEW h, IsSum(f, V, h)
  PROVE  \A s \in SUBSET V : h[s] = g[s]
<1> DEFINE G == {s \in SUBSET V : h[s] = g[s]}
<1>1. IsFiniteSet(V)
  BY FS_Subset
<1>2. ASSUME NEW s \in SUBSET V, \A r \in SUBSET V : Cardinality(r) < Cardinality(s) => r \in G
      PROVE  s \in G
  <2>1. CASE s = {}
    BY <2>1 DEF IsSum
  <2>2. CASE s # {}
    <3> DEFINE x == CHOOSE y \in s : TRUE
    <3>1. /\ x \in s /\ s \ {x} \in SUBSET V
          /\ Cardinality(s \ {x}) = Cardinality(s) - 1 /\ Cardinality(s) \in Nat
      BY <1>1, <2>2, Picked
    <3>2. h[s] = f[x] + h[s \ {x}] /\ g[s] = f[x] + g[s \ {x}]
      BY <2>2 DEF IsSum
    <3> HIDE DEF x
    <3>3. Cardinality(s \ {x}) < Cardinality(s)
      BY <3>1
    <3>4. h[s \ {x}] = g[s \ {x}]
      BY <1>2, <3>1, <3>3
    <3> QED BY <3>2, <3>4
  <2> QED BY <2>1, <2>2
<1> HIDE DEF G
<1>3. SUBSET V \subseteq G
  BY <1>1, <1>2, BySize
<1> QED BY <1>3 DEF G

(* Sums of natural numbers over finite sets.                               *)
LEMMA SumPick ==
  ASSUME NEW f, NEW U, IsFiniteSet(U), \A x \in U : f[x] \in Nat
  PROVE  /\ SumFunctionOnSet(f, U) \in Nat
         /\ U = {} => SumFunctionOnSet(f, U) = 0
         /\ U # {} => LET x == CHOOSE y \in U : TRUE
                      IN  SumFunctionOnSet(f, U) = f[x] + SumFunctionOnSet(f, U \ {x})
<1>1. \A V \in SUBSET U : \E g \in [SUBSET V -> Nat] : IsSum(f, V, g)
  BY FS_Subset, PartialSums
<1> DEFINE sum(V) == CHOOSE g : IsSum(f, V, g)
<1>2. \A V \in SUBSET U : IsSum(f, V, sum(V)) /\ SumFunctionOnSet(f, V) = sum(V)[V]
  BY <1>1, SumIs
<1> HIDE DEF sum
<1>3. PICK g \in [SUBSET U -> Nat] : IsSum(f, U, g)
  BY <1>1
<1>4. \A V \in SUBSET U : SumFunctionOnSet(f, V) = g[V]
  <2> TAKE V \in SUBSET U
  <2>1. IsSum(f, V, sum(V)) /\ SumFunctionOnSet(f, V) = sum(V)[V]
    BY <1>2
  <2> DEFINE h == sum(V)
  <2> HIDE DEF h
  <2>2. IsSum(f, V, h)
    BY <2>1 DEF h
  <2>3. \A s \in SUBSET V : h[s] = g[s]
    BY <1>3, <2>2, SumsAgree
  <2> QED BY <2>1, <2>3 DEF h
<1>5. SumFunctionOnSet(f, U) \in Nat
  BY <1>3, <1>4
<1>6. U = {} => SumFunctionOnSet(f, U) = 0
  BY <1>3, <1>4 DEF IsSum
<1>7. ASSUME U # {}
      PROVE  LET x == CHOOSE y \in U : TRUE
             IN  SumFunctionOnSet(f, U) = f[x] + SumFunctionOnSet(f, U \ {x})
  <2> DEFINE x == CHOOSE y \in U : TRUE
  <2>1. g[U] = f[x] + g[U \ {x}]
    BY <1>3, <1>7 DEF IsSum
  <2> QED BY <1>4, <2>1
<1> QED BY <1>5, <1>6, <1>7

(* A sum grows by the value of the element that is added.                  *)
LEMMA SumInsert ==
  ASSUME NEW f, NEW U, IsFiniteSet(U), \A x \in U : f[x] \in Nat, NEW S \in SUBSET U, NEW p \in U \ S
  PROVE  SumFunctionOnSet(f, S \cup {p}) = SumFunctionOnSet(f, S) + f[p]
<1> DEFINE Sum(T) == SumFunctionOnSet(f, T)
           G == {s \in SUBSET U : \A q \in U \ s : Sum(s \cup {q}) = Sum(s) + f[q]}
<1>1. ASSUME NEW T \in SUBSET U
      PROVE  /\ Sum(T) \in Nat /\ IsFiniteSet(T) /\ Cardinality(T) \in Nat
             /\ T # {} => LET x == CHOOSE y \in T : TRUE IN Sum(T) = f[x] + Sum(T \ {x})
  <2>1. IsFiniteSet(T) /\ \A x \in T : f[x] \in Nat
    BY FS_Subset
  <2> QED BY <2>1, SumPick, FS_CardinalityType
<1> HIDE DEF Sum
<1>2. ASSUME NEW s \in SUBSET U, \A r \in SUBSET U : Cardinality(r) < Cardinality(s) => r \in G,
             NEW q \in U \ s
      PROVE  Sum(s \cup {q}) = Sum(s) + f[q]
  <2> DEFINE T == s \cup {q}
             x == CHOOSE y \in T : TRUE
  <2>1. x \in T /\ T \in SUBSET U
    OBVIOUS
  <2>2. Sum(T) = f[x] + Sum(T \ {x})
    BY <1>1, <2>1
  <2> HIDE DEF x
  <2>3. CASE x = q
    <3>1. T \ {x} = s
      BY <2>3
    <3>2. Sum(s) \in Nat /\ f[q] \in Nat
      BY <1>1
    <3>3. Sum(T) = f[q] + Sum(s)
      BY <2>2, <2>3, <3>1
    <3>4. f[q] + Sum(s) = Sum(s) + f[q]
      BY <3>2
    <3> QED BY <3>3, <3>4
  <2>4. CASE x # q
    <3> DEFINE r == s \ {x}
    <3>1. x \in s /\ r \in SUBSET U /\ x \in U \ r /\ q \in U \ r
      BY <2>1, <2>4
    <3>2. T \ {x} = r \cup {q} /\ r \cup {x} = s
      BY <2>4, <3>1
    <3>3. IsFiniteSet(s) /\ Cardinality(s) \in Nat
      BY <1>1
    <3>4. Cardinality(r) = Cardinality(s) - 1
      BY <3>1, <3>3, FS_RemoveElement
    <3> HIDE DEF r, T
    <3>5. Cardinality(r) < Cardinality(s)
      BY <3>3, <3>4
    <3>6. r \in G
      BY <1>2, <3>1, <3>5
    <3>7. Sum(r \cup {q}) = Sum(r) + f[q] /\ Sum(r \cup {x}) = Sum(r) + f[x]
      BY <3>1, <3>6
    <3>8. Sum(r) \in Nat /\ f[q] \in Nat /\ f[x] \in Nat
      BY <1>1, <3>1
    <3>9. Sum(T) = f[x] + (Sum(r) + f[q]) /\ Sum(s) = Sum(r) + f[x]
      BY <2>2, <3>2, <3>7
    <3>10. Sum(T) = Sum(s) + f[q]
      BY <3>8, <3>9
    <3> QED BY <3>10 DEF T
  <2> QED BY <2>3, <2>4
<1>3. \A s \in SUBSET U :
        (\A r \in SUBSET U : Cardinality(r) < Cardinality(s) => r \in G) => s \in G
  BY <1>2
<1>4. SUBSET U \subseteq G
  <2> HIDE DEF G
  <2> QED BY <1>3, BySize
<1>5. Sum(S \cup {p}) = Sum(S) + f[p]
  BY <1>4
<1> QED BY <1>5 DEF Sum

-----------------------------------------------------------------------------
(* Execution grading: the loop, its pool of threads and the verdict cache. *)

GraderTypes ==
  /\ gi \in [Slots -> Problems] /\ text \in [Slots -> Texts]
  /\ file \in [Problems -> {"good", "absent", "broken"}]
  /\ method \in Methods /\ pc \in {"read", "load", "drain", "done", "raised"}
  /\ problem \in Problems \cup {0} /\ queue \subseteq Slots
  /\ worker \in [Workers -> [slot : Slots, key : Problems \X Texts] \cup {None}]
  /\ cache \in [Problems \X Texts -> Nat \cup {None}]
  /\ score \in [Slots -> (Problems \X Nat) \cup {None}]
  /\ held \subseteq Problems /\ IsFiniteSet(held)

\* Completions are with the pool only while the loop drains it, each one once, all of
\* the loop's problem, whose tests could be loaded.
PoolInStep ==
  /\ pc # "drain" => queue = {} /\ \A w \in Workers : worker[w] = None
  /\ pc = "drain" =>
       /\ problem \in Problems /\ file[problem] = "good" /\ queue \subseteq Batch(problem)
       /\ \A s \in queue : score[s] = None
       /\ \A w \in Workers : worker[w] # None =>
            /\ worker[w].slot \in Batch(problem) \ queue
            /\ worker[w].key = <<problem, text[worker[w].slot]>>
            /\ score[worker[w].slot] = None
       /\ \A v, w \in Workers : v # w /\ worker[v] # None /\ worker[w] # None =>
            worker[v].slot # worker[w].slot

\* The loop has scored what lies behind it and nothing that lies ahead.
LoopInStep ==
  /\ \A m \in Methods :
       /\ m < method \/ (m = method /\ pc \in {"load", "drain", "done"}) => ~Corrupt(m)
       /\ m < method => \A s \in SlotsOf(m) : (score[s] # None <=> s \in Graded(m))
       /\ m > method \/ (m = method /\ pc \in {"read", "raised"}) =>
            \A s \in SlotsOf(m) : score[s] = None
  /\ pc = "done" => method = LastMethod /\ Left = {}
  /\ pc \in {"load", "done"} => \A s \in SlotsOf(method) :
       (score[s] # None <=> s \in Graded(method) /\ gi[s] <= problem)
  /\ pc = "drain" => \A s \in SlotsOf(method) :
       /\ score[s] # None => s \in Graded(method) /\ gi[s] <= problem
       /\ s \in Graded(method) /\ gi[s] < problem => score[s] # None

\* One directory holds a program twice for a problem.
HeldTwice(p, t) ==
  \E m \in Methods : \E x, y \in SlotsOf(m) :
    x # y /\ gi[x] = p /\ gi[y] = p /\ text[x] = t /\ text[y] = t

\* A verdict that was given is in the cache, and stays the one in the cache unless two
\* threads ran the same program side by side.
CacheInStep ==
  /\ \A p \in Problems, t \in Texts : cache[<<p, t>>] # None => cache[<<p, t>>] \in Solves(p, t)
  /\ \A s \in Slots : score[s] # None =>
       /\ file[gi[s]] # "absent"
       /\ file[gi[s]] = "good" =>
            /\ cache[<<gi[s], text[s]>>] # None
            /\ score[s][2] = cache[<<gi[s], text[s]>>] \/ HeldTwice(gi[s], text[s])
  /\ \A w \in Workers : worker[w] # None /\ cache[worker[w].key] # None =>
       HeldTwice(worker[w].key[1], worker[w].key[2])

GraderInv ==
  /\ GraderTypes /\ PoolInStep /\ LoopInStep /\ CacheInStep /\ ScoredOnOwnProblem /\ StoreBounded

(* Each completion is in one directory, and the directories are counted from 1.*)
LEMMA SlotsApart ==
  /\ \A m \in Methods : SlotsOf(m) \subseteq Slots
  /\ \A s \in Slots : \E m \in Methods : s \in SlotsOf(m)
  /\ \A m, n \in Methods, s \in Slots : s \in SlotsOf(m) /\ s \in SlotsOf(n) => m = n
  /\ Methods \subseteq Nat \ {0} /\ LastMethod \in Methods /\ \A m \in Methods : m <= LastMethod
  /\ \A m \in Methods : m # LastMethod => m + 1 \in Methods
  /\ 1 \in Methods
<1> DEFINE n == Cardinality(Methods)
<1>1. Methods = 1..n /\ n \in Nat /\ n # 0
  BY GraderAssumption, FS_CardinalityType, FS_EmptySet
<1> HIDE DEF n
<1>2. n \in Methods /\ \A m \in Methods : m <= n
  BY <1>1
<1>3. LastMethod \in Methods /\ \A m \in Methods : m <= LastMethod
  BY <1>2 DEF LastMethod
<1>4. LastMethod = n
  BY <1>1, <1>2, <1>3
<1>5. /\ Methods \subseteq Nat \ {0} /\ 1 \in Methods
      /\ \A m \in Methods : m # LastMethod => m + 1 \in Methods
  BY <1>1, <1>4
<1> QED BY <1>3, <1>5, GraderAssumption DEF Slots

(* Before the first directory is read.                                     *)
LEMMA GraderStarts == GraderInit => GraderInv
<1> SUFFICES ASSUME GraderInit PROVE GraderInv
  OBVIOUS
<1>1. \A m \in Methods : SlotsOf(m) \subseteq Slots /\ 1 <= m /\ m \in Nat /\ 1 \in Methods
  BY SlotsApart
<1>2. GraderTypes
  BY <1>1, FS_EmptySet, GraderAssumption DEF GraderInit, GraderTypes
<1>3. PoolInStep
  BY DEF GraderInit, PoolInStep
<1>4. LoopInStep
  BY <1>1 DEF GraderInit, LoopInStep
<1>5. CacheInStep /\ ScoredOnOwnProblem
  BY DEF GraderInit, CacheInStep, ScoredOnOwnProblem
<1>6. StoreBounded
  <2>1. SumFunctionOnSet(TestBytes, {}) = 0
    BY SumPick, FS_EmptySet
  <2> QED BY <2>1, GraderAssumption DEF GraderInit, StoreBounded
<1> QED BY <1>2, <1>3, <1>4, <1>5, <1>6 DEF GraderInv

\* The parts that only read what a step leaves alone.
LEMMA ScoresStay ==
  ASSUME GraderInv, UNCHANGED <<inputs, score>>
  PROVE  ScoredOnOwnProblem'
BY DEF GraderInv, ScoredOnOwnProblem, inputs

LEMMA CacheStays ==
  ASSUME GraderInv, UNCHANGED <<inputs, score, cache, worker>>
  PROVE  CacheInStep'
BY DEF GraderInv, CacheInStep, HeldTwice, inputs

LEMMA StoreStays ==
  ASSUME GraderInv, held' = held
  PROVE  StoreBounded'
BY DEF GraderInv, StoreBounded

(* Reading a directory: an exception if it has an index twice.             *)
LEMMA ReadKeeps == ASSUME GraderInv, Read PROVE GraderInv'
<1>1. GraderTypes'
  BY DEF GraderInv, GraderTypes, Read, inputs
<1>2. PoolInStep'
  BY DEF GraderInv, PoolInStep, Read
<1>3. LoopInStep'
  <2>1. \A m \in Methods : Corrupt(m)' = Corrupt(m) /\ Graded(m)' = Graded(m)
    BY DEF Read, inputs, Corrupt, Graded
  <2>2. method \in Methods /\ method \in Nat /\ (\A m \in Methods : SlotsOf(m) \subseteq Slots /\ m \in Nat)
    BY SlotsApart DEF GraderInv, GraderTypes
  <2>3. \A s \in Slots : gi[s] \in Nat /\ ~(gi[s] <= 0)
    BY GraderAssumption DEF GraderInv, GraderTypes
  <2> QED BY <2>1, <2>2, <2>3 DEF GraderInv, LoopInStep, Read, inputs, Corrupt
<1>4. ScoredOnOwnProblem' /\ CacheInStep' /\ StoreBounded'
  BY ScoresStay, CacheStays, StoreStays DEF Read
<1> QED BY <1>1, <1>2, <1>3, <1>4 DEF GraderInv

(* Load goes to the next problem that has a completion.                    *)
LEMMA NextProblem ==
  ASSUME GraderInv, Load
  PROVE  /\ problem' \in Left /\ \A q \in Left : problem' <= q
         /\ problem' \in Problems /\ problem' \in Nat /\ problem \in Nat /\ problem < problem'
<1>1. Left \subseteq Problems /\ \A p \in Problems : p \in Nat
  BY SlotsApart, GraderAssumption DEF GraderInv, GraderTypes, Left, Graded
<1>2. Left \subseteq Nat
  BY <1>1
<1>3. Left # {} /\ problem' = CHOOSE p \in Left : \A q \in Left : p <= q
  BY DEF Load
<1>4. \E p \in Left : \A q \in Left : p <= q
  BY <1>2, <1>3, Least
<1>5. problem' \in Left /\ \A q \in Left : problem' <= q
  BY <1>3, <1>4, Zenon
<1>6. problem \in Nat
  BY GraderAssumption DEF GraderInv, GraderTypes
<1>7. problem' \notin 0..problem /\ problem' \in Nat
  BY <1>2, <1>5 DEF Left
<1>8. problem < problem'
  BY <1>6, <1>7
<1> QED BY <1>1, <1>5, <1>6, <1>7, <1>8

(* The test store is within its capacity after it took in a problem.       *)
LEMMA HeldFits ==
  ASSUME GraderInv, NEW p \in Problems
  PROVE  LET h == HeldWith(p)
         IN  /\ h \subseteq Problems /\ IsFiniteSet(h)
             /\ SumFunctionOnSet(TestBytes, h) <= Capacity
<1> DEFINE h == HeldWith(p)
           U == held \cup {p}
<1>1. /\ held \subseteq Problems /\ IsFiniteSet(held)
      /\ SumFunctionOnSet(TestBytes, held) <= Capacity
  BY DEF GraderInv, GraderTypes, StoreBounded
<1>2. CASE h = held
  BY <1>1, <1>2
<1>3. CASE h # held
  <2>1. /\ p \notin held /\ h = U
        /\ ~(SumFunctionOnSet(TestBytes, held) + TestBytes[p] > Capacity)
    BY <1>3 DEF HeldWith
  <2>2. IsFiniteSet(U) /\ U \subseteq Problems /\ held \in SUBSET U /\ p \in U \ held
    BY <1>1, <2>1, FS_AddElement
  <2>3. \A x \in U : TestBytes[x] \in Nat
    BY <2>2, GraderAssumption
  <2>4. SumFunctionOnSet(TestBytes, held \cup {p}) = SumFunctionOnSet(TestBytes, held) + TestBytes[p]
    BY <2>2, <2>3, SumInsert
  <2>5. SumFunctionOnSet(TestBytes, U) \in Nat
    BY <2>2, <2>3, SumPick
  <2>6. \A x \in held : TestBytes[x] \in Nat
    BY <2>3
  <2>7. SumFunctionOnSet(TestBytes, held) \in Nat /\ TestBytes[p] \in Nat /\ Capacity \in Nat
    BY <1>1, <2>6, SumPick, GraderAssumption
  <2> DEFINE a == SumFunctionOnSet(TestBytes, held)
             b == SumFunctionOnSet(TestBytes, U)
  <2>8. b = a + TestBytes[p] /\ ~(a + TestBytes[p] > Capacity)
    BY <2>1, <2>4
  <2> HIDE DEF a, b
  <2>9. b <= Capacity
    BY <2>7, <2>8 DEF a
  <2> QED BY <2>1, <2>2, <2>9 DEF b
<1> QED BY <1>2, <1>3

(* What a directory has graded is a matter of the inputs.                  *)
LEMMA GradedStays ==
  ASSUME UNCHANGED inputs
  PROVE  \A m \in Methods : Corrupt(m)' = Corrupt(m) /\ Graded(m)' = Graded(m)
BY DEF inputs, Corrupt, Graded

(* Loading a problem's tests, or scoring its completions 0 without them.   *)
LEMMA LoadKeeps == ASSUME GraderInv, Load PROVE GraderInv'
<1> DEFINE p == problem'
<1>1. /\ p \in Left /\ \A q \in Left : p <= q
      /\ p \in Problems /\ p \in Nat /\ problem \in Nat /\ problem < p
  BY NextProblem
<1>2. UNCHANGED <<inputs, method, worker, cache>> /\ pc = "load" /\ method \in Methods
  BY DEF Load, GraderInv, GraderTypes
<1>3. /\ Batch(p) \subseteq SlotsOf(method) /\ SlotsOf(method) \subseteq Slots
      /\ \A s \in Batch(p) : s \in Graded(method) /\ gi[s] = p /\ score[s] = None
  <2>1. \A s \in Batch(p) : s \in Graded(method) /\ s \in SlotsOf(method) /\ gi[s] = p
    BY DEF Batch, Graded
  <2>2. SlotsOf(method) \subseteq Slots
    BY <1>2, SlotsApart
  <2>3. \A s \in SlotsOf(method) : score[s] # None => gi[s] <= problem
    BY <1>2 DEF GraderInv, LoopInStep
  <2>4. \A s \in Batch(p) : ~(gi[s] <= problem)
    BY <1>1, <2>1
  <2> QED BY <2>1, <2>2, <2>3, <2>4
<1>4. Batch(problem)' = Batch(p)
  BY <1>2 DEF Batch, Graded, inputs
<1>5. \A s \in SlotsOf(method) :
        /\ s \in Graded(method) /\ gi[s] <= problem <=> score[s] # None
        /\ s \in Graded(method) => gi[s] \in Nat
        /\ s \in Graded(method) /\ gi[s] <= p => gi[s] <= problem \/ s \in Batch(p)
  <2>1. \A s \in SlotsOf(method) : gi[s] \in Problems /\ gi[s] \in Nat
    BY <1>3, GraderAssumption DEF GraderInv, GraderTypes
  <2>2. \A s \in SlotsOf(method) : s \in Graded(method) /\ gi[s] <= problem <=> score[s] # None
    BY <1>2 DEF GraderInv, LoopInStep
  <2>3. ASSUME NEW s \in SlotsOf(method), s \in Graded(method), gi[s] <= p, ~(gi[s] <= problem)
        PROVE  s \in Batch(p)
    <3>1. gi[s] \in Nat /\ gi[s] \notin 0..problem
      BY <1>1, <2>1, <2>3
    <3>2. gi[s] \in Left
      BY <2>3, <3>1 DEF Left
    <3>3. p <= gi[s]
      BY <1>1, <3>2
    <3>4. gi[s] = p
      BY <1>1, <2>3, <3>1, <3>3
    <3> QED BY <2>3, <3>4 DEF Batch
  <2> QED BY <2>1, <2>2, <2>3
<1>6. CASE file[p] = "broken"
  <2>1. /\ score' = [s \in Slots |-> IF s \in Batch(p) THEN <<p, 0>> ELSE score[s]]
        /\ UNCHANGED <<pc, queue, held>>
    BY <1>6 DEF Load
  <2>2. <<p, 0>> # None /\ <<p, 0>> \in Problems \X Nat
    BY <1>1, GraderAssumption
  <2> HIDE DEF p
  <2>3. score' \in [Slots -> (Problems \X Nat) \cup {None}]
    BY <2>1, <2>2 DEF GraderInv, GraderTypes
  <2>4. GraderTypes'
    BY <1>1, <1>2, <2>1, <2>3 DEF GraderInv, GraderTypes, inputs, p
  <2>5. PoolInStep'
    BY <1>2, <2>1 DEF GraderInv, PoolInStep
  <2>6. ASSUME NEW m \in Methods, m # method, NEW s \in SlotsOf(m) PROVE score'[s] = score[s]
    <3>1. s \in Slots /\ s \notin Batch(p)
      BY <1>2, <1>3, <2>6, SlotsApart
    <3> QED BY <2>1, <3>1
  <2>7. \A s \in SlotsOf(method) : score'[s] # None <=> s \in Graded(method) /\ gi[s] <= p
    BY <1>1, <1>3, <1>5, <2>1, <2>2
  <2>8. LoopInStep'
    <3>1. \A m \in Methods : Corrupt(m)' = Corrupt(m) /\ Graded(m)' = Graded(m)
      BY <1>2, GradedStays
    <3>2. method \in Nat /\ Methods \subseteq Nat
      BY <1>2, SlotsApart
    <3>3. method' = method /\ pc' = pc /\ gi' = gi /\ problem' = p
      BY <1>2, <2>1 DEF inputs, p
    <3>4. \A m \in Methods :
            /\ m < method \/ m = method => ~Corrupt(m)
            /\ m < method => \A s \in SlotsOf(m) : (score[s] # None <=> s \in Graded(m))
            /\ m > method => \A s \in SlotsOf(m) : score[s] = None
      BY <1>2 DEF GraderInv, LoopInStep
    <3>5. \A m \in Methods : m < method \/ m > method => m # method
      BY <3>2
    <3> QED BY <1>2, <2>6, <2>7, <3>1, <3>3, <3>4, <3>5 DEF LoopInStep
  <2>9. CacheInStep' /\ ScoredOnOwnProblem'
    <3>1. \A s \in Batch(p) : score'[s] = <<p, 0>> /\ gi[s] = p /\ file[gi[s]] = "broken"
      BY <1>3, <1>6, <2>1
    <3>2. \A s \in Slots \ Batch(p) : score'[s] = score[s]
      BY <2>1
    <3>3. <<p, 0>>[1] = p /\ <<p, 0>>[2] = 0
      OBVIOUS
    <3>4. gi' = gi /\ text' = text /\ file' = file /\ cache' = cache /\ worker' = worker
      BY <1>2 DEF inputs
    <3>5. ScoredOnOwnProblem'
      BY <3>1, <3>2, <3>3, <3>4 DEF GraderInv, ScoredOnOwnProblem
    <3>6. CacheInStep'
      BY <3>1, <3>2, <3>4 DEF GraderInv, CacheInStep, HeldTwice
    <3> QED BY <3>5, <3>6
  <2> QED BY <2>1, <2>4, <2>5, <2>8, <2>9, StoreStays DEF GraderInv
<1>7. CASE file[p] # "broken"
  <2>1. queue' = Batch(p) /\ pc' = "drain" /\ held' = HeldWith(p) /\ score' = score
    BY <1>7 DEF Load
  <2>2. file[p] = "good"
    <3>1. PICK s \in Graded(method) : gi[s] = p
      BY <1>1 DEF Left
    <3>2. file[p] # "absent"
      BY <3>1 DEF Graded
    <3> QED BY <1>1, <1>7, <3>2 DEF GraderInv, GraderTypes
  <2>3. held' \subseteq Problems /\ IsFiniteSet(held') /\ StoreBounded'
    BY <1>1, <2>1, HeldFits DEF StoreBounded
  <2> HIDE DEF p
  <2>4. GraderTypes'
    BY <1>1, <1>2, <1>3, <2>1, <2>3 DEF GraderInv, GraderTypes, inputs, p
  <2>5. PoolInStep'
    <3>1. /\ problem' = p /\ file' = file /\ worker' = worker /\ score' = score
          /\ \A w \in Workers : worker[w] = None
      BY <1>2, <2>1 DEF GraderInv, PoolInStep, inputs, p
    <3> QED BY <1>1, <1>3, <1>4, <2>1, <2>2, <3>1 DEF PoolInStep
  <2>6. LoopInStep'
    <3>1. \A m \in Methods : Corrupt(m)' = Corrupt(m) /\ Graded(m)' = Graded(m)
      BY <1>2, GradedStays
    <3>2. method' = method /\ pc' = "drain" /\ gi' = gi /\ problem' = p
      BY <1>2, <2>1 DEF inputs, p
    <3>3. \A m \in Methods :
            /\ m < method \/ m = method => ~Corrupt(m)
            /\ m < method => \A s \in SlotsOf(m) : (score[s] # None <=> s \in Graded(m))
            /\ m > method => \A s \in SlotsOf(m) : score[s] = None
      BY <1>2 DEF GraderInv, LoopInStep
    <3>4. \A s \in SlotsOf(method) :
            /\ score[s] # None => s \in Graded(method) /\ gi[s] <= p
            /\ s \in Graded(method) /\ gi[s] < p => score[s] # None
      <4> SUFFICES ASSUME NEW s \in SlotsOf(method)
                   PROVE  /\ score[s] # None => s \in Graded(method) /\ gi[s] <= p
                          /\ s \in Graded(method) /\ gi[s] < p => score[s] # None
        OBVIOUS
      <4>1. score[s] # None => s \in Graded(method) /\ gi[s] <= problem /\ gi[s] \in Nat
        BY <1>5
      <4>2. s \in Graded(method) /\ gi[s] < p => gi[s] \in Nat
        BY <1>5
      <4>3. s \in Graded(method) /\ gi[s] < p => gi[s] <= p /\ s \notin Batch(p)
        BY <1>1, <1>3, <4>2
      <4>4. s \in Graded(method) /\ gi[s] < p => score[s] # None
        BY <1>5, <4>3
      <4> QED BY <1>1, <4>1, <4>4
    <3> QED BY <1>2, <2>1, <3>1, <3>2, <3>3, <3>4 DEF LoopInStep
  <2>7. ScoredOnOwnProblem' /\ CacheInStep'
    BY <1>2, <2>1, ScoresStay, CacheStays
  <2> QED BY <2>3, <2>4, <2>5, <2>6, <2>7 DEF GraderInv
<1> QED BY <1>6, <1>7

(* The loop goes on when the pool has drained.                             *)
LEMMA DrainKeeps == ASSUME GraderInv, Drain PROVE GraderInv'
<1>1. /\ pc = "drain" /\ pc' = "load" /\ Drained
      /\ UNCHANGED <<inputs, method, problem, queue, worker, cache, score, held>>
      /\ method \in Methods
  BY DEF Drain, GraderInv, GraderTypes
<1>2. GraderTypes'
  BY <1>1 DEF GraderInv, GraderTypes, inputs
<1>3. PoolInStep'
  <2>1. Batch(problem) \subseteq Slots
    BY <1>1, SlotsApart DEF Batch, Graded
  <2>2. queue = {}
    BY <1>1 DEF GraderInv, PoolInStep, Drained
  <2>3. \A w \in Workers : worker[w] = None
    BY <1>1 DEF GraderInv, PoolInStep, Drained
  <2> QED BY <1>1, <2>2, <2>3 DEF PoolInStep
<1>4. LoopInStep'
  <2>1. \A m \in Methods : Corrupt(m)' = Corrupt(m) /\ Graded(m)' = Graded(m)
    BY <1>1, GradedStays
  <2>2. ASSUME NEW s \in SlotsOf(method)
        PROVE  score[s] # None <=> s \in Graded(method) /\ gi[s] <= problem
    <3>1. gi[s] \in Nat /\ problem \in Nat
      BY <1>1, <2>2, SlotsApart, GraderAssumption DEF GraderInv, GraderTypes
    <3>2. gi[s] <= problem <=> gi[s] < problem \/ gi[s] = problem
      BY <3>1
    <3>3. s \in Graded(method) /\ gi[s] = problem => score[s] # None
      BY <1>1 DEF Drained, Batch
    <3> QED BY <1>1, <2>2, <3>2, <3>3 DEF GraderInv, LoopInStep
  <2> QED BY <1>1, <2>1, <2>2 DEF GraderInv, LoopInStep, inputs
<1>5. ScoredOnOwnProblem' /\ CacheInStep' /\ StoreBounded'
  BY <1>1, ScoresStay, CacheStays, StoreStays
<1> QED BY <1>2, <1>3, <1>4, <1>5 DEF GraderInv

(* The next directory starts with the cache of the last one.               *)
LEMMA NextMethodKeeps == ASSUME GraderInv, NextMethod PROVE GraderInv'
<1>1. /\ pc = "load" /\ Left = {}
      /\ UNCHANGED <<inputs, problem, queue, worker, cache, score, held>>
      /\ method \in Methods
      /\ method = LastMethod => pc' = "done" /\ method' = method
      /\ method # LastMethod => pc' = "read" /\ method' = method + 1
  BY DEF NextMethod, GraderInv, GraderTypes
<1>2. method' \in Methods /\ method \in Nat
  BY <1>1, SlotsApart
<1>3. GraderTypes'
  BY <1>1, <1>2 DEF GraderInv, GraderTypes, inputs
<1>4. PoolInStep'
  BY <1>1 DEF GraderInv, PoolInStep
<1>5. LoopInStep'
  <2>1. \A m \in Methods : Corrupt(m)' = Corrupt(m) /\ Graded(m)' = Graded(m)
    BY <1>1, GradedStays
  <2>2. ASSUME NEW s \in SlotsOf(method) PROVE score[s] # None <=> s \in Graded(method)
    <3>1. gi[s] \in Nat /\ problem \in Nat
      BY <1>1, <2>2, SlotsApart, GraderAssumption DEF GraderInv, GraderTypes
    <3>2. s \in Graded(method) => gi[s] \in 0..problem
      BY <1>1 DEF Left
    <3> QED BY <1>1, <2>2, <3>1, <3>2 DEF GraderInv, LoopInStep
  <2>3. \A m \in Methods :
          /\ m < method \/ m = method => ~Corrupt(m)
          /\ m < method \/ m = method => \A s \in SlotsOf(m) : (score[s] # None <=> s \in Graded(m))
          /\ m > method => \A s \in SlotsOf(m) : score[s] = None
    BY <1>1, <2>2 DEF GraderInv, LoopInStep
  <2>4. CASE method = LastMethod
    <3>1. pc' = "done" /\ method' = method /\ Left' = {}
      BY <1>1, <2>1, <2>4 DEF Left, inputs
    <3>2. \A s \in SlotsOf(method) : score[s] # None <=> s \in Graded(method) /\ gi[s] <= problem
      BY <1>1 DEF GraderInv, LoopInStep
    <3> QED BY <1>1, <2>1, <2>3, <2>4, <3>1, <3>2 DEF LoopInStep, inputs
  <2>5. CASE method # LastMethod
    <3>1. pc' = "read" /\ method' = method + 1 /\ Methods \subseteq Nat
      BY <1>1, <2>5, SlotsApart
    <3>2. \A m \in Methods :
            /\ m < method + 1 => m < method \/ m = method
            /\ m > method + 1 \/ m = method + 1 => m > method
      BY <1>2, <3>1
    <3> QED BY <1>1, <2>1, <2>3, <3>1, <3>2 DEF LoopInStep, inputs
  <2> QED BY <2>4, <2>5
<1>6. ScoredOnOwnProblem' /\ CacheInStep' /\ StoreBounded'
  BY <1>1, ScoresStay, CacheStays, StoreStays
<1> QED BY <1>3, <1>4, <1>5, <1>6 DEF GraderInv

\* What a thread may assume of a completion it takes.
LEMMA Submitted ==
  ASSUME GraderInv, pc = "drain", NEW s, s \in Batch(problem)
  PROVE  /\ s \in Slots /\ s \in SlotsOf(method) /\ s \in Graded(method) /\ method \in Methods
         /\ gi[s] = problem /\ file[gi[s]] = "good" /\ problem \in Problems /\ problem \in Nat
         /\ text[s] \in Texts /\ Key(s) = <<gi[s], text[s]>> /\ Key(s) \in Problems \X Texts
BY SlotsApart, GraderAssumption DEF GraderInv, GraderTypes, PoolInStep, Batch, Graded, Key

\* A completion of the loop's problem gets its score.
LEMMA ScoreKeepsLoop ==
  ASSUME GraderInv, pc = "drain", NEW s, s \in Batch(problem), NEW v, v # None,
         score' = [score EXCEPT ![s] = v], UNCHANGED <<inputs, method, pc, problem>>
  PROVE  LoopInStep'
<1>1. /\ s \in Slots /\ s \in SlotsOf(method) /\ s \in Graded(method) /\ method \in Methods
      /\ gi[s] = problem /\ problem \in Nat
  BY Submitted
<1>2. \A m \in Methods : Corrupt(m)' = Corrupt(m) /\ Graded(m)' = Graded(m)
  BY GradedStays
<1>3. score \in [Slots -> (Problems \X Nat) \cup {None}] /\ method \in Nat
  BY SlotsApart DEF GraderInv, GraderTypes
<1>4. \A t \in Slots : score'[t] = IF t = s THEN v ELSE score[t]
  BY <1>3
<1>5. ASSUME NEW m \in Methods, m # method, NEW t \in SlotsOf(m) PROVE score'[t] = score[t]
  <2>1. t \in Slots /\ t # s
    BY <1>1, <1>5, SlotsApart
  <2> QED BY <1>4, <2>1
<1>6. \A t \in SlotsOf(method) :
        /\ score'[t] # None => t \in Graded(method) /\ gi[t] <= problem
        /\ t \in Graded(method) /\ gi[t] < problem => score'[t] # None
  <2>1. \A t \in SlotsOf(method) :
        /\ score[t] # None => t \in Graded(method) /\ gi[t] <= problem
        /\ t \in Graded(method) /\ gi[t] < problem => score[t] # None
    BY DEF GraderInv, LoopInStep
  <2>2. SlotsOf(method) \subseteq Slots /\ problem <= problem
    BY <1>1, SlotsApart
  <2> QED BY <1>1, <1>4, <2>1, <2>2
<1>7. \A m \in Methods : m < method \/ m > method => m # method
  BY <1>3, SlotsApart
<1>8. \A m \in Methods :
        /\ m < method \/ m = method => ~Corrupt(m)
        /\ m < method => \A t \in SlotsOf(m) : (score[t] # None <=> t \in Graded(m))
        /\ m > method => \A t \in SlotsOf(m) : score[t] = None
  BY DEF GraderInv, LoopInStep
<1> QED BY <1>1, <1>2, <1>5, <1>6, <1>7, <1>8 DEF LoopInStep, inputs

(* A thread takes a completion, and its verdict if the cache has it.       *)
LEMMA TakeKeeps ==
  ASSUME GraderInv, NEW w \in Workers, NEW s, Take(w, s)
  PROVE  GraderInv'
<1>1. /\ worker[w] = None /\ s \in queue /\ queue' = queue \ {s}
      /\ UNCHANGED <<inputs, method, pc, problem, cache, held>>
  BY DEF Take
<1>2. pc = "drain" /\ s \in Batch(problem) /\ score[s] = None
  BY <1>1 DEF GraderInv, PoolInStep
<1>3. /\ s \in Slots /\ s \in SlotsOf(method) /\ s \in Graded(method) /\ method \in Methods
      /\ gi[s] = problem /\ file[gi[s]] = "good" /\ problem \in Problems /\ problem \in Nat
      /\ text[s] \in Texts /\ Key(s) = <<gi[s], text[s]>> /\ Key(s) \in Problems \X Texts
  BY <1>2, Submitted
<1>4. Batch(problem)' = Batch(problem)
  BY <1>1 DEF Batch, Graded, inputs
<1>5. /\ queue \subseteq Batch(problem) /\ (\A t \in queue : score[t] = None)
      /\ \A v \in Workers : worker[v] # None =>
           /\ worker[v].slot \in Batch(problem) \ queue
           /\ worker[v].key = <<problem, text[worker[v].slot]>>
           /\ score[worker[v].slot] = None
      /\ \A u, v \in Workers : u # v /\ worker[u] # None /\ worker[v] # None =>
           worker[u].slot # worker[v].slot
  BY <1>2 DEF GraderInv, PoolInStep
<1>6. CASE cache[Key(s)] # None
  <2> DEFINE v == <<problem, cache[Key(s)]>>
  <2>1. score' = [score EXCEPT ![s] = v] /\ worker' = worker
    BY <1>6 DEF Take
  <2>2. cache[Key(s)] \in Nat /\ cache[Key(s)] \in Solves(gi[s], text[s])
    BY <1>3, <1>6 DEF GraderInv, GraderTypes, CacheInStep
  <2>3. v \in Problems \X Nat /\ v # None /\ v[1] = gi[s] /\ v[2] = cache[<<gi[s], text[s]>>]
    BY <1>3, <2>2, GraderAssumption
  <2> HIDE DEF v
  <2>4. /\ score' \in [Slots -> (Problems \X Nat) \cup {None}]
        /\ \A t \in Slots : score'[t] = IF t = s THEN v ELSE score[t]
    BY <2>1, <2>3 DEF GraderInv, GraderTypes
  <2>5. GraderTypes'
    BY <1>1, <2>1, <2>4 DEF GraderInv, GraderTypes, inputs
  <2>6. PoolInStep'
    <3>1. Batch(problem) \subseteq Slots
      BY <1>3, SlotsApart DEF Batch, Graded
    <3>2. \A t \in queue \ {s} : score'[t] = None
      BY <1>5, <2>4, <3>1
    <3>3. \A u \in Workers : worker[u] # None => score'[worker[u].slot] = None
      BY <1>1, <1>5, <2>4, <3>1
    <3> QED BY <1>1, <1>2, <1>3, <1>4, <1>5, <2>1, <3>2, <3>3 DEF PoolInStep, inputs
  <2>7. LoopInStep'
    BY <1>1, <1>2, <2>1, <2>3, ScoreKeepsLoop
  <2>8. ScoredOnOwnProblem'
    BY <1>1, <1>3, <2>2, <2>3, <2>4 DEF GraderInv, ScoredOnOwnProblem, inputs
  <2>9. CacheInStep'
    <3>1. gi' = gi /\ text' = text /\ file' = file /\ cache' = cache /\ worker' = worker
      BY <1>1, <2>1 DEF inputs
    <3>2. cache[<<gi[s], text[s]>>] # None
      BY <1>3, <1>6
    <3> QED BY <1>3, <2>3, <2>4, <3>1, <3>2 DEF GraderInv, CacheInStep, HeldTwice
  <2> QED BY <1>1, <2>5, <2>6, <2>7, <2>8, <2>9, StoreStays DEF GraderInv
<1>7. CASE cache[Key(s)] = None
  <2> DEFINE busy == [slot |-> s, key |-> Key(s)]
  <2>1. worker' = [worker EXCEPT ![w] = busy] /\ score' = score
    BY <1>7 DEF Take
  <2>2. /\ busy \in [slot : Slots, key : Problems \X Texts] /\ busy # None
        /\ busy.slot = s /\ busy.key = <<problem, text[s]>> /\ cache[busy.key] = None
    BY <1>3, <1>7, GraderAssumption
  <2> HIDE DEF busy
  <2>3. \A u \in Workers : worker'[u] = IF u = w THEN busy ELSE worker[u]
    BY <2>1 DEF GraderInv, GraderTypes
  <2>4. GraderTypes'
    BY <1>1, <2>1, <2>2 DEF GraderInv, GraderTypes, inputs
  <2>5. PoolInStep'
    <3>1. \A u \in Workers : worker'[u] # None =>
            /\ worker'[u].slot \in Batch(problem) \ queue'
            /\ worker'[u].key = <<problem, text[worker'[u].slot]>>
            /\ score[worker'[u].slot] = None
      BY <1>1, <1>2, <1>5, <2>2, <2>3
    <3>2. \A u, v \in Workers : u # v /\ worker'[u] # None /\ worker'[v] # None =>
            worker'[u].slot # worker'[v].slot
      BY <1>1, <1>5, <2>2, <2>3
    <3> QED BY <1>1, <1>2, <1>3, <1>4, <1>5, <2>1, <3>1, <3>2 DEF PoolInStep, inputs
  <2>6. LoopInStep'
    <3>1. \A m \in Methods : Corrupt(m)' = Corrupt(m) /\ Graded(m)' = Graded(m)
      BY <1>1, GradedStays
    <3> QED BY <1>1, <1>2, <1>3, <2>1, <3>1 DEF GraderInv, LoopInStep, inputs
  <2>7. CacheInStep'
    <3>1. gi' = gi /\ text' = text /\ file' = file /\ cache' = cache /\ score' = score
      BY <1>1, <2>1 DEF inputs
    <3> QED BY <2>2, <2>3, <3>1 DEF GraderInv, CacheInStep, HeldTwice
  <2> QED BY <1>1, <2>1, <2>4, <2>5, <2>6, <2>7, ScoresStay, StoreStays DEF GraderInv
<1> QED BY <1>6, <1>7

(* A thread that ran the program gives its verdict and caches it.          *)
LEMMA JudgeKeeps ==
  ASSUME GraderInv, NEW w \in Workers, Judge(w)
  PROVE  GraderInv'
<1> DEFINE s == worker[w].slot
           k == worker[w].key
<1>1. worker[w] # None /\ UNCHANGED <<inputs, method, pc, problem, queue, held>>
  BY DEF Judge
<1>2. /\ pc = "drain" /\ s \in Batch(problem) \ queue /\ k = <<problem, text[s]>> /\ score[s] = None
  BY <1>1 DEF GraderInv, PoolInStep
<1>3. PICK verdict \in Judged(s) :
        /\ cache' = Cached(k, verdict) /\ score' = [score EXCEPT ![s] = <<problem, verdict>>]
        /\ worker' = [worker EXCEPT ![w] = None]
  BY DEF Judge
<1> DEFINE v == <<problem, verdict>>
<1> HIDE DEF s, k
<1>4. /\ s \in Slots /\ s \in SlotsOf(method) /\ s \in Graded(method) /\ method \in Methods
      /\ gi[s] = problem /\ file[gi[s]] = "good" /\ problem \in Problems /\ problem \in Nat
      /\ text[s] \in Texts
  BY <1>2, Submitted
<1>5. /\ verdict \in Solves(problem, text[s]) /\ verdict \in Nat /\ verdict # None
      /\ v \in Problems \X Nat /\ v # None /\ v[1] = problem /\ v[2] = verdict
  BY <1>3, <1>4, GraderAssumption DEF Judged
<1> HIDE DEF v
<1>6. /\ score' \in [Slots -> (Problems \X Nat) \cup {None}]
      /\ \A t \in Slots : score'[t] = IF t = s THEN v ELSE score[t]
  BY <1>3, <1>5 DEF GraderInv, GraderTypes, v
<1>7. k \in Problems \X Texts /\ k = <<gi[s], text[s]>> /\ k[1] = gi[s] /\ k[2] = text[s]
  BY <1>2, <1>4
<1>8. /\ cache' \in [Problems \X Texts -> Nat \cup {None}]
      /\ \A x \in Problems \X Texts : cache'[x] = IF x = k THEN verdict ELSE cache[x]
  BY <1>3, <1>5, <1>7 DEF GraderInv, GraderTypes, Cached
<1>9. \A u \in Workers : worker'[u] = IF u = w THEN None ELSE worker[u]
  BY <1>3 DEF GraderInv, GraderTypes
<1>10. GraderTypes'
  BY <1>1, <1>3, <1>6, <1>8 DEF GraderInv, GraderTypes, inputs
<1>11. Batch(problem)' = Batch(problem) /\ Batch(problem) \subseteq Slots
  BY <1>1, <1>4, SlotsApart DEF Batch, Graded, inputs
<1>12. /\ queue \subseteq Batch(problem) /\ (\A t \in queue : score[t] = None)
       /\ \A u \in Workers : worker[u] # None =>
            /\ worker[u].slot \in Batch(problem) \ queue
            /\ worker[u].key = <<problem, text[worker[u].slot]>>
            /\ score[worker[u].slot] = None
       /\ \A u, x \in Workers : u # x /\ worker[u] # None /\ worker[x] # None =>
            worker[u].slot # worker[x].slot
  BY <1>2 DEF GraderInv, PoolInStep
<1>13. \A u \in Workers : u # w /\ worker[u] # None => worker[u].slot # s
  BY <1>1, <1>12 DEF s
<1>14. PoolInStep'
  <2>1. \A t \in queue : score'[t] = None
    BY <1>2, <1>6, <1>11, <1>12
  <2>2. \A u \in Workers : worker'[u] # None =>
          worker'[u] = worker[u] /\ worker[u] # None /\ score'[worker[u].slot] = None
    BY <1>6, <1>9, <1>11, <1>12, <1>13
  <2> QED BY <1>1, <1>2, <1>4, <1>9, <1>11, <1>12, <2>1, <2>2 DEF PoolInStep, inputs
<1>15. LoopInStep'
  BY <1>1, <1>2, <1>3, <1>5, ScoreKeepsLoop DEF v
<1>16. ScoredOnOwnProblem'
  BY <1>1, <1>4, <1>5, <1>6 DEF GraderInv, ScoredOnOwnProblem, inputs
<1>17. CacheInStep'
  <2>1. gi' = gi /\ text' = text /\ file' = file
    BY <1>1 DEF inputs
  <2>2. \A p \in Problems, t \in Texts : cache'[<<p, t>>] # None => cache'[<<p, t>>] \in Solves(p, t)
    <3> SUFFICES ASSUME NEW p \in Problems, NEW t \in Texts, cache'[<<p, t>>] # None
                 PROVE  cache'[<<p, t>>] \in Solves(p, t)
      OBVIOUS
    <3>1. CASE <<p, t>> = k
      BY <1>2, <1>5, <1>8, <3>1
    <3>2. CASE <<p, t>> # k
      BY <1>8, <3>2 DEF GraderInv, CacheInStep
    <3> QED BY <3>1, <3>2
  <2>3. ASSUME NEW t \in Slots, score'[t] # None
        PROVE  /\ file[gi[t]] # "absent"
               /\ file[gi[t]] = "good" =>
                    /\ cache'[<<gi[t], text[t]>>] # None
                    /\ score'[t][2] = cache'[<<gi[t], text[t]>>] \/ HeldTwice(gi[t], text[t])
    <3> DEFINE x == <<gi[t], text[t]>>
    <3>1. x \in Problems \X Texts
      BY <2>3 DEF GraderInv, GraderTypes
    <3>2. CASE t = s
      BY <1>4, <1>5, <1>6, <1>7, <1>8, <3>2
    <3>3. CASE t # s
      <4>1. score'[t] = score[t] /\ score[t] # None
        BY <1>6, <2>3, <3>3
      <4>2. /\ file[gi[t]] # "absent"
            /\ file[gi[t]] = "good" =>
                 cache[x] # None /\ (score[t][2] = cache[x] \/ HeldTwice(gi[t], text[t]))
        BY <4>1 DEF GraderInv, CacheInStep
      <4>3. CASE x # k
        BY <1>8, <3>1, <4>1, <4>2, <4>3
      <4>4. CASE x = k
        <5>1. gi[t] = gi[s] /\ text[t] = text[s] /\ cache'[x] # None
          BY <1>5, <1>7, <1>8, <3>1, <4>4
        <5>2. cache[k] # None
          BY <1>4, <4>2, <4>4, <5>1
        <5>3. HeldTwice(k[1], k[2])
          BY <1>1, <5>2 DEF GraderInv, CacheInStep, k
        <5> QED BY <1>7, <4>2, <5>1, <5>3
      <4> QED BY <4>3, <4>4
    <3> QED BY <3>2, <3>3
  <2>4. ASSUME NEW u \in Workers, worker'[u] # None, cache'[worker'[u].key] # None
        PROVE  HeldTwice(worker'[u].key[1], worker'[u].key[2])
    <3> DEFINE t == worker[u].slot
    <3>1. u # w /\ worker'[u] = worker[u] /\ worker[u] # None
      BY <1>9, <2>4
    <3>2. /\ t # s /\ t \in Batch(problem) /\ worker[u].key = <<problem, text[t]>>
      BY <1>12, <1>13, <3>1
    <3>3. gi[t] = problem /\ t \in SlotsOf(method) /\ text[t] \in Texts
      BY <1>2, <3>2, Submitted
    <3> HIDE DEF t
    <3>4. CASE text[t] = text[s]
      <4>1. HeldTwice(problem, text[t])
        BY <1>4, <3>2, <3>3, <3>4 DEF HeldTwice
      <4> QED BY <3>1, <3>2, <4>1
    <3>5. CASE text[t] # text[s]
      <4>1. worker[u].key # k /\ worker[u].key \in Problems \X Texts
        BY <1>2, <1>4, <3>2, <3>3, <3>5
      <4>2. cache[worker[u].key] # None
        BY <1>8, <2>4, <3>1, <4>1
      <4> QED BY <3>1, <4>2 DEF GraderInv, CacheInStep
    <3> QED BY <3>4, <3>5
  <2>5. \A p, t : HeldTwice(p, t)' = HeldTwice(p, t)
    BY <2>1 DEF HeldTwice
  <2> QED BY <2>1, <2>2, <2>3, <2>4, <2>5 DEF CacheInStep
<1> QED BY <1>1, <1>10, <1>14, <1>15, <1>16, <1>17, StoreStays DEF GraderInv

(* Every step of the loop and of the threads.                              *)
LEMMA GraderKeeps == GraderInv /\ [GraderNext]_graderVars => GraderInv'
<1> SUFFICES ASSUME GraderInv, [GraderNext]_graderVars PROVE GraderInv'
  OBVIOUS
<1>1. CASE Read
  BY <1>1, ReadKeeps
<1>2. CASE Load
  BY <1>2, LoadKeeps
<1>3. CASE Drain
  BY <1>3, DrainKeeps
<1>4. CASE NextMethod
  BY <1>4, NextMethodKeeps
<1>5. ASSUME NEW w \in Workers, Thread(w) PROVE GraderInv'
  BY <1>5, TakeKeeps, JudgeKeeps DEF Thread
<1>6. CASE UNCHANGED graderVars
  BY <1>6 DEF GraderInv, GraderTypes, PoolInStep, LoopInStep, CacheInStep, ScoredOnOwnProblem,
       StoreBounded, Corrupt, Graded, Batch, Left, HeldTwice, graderVars, inputs
<1> QED BY <1>1, <1>2, <1>3, <1>4, <1>5, <1>6 DEF GraderNext, Main

(* The scores of a directory that was graded are those of its programs.    *)
LEMMA GraderInvScores == GraderInv => ScoresExact
<1> SUFFICES ASSUME GraderInv PROVE ScoresExact
  OBVIOUS
<1>1. MethodsComparable
  <2> SUFFICES ASSUME NEW s \in Slots, NEW t \in Slots, score[s] # None, score[t] # None,
                      gi[s] = gi[t], text[s] = text[t],
                      ~HeldTwice(gi[s], text[s])
               PROVE  score[s] = score[t]
    BY DEF MethodsComparable, HeldTwice
  <2>1. score[s] \in Problems \X Nat /\ score[t] \in Problems \X Nat /\ gi[s] \in Problems
    BY DEF GraderInv, GraderTypes
  <2>2. score[s][1] = score[t][1]
    BY DEF GraderInv, ScoredOnOwnProblem
  <2>3. score[s][2] = score[t][2]
    <3>1. file[gi[s]] \in {"good", "broken"}
      BY <2>1 DEF GraderInv, GraderTypes, CacheInStep
    <3>2. CASE file[gi[s]] = "broken"
      BY <3>2 DEF GraderInv, ScoredOnOwnProblem
    <3>3. CASE file[gi[s]] = "good"
      BY <3>3 DEF GraderInv, CacheInStep
    <3> QED BY <3>1, <3>2, <3>3
  <2> QED BY <2>1, <2>2, <2>3
<1>2. MeanIsWhole
  <2> SUFFICES ASSUME NEW m \in Methods, m < method \/ pc = "done"
               PROVE  /\ \A s \in SlotsOf(m) : gi[s] <= LastProblem
                      /\ {s \in SlotsOf(m) : score[s] # None} = Graded(m)
                      /\ \A s, t \in Graded(m) :
                           s # t => <<RunOf(s), score[s][1]>> # <<RunOf(t), score[t][1]>>
    BY DEF MeanIsWhole
  <2>1. m \in Nat /\ method \in Nat /\ method \in Methods /\ m <= LastMethod /\ SlotsOf(m) \subseteq Slots
    BY SlotsApart DEF GraderInv, GraderTypes
  <2>2. m < method \/ (m = method /\ pc = "done")
    BY <2>1 DEF GraderInv, LoopInStep
  <2>3. \A s \in SlotsOf(m) : score[s] # None <=> s \in Graded(m)
    <3>1. CASE m < method
      BY <3>1 DEF GraderInv, LoopInStep
    <3>2. CASE m = method /\ pc = "done"
      <4>1. \A s \in SlotsOf(m) : score[s] # None <=> s \in Graded(m) /\ gi[s] <= problem
        BY <3>2 DEF GraderInv, LoopInStep
      <4>2. ASSUME NEW s \in Graded(m) PROVE gi[s] <= problem
        <5>1. Left = {} /\ s \in Slots
          BY <2>1, <3>2 DEF GraderInv, LoopInStep, Graded
        <5>2. gi[s] \in Nat /\ problem \in Nat
          BY <5>1, GraderAssumption DEF GraderInv, GraderTypes
        <5>3. gi[s] \in 0..problem
          BY <3>2, <5>1 DEF Left
        <5> QED BY <5>2, <5>3
      <4> QED BY <4>1, <4>2
    <3> QED BY <2>2, <3>1, <3>2
  <2>4. ~Corrupt(m)
    BY <2>2 DEF GraderInv, LoopInStep
  <2>5. Graded(m) \subseteq SlotsOf(m) /\ \A s \in Graded(m) : score[s][1] = gi[s]
    BY <2>1, <2>3 DEF Graded, GraderInv, ScoredOnOwnProblem
  <2>6. \A s \in SlotsOf(m) : gi[s] <= LastProblem
    <3>1. \A s \in SlotsOf(m) : gi[s] \in Nat
      BY <2>1, GraderAssumption DEF GraderInv, GraderTypes
    <3> QED BY <2>4, <3>1, GraderAssumption DEF Corrupt
  <2> QED BY <2>3, <2>4, <2>5, <2>6 DEF Corrupt
<1> QED BY <1>1, <1>2 DEF GraderInv, ScoresExact

(* The execution grading of grader_lcb.py, for any number of directories, completions,
   programs, threads and any capacity of the test store: whatever the order in which
   the threads take and judge completions, a score is for the completion's own problem,
   equal programs of two directories score equally unless a directory has them twice,
   the mean is over whole runs, and the parsed tests stay within the store.     *)
THEOREM ScoresStayExact == GraderSpec => []ScoresExact
<1>1. GraderInit => GraderInv
  BY GraderStarts
<1>2. GraderInv /\ [GraderNext]_graderVars => GraderInv'
  BY GraderKeeps
<1>3. GraderInv => ScoresExact
  BY GraderInvScores
<1> QED BY <1>1, <1>2, <1>3, PTL DEF GraderSpec

-----------------------------------------------------------------------------
(* The merge of subsets.                                                   *)

\* No death has put an entry without a line before entry j.
Unbroken(f, j) == \A m \in 1..j : glens[f][m] # 0

\* Up to the first such entry a list has the lengths of its lines, and one more while
\* a line is pending.
SourcesShaped ==
  /\ lines \in [Files -> Nat] /\ glens \in [Files -> Seq(Nat)]
  /\ \A f \in Files, j \in Nat \ {0} : j <= Len(glens[f]) /\ Unbroken(f, j) => glens[f][j] = j
  /\ \A f \in Files : Unbroken(f, Len(glens[f])) => Len(glens[f]) \in {lines[f], lines[f] + 1}

\* The open file was read from lines that are there, and a completion that is written
\* without its length is that of the line the merge is at.
ReadingShaped ==
  /\ todo \in Seq(Files) /\ stops \in Nat
  /\ reading # NoFile =>
       /\ reading \in Readings /\ reading.n <= lines[reading.file]
       /\ \A i \in Nat : i < reading.n /\ i < Len(reading.glens) =>
            reading.glens[i + 1] = i + 1 \/ Shifted(reading.file, i)
       /\ reading.half => AtLine /\ MergeKey \in DOMAIN out /\ out[MergeKey] = Completion

\* A length that was written is that of the completion it came with.
InfosOwn ==
  \A k \in DOMAIN info :
    LET f == info[k].of.file
        i == info[k].of.line
    IN  f \in Files /\ i \in Nat /\ i < lines[f] /\ (info[k].len \in {NoFile, i + 1} \/ Shifted(f, i))

PairsFiled ==
  /\ \A k \in DOMAIN out : Answers(k)
  /\ IsFiniteSet(TornPairs) /\ Cardinality(TornPairs) <= stops
  /\ TornPairs \cap seen = {}

MergeInv == SourcesShaped /\ ReadingShaped /\ InfosOwn /\ PairsFiled

(* An empty directory.                                                     *)
LEMMA MergeStarts == MergeInit => MergeInv
<1> SUFFICES ASSUME MergeInit PROVE MergeInv
  OBVIOUS
<1>1. SourcesShaped
  BY DEF MergeInit, SourcesShaped
<1>2. ReadingShaped
  BY DEF MergeInit, ReadingShaped
<1>3. DOMAIN out = {} /\ DOMAIN info = {} /\ seen = {} /\ stops = 0
  BY DEF MergeInit
<1>4. TornPairs = {}
  BY <1>3 DEF TornPairs
<1>5. InfosOwn /\ PairsFiled
  BY <1>3, <1>4, FS_EmptySet DEF InfosOwn, PairsFiled
<1> QED BY <1>1, <1>2, <1>5 DEF MergeInv

\* Lines are not taken back, and what a death shifted stays shifted.
ShiftsStay ==
  \A f \in Files : lines[f] <= lines'[f] /\
    \A i \in Nat : i < lines[f] /\ Shifted(f, i) => Shifted(f, i)'

(* A worker writes a length: the list it read back, or a new one.          *)
LEMMA WriteLengthKeeps ==
  ASSUME SourcesShaped, NEW f \in Files, WriteLength(f)
  PROVE  SourcesShaped' /\ ShiftsStay
<1> DEFINE old == IF lines[f] = 0 THEN << >> ELSE glens[f]
           n == Len(old)
           new == Append(old, lines[f] + 1)
<1>1. lines \in [Files -> Nat] /\ glens \in [Files -> Seq(Nat)] /\ lines[f] \in Nat /\ glens[f] \in Seq(Nat)
  BY DEF SourcesShaped
<1>2. /\ old \in Seq(Nat) /\ n \in Nat /\ new \in Seq(Nat) /\ Len(new) = n + 1
      /\ new[n + 1] = lines[f] + 1 /\ \A j \in 1..n : new[j] = old[j]
  BY <1>1
<1>3. lines' = lines /\ glens' = [glens EXCEPT ![f] = new]
  BY DEF WriteLength
<1>4. glens' \in [Files -> Seq(Nat)] /\ glens'[f] = new /\ \A g \in Files : g # f => glens'[g] = glens[g]
  BY <1>1, <1>2, <1>3
<1>5. (\A m \in 1..n : old[m] # 0) => n = lines[f]
  <2>1. CASE lines[f] = 0
    BY <2>1
  <2>2. CASE lines[f] # 0
    <3>1. old = glens[f] /\ ~Pending(f)
      BY <2>2 DEF WriteLength
    <3>2. ASSUME \A m \in 1..n : old[m] # 0 PROVE n = lines[f]
      <4>1. Unbroken(f, n)
        BY <3>1, <3>2 DEF Unbroken
      <4>2. n \in {lines[f], lines[f] + 1}
        BY <3>1, <4>1 DEF SourcesShaped
      <4>3. ASSUME n = lines[f] + 1 PROVE FALSE
        <5>1. glens[f][n] = n /\ glens[f] # << >>
          BY <1>1, <1>2, <3>1, <4>1, <4>3 DEF SourcesShaped
        <5> QED BY <3>1, <4>3, <5>1 DEF Pending
      <4> QED BY <4>2, <4>3
    <3> QED BY <3>2
  <2> QED BY <2>1, <2>2
<1>6. \A j \in 1..n : (\A m \in 1..j : old[m] # 0) => old[j] = j
  <2>1. CASE lines[f] = 0
    BY <2>1
  <2>2. CASE lines[f] # 0
    BY <1>1, <2>2 DEF SourcesShaped, Unbroken
  <2> QED BY <2>1, <2>2
<1> HIDE DEF old, n, new
<1>7. ASSUME NEW j \in 1..(n + 1), \A m \in 1..j : new[m] # 0 PROVE new[j] = j
  <2>1. CASE j \in 1..n
    <3>1. \A m \in 1..j : m \in 1..n /\ new[m] = old[m]
      BY <1>2, <2>1
    <3>2. \A m \in 1..j : old[m] # 0
      BY <1>7, <3>1
    <3>3. old[j] = j
      BY <1>6, <2>1, <3>2
    <3> QED BY <1>2, <2>1, <3>3
  <2>2. CASE j = n + 1
    <3>1. \A m \in 1..n : old[m] # 0
      BY <1>2, <1>7, <2>2
    <3> QED BY <1>1, <1>2, <1>5, <2>2, <3>1
  <2> QED BY <1>2, <2>1, <2>2
<1>8. (\A m \in 1..(n + 1) : new[m] # 0) => n + 1 = lines[f] + 1
  BY <1>1, <1>2, <1>5
<1>9. SourcesShaped'
  <2>1. lines' \in [Files -> Nat]
    BY <1>1, <1>3
  <2>2. ASSUME NEW g \in Files
        PROVE  LET list == glens'[g]
               IN  /\ \A j \in Nat \ {0} : j <= Len(list) /\ (\A m \in 1..j : list[m] # 0) => list[j] = j
                   /\ (\A m \in 1..Len(list) : list[m] # 0) => Len(list) \in {lines'[g], lines'[g] + 1}
    <3>1. CASE g = f
      <4>1. glens'[g] = new /\ Len(new) = n + 1 /\ lines'[g] = lines[f]
        BY <1>2, <1>3, <1>4, <3>1
      <4>2. ASSUME NEW j \in Nat \ {0}, j <= n + 1, \A m \in 1..j : new[m] # 0 PROVE new[j] = j
        BY <1>2, <1>7, <4>2
      <4> QED BY <1>8, <4>1, <4>2
    <3>2. CASE g # f
      BY <1>3, <1>4, <3>2 DEF Unbroken, SourcesShaped
    <3> QED BY <3>1, <3>2
  <2> QED BY <1>4, <2>1, <2>2 DEF SourcesShaped, Unbroken
<1>10. ShiftsStay
  <2>1. ASSUME NEW g \in Files, NEW i \in Nat, i < lines[g], Shifted(g, i) PROVE Shifted(g, i)'
    <3>1. CASE g = f
      <4>1. PICK j \in 1..(i + 1) : j \in DOMAIN glens[f] /\ glens[f][j] = 0
        BY <2>1, <3>1 DEF Shifted
      <4>2. old = glens[f]
        BY <1>1, <2>1, <3>1 DEF old
      <4>3. j \in 1..n /\ new[j] = 0
        BY <1>1, <1>2, <4>1, <4>2 DEF n
      <4>4. j \in DOMAIN glens'[f] /\ glens'[f][j] = 0
        BY <1>2, <1>4, <4>3
      <4> QED BY <3>1, <4>4 DEF Shifted
    <3>2. CASE g # f
      BY <1>4, <2>1, <3>2 DEF Shifted
    <3> QED BY <3>1, <3>2
  <2> QED BY <1>1, <1>3, <2>1 DEF ShiftsStay
<1> QED BY <1>9, <1>10

(* A worker writes the line its last length is for.                        *)
LEMMA AppendLineKeeps ==
  ASSUME SourcesShaped, NEW f \in Files, AppendLine(f)
  PROVE  SourcesShaped' /\ ShiftsStay
<1>1. /\ lines \in [Files -> Nat] /\ glens \in [Files -> Seq(Nat)]
      /\ glens' = glens /\ lines' = [lines EXCEPT ![f] = @ + 1] /\ Pending(f)
  BY DEF SourcesShaped, AppendLine
<1>2. ASSUME Unbroken(f, Len(glens[f])) PROVE Len(glens[f]) = lines[f] + 1
  <2>1. Len(glens[f]) \in Nat \ {0} /\ glens[f][Len(glens[f])] = lines[f] + 1
    BY <1>1 DEF Pending
  <2> QED BY <1>2, <2>1 DEF SourcesShaped
<1>3. SourcesShaped'
  BY <1>1, <1>2 DEF SourcesShaped, Unbroken
<1>4. ShiftsStay
  BY <1>1 DEF ShiftsStay, Shifted
<1> QED BY <1>3, <1>4

(* A worker dies, and an entry may have lost its line.                     *)
LEMMA LoseKeeps ==
  ASSUME SourcesShaped, NEW f \in Files, Lose(f)
  PROVE  SourcesShaped' /\ ShiftsStay
<1>1. /\ lines \in [Files -> Nat] /\ glens \in [Files -> Seq(Nat)] /\ lines' = lines
  BY DEF SourcesShaped, Lose
<1>2. CASE glens' = glens
  BY <1>1, <1>2 DEF SourcesShaped, Unbroken, ShiftsStay, Shifted
<1>3. CASE Pending(f) /\ glens' = [glens EXCEPT ![f] = [@ EXCEPT ![Len(@)] = 0]]
  <2> DEFINE n == Len(glens[f])
             new == [glens[f] EXCEPT ![n] = 0]
  <2>1. /\ glens[f] \in Seq(Nat) /\ n \in Nat \ {0} /\ n = Len(glens[f]) /\ glens[f][n] # 0
        /\ DOMAIN glens[f] = 1..n /\ lines[f] \in Nat
    BY <1>1, <1>3 DEF Pending
  <2>2. /\ new \in Seq(Nat) /\ Len(new) = n /\ DOMAIN new = 1..n /\ new[n] = 0
        /\ \A j \in 1..n : j # n => new[j] = glens[f][j]
    BY <2>1
  <2>3. glens' \in [Files -> Seq(Nat)] /\ glens'[f] = new /\ \A g \in Files : g # f => glens'[g] = glens[g]
    BY <1>1, <1>3, <2>2
  <2> HIDE DEF n, new
  <2>4. n \in 1..n
    BY <2>1
  <2>5. ASSUME NEW j \in Nat \ {0}, j <= n, \A m \in 1..j : new[m] # 0 PROVE new[j] = j
    <3>1. j # n
      BY <2>2, <2>4, <2>5
    <3>2. \A m \in 1..j : glens[f][m] = new[m]
      BY <2>1, <2>2, <2>5, <3>1
    <3>3. Unbroken(f, j)
      BY <2>3, <2>5, <3>2 DEF Unbroken
    <3>4. glens[f][j] = j
      BY <2>1, <2>5, <3>3 DEF SourcesShaped
    <3> QED BY <3>2, <3>4
  <2>6. SourcesShaped'
    <3>1. ASSUME NEW g \in Files
          PROVE  LET list == glens'[g]
                 IN  /\ \A j \in Nat \ {0} : j <= Len(list) /\ (\A m \in 1..j : list[m] # 0) => list[j] = j
                     /\ (\A m \in 1..Len(list) : list[m] # 0) => Len(list) \in {lines'[g], lines'[g] + 1}
      <4>1. CASE g = f
        BY <2>2, <2>3, <2>4, <2>5, <4>1
      <4>2. CASE g # f
        BY <1>1, <2>3, <4>2 DEF Unbroken, SourcesShaped
      <4> QED BY <4>1, <4>2
    <3> QED BY <1>1, <2>3, <3>1 DEF SourcesShaped, Unbroken
  <2>7. ShiftsStay
    <3>1. ASSUME NEW g \in Files, NEW i \in Nat, Shifted(g, i) PROVE Shifted(g, i)'
      <4>1. CASE g = f
        <5>1. PICK j \in 1..(i + 1) : j \in DOMAIN glens[f] /\ glens[f][j] = 0
          BY <3>1, <4>1 DEF Shifted
        <5>2. j \in DOMAIN glens'[f] /\ glens'[f][j] = 0
          BY <2>1, <2>2, <2>3, <5>1
        <5> QED BY <4>1, <5>2 DEF Shifted
      <4>2. CASE g # f
        BY <2>3, <3>1, <4>2 DEF Shifted
      <4> QED BY <4>1, <4>2
    <3> QED BY <1>1, <3>1 DEF ShiftsStay
  <2> QED BY <2>6, <2>7
<1> QED BY <1>2, <1>3 DEF Lose

(* What is filed and what is read do not change while a worker writes.     *)
LEMMA WorkersKeep ==
  ASSUME MergeInv, SourcesShaped', ShiftsStay, UNCHANGED <<scriptVars, out, info>>
  PROVE  MergeInv'
<1>1. /\ UNCHANGED <<todo, reading, seen, out, info, stops>>
      /\ lines \in [Files -> Nat] /\ lines' \in [Files -> Nat]
  BY DEF scriptVars, MergeInv, SourcesShaped
<1>2. ReadingShaped'
  <2>1. todo' \in Seq(Files) /\ stops' \in Nat
    BY <1>1 DEF MergeInv, ReadingShaped
  <2>2. ASSUME reading' # NoFile
        PROVE  /\ reading' \in Readings /\ reading'.n <= lines'[reading'.file]
               /\ \A i \in Nat : i < reading'.n /\ i < Len(reading'.glens) =>
                    reading'.glens[i + 1] = i + 1 \/ Shifted(reading.file, i)'
    <3>1. reading \in Readings /\ reading.n <= lines[reading.file] /\ reading.file \in Files /\ reading.n \in Nat
      BY <1>1, <2>2 DEF MergeInv, ReadingShaped, Readings
    <3>2. reading'.n <= lines'[reading'.file]
      BY <1>1, <3>1 DEF ShiftsStay
    <3>3. ASSUME NEW i \in Nat, i < reading.n, i < Len(reading.glens)
          PROVE  reading.glens[i + 1] = i + 1 \/ Shifted(reading.file, i)'
      <4>1. i < lines[reading.file]
        BY <1>1, <3>1, <3>3
      <4>2. reading.glens[i + 1] = i + 1 \/ Shifted(reading.file, i)
        BY <1>1, <2>2, <3>3 DEF MergeInv, ReadingShaped
      <4>3. Shifted(reading.file, i) => Shifted(reading.file, i)'
        <5> DEFINE f == reading.file
        <5>1. f' = f
          BY <1>1
        <5>2. f \in Files /\ i < lines[f]
          BY <3>1, <4>1
        <5>3. ASSUME NEW g \in Files, g = f, Shifted(g, i) PROVE Shifted(g, i)'
          BY <5>2, <5>3 DEF ShiftsStay
        <5>4. ASSUME Shifted(f, i) PROVE Shifted(f, i)'
          <6>1. \E j \in 1..(i + 1) : j \in DOMAIN glens'[f] /\ glens'[f][j] = 0
            BY <5>2, <5>3, <5>4 DEF Shifted
          <6> QED BY <5>1, <6>1 DEF Shifted
        <5> QED BY <5>4
      <4> QED BY <4>2, <4>3
    <3> QED BY <1>1, <3>1, <3>2, <3>3
  <2>3. ASSUME reading' # NoFile, reading'.half
        PROVE  AtLine' /\ MergeKey' \in DOMAIN out' /\ out'[MergeKey'] = Completion'
    <3>1. AtLine' = AtLine /\ MergeKey' = MergeKey /\ Completion' = Completion
      BY <1>1 DEF AtLine, MergeKey, Completion, FullIndex, SubIndex
    <3> QED BY <1>1, <2>3, <3>1 DEF MergeInv, ReadingShaped
  <2> QED BY <2>1, <2>2, <2>3 DEF ReadingShaped
<1>3. InfosOwn'
  <2>1. ASSUME NEW k \in DOMAIN info
        PROVE  LET f == info[k].of.file
                   i == info[k].of.line
               IN  /\ f \in Files /\ i \in Nat /\ i < lines'[f]
                   /\ info[k].len \in {NoFile, i + 1} \/ \E j \in 1..(i + 1) : j \in DOMAIN glens'[f] /\ glens'[f][j] = 0
    <3>1. PICK f \in Files, i \in Nat :
            /\ f = info[k].of.file /\ i = info[k].of.line /\ i < lines[f]
            /\ info[k].len \in {NoFile, i + 1} \/ Shifted(f, i)
      BY DEF MergeInv, InfosOwn
    <3>2. i < lines'[f] /\ (Shifted(f, i) => Shifted(f, i)')
      BY <1>1, <3>1 DEF ShiftsStay
    <3> QED BY <3>1, <3>2 DEF Shifted
  <2> QED BY <1>1, <2>1 DEF InfosOwn, Shifted
<1>4. PairsFiled'
  <2>1. TornPairs' = TornPairs
    BY <1>1 DEF TornPairs, Together, Current, MergeKey, FullIndex, SubIndex
  <2> QED BY <1>1, <2>1 DEF MergeInv, PairsFiled, Answers
<1> QED BY <1>2, <1>3, <1>4 DEF MergeInv

\* The parts that only read what a step leaves alone.
LEMMA SourcesStay ==
  ASSUME MergeInv, UNCHANGED sourceVars
  PROVE  SourcesShaped'
BY DEF MergeInv, SourcesShaped, Unbroken, sourceVars

LEMMA InfosStay ==
  ASSUME MergeInv, UNCHANGED <<sourceVars, info>>
  PROVE  InfosOwn'
BY DEF MergeInv, InfosOwn, Shifted, sourceVars

(* No pair is torn that was not.                                           *)
LEMMA PairsStay ==
  ASSUME MergeInv, TornPairs' \subseteq TornPairs, stops' = stops, TornPairs' \cap seen' = {},
         \A k \in DOMAIN out' : Answers(k)'
  PROVE  PairsFiled'
<1>1. /\ IsFiniteSet(TornPairs) /\ Cardinality(TornPairs) <= stops /\ stops \in Nat
  BY DEF MergeInv, PairsFiled, ReadingShaped
<1>2. IsFiniteSet(TornPairs') /\ Cardinality(TornPairs') <= Cardinality(TornPairs)
  BY <1>1, FS_Subset
<1>3. Cardinality(TornPairs) \in Nat /\ Cardinality(TornPairs') \in Nat
  BY <1>1, <1>2, FS_CardinalityType
<1>4. Cardinality(TornPairs') <= stops'
  BY <1>1, <1>2, <1>3
<1> QED BY <1>2, <1>4 DEF PairsFiled

(* Steps between files: nothing is filed, no line is half written.         *)
LEMMA FilesInTurn ==
  ASSUME MergeInv, UNCHANGED <<sourceVars, out, info, stops>>, todo' \in Seq(Files),
         reading = NoFile \/ ~reading.half, seen' \in {seen, {}},
         reading' # NoFile =>
           /\ reading' \in Readings /\ ~reading'.half /\ reading'.n <= lines[reading'.file]
           /\ \A i \in Nat : i < reading'.n /\ i < Len(reading'.glens) =>
                reading'.glens[i + 1] = i + 1 \/ Shifted(reading.file, i)'
  PROVE  MergeInv'
<1>1. lines' = lines /\ glens' = glens /\ out' = out /\ info' = info /\ stops' = stops
  BY DEF sourceVars
<1>2. ReadingShaped'
  <2>1. stops' \in Nat
    BY <1>1 DEF MergeInv, ReadingShaped
  <2> QED BY <1>1, <2>1 DEF ReadingShaped
<1>3. PairsFiled'
  <2>1. Current = {} /\ Current' = {}
    BY DEF Current
  <2>2. TornPairs' = TornPairs
    BY <1>1, <2>1 DEF TornPairs, Together
  <2>3. \A k \in DOMAIN out' : Answers(k)'
    BY <1>1 DEF MergeInv, PairsFiled, Answers
  <2>4. TornPairs' \cap seen' = {}
    BY <2>2 DEF MergeInv, PairsFiled
  <2> QED BY <1>1, <2>2, <2>3, <2>4, PairsStay
<1> QED BY <1>2, <1>3, SourcesStay, InfosStay DEF MergeInv

(* A file is opened, a line is passed over, a file is closed.              *)
LEMMA ReadFileKeeps == ASSUME MergeInv, ReadFile PROVE MergeInv'
<1>1. /\ todo \in Seq(Files) /\ todo # << >> /\ reading = NoFile
      /\ reading' = Opened(Head(todo)) /\ todo' = Tail(todo) /\ seen' = seen
      /\ UNCHANGED <<sourceVars, out, info, stops>>
  BY DEF ReadFile, MergeInv, ReadingShaped
<1>2. PICK f \in Files : f = Head(todo)
  BY <1>1
<1>3. lines[f] \in Nat /\ glens[f] \in Seq(Nat) /\ lines' = lines /\ glens' = glens
  BY <1>1 DEF MergeInv, SourcesShaped, sourceVars
<1>4. /\ reading' \in Readings /\ reading'.file = f /\ ~reading'.half /\ reading'.n = lines[f]
      /\ reading'.glens = IF f \in torn THEN << >> ELSE glens[f]
  BY <1>1, <1>2, <1>3 DEF Opened, Readings
<1>5. ASSUME NEW i \in Nat, i < Len(reading'.glens)
      PROVE  reading'.glens[i + 1] = i + 1 \/ Shifted(reading.file, i)'
  <2>1. reading'.glens = glens[f] /\ i + 1 <= Len(glens[f]) /\ i + 1 \in DOMAIN glens[f]
    BY <1>3, <1>4, <1>5
  <2>2. CASE Unbroken(f, i + 1)
    BY <2>1, <2>2 DEF MergeInv, SourcesShaped
  <2>3. CASE ~Unbroken(f, i + 1)
    <3>1. PICK j \in 1..(i + 1) : glens[f][j] = 0
      BY <2>3 DEF Unbroken
    <3>2. j \in DOMAIN glens[f]
      BY <1>3, <2>1
    <3> QED BY <1>3, <1>4, <3>1, <3>2 DEF Shifted
  <2> QED BY <2>2, <2>3
<1>6. todo' \in Seq(Files)
  BY <1>1
<1> QED BY <1>1, <1>3, <1>4, <1>5, <1>6, FilesInTurn

LEMMA OpenSourceKeeps == ASSUME MergeInv, OpenSource PROVE MergeInv'
<1> DEFINE found == {f \in Files : f[1] = Head(sources) /\ lines[f] > 0}
<1>1. Cardinality(found) \in Nat
  <2>1. IsFiniteSet(found)
    BY FS_Subset, MergeAssumption
  <2> QED BY <2>1, FS_CardinalityType
<1>2. \E order \in [1..Cardinality(found) -> found] : todo' = order
  BY DEF OpenSource
<1>3. todo' \in Seq(Files)
  <2> HIDE DEF found
  <2>1. todo' \in Seq(found)
    BY <1>1, <1>2
  <2>2. found \subseteq Files
    BY DEF found
  <2> QED BY <2>1, <2>2
<1>4. /\ UNCHANGED <<sourceVars, out, info, stops>> /\ seen' = seen /\ reading = NoFile /\ reading' = NoFile
  BY DEF OpenSource
<1> QED BY <1>3, <1>4, FilesInTurn

LEMMA StartMergeKeeps == ASSUME MergeInv, StartMerge PROVE MergeInv'
<1>1. /\ UNCHANGED <<sourceVars, out, info, stops>> /\ seen' = {} /\ reading = NoFile /\ reading' = NoFile
      /\ todo' = todo
  BY DEF StartMerge, SeenAtStart
<1>2. todo' \in Seq(Files)
  BY <1>1 DEF MergeInv, ReadingShaped
<1> QED BY <1>1, <1>2, FilesInTurn

LEMMA PassOverKeeps == ASSUME MergeInv, PassOver PROVE MergeInv'
<1>1. /\ reading # NoFile /\ ~reading.half /\ reading' = [reading EXCEPT !.i = @ + 1]
      /\ UNCHANGED <<sourceVars, out, info, stops>> /\ seen' = seen /\ todo' = todo
  BY DEF PassOver, AtLine
<1>2. /\ reading \in Readings /\ reading.n <= lines[reading.file] /\ todo \in Seq(Files)
      /\ \A i \in Nat : i < reading.n /\ i < Len(reading.glens) =>
            reading.glens[i + 1] = i + 1 \/ Shifted(reading.file, i)
  BY <1>1 DEF MergeInv, ReadingShaped
<1>3. /\ reading' \in Readings /\ reading'.file = reading.file /\ ~reading'.half
      /\ reading'.n = reading.n /\ reading'.glens = reading.glens
  <2>1. /\ reading = [file |-> reading.file, n |-> reading.n, glens |-> reading.glens,
                      i |-> reading.i, half |-> reading.half]
        /\ reading.file \in Files /\ reading.n \in Nat /\ reading.glens \in Seq(Nat)
        /\ reading.i + 1 \in Nat /\ reading.half = FALSE
    BY <1>1, <1>2 DEF Readings
  <2>2. reading' = [file |-> reading.file, n |-> reading.n, glens |-> reading.glens,
                    i |-> reading.i + 1, half |-> FALSE]
    BY <1>1, <2>1
  <2> QED BY <2>1, <2>2 DEF Readings
<1>4. glens' = glens
  BY <1>1 DEF sourceVars
<1>5. \A i : Shifted(reading.file, i)' <=> Shifted(reading.file, i)
  BY <1>3, <1>4 DEF Shifted
<1> QED BY <1>1, <1>2, <1>3, <1>5, FilesInTurn

LEMMA CloseFileKeeps == ASSUME MergeInv, CloseFile PROVE MergeInv'
<1>1. /\ UNCHANGED <<sourceVars, out, info, stops>> /\ seen' = seen /\ todo' = todo /\ reading' = NoFile
      /\ reading # NoFile /\ ~AtLine
  BY DEF CloseFile
<1>2. ~reading.half /\ todo \in Seq(Files)
  BY <1>1 DEF MergeInv, ReadingShaped
<1> QED BY <1>1, <1>2, FilesInTurn

(* What is at a line answers the problem it is filed under.                *)
LEMMA MappedAnswers ==
  ASSUME NEW f \in Files, NEW i \in Nat, Mapped(f, i)
  PROVE  Golds[f[1]][f[4] + i + 1] = Full[FullIndex(f, i) + 1]
<1> DEFINE id == Golds[f[1]][SubIndex(f, i) + 1]
           n == IndexOf(id)
<1>1. n \in 1..Len(Full) /\ Full[n] = id
  <2>1. \E k \in 1..Len(Full) : Full[k] = id
    BY DEF Mapped
  <2> HIDE DEF id
  <2> QED BY <2>1 DEF IndexOf
<1>2. FullIndex(f, i) = n - 1
  BY DEF FullIndex
<1>3. id = Golds[f[1]][f[4] + i + 1]
  BY DEF SubIndex
<1> HIDE DEF id, n
<1>4. FullIndex(f, i) + 1 = n
  BY <1>1, <1>2
<1> QED BY <1>1, <1>3, <1>4

(* A completion is filed, and its pair is the one being written.           *)
LEMMA WriteCompletionKeeps == ASSUME MergeInv, WriteCompletion PROVE MergeInv'
<1>1. /\ AtLine /\ ~reading.half /\ Fresh /\ reading # NoFile
      /\ DOMAIN out' = DOMAIN out \cup {MergeKey}
      /\ \A k \in DOMAIN out \cup {MergeKey} : out'[k] = IF k = MergeKey THEN Completion ELSE out[k]
      /\ seen' = seen \cup {MergeKey} /\ reading' = [reading EXCEPT !.half = TRUE]
      /\ UNCHANGED <<sourceVars, todo, stops, info>> /\ lines' = lines /\ glens' = glens
  BY DEF WriteCompletion, AtLine, sourceVars
<1>2. /\ reading \in Readings /\ reading.n <= lines[reading.file]
      /\ todo \in Seq(Files) /\ stops \in Nat
      /\ \A i \in Nat : i < reading.n /\ i < Len(reading.glens) =>
            reading.glens[i + 1] = i + 1 \/ Shifted(reading.file, i)
  BY <1>1 DEF MergeInv, ReadingShaped
<1>3. /\ reading' \in Readings /\ reading'.file = reading.file /\ reading'.half
      /\ reading'.n = reading.n /\ reading'.glens = reading.glens /\ reading'.i = reading.i
      /\ reading' # NoFile
  BY <1>1, <1>2, MergeAssumption DEF Readings
<1>4. /\ AtLine' /\ MergeKey' = MergeKey /\ Completion' = Completion
  BY <1>1, <1>3 DEF AtLine, MergeKey, Completion, FullIndex, SubIndex
<1>5. \A i : Shifted(reading.file, i)' <=> Shifted(reading.file, i)
  BY <1>1, <1>3 DEF Shifted
<1>6. ReadingShaped'
  BY <1>1, <1>2, <1>3, <1>4, <1>5 DEF ReadingShaped
<1>7. ASSUME NEW k \in DOMAIN out' PROVE Answers(k)'
  <2>1. CASE k = MergeKey
    <3>1. reading.file \in Files /\ reading.i \in Nat /\ Mapped(reading.file, reading.i)
      BY <1>1, <1>2 DEF Readings, Fresh
    <3>2. /\ out'[k].file = reading.file /\ out'[k].line = reading.i
          /\ k[1] = reading.file[3] /\ k[2] = FullIndex(reading.file, reading.i)
      BY <1>1, <2>1 DEF Completion, MergeKey
    <3> QED BY <3>1, <3>2, MappedAnswers DEF Answers
  <2>2. CASE k # MergeKey
    <3>1. k \in DOMAIN out /\ out'[k] = out[k]
      BY <1>1, <2>2
    <3> QED BY <3>1 DEF MergeInv, PairsFiled, Answers
  <2> QED BY <2>1, <2>2
<1>8. Current = {} /\ Current' = {MergeKey}
  BY <1>1, <1>3, <1>4 DEF Current
<1>9. TornPairs' \subseteq TornPairs
  <2>1. ASSUME NEW k \in TornPairs' PROVE k \in TornPairs
    <3>1. k \in DOMAIN out' /\ k # MergeKey /\ ~Together(k)'
      BY <1>8 DEF TornPairs
    <3>2. k \in DOMAIN out /\ out'[k] = out[k] /\ info' = info
      BY <1>1, <3>1
    <3>3. ~Together(k)
      BY <3>1, <3>2 DEF Together
    <3> QED BY <1>8, <3>2, <3>3 DEF TornPairs
  <2> QED BY <2>1
<1>10. TornPairs' \cap seen' = {}
  <2>1. MergeKey \notin TornPairs'
    BY <1>8 DEF TornPairs
  <2> QED BY <1>1, <1>9, <2>1 DEF MergeInv, PairsFiled
<1>11. PairsFiled'
  BY <1>1, <1>7, <1>9, <1>10, PairsStay
<1> QED BY <1>1, <1>6, <1>11, SourcesStay, InfosStay DEF MergeInv

(* Its length is filed, its own, none, or that of a shifted list.          *)
LEMMA WriteInfoKeeps == ASSUME MergeInv, WriteInfo PROVE MergeInv'
<1> DEFINE gl == IF reading.i < Len(reading.glens) THEN reading.glens[reading.i + 1] ELSE NoFile
<1>1. /\ AtLine /\ reading.half /\ reading # NoFile
      /\ DOMAIN info' = DOMAIN info \cup {MergeKey}
      /\ \A k \in DOMAIN info \cup {MergeKey} :
            info'[k] = IF k = MergeKey THEN [of |-> Completion, len |-> gl] ELSE info[k]
      /\ reading' = [reading EXCEPT !.half = FALSE, !.i = @ + 1]
      /\ UNCHANGED <<sourceVars, todo, seen, stops, out>> /\ lines' = lines /\ glens' = glens
  BY DEF WriteInfo, AtLine, sourceVars
<1>2. /\ reading \in Readings /\ reading.n <= lines[reading.file]
      /\ todo \in Seq(Files) /\ stops \in Nat
      /\ \A i \in Nat : i < reading.n /\ i < Len(reading.glens) =>
            reading.glens[i + 1] = i + 1 \/ Shifted(reading.file, i)
      /\ MergeKey \in DOMAIN out /\ out[MergeKey] = Completion
  BY <1>1 DEF MergeInv, ReadingShaped
<1>3. /\ reading' \in Readings /\ reading'.file = reading.file /\ ~reading'.half
      /\ reading'.n = reading.n /\ reading'.glens = reading.glens
  <2>1. /\ reading = [file |-> reading.file, n |-> reading.n, glens |-> reading.glens,
                      i |-> reading.i, half |-> reading.half]
        /\ reading.file \in Files /\ reading.n \in Nat /\ reading.glens \in Seq(Nat)
        /\ reading.i + 1 \in Nat
    BY <1>2 DEF Readings
  <2>2. reading' = [file |-> reading.file, n |-> reading.n, glens |-> reading.glens,
                    i |-> reading.i + 1, half |-> FALSE]
    BY <1>1, <2>1
  <2> QED BY <2>1, <2>2 DEF Readings
<1>4. \A i : Shifted(reading.file, i)' <=> Shifted(reading.file, i)
  BY <1>1, <1>3 DEF Shifted
<1>5. ReadingShaped'
  BY <1>1, <1>2, <1>3, <1>4 DEF ReadingShaped
<1>6. InfosOwn'
  <2>1. ASSUME NEW k \in DOMAIN info'
        PROVE  LET f == info'[k].of.file
                   i == info'[k].of.line
               IN  /\ f \in Files /\ i \in Nat /\ i < lines[f]
                   /\ info'[k].len \in {NoFile, i + 1} \/ Shifted(f, i)
    <3>1. CASE k = MergeKey
      <4>1. info'[k].of.file = reading.file /\ info'[k].of.line = reading.i /\ info'[k].len = gl
        BY <1>1, <3>1 DEF Completion
      <4>2. /\ reading.file \in Files /\ reading.i \in Nat /\ reading.n \in Nat
            /\ reading.i < reading.n /\ lines[reading.file] \in Nat
        BY <1>1, <1>2 DEF Readings, AtLine, MergeInv, SourcesShaped
      <4>3. reading.i < lines[reading.file]
        BY <1>2, <4>2
      <4>4. gl \in {NoFile, reading.i + 1} \/ Shifted(reading.file, reading.i)
        BY <1>2, <4>2
      <4> HIDE DEF gl
      <4> QED BY <4>1, <4>2, <4>3, <4>4
    <3>2. CASE k # MergeKey
      <4>1. k \in DOMAIN info /\ info'[k] = info[k]
        BY <1>1, <3>2
      <4> QED BY <4>1 DEF MergeInv, InfosOwn
    <3> QED BY <3>1, <3>2
  <2> QED BY <1>1, <2>1 DEF InfosOwn, Shifted
<1>7. Current = {MergeKey} /\ Current' = {}
  BY <1>1, <1>3 DEF Current
<1>8. TornPairs' \subseteq TornPairs
  <2>1. ASSUME NEW k \in TornPairs' PROVE k \in TornPairs
    <3>1. k \in DOMAIN out /\ ~Together(k)' /\ out' = out
      BY <1>1 DEF TornPairs
    <3>2. k # MergeKey
      <4>1. info'[MergeKey].of = Completion /\ MergeKey \in DOMAIN info'
        BY <1>1
      <4>2. ASSUME k = MergeKey PROVE FALSE
        BY <1>2, <3>1, <4>1, <4>2 DEF Together
      <4> QED BY <4>2
    <3>3. k \in DOMAIN info => k \in DOMAIN info' /\ info'[k] = info[k]
      BY <1>1, <3>2
    <3>4. ~Together(k)
      BY <3>1, <3>3 DEF Together
    <3> QED BY <1>7, <3>1, <3>2, <3>4 DEF TornPairs
  <2> QED BY <2>1
<1>9. TornPairs' \cap seen' = {} /\ \A k \in DOMAIN out' : Answers(k)'
  BY <1>1, <1>8 DEF MergeInv, PairsFiled, Answers
<1>10. PairsFiled'
  BY <1>1, <1>8, <1>9, PairsStay
<1> QED BY <1>1, <1>5, <1>6, <1>10, SourcesStay DEF MergeInv

(* A merge that dies leaves at most one pair more that is torn.            *)
LEMMA StopMergeKeeps == ASSUME MergeInv, StopMerge PROVE MergeInv'
<1>1. /\ todo' = << >> /\ reading' = NoFile /\ seen' = {} /\ stops' = stops + 1
      /\ UNCHANGED sourceVars /\ lines' = lines /\ glens' = glens
  BY DEF StopMerge, sourceVars
<1>2. /\ stops \in Nat /\ IsFiniteSet(TornPairs) /\ Cardinality(TornPairs) <= stops
      /\ \A k \in DOMAIN out : Answers(k)
  BY DEF MergeInv, ReadingShaped, PairsFiled
<1>3. /\ DOMAIN out' \subseteq DOMAIN out /\ \A k \in DOMAIN out' : out'[k] = out[k]
      /\ DOMAIN info' \subseteq DOMAIN info /\ \A k \in DOMAIN info' : info'[k] = info[k]
      /\ \A k \in DOMAIN info : k # MergeKey => k \in DOMAIN info'
  BY DEF StopMerge
<1>4. ReadingShaped'
  BY <1>1, <1>2 DEF ReadingShaped
<1>5. InfosOwn'
  <2>1. ASSUME NEW k \in DOMAIN info'
        PROVE  LET f == info'[k].of.file
                   i == info'[k].of.line
               IN  /\ f \in Files /\ i \in Nat /\ i < lines[f]
                   /\ info'[k].len \in {NoFile, i + 1} \/ Shifted(f, i)
    BY <1>3 DEF MergeInv, InfosOwn
  <2> QED BY <1>1, <2>1 DEF InfosOwn, Shifted
<1>6. TornPairs' \subseteq TornPairs \cup {MergeKey}
  <2>1. ASSUME NEW k \in TornPairs', k # MergeKey PROVE k \in TornPairs
    <3>1. k \in DOMAIN out' /\ ~Together(k)'
      BY DEF TornPairs
    <3>2. k \in DOMAIN out /\ out'[k] = out[k] /\ (k \in DOMAIN info => k \in DOMAIN info' /\ info'[k] = info[k])
      BY <1>3, <2>1, <3>1
    <3>3. ~Together(k) /\ k \notin Current
      BY <2>1, <3>1, <3>2 DEF Together, Current
    <3> QED BY <3>2, <3>3 DEF TornPairs
  <2> QED BY <2>1
<1>7. IsFiniteSet(TornPairs') /\ Cardinality(TornPairs') <= stops'
  <2> DEFINE more == TornPairs \cup {MergeKey}
  <2>1. IsFiniteSet(more) /\ Cardinality(more) \in {Cardinality(TornPairs), Cardinality(TornPairs) + 1}
    BY <1>2, FS_AddElement
  <2>2. IsFiniteSet(TornPairs') /\ Cardinality(TornPairs') <= Cardinality(more)
    BY <1>6, <2>1, FS_Subset
  <2>3. Cardinality(TornPairs) \in Nat /\ Cardinality(more) \in Nat /\ Cardinality(TornPairs') \in Nat
    BY <1>2, <2>1, <2>2, FS_CardinalityType
  <2> HIDE DEF more
  <2>4. Cardinality(TornPairs') <= stops'
    BY <1>1, <1>2, <2>1, <2>2, <2>3
  <2> QED BY <2>2, <2>4
<1>8. \A k \in DOMAIN out' : Answers(k)'
  BY <1>2, <1>3 DEF Answers
<1>9. PairsFiled'
  BY <1>1, <1>7, <1>8 DEF PairsFiled
<1> QED BY <1>1, <1>4, <1>5, <1>9, SourcesStay DEF MergeInv

LEMMA MergeKeeps == MergeInv /\ [MergeNext]_mergeVars => MergeInv'
<1> SUFFICES ASSUME MergeInv, [MergeNext]_mergeVars PROVE MergeInv'
  OBVIOUS
<1>1. ASSUME NEW f \in Files, WriteLength(f) \/ AppendLine(f) \/ Lose(f) PROVE MergeInv'
  <2>1. SourcesShaped' /\ ShiftsStay
    BY <1>1, WriteLengthKeeps, AppendLineKeeps, LoseKeeps DEF MergeInv
  <2>2. UNCHANGED <<scriptVars, out, info>>
    BY <1>1 DEF WriteLength, AppendLine, Lose
  <2> QED BY <2>1, <2>2, WorkersKeep
<1>2. CASE UNCHANGED mergeVars
  <2>1. UNCHANGED <<sourceVars, scriptVars, out, info>>
    BY <1>2 DEF mergeVars
  <2>2. SourcesShaped' /\ ShiftsStay
    BY <2>1, SourcesStay DEF ShiftsStay, Shifted, sourceVars, MergeInv, SourcesShaped
  <2> QED BY <2>1, <2>2, WorkersKeep
<1> QED BY <1>1, <1>2, StartMergeKeeps, OpenSourceKeeps, ReadFileKeeps, WriteCompletionKeeps,
       WriteInfoKeeps, PassOverKeeps, CloseFileKeeps, StopMergeKeeps DEF MergeNext

LEMMA MergeInvSound == MergeInv => MergeSound
<1> SUFFICES ASSUME MergeInv, NEW k \in DOMAIN out \ (TornPairs \cup Current) PROVE OwnLength(k)
  BY DEF MergeInv, PairsFiled, MergeSound
<1>1. k \in DOMAIN info /\ info[k].of = out[k]
  BY DEF TornPairs, Together
<1> QED BY <1>1 DEF MergeInv, InfosOwn, OwnLength

(* The merge of remap_lcb_subsets.py, for any golds, sources, leaves, shard counts,
   deaths of workers and of merges: a completion that is filed answers its problem and
   was generated in its run; the length beside it came with it and is its own or none,
   unless a worker's death had shifted the source's list before it; and of the pairs
   whose two files come from different completions there are no more than merges that
   died, none of them filed by the merge that runs.                            *)
THEOREM MergeStaysSound == MergeSpec => []MergeSound
<1>1. MergeInit => MergeInv
  BY MergeStarts
<1>2. MergeInv /\ [MergeNext]_mergeVars => MergeInv'
  BY MergeKeeps
<1>3. MergeInv => MergeSound
  BY MergeInvSound
<1> QED BY <1>1, <1>2, <1>3, PTL DEF MergeSpec

-----------------------------------------------------------------------------
(* The audit of a cell.                                                    *)

AuditTypes ==
  /\ files \in [Dirs -> [Starts -> Seq(Nat)]] /\ lens \in [Dirs -> [Starts -> Seq(Nat)]]
  /\ launch \in Settings /\ launch \in past /\ IsFiniteSet(past)

\* Line k of file s answers problem s + k - 1, and no file runs past the last problem.
FilesPositional ==
  \A d \in Dirs, s \in Starts :
    /\ s + Len(files[d][s]) <= NumProblems
    /\ \A k \in 1..Len(files[d][s]) : files[d][s][k] = s + k - 1

\* Another file starts between the start of s and its line k.
Overlaid(f, s, k) == \E t \in Existing(f) : s < t /\ t <= s + k - 1

\* Up to the start of the next file the lengths belong to the lines: what a trim left
\* behind lies where another file begins.
LengthsInStep ==
  \A d \in Dirs, s \in Starts : \A k \in 1..NumProblems :
    \/ Overlaid(files[d], s, k)
    \/ k <= Len(files[d][s]) /\ k <= Len(lens[d][s]) /\ lens[d][s][k] = k
    \/ k > Len(files[d][s]) /\ k > Len(lens[d][s])

\* A cell of one setting has files of that setting only, within its shards.
OneSetting ==
  past = {launch} =>
    \A d \in Dirs, s \in Starts :
      Len(files[d][s]) <= IF d[1] = launch.sub THEN Size(launch.shards, s) ELSE 0

AuditInv == AuditTypes /\ FilesPositional /\ LengthsInStep /\ OneSetting

(* Quotient and remainder.                                                 *)
LEMMA Division ==
  ASSUME NEW a \in Nat, NEW b \in Nat \ {0}
  PROVE  a = b * (a \div b) + (a % b) /\ a \div b \in Nat /\ a % b \in 0..(b - 1)
OBVIOUS

(* Multiples of a number are that number apart.                            *)
LEMMA Multiples ==
  ASSUME NEW a \in Nat, NEW q \in Nat, NEW r \in Nat, q < r
  PROVE  a * q + a <= a * r
<1>1. r = q + 1 + (r - q - 1) /\ r - q - 1 \in Nat
  OBVIOUS
<1> DEFINE e == r - q - 1
<1>2. a * r = a * q + a + a * e /\ a * e \in Nat /\ a * q \in Nat /\ e \in Nat
  <2>1. e \in Nat /\ r = q + 1 + e
    BY <1>1
  <2> HIDE DEF e
  <2>2. a * (q + 1 + e) = a * q + a + a * e /\ a * e \in Nat /\ a * q \in Nat
    BY <2>1
  <2> QED BY <2>1, <2>2
<1> QED BY <1>2

(* Shards of one launch lie behind each other and within the problems.     *)
LEMMA ShardsApart ==
  ASSUME NEW n \in 1..NumProblems, NEW s \in Starts
  PROVE  /\ Size(n, s) \in Nat /\ s + Size(n, s) <= NumProblems
         /\ \A t \in Starts : s < t /\ Size(n, t) > 0 => s + Size(n, s) <= t
<1> DEFINE N == NumProblems
           size == N \div n
           q == s \div size
<1>1. N \in Nat /\ n \in Nat /\ n # 0 /\ n <= N /\ s \in Nat /\ s < N
  BY AuditAssumption DEF Starts
<1>2. N = n * size + (N % n) /\ size \in Nat /\ N % n \in 0..(n - 1)
  BY <1>1, Division
<1>3. size # 0
  <2> HIDE DEF size, N
  <2> QED BY <1>1, <1>2
<1>4. n * size <= N
  <2> DEFINE p == n * size
             m == N % n
  <2>1. p \in Nat /\ m \in Nat /\ N = p + m
    BY <1>1, <1>2
  <2> HIDE DEF p, m, N
  <2> QED BY <2>1 DEF p
<1>5. s = size * q + (s % size) /\ q \in Nat
  <2> HIDE DEF size
  <2> QED BY <1>1, <1>2, <1>3, Division
<1>6. Size(n, s) = IF s % size # 0 \/ q >= n THEN 0 ELSE IF q = n - 1 THEN N - s ELSE size
  BY DEF Size
<1> HIDE DEF q, size, N
<1>7. Size(n, s) \in Nat
  BY <1>1, <1>2, <1>6
<1>8. ASSUME s % size = 0, q < n - 1 PROVE s + size <= n * size
  <2>1. q + 1 \in Nat /\ q + 1 < n
    BY <1>1, <1>5, <1>8
  <2>2. size * q + size <= size * n
    BY <1>1, <1>2, <1>5, <2>1, Multiples
  <2>3. size * n = n * size /\ size * q = s
    BY <1>1, <1>2, <1>5, <1>8
  <2> QED BY <2>2, <2>3
<1>9. s + Size(n, s) <= N
  <2>1. n * size \in Nat
    BY <1>1, <1>2
  <2> DEFINE p == n * size
  <2>2. p \in Nat /\ p <= N /\ (s % size = 0 /\ q < n - 1 => s + size <= p)
    BY <1>4, <1>8, <2>1
  <2> HIDE DEF p
  <2> QED BY <1>1, <1>2, <1>5, <1>6, <2>2
<1>10. ASSUME NEW t \in Starts, s < t, Size(n, t) > 0 PROVE s + Size(n, s) <= t
  <2> DEFINE u == t \div size
  <2>1. t \in Nat
    BY AuditAssumption DEF Starts
  <2>2. t = size * u + (t % size) /\ u \in Nat
    BY <1>2, <1>3, <2>1, Division
  <2>3. t % size = 0 /\ u < n
    BY <1>1, <1>10, <2>2 DEF Size, size, N
  <2> HIDE DEF u
  <2>4. t = size * u
    BY <1>2, <2>2, <2>3
  <2>5. CASE Size(n, s) = 0
    BY <1>1, <1>10, <2>1, <2>5
  <2>6. CASE Size(n, s) # 0
    <3>1. s = size * q
      BY <1>2, <1>5, <1>6, <2>6
    <3>2. q < u
      <4> SUFFICES ASSUME ~(q < u) PROVE FALSE
        OBVIOUS
      <4>1. q = u \/ u < q
        BY <1>5, <2>2
      <4>2. CASE q = u
        BY <1>1, <1>10, <2>4, <3>1, <4>2
      <4>3. CASE u < q
        <5>1. size * u + size <= size * q
          BY <1>2, <1>5, <2>2, <4>3, Multiples
        <5> QED BY <1>1, <1>2, <1>10, <2>1, <2>4, <3>1, <5>1
      <4> QED BY <4>1, <4>2, <4>3
    <3>3. size * q + size <= size * u
      BY <1>2, <1>5, <2>2, <3>2, Multiples
    <3>4. Size(n, s) = size
      BY <1>1, <1>5, <1>6, <2>2, <2>3, <2>6, <3>2
    <3> QED BY <2>4, <3>1, <3>3, <3>4
  <2> QED BY <2>5, <2>6
<1> QED BY <1>7, <1>9, <1>10 DEF N

(* The first problems of shards are numbers below the number of problems.  *)
LEMMA StartsAreNumbers == Starts \subseteq Nat /\ NumProblems \in Nat /\ \A s \in Starts : s < NumProblems
BY AuditAssumption DEF Starts

(* The next file is a file, and no other lies before it.                   *)
LEMMA NextFile ==
  ASSUME NEW f, NEW s, Later(f, s) # {}
  PROVE  Following(f, s) \in Later(f, s) /\ \A t \in Later(f, s) : Following(f, s) <= t
<1>1. Later(f, s) \subseteq Nat
  BY StartsAreNumbers DEF Later, Existing
<1>2. \E t \in Later(f, s) : \A u \in Later(f, s) : t <= u
  BY <1>1, Least
<1> DEFINE L == Later(f, s)
<1> HIDE DEF L
<1>3. Min(L) \in L /\ \A t \in L : Min(L) <= t
  BY <1>2 DEF Min, L
<1> QED BY <1>3 DEF Following, L

(* What a trim leaves of a file.                                           *)
LEMMA KeptPart ==
  ASSUME NEW f \in [Starts -> Seq(Nat)], NEW s \in Starts
  PROVE  /\ Kept(f, s) \in Seq(Nat) /\ Len(Kept(f, s)) <= Len(f[s])
         /\ \A k \in 1..Len(Kept(f, s)) : Kept(f, s)[k] = f[s][k]
         /\ Kept(f, s) = << >> <=> f[s] = << >>
         /\ \A k \in Nat : Len(Kept(f, s)) < k /\ k <= Len(f[s]) => Overlaid(f, s, k)
         /\ \A t \in Later(f, s) : s + Len(Kept(f, s)) <= t
<1> DEFINE g == f[s]
           t == Following(f, s)
<1>1. g \in Seq(Nat) /\ s \in Nat /\ Len(g) \in Nat
  BY StartsAreNumbers
<1>2. CASE Later(f, s) = {}
  <2>1. Kept(f, s) = g
    BY <1>2 DEF Kept
  <2> QED BY <1>1, <1>2, <2>1
<1>3. CASE Later(f, s) # {}
  <2>1. t \in Later(f, s) /\ \A u \in Later(f, s) : t <= u
    BY <1>3, NextFile
  <2>2. t \in Existing(f) /\ t \in Nat /\ s < t /\ \A u \in Later(f, s) : u \in Nat
    BY <2>1, StartsAreNumbers DEF Later, Existing
  <2> HIDE DEF t
  <2>3. CASE t < s + Len(g)
    <3>1. Kept(f, s) = SubSeq(g, 1, t - s)
      BY <1>3, <2>3 DEF Kept, t
    <3> DEFINE m == t - s
    <3>2. m \in Nat /\ m < Len(g) /\ 1 <= m /\ s + m = t
      BY <1>1, <2>2, <2>3
    <3> HIDE DEF m
    <3>3. /\ SubSeq(g, 1, m) \in Seq(Nat) /\ Len(SubSeq(g, 1, m)) = m
          /\ \A k \in 1..m : SubSeq(g, 1, m)[k] = g[k]
      BY <1>1, <3>2
    <3>4. SubSeq(g, 1, m) # << >> /\ g # << >>
      BY <1>1, <3>2, <3>3
    <3>5. \A k \in Nat : m < k => Overlaid(f, s, k)
      <4> SUFFICES ASSUME NEW k \in Nat, m < k PROVE t <= s + k - 1
        BY <2>2 DEF Overlaid
      <4> QED BY <1>1, <3>2
    <3> QED BY <2>1, <3>1, <3>2, <3>3, <3>4, <3>5 DEF m
  <2>4. CASE ~(t < s + Len(g))
    <3>1. Kept(f, s) = g
      BY <2>4 DEF Kept, t
    <3>2. \A u \in Later(f, s) : s + Len(g) <= u
      BY <1>1, <2>1, <2>2, <2>4
    <3> QED BY <1>1, <3>1, <3>2
  <2> QED BY <2>3, <2>4
<1> QED BY <1>2, <1>3

(* A trim leaves every file there.                                         *)
LEMMA TrimmedFiles ==
  ASSUME NEW f \in [Starts -> Seq(Nat)]
  PROVE  /\ Trimmed(f) \in [Starts -> Seq(Nat)] /\ Existing(Trimmed(f)) = Existing(f)
         /\ \A s \in Starts : Trimmed(f)[s] = Kept(f, s)
BY KeptPart DEF Trimmed, Existing

(* An empty directory.                                                     *)
LEMMA AuditStarts == Init => AuditInv
<1> SUFFICES ASSUME Init PROVE AuditInv
  OBVIOUS
<1>1. \A d \in Dirs, s \in Starts : files[d][s] = << >> /\ lens[d][s] = << >> /\ Len(files[d][s]) = 0
  BY DEF Init, Empty
<1>2. AuditTypes
  <2>1. IsFiniteSet(past)
    BY FS_Singleton DEF Init
  <2> QED BY <2>1 DEF Init, Empty, AuditTypes
<1>3. FilesPositional
  BY <1>1, StartsAreNumbers DEF FilesPositional
<1>4. LengthsInStep
  BY <1>1 DEF LengthsInStep
<1>5. OneSetting
  <2>1. \A s \in Starts : Size(launch.shards, s) >= 0
    <3>1. launch.shards \in 1..NumProblems
      BY <1>2, AuditAssumption DEF AuditTypes, Settings
    <3>2. \A s \in Starts : Size(launch.shards, s) \in Nat
      BY <3>1, ShardsApart
    <3> QED BY <3>2
  <2> QED BY <1>1, <2>1 DEF OneSetting
<1> QED BY <1>2, <1>3, <1>4, <1>5 DEF AuditInv

(* A launch with other settings.                                           *)
LEMMA RelaunchKeeps == ASSUME AuditInv, Relaunch PROVE AuditInv'
<1>1. /\ launch' \in Settings /\ launch' # launch /\ past' = past \cup {launch'}
      /\ files' = files /\ lens' = lens /\ launch \in past /\ IsFiniteSet(past')
  BY FS_AddElement DEF Relaunch, AuditInv, AuditTypes
<1>2. past' # {launch'}
  BY <1>1
<1> QED BY <1>1, <1>2 DEF AuditInv, AuditTypes, FilesPositional, LengthsInStep, OneSetting, Overlaid

(* A worker appends behind what it finds.                                  *)
LEMMA WriteKeeps == ASSUME AuditInv, Write PROVE AuditInv'
<1>1. PICK r \in Runs, s \in Starts :
        LET d == <<launch.sub, r>>
            k == Len(files[d][s])
        IN  /\ k < Size(launch.shards, s)
            /\ files' = [files EXCEPT ![d][s] = Append(@, s + k)]
            /\ lens' = [lens EXCEPT ![d][s] =
                 IF Len(@) < NumProblems THEN Append(@, k + 1) ELSE @]
            /\ UNCHANGED <<launch, past>>
  BY DEF Write
<1> DEFINE d == <<launch.sub, r>>
           f == files[d][s]
           l == lens[d][s]
           k == Len(f)
           f1 == Append(f, s + k)
           l1 == IF Len(l) < NumProblems THEN Append(l, k + 1) ELSE l
<1>2. d \in Dirs /\ launch \in Settings /\ launch.shards \in 1..NumProblems /\ d[1] = launch.sub
  BY AuditAssumption DEF AuditInv, AuditTypes, Settings, Dirs
<1> HIDE DEF d
<1>3. f \in Seq(Nat) /\ l \in Seq(Nat) /\ s \in Nat /\ NumProblems \in Nat /\ k \in Nat
  BY <1>2, StartsAreNumbers DEF AuditInv, AuditTypes
<1>4. /\ k < Size(launch.shards, s) /\ Size(launch.shards, s) \in Nat
      /\ s + Size(launch.shards, s) <= NumProblems
  BY <1>1, <1>2, ShardsApart DEF d
<1>5. /\ files' = [files EXCEPT ![d][s] = f1] /\ lens' = [lens EXCEPT ![d][s] = l1]
      /\ launch' = launch /\ past' = past
  BY <1>1 DEF d
<1> HIDE DEF f, l
<1>6. /\ f1 \in Seq(Nat) /\ Len(f1) = k + 1 /\ f1[k + 1] = s + k
      /\ \A i \in 1..k : f1[i] = f[i]
  BY <1>3
<1>7. /\ l1 \in Seq(Nat) /\ Len(l1) \in Nat /\ Len(l) \in Nat
      /\ Len(l1) = (IF Len(l) < NumProblems THEN Len(l) + 1 ELSE Len(l))
      /\ \A i \in 1..Len(l) : l1[i] = l[i]
      /\ Len(l) < NumProblems => l1[Len(l) + 1] = k + 1
  BY <1>3
<1> HIDE DEF f1, l1, k
<1>8. \A e \in Dirs, t \in Starts :
        /\ files'[e][t] = (IF e = d /\ t = s THEN f1 ELSE files[e][t])
        /\ lens'[e][t] = (IF e = d /\ t = s THEN l1 ELSE lens[e][t])
  BY <1>5 DEF AuditInv, AuditTypes
<1>9. AuditTypes'
  BY <1>2, <1>5, <1>6, <1>7 DEF AuditInv, AuditTypes
<1>10. k = Len(f) /\ f = files[d][s] /\ l = lens[d][s]
  BY DEF k, f, l
<1>11. FilesPositional'
  <2> SUFFICES ASSUME NEW e \in Dirs, NEW t \in Starts
               PROVE  /\ t + Len(files'[e][t]) <= NumProblems
                      /\ \A i \in 1..Len(files'[e][t]) : files'[e][t][i] = t + i - 1
    BY DEF FilesPositional
  <2>1. CASE ~(e = d /\ t = s)
    BY <1>8, <2>1 DEF AuditInv, FilesPositional
  <2>2. CASE e = d /\ t = s
    <3>1. \A i \in 1..k : f[i] = s + i - 1
      BY <1>2, <1>10 DEF AuditInv, FilesPositional
    <3>2. ASSUME NEW i \in 1..(k + 1) PROVE f1[i] = s + i - 1
      <4>1. CASE i = k + 1
        BY <1>3, <1>6, <4>1
      <4>2. CASE i # k + 1
        <5>1. i \in 1..k
          BY <1>3, <4>2
        <5> QED BY <1>6, <3>1, <5>1
      <4> QED BY <4>1, <4>2
    <3>3. s + (k + 1) <= NumProblems
      BY <1>3, <1>4
    <3> QED BY <1>6, <1>8, <2>2, <3>2, <3>3
  <2> QED BY <2>1, <2>2
<1>12. \A e \in Dirs : Existing(files[e]) \subseteq Existing(files'[e])
  <2>1. f1 # << >>
    BY <1>3, <1>6
  <2> QED BY <1>8, <2>1 DEF Existing
<1>13. LengthsInStep'
  <2> SUFFICES ASSUME NEW e \in Dirs, NEW t \in Starts, NEW i \in 1..NumProblems
               PROVE  \/ Overlaid(files'[e], t, i)
                      \/ i <= Len(files'[e][t]) /\ i <= Len(lens'[e][t]) /\ lens'[e][t][i] = i
                      \/ i > Len(files'[e][t]) /\ i > Len(lens'[e][t])
    BY DEF LengthsInStep
  <2>1. \A j \in 1..NumProblems :
          \/ Overlaid(files[e], t, j)
          \/ j <= Len(files[e][t]) /\ j <= Len(lens[e][t]) /\ lens[e][t][j] = j
          \/ j > Len(files[e][t]) /\ j > Len(lens[e][t])
    BY DEF AuditInv, LengthsInStep
  <2>2. \A j : Overlaid(files[e], t, j) => Overlaid(files'[e], t, j)
    BY <1>12 DEF Overlaid
  <2>3. CASE ~(e = d /\ t = s)
    BY <1>8, <2>1, <2>2, <2>3
  <2>4. CASE e = d /\ t = s
    <3>1. files'[e][t] = f1 /\ lens'[e][t] = l1 /\ files[e][t] = f /\ lens[e][t] = l
      BY <1>8, <1>10, <2>4
    <3>2. \A j \in 1..NumProblems :
          \/ Overlaid(files[e], s, j)
          \/ j <= k /\ j <= Len(l) /\ l[j] = j
          \/ j > k /\ j > Len(l)
      BY <1>10, <2>1, <2>4, <3>1
    <3>3. \A j \in 1..i : Overlaid(files[e], s, j) => Overlaid(files[e], s, i)
      <4> SUFFICES ASSUME NEW j \in 1..i, NEW u \in Existing(files[e]), s < u, u <= s + j - 1
                   PROVE  u <= s + i - 1
        BY DEF Overlaid
      <4>1. u \in Nat
        BY StartsAreNumbers DEF Existing
      <4> QED BY <1>3, <4>1
    <3>4. CASE Overlaid(files[e], s, i)
      BY <2>2, <2>4, <3>4
    <3>5. CASE i <= k /\ i <= Len(l) /\ l[i] = i
      <4>1. i <= k + 1 /\ i \in 1..Len(l) /\ i <= Len(l1)
        BY <1>3, <1>7, <3>5
      <4> QED BY <1>6, <1>7, <3>1, <3>5, <4>1
    <3>6. CASE i > k /\ i > Len(l) /\ ~Overlaid(files[e], s, i)
      <4>1. Len(l) = k
        <5>1. CASE Len(l) < k
          <6>1. k \in 1..NumProblems /\ k \in 1..i
            BY <1>3, <1>7, <3>6, <5>1
          <6> QED BY <1>3, <1>7, <3>2, <3>3, <3>6, <5>1, <6>1
        <5>2. CASE k < Len(l)
          <6>1. k + 1 \in 1..NumProblems /\ k + 1 \in 1..i
            BY <1>3, <1>7, <3>6, <5>2
          <6> QED BY <1>3, <1>7, <3>2, <3>3, <3>6, <5>2, <6>1
        <5> QED BY <1>3, <1>7, <5>1, <5>2
      <4>2. k < NumProblems
        BY <1>3, <1>4
      <4>3. Len(l1) = k + 1 /\ l1[k + 1] = k + 1
        BY <1>7, <4>1, <4>2
      <4>4. CASE i = k + 1
        BY <1>6, <3>1, <4>3, <4>4
      <4>5. CASE i # k + 1
        <5>1. i > k + 1
          BY <1>3, <3>6, <4>5
        <5> QED BY <1>6, <3>1, <4>3, <5>1
      <4> QED BY <4>4, <4>5
    <3> QED BY <3>2, <3>4, <3>5, <3>6
  <2> QED BY <2>3, <2>4
<1>14. OneSetting'
  <2> SUFFICES ASSUME past = {launch}, NEW e \in Dirs, NEW t \in Starts
               PROVE  Len(files'[e][t]) <= IF e[1] = launch.sub THEN Size(launch.shards, t) ELSE 0
    BY <1>5 DEF OneSetting
  <2>1. CASE ~(e = d /\ t = s)
    BY <1>8, <2>1 DEF AuditInv, OneSetting
  <2>2. CASE e = d /\ t = s
    <3>1. k + 1 <= Size(launch.shards, s)
      BY <1>3, <1>4
    <3> QED BY <1>2, <1>6, <1>8, <2>2, <3>1
  <2> QED BY <2>1, <2>2
<1> QED BY <1>9, <1>11, <1>13, <1>14 DEF AuditInv

(* A trim: what it leaves of the lengths is hidden by the file it cut for. *)
LEMMA TrimKeeps ==
  ASSUME AuditInv, NEW sub \in Subs, Trim(sub)
  PROVE  AuditInv'
<1>1. /\ files' = [d \in Dirs |-> IF d[1] = sub THEN Trimmed(files[d]) ELSE files[d]]
      /\ lens' = [d \in Dirs |-> IF d[1] = sub THEN LensAfter(d) ELSE lens[d]]
      /\ launch' = launch /\ past' = past
  BY DEF Trim
<1>2. ASSUME NEW d \in Dirs, NEW s \in Starts
      PROVE  /\ files[d] \in [Starts -> Seq(Nat)] /\ lens[d][s] \in Seq(Nat)
             /\ Len(files[d][s]) \in Nat /\ Len(lens[d][s]) \in Nat /\ s \in Nat
             /\ LensAfter(d)[s] \in Seq(Nat) /\ Len(LensAfter(d)[s]) = Len(lens[d][s])
             /\ \A k \in 1..Len(lens[d][s]) : LensAfter(d)[s][k] =
                  IF lens[d][s][k] > Len(Kept(files[d], s)) THEN 0 ELSE lens[d][s][k]
  <2> DEFINE l == lens[d][s]
             n == Len(Kept(files[d], s))
             l1 == [k \in DOMAIN l |-> IF l[k] > n THEN 0 ELSE l[k]]
  <2>1. files[d] \in [Starts -> Seq(Nat)] /\ l \in Seq(Nat) /\ Len(files[d][s]) \in Nat /\ s \in Nat
    BY StartsAreNumbers DEF AuditInv, AuditTypes
  <2>2. LensAfter(d)[s] = l1
    BY DEF LensAfter
  <2> HIDE DEF l, n
  <2>3. /\ l1 \in Seq(Nat) /\ Len(l1) = Len(l) /\ Len(l) \in Nat
        /\ \A k \in 1..Len(l) : l1[k] = IF l[k] > n THEN 0 ELSE l[k]
    <3>1. DOMAIN l = 1..Len(l) /\ Len(l) \in Nat /\ \A k \in 1..Len(l) : l[k] \in Nat
      BY <2>1
    <3>2. l1 \in [1..Len(l) -> Nat]
      BY <3>1
    <3>3. l1 \in Seq(Nat) /\ Len(l1) = Len(l)
      BY <3>1, <3>2
    <3> QED BY <3>1, <3>3
  <2> QED BY <2>1, <2>2, <2>3 DEF l, n
<1>3. ASSUME NEW d \in Dirs, NEW s \in Starts
      PROVE  /\ files'[d][s] = (IF d[1] = sub THEN Kept(files[d], s) ELSE files[d][s])
             /\ lens'[d][s] = (IF d[1] = sub THEN LensAfter(d)[s] ELSE lens[d][s])
             /\ Existing(files'[d]) = Existing(files[d])
             /\ files'[d] \in [Starts -> Seq(Nat)]
  BY <1>1, <1>2, TrimmedFiles
<1>4. ASSUME NEW d \in Dirs, NEW s \in Starts
      PROVE  /\ Kept(files[d], s) \in Seq(Nat) /\ Len(Kept(files[d], s)) \in Nat
             /\ Len(Kept(files[d], s)) <= Len(files[d][s])
             /\ \A k \in 1..Len(Kept(files[d], s)) : Kept(files[d], s)[k] = files[d][s][k]
             /\ \A k \in Nat : Len(Kept(files[d], s)) < k /\ k <= Len(files[d][s]) =>
                  Overlaid(files[d], s, k)
  <2> DEFINE f == files[d]
             g == Kept(f, s)
  <2>1. f \in [Starts -> Seq(Nat)]
    BY <1>2
  <2> HIDE DEF f
  <2>2. /\ g \in Seq(Nat) /\ Len(g) <= Len(f[s]) /\ \A k \in 1..Len(g) : g[k] = f[s][k]
        /\ \A k \in Nat : Len(g) < k /\ k <= Len(f[s]) => Overlaid(f, s, k)
    BY <2>1, KeptPart
  <2> HIDE DEF g
  <2>3. Len(g) \in Nat
    BY <2>2
  <2> QED BY <2>2, <2>3 DEF f, g
<1>5. AuditTypes'
  <2>1. files' \in [Dirs -> [Starts -> Seq(Nat)]]
    BY <1>1, <1>2, TrimmedFiles DEF AuditInv, AuditTypes
  <2>2. \A d \in Dirs : LensAfter(d) \in [Starts -> Seq(Nat)]
    <3> TAKE d \in Dirs
    <3>1. \A s \in Starts : LensAfter(d)[s] \in Seq(Nat)
      BY <1>2
    <3>2. LensAfter(d) = [s \in Starts |-> LensAfter(d)[s]]
      BY DEF LensAfter
    <3> QED BY <3>1, <3>2
  <2>3. lens' \in [Dirs -> [Starts -> Seq(Nat)]]
    BY <1>1, <2>2 DEF AuditInv, AuditTypes
  <2> QED BY <1>1, <2>1, <2>3 DEF AuditInv, AuditTypes
<1>6. FilesPositional'
  <2> SUFFICES ASSUME NEW d \in Dirs, NEW s \in Starts
               PROVE  /\ s + Len(files'[d][s]) <= NumProblems
                      /\ \A k \in 1..Len(files'[d][s]) : files'[d][s][k] = s + k - 1
    BY DEF FilesPositional
  <2>1. /\ s + Len(files[d][s]) <= NumProblems
        /\ \A k \in 1..Len(files[d][s]) : files[d][s][k] = s + k - 1
    BY DEF AuditInv, FilesPositional
  <2>2. CASE d[1] = sub
    <3> DEFINE n == Len(Kept(files[d], s))
               m == Len(files[d][s])
    <3>1. n \in Nat /\ m \in Nat /\ n <= m /\ s \in Nat /\ s + m <= NumProblems
      BY <1>2, <1>4, <2>1
    <3> HIDE DEF n, m
    <3>2. s + n <= NumProblems /\ \A k \in 1..n : k \in 1..m
      BY <3>1, StartsAreNumbers
    <3>3. \A k \in 1..n : Kept(files[d], s)[k] = s + k - 1
      BY <1>4, <2>1, <3>2 DEF n, m
    <3> QED BY <1>3, <2>2, <3>2, <3>3 DEF n
  <2>3. CASE d[1] # sub
    BY <1>3, <2>1, <2>3
  <2> QED BY <2>2, <2>3
<1>7. LengthsInStep'
  <2> SUFFICES ASSUME NEW d \in Dirs, NEW s \in Starts, NEW k \in 1..NumProblems
               PROVE  \/ Overlaid(files'[d], s, k)
                      \/ k <= Len(files'[d][s]) /\ k <= Len(lens'[d][s]) /\ lens'[d][s][k] = k
                      \/ k > Len(files'[d][s]) /\ k > Len(lens'[d][s])
    BY DEF LengthsInStep
  <2>1. \/ Overlaid(files[d], s, k)
        \/ k <= Len(files[d][s]) /\ k <= Len(lens[d][s]) /\ lens[d][s][k] = k
        \/ k > Len(files[d][s]) /\ k > Len(lens[d][s])
    BY DEF AuditInv, LengthsInStep
  <2>2. Overlaid(files'[d], s, k) <=> Overlaid(files[d], s, k)
    BY <1>3 DEF Overlaid
  <2>3. CASE d[1] # sub
    BY <1>3, <2>1, <2>2, <2>3
  <2>4. CASE d[1] = sub /\ ~Overlaid(files[d], s, k)
    <3> DEFINE n == Len(Kept(files[d], s))
               m == Len(files[d][s])
               l == Len(lens[d][s])
    <3>1. /\ n \in Nat /\ m \in Nat /\ l \in Nat /\ n <= m /\ k \in Nat /\ 1 <= k
          /\ ~(n < k /\ k <= m)
      BY <1>2, <1>4, <2>4
    <3>2. /\ Len(files'[d][s]) = n /\ Len(lens'[d][s]) = l
          /\ k <= l => lens'[d][s][k] = IF lens[d][s][k] > n THEN 0 ELSE lens[d][s][k]
      <4>1. files'[d][s] = Kept(files[d], s) /\ lens'[d][s] = LensAfter(d)[s]
        BY <1>3, <2>4
      <4>2. Len(LensAfter(d)[s]) = l /\ (k <= l => k \in 1..l)
        BY <1>2, <3>1
      <4>3. \A j \in 1..l : LensAfter(d)[s][j] = IF lens[d][s][j] > n THEN 0 ELSE lens[d][s][j]
        BY <1>2
      <4> QED BY <4>1, <4>2, <4>3
    <3>3. (k <= m /\ k <= l /\ lens[d][s][k] = k) \/ (k > m /\ k > l)
      BY <2>1, <2>4
    <3> HIDE DEF n, m, l
    <3>4. CASE k <= m /\ k <= l /\ lens[d][s][k] = k
      <4>1. k <= n
        BY <3>1, <3>4
      <4>2. lens'[d][s][k] = k
        BY <3>1, <3>2, <3>4, <4>1
      <4> QED BY <3>2, <3>4, <4>1, <4>2
    <3>5. CASE k > m /\ k > l
      <4>1. k > n
        BY <3>1, <3>5
      <4> QED BY <3>2, <3>5, <4>1
    <3> QED BY <3>3, <3>4, <3>5
  <2> QED BY <2>2, <2>3, <2>4
<1>8. OneSetting'
  <2> SUFFICES ASSUME past = {launch}, NEW d \in Dirs, NEW s \in Starts
               PROVE  Len(files'[d][s]) <= IF d[1] = launch.sub THEN Size(launch.shards, s) ELSE 0
    BY <1>1 DEF OneSetting
  <2> DEFINE n == Len(files'[d][s])
             m == Len(files[d][s])
             z == IF d[1] = launch.sub THEN Size(launch.shards, s) ELSE 0
  <2>1. m <= z
    BY DEF AuditInv, OneSetting
  <2>2. n \in Nat /\ m \in Nat /\ n <= m
    <3>1. CASE d[1] = sub
      BY <1>2, <1>3, <1>4, <3>1
    <3>2. CASE d[1] # sub
      BY <1>2, <1>3, <3>2
    <3> QED BY <3>1, <3>2
  <2>3. z \in Nat
    <3>1. launch.shards \in 1..NumProblems
      BY AuditAssumption DEF AuditInv, AuditTypes, Settings
    <3> QED BY <3>1, ShardsApart
  <2> HIDE DEF n, m, z
  <2>4. n <= z
    BY <2>1, <2>2, <2>3
  <2> QED BY <2>4 DEF n, z
<1> QED BY <1>5, <1>6, <1>7, <1>8 DEF AuditInv

(* Files that are moved away are gone with their lengths.                  *)
LEMMA QuarantineKeeps == ASSUME AuditInv, Quarantine PROVE AuditInv'
<1>1. /\ files' = [d \in Dirs |-> IF d[1] = launch.sub THEN files[d] ELSE [s \in Starts |-> << >>]]
      /\ lens' = [d \in Dirs |-> IF d[1] = launch.sub THEN lens[d] ELSE [s \in Starts |-> << >>]]
      /\ launch' = launch /\ past' = past
  BY DEF Quarantine
<1>2. ASSUME NEW d \in Dirs
      PROVE  \/ files'[d] = files[d] /\ lens'[d] = lens[d]
             \/ /\ \A s \in Starts : files'[d][s] = << >> /\ lens'[d][s] = << >>
                /\ d[1] # launch.sub
  BY <1>1
<1>3. AuditTypes'
  BY <1>1 DEF AuditInv, AuditTypes
<1>4. FilesPositional'
  BY <1>2, StartsAreNumbers DEF AuditInv, FilesPositional
<1>5. LengthsInStep'
  BY <1>2 DEF AuditInv, LengthsInStep
<1>6. OneSetting'
  BY <1>1, <1>2 DEF AuditInv, OneSetting
<1> QED BY <1>3, <1>4, <1>5, <1>6 DEF AuditInv

(* Every step of the workers and of the repairs.                           *)
LEMMA AuditKeeps == AuditInv /\ [Next]_vars => AuditInv'
<1> SUFFICES ASSUME AuditInv, [Next]_vars PROVE AuditInv'
  OBVIOUS
<1>1. CASE Relaunch
  BY <1>1, RelaunchKeeps
<1>2. CASE Write
  BY <1>2, WriteKeeps
<1>3. CASE TrimSome
  BY <1>3, TrimKeeps DEF TrimSome
<1>4. CASE Quarantine
  BY <1>4, QuarantineKeeps
<1>5. CASE UNCHANGED vars
  BY <1>5 DEF vars, AuditInv, AuditTypes, FilesPositional, LengthsInStep, OneSetting, Overlaid
<1> QED BY <1>1, <1>2, <1>3, <1>4, <1>5 DEF Next

-----------------------------------------------------------------------------
(* Files the audit does not flag lie behind each other.                    *)
LEMMA CleanFiles ==
  ASSUME NEW f \in [Starts -> Seq(Nat)], ~Overlap(f), NEW s \in Existing(f)
  PROVE  /\ s + Len(f[s]) <= NumProblems
         /\ \A t \in Existing(f) : s < t => s + Len(f[s]) <= t
<1>1. s \in Starts /\ s \in Nat /\ Len(f[s]) \in Nat /\ NumProblems \in Nat
  BY StartsAreNumbers DEF Existing
<1> DEFINE e == s + Len(f[s])
<1>2. e \in Nat
  BY <1>1
<1>3. ~(e > IF Later(f, s) = {} THEN NumProblems ELSE Following(f, s))
  BY DEF Overlap
<1>4. \A t \in Existing(f) : s < t => t \in Later(f, s)
  BY StartsAreNumbers DEF Later, Existing
<1> HIDE DEF e
<1>5. CASE Later(f, s) = {}
  BY <1>1, <1>2, <1>3, <1>4, <1>5 DEF e
<1>6. CASE Later(f, s) # {}
  <2>1. Following(f, s) \in Later(f, s) /\ \A t \in Later(f, s) : Following(f, s) <= t
    BY <1>6, NextFile
  <2> DEFINE n == Following(f, s)
  <2>2. n \in Nat /\ n < NumProblems /\ e <= n
    <3>1. n \in Starts
      BY <2>1 DEF Later, Existing
    <3> QED BY <1>2, <1>3, <1>6, <3>1, StartsAreNumbers
  <2>3. \A t \in Later(f, s) : n <= t /\ t \in Nat
    BY <2>1, StartsAreNumbers DEF Later, Existing
  <2> HIDE DEF n
  <2>4. e <= NumProblems /\ \A t \in Later(f, s) : e <= t
    BY <1>1, <1>2, <2>2, <2>3
  <2> QED BY <1>4, <2>4 DEF e
<1> QED BY <1>5, <1>6

(* A record is a line of a file.                                           *)
LEMMA RecordIsLine ==
  ASSUME AuditInv, NEW d \in Dirs, NEW x \in Records(d)
  PROVE  \E s \in Existing(files[d]), k \in Nat :
           /\ k \in 1..Len(files[d][s]) /\ s \in Starts /\ s \in Nat
           /\ x = [gi |-> s + k - 1, of |-> files[d][s][k], file |-> s, line |-> k,
                   length |-> IF k <= Len(lens[d][s]) THEN lens[d][s][k] ELSE 0]
<1>1. PICK s \in Starts : \E k \in DOMAIN files[d][s] :
        x = [gi |-> s + k - 1, of |-> files[d][s][k], file |-> s, line |-> k,
             length |-> IF k <= Len(lens[d][s]) THEN lens[d][s][k] ELSE 0]
  BY DEF Records
<1>2. files[d][s] \in Seq(Nat) /\ s \in Nat
  BY StartsAreNumbers DEF AuditInv, AuditTypes
<1>3. PICK k \in DOMAIN files[d][s] :
        x = [gi |-> s + k - 1, of |-> files[d][s][k], file |-> s, line |-> k,
             length |-> IF k <= Len(lens[d][s]) THEN lens[d][s][k] ELSE 0]
  BY <1>1
<1>4. k \in 1..Len(files[d][s]) /\ k \in Nat /\ files[d][s] # << >>
  BY <1>2
<1> QED BY <1>2, <1>3, <1>4 DEF Existing

(* No index twice and none past the last problem in a cell that passes.    *)
LEMMA CleanCells == AuditInv => CleanCellGrades
<1> SUFFICES ASSUME AuditInv, ~Blocking, NEW d \in Dirs, Raises(d) PROVE FALSE
  BY DEF CleanCellGrades
<1>1. files[d] \in [Starts -> Seq(Nat)] /\ ~Overlap(files[d])
  BY DEF AuditInv, AuditTypes, Blocking
<1>2. ASSUME NEW x \in Records(d), x.gi >= NumProblems PROVE FALSE
  <2>1. PICK s \in Existing(files[d]), k \in Nat :
          s \in Nat /\ k \in 1..Len(files[d][s]) /\ x.gi = s + k - 1
    BY RecordIsLine
  <2>2. s + Len(files[d][s]) <= NumProblems /\ Len(files[d][s]) \in Nat
    BY <1>1, CleanFiles DEF Existing
  <2> QED BY <1>2, <2>1, <2>2, StartsAreNumbers
<1>3. ASSUME NEW x \in Records(d), NEW y \in Records(d), x # y, x.gi = y.gi PROVE FALSE
  <2>1. PICK s \in Existing(files[d]), j \in Nat :
          /\ s \in Nat /\ j \in 1..Len(files[d][s])
          /\ x = [gi |-> s + j - 1, of |-> files[d][s][j], file |-> s, line |-> j,
                  length |-> IF j <= Len(lens[d][s]) THEN lens[d][s][j] ELSE 0]
    BY RecordIsLine
  <2>2. PICK t \in Existing(files[d]), k \in Nat :
          /\ t \in Nat /\ k \in 1..Len(files[d][t])
          /\ y = [gi |-> t + k - 1, of |-> files[d][t][k], file |-> t, line |-> k,
                  length |-> IF k <= Len(lens[d][t]) THEN lens[d][t][k] ELSE 0]
    BY RecordIsLine
  <2>3. s + j - 1 = t + k - 1
    BY <1>3, <2>1, <2>2
  <2>4. Len(files[d][s]) \in Nat /\ Len(files[d][t]) \in Nat
    BY <1>1 DEF Existing
  <2>5. (s < t => s + Len(files[d][s]) <= t) /\ (t < s => t + Len(files[d][t]) <= s)
    BY <1>1, CleanFiles
  <2>6. s = t
    <3> DEFINE m == Len(files[d][s])
               n == Len(files[d][t])
    <3>1. /\ m \in Nat /\ n \in Nat /\ 1 <= j /\ j <= m /\ 1 <= k /\ k <= n
          /\ s < t => s + m <= t
          /\ t < s => t + n <= s
      BY <2>1, <2>2, <2>4, <2>5
    <3> HIDE DEF m, n
    <3> QED BY <2>1, <2>2, <2>3, <3>1
  <2>7. j = k
    BY <2>1, <2>2, <2>3, <2>6
  <2> QED BY <1>3, <2>1, <2>2, <2>6, <2>7
<1> QED BY <1>2, <1>3 DEF Raises

(* Completions are graded against the problem they answer.                 *)
LEMMA OnTheirProblems == AuditInv => GradedOnItsProblem
<1> SUFFICES ASSUME AuditInv, NEW d \in Dirs, NEW x \in Records(d) PROVE x.gi = x.of
  BY DEF GradedOnItsProblem
<1>1. PICK s \in Starts, k \in Nat :
        k \in 1..Len(files[d][s]) /\ x.gi = s + k - 1 /\ x.of = files[d][s][k]
  BY RecordIsLine
<1> QED BY <1>1 DEF AuditInv, FilesPositional

(* No completion of a clean cell lies behind the start of another file.    *)
LEMMA LengthsPaired == AuditInv => LengthsPairedWhenClean
<1> SUFFICES ASSUME AuditInv, ~Blocking, NEW d \in Dirs, NEW x \in Records(d)
             PROVE  x.length = x.line
  BY DEF LengthsPairedWhenClean
<1>1. files[d] \in [Starts -> Seq(Nat)] /\ ~Overlap(files[d])
  BY DEF AuditInv, AuditTypes, Blocking
<1>2. PICK s \in Existing(files[d]), k \in Nat :
        /\ s \in Nat /\ k \in 1..Len(files[d][s]) /\ x.line = k
        /\ x.length = IF k <= Len(lens[d][s]) THEN lens[d][s][k] ELSE 0
  BY RecordIsLine
<1>3. s \in Starts /\ Len(files[d][s]) \in Nat /\ s + Len(files[d][s]) <= NumProblems
  BY <1>1, CleanFiles DEF Existing
<1>4. k \in 1..NumProblems
  BY <1>2, <1>3, StartsAreNumbers
<1>5. ~Overlaid(files[d], s, k)
  <2> SUFFICES ASSUME NEW t \in Existing(files[d]), s < t, t <= s + k - 1 PROVE FALSE
    BY DEF Overlaid
  <2>1. s + Len(files[d][s]) <= t /\ t \in Nat
    BY <1>1, CleanFiles, StartsAreNumbers DEF Existing
  <2> QED BY <1>2, <1>3, <2>1
<1>6. \/ k <= Len(files[d][s]) /\ k <= Len(lens[d][s]) /\ lens[d][s][k] = k
      \/ k > Len(files[d][s]) /\ k > Len(lens[d][s])
  BY <1>3, <1>4, <1>5 DEF AuditInv, LengthsInStep
<1> QED BY <1>2, <1>3, <1>6

-----------------------------------------------------------------------------
(* One pass of the trim leaves no overlap.                                 *)
LEMMA TrimmedIsClean ==
  ASSUME NEW f \in [Starts -> Seq(Nat)], \A s \in Starts : s + Len(f[s]) <= NumProblems
  PROVE  ~Overlap(Trimmed(f))
<1> SUFFICES ASSUME NEW s \in Existing(Trimmed(f)),
                    s + Len(Trimmed(f)[s]) >
                      IF Later(Trimmed(f), s) = {} THEN NumProblems ELSE Following(Trimmed(f), s)
             PROVE  FALSE
  BY DEF Overlap
<1>1. Existing(Trimmed(f)) = Existing(f) /\ Later(Trimmed(f), s) = Later(f, s)
  BY TrimmedFiles DEF Later
<1>2. s \in Starts /\ s \in Nat /\ Trimmed(f)[s] = Kept(f, s)
  BY TrimmedFiles, StartsAreNumbers DEF Existing
<1> DEFINE n == Len(Kept(f, s))
<1>3. /\ n \in Nat /\ n <= Len(f[s]) /\ Len(f[s]) \in Nat
      /\ \A t \in Later(f, s) : s + n <= t
  BY <1>2, KeptPart
<1>4. CASE Later(f, s) = {}
  <2>1. s + Len(f[s]) <= NumProblems /\ s + n > NumProblems
    BY <1>1, <1>2, <1>4
  <2> HIDE DEF n
  <2> QED BY <1>2, <1>3, <2>1, StartsAreNumbers
<1>5. CASE Later(f, s) # {}
  <2> DEFINE t == Following(Trimmed(f), s)
  <2>1. t = Following(f, s) /\ t \in Later(f, s)
    BY <1>1, <1>5, NextFile DEF Following
  <2>2. t \in Nat /\ s + n <= t /\ s + n > t
    BY <1>1, <1>2, <1>3, <1>5, <2>1, StartsAreNumbers DEF Later, Existing
  <2> HIDE DEF n, t
  <2> QED BY <1>2, <1>3, <2>2
<1> QED BY <1>4, <1>5

(* One run of trim_shard_overlaps.py --apply leaves no overlap in a subdirectory,
   however many files overlap in a chain.                                       *)
THEOREM TrimClearsOverlaps == Spec => TrimClears
<1>1. Init => AuditInv
  BY AuditStarts
<1>2. AuditInv /\ [Next]_vars => AuditInv'
  BY AuditKeeps
<1>3. AuditInv =>
        (\A sub \in Subs : Trim(sub) => \A r \in Runs : ~Overlap(files'[<<sub, r>>]))
  <2> SUFFICES ASSUME AuditInv, NEW sub \in Subs, Trim(sub), NEW r \in Runs
               PROVE  ~Overlap(files'[<<sub, r>>])
    OBVIOUS
  <2> DEFINE d == <<sub, r>>
  <2>1. d \in Dirs /\ files'[d] = Trimmed(files[d])
    BY DEF Trim, Dirs
  <2>2. files[d] \in [Starts -> Seq(Nat)] /\ \A s \in Starts : s + Len(files[d][s]) <= NumProblems
    BY <2>1 DEF AuditInv, AuditTypes, FilesPositional
  <2> HIDE DEF d
  <2>3. ~Overlap(Trimmed(files[d]))
    BY <2>2, TrimmedIsClean
  <2> QED BY <2>1, <2>3 DEF d
<1> QED BY <1>1, <1>2, <1>3, PTL DEF Spec, TrimClears

(* A set of numbers with a bound has a greatest one.                       *)
LEMMA MaxOf ==
  ASSUME NEW b \in Nat, NEW S, S \subseteq 0..b, S # {}
  PROVE  Max(S) \in S /\ \A x \in S : x <= Max(S)
<1> DEFINE T == {b - x : x \in S}
<1>1. T \subseteq Nat /\ T # {}
  <2>1. \A x \in S : b - x \in Nat
    OBVIOUS
  <2> QED BY <2>1
<1>2. PICK n \in T : \A m \in T : n <= m
  <2> HIDE DEF T
  <2> QED BY <1>1, Least
<1>3. PICK y \in S : n = b - y
  OBVIOUS
<1>4. \A x \in S : y >= x
  <2> TAKE x \in S
  <2>1. b - y <= b - x
    BY <1>2, <1>3
  <2>2. x \in Nat /\ y \in Nat
    OBVIOUS
  <2> QED BY <2>1, <2>2
<1>5. Max(S) \in S /\ \A x \in S : Max(S) >= x
  BY <1>4 DEF Max
<1>6. \A x \in S : x \in Nat
  OBVIOUS
<1> QED BY <1>5, <1>6

(* The gap report has the problems nothing is left of.                     *)
LEMMA GapsAreExact == AuditInv => GapsExact
<1> SUFFICES ASSUME AuditInv, NEW d \in Dirs
             PROVE  Gaps(files[d]) =
                      {p \in Starts : \A s \in Starts : p \notin Range(Trimmed(files[d])[s])}
  BY DEF GapsExact
<1> DEFINE f == files[d]
           g == Trimmed(f)
           X == Existing(f)
           end(s) == s + Len(g[s])
           ends(s) == {0} \cup {end(t) : t \in {u \in X : u < s}}
           cov(s) == Max(ends(s))
           N == NumProblems
<1>1. f \in [Starts -> Seq(Nat)]
  BY DEF AuditInv, AuditTypes
<1>2. ASSUME NEW s \in Starts
      PROVE  /\ Len(g[s]) \in Nat /\ s \in Nat /\ s < N /\ N \in Nat /\ end(s) \in Nat /\ end(s) <= N
             /\ s \in X <=> Len(g[s]) > 0
             /\ \A p \in Nat : p \in Range(g[s]) <=> s <= p /\ p < end(s)
  <2>1. /\ g[s] \in Seq(Nat) /\ g[s] = Kept(f, s) /\ Len(g[s]) <= Len(f[s])
        /\ \A k \in 1..Len(g[s]) : g[s][k] = f[s][k]
        /\ g[s] = << >> <=> f[s] = << >>
    <3> HIDE DEF f
    <3> QED BY <1>1, TrimmedFiles, KeptPart
  <2>2. s \in Nat /\ N \in Nat /\ s < N /\ Len(f[s]) \in Nat /\ s + Len(f[s]) <= N
    BY <1>1, StartsAreNumbers DEF AuditInv, FilesPositional
  <2>3. \A k \in 1..Len(f[s]) : f[s][k] = s + k - 1
    BY DEF AuditInv, FilesPositional
  <2>4. s \in X <=> f[s] # << >>
    BY DEF Existing
  <2> DEFINE h == g[s]
             n == Len(g[s])
             m == Len(f[s])
  <2> HIDE DEF g, f, X
  <2>5. n \in Nat /\ DOMAIN h = 1..n /\ (h = << >> <=> n = 0)
    BY <2>1
  <2>6. n \in Nat /\ m \in Nat /\ n <= m /\ s + m <= N
    BY <2>1, <2>2, <2>5
  <2> HIDE DEF h, n, m, N
  <2>7. s + n <= N /\ \A k \in 1..n : k \in 1..m
    BY <2>2, <2>6
  <2>8. \A k \in 1..n : h[k] = s + k - 1
    BY <2>1, <2>3, <2>7 DEF h, n, m
  <2>9. ASSUME NEW p \in Nat PROVE p \in Range(h) <=> s <= p /\ p < s + n
    <3>1. p \in Range(h) <=> \E k \in 1..n : p = s + k - 1
      BY <2>5, <2>8 DEF Range
    <3>2. (\E k \in 1..n : p = s + k - 1) => s <= p /\ p < s + n
      BY <2>2, <2>6
    <3>3. s <= p /\ p < s + n => p - s + 1 \in 1..n /\ p = s + (p - s + 1) - 1
      BY <2>2, <2>6
    <3> QED BY <3>1, <3>2, <3>3
  <2>10. s \in X <=> n > 0
    BY <2>1, <2>4, <2>5 DEF h
  <2> QED BY <2>2, <2>6, <2>7, <2>9, <2>10 DEF h, n
<1>3. X \subseteq Starts /\ N \in Nat /\ Starts = 0..(N - 1)
  BY StartsAreNumbers DEF Existing, Starts
<1> HIDE DEF g, X, N
<1>4. ASSUME NEW s \in Nat
      PROVE  /\ cov(s) \in Nat
             /\ \A t \in X : t < s => end(t) <= cov(s)
             /\ \A p \in Nat : (\A t \in X : t < s => end(t) <= p) => cov(s) <= p
  <2>1. ends(s) \subseteq 0..N /\ ends(s) # {}
    <3>1. \A t \in X : end(t) \in 0..N
      BY <1>2, <1>3
    <3>2. 0 \in 0..N
      BY <1>3
    <3> HIDE DEF end
    <3> QED BY <3>1, <3>2
  <2> DEFINE E == ends(s)
  <2>2. \A t \in X : t < s => end(t) \in E
    OBVIOUS
  <2>3. \A e \in E : e = 0 \/ \E t \in X : t < s /\ e = end(t)
    OBVIOUS
  <2> HIDE DEF E
  <2>4. Max(E) \in E /\ \A x \in E : x <= Max(E)
    BY <1>3, <2>1, MaxOf DEF E
  <2>5. Max(E) \in Nat
    BY <2>1, <2>4 DEF E
  <2>6. \A p \in Nat : 0 <= p
    OBVIOUS
  <2> HIDE DEF end
  <2> QED BY <2>2, <2>3, <2>4, <2>5, <2>6, Zenon DEF E
<1> DEFINE seg(s) == cov(s)..(s - 1)
<1>5. Gaps(f) = UNION {seg(s) : s \in X \cup {N}}
  BY DEF Gaps, X, g, N
<1> HIDE DEF seg
<1>9. \A p : p \in Gaps(f) <=> \E s \in X \cup {N} : p \in seg(s)
  BY <1>5
<1> HIDE DEF cov, end, f
<1>6. ASSUME NEW p \in Gaps(f)
      PROVE  p \in Starts /\ \A s \in Starts : p \notin Range(g[s])
  <2>1. PICK s \in X \cup {N} : p \in cov(s)..(s - 1)
    <3>1. PICK s \in X \cup {N} : p \in seg(s)
      BY <1>9
    <3> QED BY <3>1 DEF seg
  <2>2. s \in Nat /\ s <= N /\ cov(s) \in Nat
    BY <1>2, <1>3, <1>4
  <2>3. p \in Nat /\ p < s /\ cov(s) <= p /\ p \in Starts
    BY <1>3, <2>1, <2>2
  <2>4. ASSUME NEW t \in Starts, p \in Range(g[t]) PROVE FALSE
    <3>1. t <= p /\ p < end(t) /\ t \in Nat /\ end(t) \in Nat /\ end(t) = t + Len(g[t]) /\ Len(g[t]) \in Nat
      BY <1>2, <2>3, <2>4 DEF end
    <3>2. t \in X /\ t < s
      BY <1>2, <2>2, <2>3, <3>1
    <3>3. end(t) <= cov(s)
      BY <1>4, <2>2, <3>2
    <3> QED BY <2>2, <2>3, <3>1, <3>3
  <2> QED BY <2>3, <2>4
<1>7. ASSUME NEW p \in Starts, \A s \in Starts : p \notin Range(g[s])
      PROVE  p \in Gaps(f)
  <2>1. p \in Nat /\ p < N
    BY <1>2
  <2> DEFINE T == {s \in X \cup {N} : s > p}
  <2>2. T \subseteq Nat /\ N \in T
    BY <1>2, <1>3, <2>1
  <2>3. PICK s \in T : \A t \in T : s <= t
    <3> HIDE DEF T
    <3> QED BY <2>2, Least
  <2>4. s \in Nat /\ s > p /\ s \in X \cup {N}
    BY <2>2, <2>3
  <2>5. ASSUME NEW t \in X, t < s PROVE end(t) <= p
    <3>1. t \in Starts /\ t \in Nat /\ end(t) \in Nat /\ p \notin Range(g[t])
      BY <1>2, <1>3, <1>7
    <3>2. ~(t > p)
      BY <2>3, <2>4, <2>5, <3>1
    <3>3. ~(t <= p /\ p < end(t))
      BY <1>2, <2>1, <3>1
    <3> QED BY <2>1, <3>1, <3>2, <3>3
  <2>6. cov(s) <= p /\ cov(s) \in Nat
    BY <1>4, <2>1, <2>4, <2>5
  <2>7. p \in seg(s)
    BY <2>1, <2>4, <2>6 DEF seg
  <2> QED BY <1>9, <2>4, <2>7
<1>8. Gaps(f) = {p \in Starts : \A s \in Starts : p \notin Range(g[s])}
  BY <1>6, <1>7
<1> QED BY <1>8 DEF g, f

(* A sum of equal terms.                                                   *)
LEMMA SumOfEqual ==
  ASSUME NEW f, NEW U, IsFiniteSet(U), NEW c \in Nat, \A x \in U : f[x] = c
  PROVE  SumFunctionOnSet(f, U) = Cardinality(U) * c
<1> DEFINE Sum(s) == SumFunctionOnSet(f, s)
           G == {s \in SUBSET U : Sum(s) = Cardinality(s) * c}
<1>1. ASSUME NEW s \in SUBSET U
      PROVE  /\ IsFiniteSet(s) /\ Cardinality(s) \in Nat
             /\ s = {} => Sum(s) = 0
             /\ s # {} => LET x == CHOOSE y \in s : TRUE IN Sum(s) = f[x] + Sum(s \ {x})
  <2>1. IsFiniteSet(s) /\ \A x \in s : f[x] \in Nat
    BY FS_Subset
  <2> QED BY <2>1, SumPick, FS_CardinalityType
<1> HIDE DEF Sum
<1>2. ASSUME NEW s \in SUBSET U, \A r \in SUBSET U : Cardinality(r) < Cardinality(s) => r \in G
      PROVE  s \in G
  <2>1. CASE s = {}
    <3>1. Cardinality(s) = 0
      BY <2>1, FS_EmptySet
    <3>2. Sum(s) = 0
      BY <1>1, <2>1
    <3>3. 0 * c = 0
      OBVIOUS
    <3> QED BY <3>1, <3>2, <3>3
  <2>2. CASE s # {}
    <3> DEFINE x == CHOOSE y \in s : TRUE
               r == s \ {x}
               n == Cardinality(s)
               m == Cardinality(r)
    <3>1. /\ x \in U /\ r \in SUBSET U /\ m = n - 1 /\ n \in Nat /\ m \in Nat
      BY <2>2, Picked
    <3>2. Sum(s) = f[x] + Sum(r)
      BY <1>1, <2>2
    <3> HIDE DEF x, r
    <3>3. r \in G
      BY <1>2, <3>1
    <3>4. Sum(s) = c + m * c
      BY <3>1, <3>2, <3>3
    <3> HIDE DEF m, n
    <3>5. c + m * c = n * c
      BY <3>1
    <3> QED BY <3>4, <3>5 DEF n
  <2> QED BY <2>1, <2>2
<1>3. SUBSET U \subseteq G
  <2> HIDE DEF G
  <2> QED BY <1>2, BySize
<1>4. Sum(U) = Cardinality(U) * c
  BY <1>3
<1> QED BY <1>4 DEF Sum

(* A multiple has its factor for a quotient and no remainder.              *)
LEMMA Exactly ==
  ASSUME NEW a \in Nat \ {0}, NEW q \in Nat
  PROVE  (a * q) \div a = q /\ (a * q) % a = 0
<1> DEFINE p == a * q
           k == p \div a
           m == p % a
<1>1. p \in Nat
  OBVIOUS
<1>2. p = a * k + m /\ k \in Nat /\ m \in 0..(a - 1)
  <2> HIDE DEF p
  <2> QED BY <1>1, Division
<1> HIDE DEF k, m
<1>3. a * k + m = a * q
  BY <1>2
<1>4. ~(k < q)
  <2> SUFFICES ASSUME k < q PROVE FALSE
    OBVIOUS
  <2>1. a * k + a <= a * q
    BY <1>2, Multiples
  <2> DEFINE x == a * k
             y == a * q
  <2>2. x \in Nat /\ y \in Nat /\ x + a <= y /\ x + m = y
    BY <1>2, <1>3, <2>1
  <2> HIDE DEF x, y
  <2> QED BY <1>2, <2>2
<1>5. ~(q < k)
  <2> SUFFICES ASSUME q < k PROVE FALSE
    OBVIOUS
  <2>1. a * q + a <= a * k
    BY <1>2, Multiples
  <2> DEFINE x == a * k
             y == a * q
  <2>2. x \in Nat /\ y \in Nat /\ y + a <= x /\ x + m = y
    BY <1>2, <1>3, <2>1
  <2> HIDE DEF x, y
  <2> QED BY <1>2, <2>2
<1>6. k = q
  BY <1>2, <1>4, <1>5
<1>7. m = 0
  <2> DEFINE x == a * q
  <2>1. x \in Nat /\ x + m = x /\ m \in Nat
    BY <1>2, <1>3, <1>6
  <2> HIDE DEF x
  <2> QED BY <2>1
<1> QED BY <1>6, <1>7 DEF k, m

(* The shards of a launch meet, and only the last one is longer.           *)
LEMMA ShardsMeet ==
  ASSUME NEW n \in 1..NumProblems
  PROVE  /\ Size(n, 0) > 0
         /\ NumProblems \div n \in Nat \ {0} /\ n * (NumProblems \div n) <= NumProblems
         /\ \A s \in Starts : Size(n, s) > 0 =>
              /\ \/ s + Size(n, s) = NumProblems
                 \/ s + Size(n, s) \in Starts /\ Size(n, s + Size(n, s)) > 0
              /\ Size(n, s) >= NumProblems \div n
              /\ s + Size(n, s) < NumProblems => Size(n, s) = NumProblems \div n
              /\ \E q \in 0..(n - 1) : s = (NumProblems \div n) * q
<1> DEFINE N == NumProblems
           size == N \div n
<1>1. N \in Nat /\ n \in Nat /\ n # 0 /\ n <= N /\ Starts = 0..(N - 1) /\ n - 1 \in Nat
  BY AuditAssumption DEF Starts
<1>2. N = n * size + (N % n) /\ size \in Nat /\ N % n \in 0..(n - 1)
  BY <1>1, Division
<1>3. size # 0
  <2> HIDE DEF size, N
  <2> QED BY <1>1, <1>2
<1>4. n * size <= N /\ size * n = n * size
  <2> DEFINE p == n * size
             m == N % n
  <2>1. p \in Nat /\ m \in Nat /\ N = p + m /\ size * n = n * size
    BY <1>1, <1>2
  <2> HIDE DEF p, m, N
  <2> QED BY <2>1 DEF p
<1>5. \A s : Size(n, s) =
        IF s % size # 0 \/ s \div size >= n THEN 0
        ELSE IF s \div size = n - 1 THEN N - s ELSE size
  BY DEF Size
<1> HIDE DEF size, N
<1>6. ASSUME NEW q \in Nat, q < n
      PROVE  LET s == size * q
             IN  /\ s \in Nat /\ s + size <= N
                 /\ Size(n, s) = IF q = n - 1 THEN N - s ELSE size
  <2> DEFINE s == size * q
  <2>1. s \div size = q /\ s % size = 0
    BY <1>2, <1>3, Exactly
  <2>2. s \in Nat /\ s + size <= size * n
    BY <1>1, <1>2, <1>6, Multiples
  <2>3. s + size <= N
    <3> DEFINE p == size * n
    <3>1. p \in Nat /\ p <= N /\ s + size <= p
      BY <1>1, <1>2, <1>4, <2>2
    <3> HIDE DEF p, s
    <3> QED BY <1>1, <1>2, <2>2, <3>1
  <2> HIDE DEF s
  <2>4. Size(n, s) = IF q = n - 1 THEN N - s ELSE size
    BY <1>1, <1>5, <1>6, <2>1
  <2> QED BY <2>2, <2>3, <2>4 DEF s
<1>7. size * 0 = 0
  BY <1>2
<1>8. Size(n, 0) > 0
  <2>1. Size(n, 0) = IF 0 = n - 1 THEN N - 0 ELSE size
    BY <1>1, <1>6, <1>7
  <2> QED BY <1>1, <1>2, <1>3, <2>1
<1>9. ASSUME NEW s \in Starts, Size(n, s) > 0
      PROVE  /\ \/ s + Size(n, s) = N
                \/ s + Size(n, s) \in Starts /\ Size(n, s + Size(n, s)) > 0
             /\ Size(n, s) >= size
             /\ s + Size(n, s) < N => Size(n, s) = size
             /\ \E q \in 0..(n - 1) : s = size * q
  <2> DEFINE q == s \div size
  <2>1. s \in Nat /\ s < N /\ s = size * q + (s % size) /\ q \in Nat
    <3>1. s \in Nat /\ s < N
      BY <1>1
    <3> QED BY <1>2, <1>3, <3>1, Division
  <2>2. s % size = 0 /\ q < n
    BY <1>1, <1>5, <1>9, <2>1
  <2> HIDE DEF q
  <2>3. s = size * q
    BY <1>2, <2>1, <2>2
  <2>4. s + size <= N /\ Size(n, s) = IF q = n - 1 THEN N - s ELSE size
    BY <1>6, <2>1, <2>2, <2>3
  <2>5. q \in 0..(n - 1)
    BY <1>1, <2>1, <2>2
  <2>6. CASE q = n - 1
    <3>1. Size(n, s) = N - s /\ s + (N - s) = N /\ N - s >= size
      BY <1>1, <1>2, <2>1, <2>4, <2>6
    <3> QED BY <1>1, <2>3, <2>5, <3>1
  <2>7. CASE q # n - 1
    <3>1. q + 1 \in Nat /\ q + 1 < n /\ size * (q + 1) = s + size
      <4>1. size * (q + 1) = size * q + size
        BY <1>2, <2>1
      <4> QED BY <1>1, <2>1, <2>2, <2>3, <2>7, <4>1
    <3>2. /\ s + size + size <= N
          /\ Size(n, s + size) = IF q + 1 = n - 1 THEN N - (s + size) ELSE size
      BY <1>6, <3>1
    <3>3. s + size \in Starts /\ Size(n, s + size) > 0
      BY <1>1, <1>2, <1>3, <2>1, <3>2
    <3>4. Size(n, s) = size
      BY <2>4, <2>7
    <3> DEFINE z == Size(n, s)
    <3>5. z = size
      BY <3>4
    <3> HIDE DEF z
    <3>6. s + z \in Starts /\ Size(n, s + z) > 0 /\ z >= size
      BY <1>2, <3>3, <3>5
    <3> QED BY <2>3, <2>5, <3>5, <3>6 DEF z
  <2> QED BY <2>6, <2>7
<1> QED BY <1>2, <1>3, <1>4, <1>8, <1>9 DEF size, N

(* The shards of a launch have every problem once.                         *)
LEMMA ShardsCover ==
  ASSUME NEW n \in 1..NumProblems, NEW R \in Nat, NEW h, \A s \in Starts : h[s] = R * Size(n, s)
  PROVE  SumFunctionOnSet(h, Starts) = R * NumProblems
<1> DEFINE N == NumProblems
           Sum(m) == SumFunctionOnSet(h, 0..(m - 1))
           At(m, v) == /\ v \in m..N /\ Sum(m) = R * v
                       /\ v = N \/ (v \in Starts /\ Size(n, v) > 0)
                       /\ \A t \in m..(v - 1) : Size(n, t) = 0
           Bad == {m \in 0..N : ~\E v \in Nat : At(m, v)}
<1>1. N \in Nat /\ N > 0 /\ Starts = 0..(N - 1)
  BY AuditAssumption DEF Starts
<1>2. \A s \in Starts : Size(n, s) \in Nat /\ h[s] \in Nat
  BY ShardsApart
<1>3. At(0, 0)
  <2>1. 0..(0 - 1) = {} /\ 0 \in Starts /\ 0 \in 0..N
    BY <1>1
  <2>2. SumFunctionOnSet(h, {}) = 0
    BY SumPick, FS_EmptySet
  <2>3. R * 0 = 0 /\ Size(n, 0) > 0
    BY ShardsMeet
  <2> QED BY <2>1, <2>2, <2>3
<1>4. ASSUME NEW m \in Nat, m < N, NEW v \in Nat, At(m, v) PROVE \E w \in Nat : At(m + 1, w)
  <2>1. m \in Starts /\ 0..(m + 1 - 1) = 0..(m - 1) \cup {m} /\ m \notin 0..(m - 1)
    BY <1>1, <1>4
  <2>2. Sum(m + 1) = Sum(m) + h[m]
    <3> DEFINE U == 0..(m + 1 - 1)
               V == 0..(m - 1)
    <3>1. IsFiniteSet(U)
      BY FS_Interval
    <3>2. \A x \in U : h[x] \in Nat
      BY <1>1, <1>2, <1>4
    <3>3. V \in SUBSET U /\ m \in U \ V /\ U = V \cup {m}
      BY <2>1
    <3> HIDE DEF U, V
    <3>4. V \in SUBSET U /\ m \in U \ V /\ IsFiniteSet(U) /\ \A x \in U : h[x] \in Nat
      BY <3>1, <3>2, <3>3
    <3>5. SumFunctionOnSet(h, V \cup {m}) = SumFunctionOnSet(h, V) + h[m]
      BY ONLY <3>4, SumInsert
    <3>6. SumFunctionOnSet(h, U) = SumFunctionOnSet(h, V) + h[m]
      BY <3>3, <3>5
    <3> QED BY <3>6 DEF U, V
  <2>3. Sum(m) = R * v /\ m <= v /\ v <= N
    BY <1>4
  <2>4. h[m] = R * Size(n, m) /\ Size(n, m) \in Nat
    BY <1>2, <2>1
  <2> HIDE DEF Sum
  <2>5. CASE v = m
    <3> DEFINE w == m + Size(n, m)
    <3>1. Size(n, m) > 0
      BY <1>1, <1>4, <2>5
    <3>2. w \in Nat /\ m + 1 <= w /\ w <= N
      <4>1. m + Size(n, m) <= NumProblems
        BY <2>1, ShardsApart
      <4> DEFINE z == Size(n, m)
      <4>2. z \in Nat /\ z > 0 /\ m + z <= N
        BY <2>4, <3>1, <4>1
      <4> HIDE DEF z
      <4>3. m + z \in Nat /\ m + 1 <= m + z /\ m + z <= N
        BY <1>4, <4>2
      <4> QED BY <4>3 DEF z
    <3>3. w = N \/ (w \in Starts /\ Size(n, w) > 0)
      BY <2>1, <3>1, ShardsMeet
    <3>4. \A t \in (m + 1)..(w - 1) : Size(n, t) = 0
      <4> SUFFICES ASSUME NEW t \in (m + 1)..(w - 1), Size(n, t) # 0 PROVE FALSE
        OBVIOUS
      <4>1. t \in Starts /\ m < t /\ t < w /\ t \in Nat
        BY <1>1, <3>2
      <4>2. Size(n, t) > 0
        BY <1>2, <4>1
      <4>3. w <= t
        BY <2>1, <4>1, <4>2, ShardsApart
      <4> QED BY <3>2, <4>1, <4>3
    <3>5. R * m + R * Size(n, m) = R * w
      <4> DEFINE z == Size(n, m)
      <4>1. z \in Nat
        BY <2>4
      <4> HIDE DEF z
      <4>2. R * m + R * z = R * (m + z)
        BY <4>1
      <4> QED BY <4>2 DEF z
    <3>6. Sum(m + 1) = R * w
      BY <2>2, <2>3, <2>4, <2>5, <3>5
    <3> HIDE DEF w
    <3>7. At(m + 1, w)
      BY <1>1, <3>2, <3>3, <3>4, <3>6
    <3> QED BY <3>2, <3>7
  <2>6. CASE v # m
    <3>1. m < v /\ Size(n, m) = 0
      BY <1>4, <2>3, <2>6
    <3>2. R * 0 = 0 /\ R * v + 0 = R * v
      OBVIOUS
    <3>3. Sum(m + 1) = R * v
      BY <2>2, <2>3, <2>4, <3>1, <3>2
    <3>4. At(m + 1, v)
      BY <1>1, <1>4, <3>1, <3>3
    <3> QED BY <3>4
  <2> QED BY <2>5, <2>6
<1>5. Bad = {}
  <2> SUFFICES ASSUME Bad # {} PROVE FALSE
    OBVIOUS
  <2> HIDE DEF At
  <2>1. Bad \subseteq Nat
    BY <1>1
  <2>2. PICK m \in Bad : \A k \in Bad : m <= k
    <3> HIDE DEF Bad
    <3> QED BY <2>1, Least
  <2>3. m # 0 /\ m \in Nat /\ m <= N
    BY <1>1, <1>3, <2>2
  <2>4. m - 1 \in Nat /\ m - 1 < N /\ (m - 1) + 1 = m /\ m - 1 \in 0..N /\ ~(m <= m - 1)
    BY <1>1, <2>3
  <2>5. m - 1 \notin Bad
    BY <2>2, <2>4
  <2>6. PICK v \in Nat : At(m - 1, v)
    BY <2>4, <2>5
  <2>7. \E w \in Nat : At((m - 1) + 1, w)
    BY <1>4, <2>4, <2>6
  <2>8. \E w \in Nat : At(m, w)
    BY <2>4, <2>7
  <2> QED BY <2>2, <2>8
<1>6. N \in 0..N
  BY <1>1
<1>7. PICK v \in Nat : At(N, v)
  <2> HIDE DEF At
  <2> QED BY <1>5, <1>6
<1>8. v = N /\ Sum(N) = R * N
  BY <1>1, <1>7
<1> QED BY <1>1, <1>8

(* Files of one launch do not overlap, and in one directory only.          *)
LEMMA OneLaunchPasses ==
  ASSUME AuditInv, past = {launch}
  PROVE  ~Blocking
<1> DEFINE n == launch.shards
<1>1. n \in 1..NumProblems
  BY AuditAssumption DEF AuditInv, AuditTypes, Settings
<1>2. \A d \in Dirs, s \in Starts :
        /\ Len(files[d][s]) <= IF d[1] = launch.sub THEN Size(n, s) ELSE 0
        /\ Len(files[d][s]) \in Nat /\ files[d][s] \in Seq(Nat)
  BY DEF AuditInv, AuditTypes, OneSetting
<1> HIDE DEF n
<1>3. \A d \in Dirs : \A s \in Existing(files[d]) :
        /\ s \in Starts /\ s \in Nat /\ d[1] = launch.sub
        /\ Len(files[d][s]) <= Size(n, s) /\ Len(files[d][s]) > 0 /\ Len(files[d][s]) \in Nat
        /\ Size(n, s) \in Nat /\ Size(n, s) > 0
  <2> SUFFICES ASSUME NEW d \in Dirs, NEW s \in Existing(files[d])
               PROVE  /\ s \in Starts /\ s \in Nat /\ d[1] = launch.sub
                      /\ Len(files[d][s]) <= Size(n, s) /\ Len(files[d][s]) > 0
                      /\ Len(files[d][s]) \in Nat /\ Size(n, s) \in Nat /\ Size(n, s) > 0
    OBVIOUS
  <2>1. s \in Starts /\ s \in Nat /\ files[d][s] # << >>
    BY StartsAreNumbers DEF Existing
  <2>2. Len(files[d][s]) \in Nat /\ Len(files[d][s]) > 0
    BY <1>2, <2>1
  <2>3. Size(n, s) \in Nat
    BY <1>1, <2>1, ShardsApart
  <2>4. d[1] = launch.sub
    BY <1>2, <2>1, <2>2
  <2> QED BY <1>2, <2>1, <2>2, <2>3, <2>4
<1>4. ~Mixed
  <2> DEFINE P == {sub \in Subs : Present(sub)}
  <2>1. P \subseteq {launch.sub}
    <3> SUFFICES ASSUME NEW sub \in Subs, Present(sub) PROVE sub = launch.sub
      OBVIOUS
    <3>1. PICK r \in Runs : Existing(files[<<sub, r>>]) # {}
      BY DEF Present
    <3>2. <<sub, r>> \in Dirs /\ <<sub, r>>[1] = sub
      BY DEF Dirs
    <3> QED BY <1>3, <3>1, <3>2
  <2>2. Cardinality(P) <= 1 /\ Cardinality(P) \in Nat
    <3>1. IsFiniteSet({launch.sub}) /\ Cardinality({launch.sub}) = 1
      BY FS_Singleton
    <3> HIDE DEF P
    <3> QED BY <2>1, <3>1, FS_Subset, FS_CardinalityType
  <2> QED BY <2>2 DEF Mixed
<1>5. ASSUME NEW d \in Dirs PROVE ~Overlap(files[d])
  <2> DEFINE f == files[d]
  <2> SUFFICES ASSUME NEW s \in Existing(f),
                      s + Len(f[s]) > IF Later(f, s) = {} THEN NumProblems ELSE Following(f, s)
               PROVE  FALSE
    BY DEF Overlap
  <2> DEFINE z == Size(n, s)
             l == Len(f[s])
  <2>1. s \in Starts /\ s \in Nat /\ l <= z /\ l \in Nat /\ z \in Nat
    BY <1>3
  <2>2. /\ s + z <= NumProblems /\ NumProblems \in Nat
        /\ \A t \in Starts : s < t /\ Size(n, t) > 0 => s + z <= t
    BY <1>1, <2>1, ShardsApart, StartsAreNumbers
  <2>3. CASE Later(f, s) = {}
    <3> HIDE DEF z
    <3>1. s + l > NumProblems
      BY <2>3
    <3> HIDE DEF l
    <3> QED BY <2>1, <2>2, <3>1
  <2>4. CASE Later(f, s) # {}
    <3> DEFINE t == Following(f, s)
    <3>1. t \in Later(f, s)
      BY <2>4, NextFile
    <3>2. t \in Existing(f) /\ s < t
      BY <3>1 DEF Later
    <3>3. t \in Starts /\ t \in Nat /\ Size(n, t) > 0
      BY <1>3, <3>2
    <3>4. s + z <= t /\ s + l > t
      BY <2>2, <2>4, <3>2, <3>3
    <3> HIDE DEF z, l, t
    <3> QED BY <2>1, <3>3, <3>4
  <2> QED BY <2>3, <2>4
<1> QED BY <1>4, <1>5 DEF Blocking

(* In a complete cell of one launch every shard is.                        *)
LEMMA CompleteShards ==
  ASSUME AuditInv, past = {launch}, NEW sub \in Subs, Present(sub), Complete(sub)
  PROVE  /\ sub = launch.sub /\ Runs # {}
         /\ \A r \in Runs, s \in Starts : Len(files[<<sub, r>>][s]) = Size(launch.shards, s)
<1> DEFINE n == launch.shards
<1>1. n \in 1..NumProblems
  BY AuditAssumption DEF AuditInv, AuditTypes, Settings
<1>2. \A d \in Dirs, s \in Starts :
        /\ Len(files[d][s]) <= IF d[1] = launch.sub THEN Size(n, s) ELSE 0
        /\ Len(files[d][s]) \in Nat /\ files[d][s] \in Seq(Nat)
  BY DEF AuditInv, AuditTypes, OneSetting
<1> HIDE DEF n
<1>3. sub = launch.sub /\ Runs # {}
  <2>1. PICK r \in Runs : Existing(files[<<sub, r>>]) # {}
    BY DEF Present
  <2>2. <<sub, r>> \in Dirs /\ <<sub, r>>[1] = sub
    BY DEF Dirs
  <2>3. PICK s \in Starts : files[<<sub, r>>][s] # << >>
    BY <2>1 DEF Existing
  <2>4. Len(files[<<sub, r>>][s]) > 0
    BY <1>2, <2>2, <2>3
  <2>5. ~(Len(files[<<sub, r>>][s]) <= 0)
    BY <1>2, <2>2, <2>4
  <2> QED BY <1>2, <2>2, <2>5
<1>4. ASSUME NEW r \in Runs, NEW s \in Starts PROVE Len(files[<<sub, r>>][s]) = Size(n, s)
  <2> DEFINE d == <<sub, r>>
             l == Len(files[d][s])
             z == Size(n, s)
  <2>1. d \in Dirs /\ d[1] = launch.sub
    BY <1>3 DEF Dirs
  <2> HIDE DEF d
  <2>2. l <= z /\ l \in Nat /\ z \in Nat /\ s \in Nat /\ s + z <= NumProblems
    BY <1>1, <1>2, <2>1, ShardsApart, StartsAreNumbers
  <2>3. ASSUME l < z PROVE FALSE
    <3>1. s + l \in Starts
      <4> HIDE DEF l, z
      <4> QED BY <2>2, <2>3, StartsAreNumbers DEF Starts
    <3>2. PICK x \in Records(d) : x.gi = s + l
      BY <3>1 DEF Complete, d
    <3>3. PICK t \in Existing(files[d]), k \in Nat :
            k \in 1..Len(files[d][t]) /\ t \in Starts /\ t \in Nat /\ x.gi = t + k - 1
      BY <2>1, RecordIsLine
    <3> DEFINE y == Size(n, t)
    <3>4. k \in Nat /\ 1 <= k /\ k <= y /\ y \in Nat /\ y > 0
      <4>1. Len(files[d][t]) <= y /\ Len(files[d][t]) \in Nat /\ y \in Nat
        BY <1>1, <1>2, <2>1, <3>3, ShardsApart
      <4> HIDE DEF y
      <4> QED BY <3>3, <4>1
    <3>5. z > 0
      <4> HIDE DEF l, z
      <4> QED BY <2>2, <2>3
    <3>6. s < t => s + z <= t
      BY <1>1, <3>3, <3>4, ShardsApart
    <3>7. t < s => t + y <= s
      BY <1>1, <3>3, <3>5, ShardsApart
    <3>8. s = t => k <= l
      BY <3>3
    <3>9. s + l = t + k - 1
      BY <3>2, <3>3
    <3> HIDE DEF l, z, y
    <3> QED BY <2>2, <2>3, <3>3, <3>4, <3>6, <3>7, <3>8, <3>9
  <2> HIDE DEF l, z
  <2>4. l = z
    BY <2>2, <2>3
  <2> QED BY <2>4 DEF l, z, d
<1> QED BY <1>3, <1>4 DEF n

(* Numbers 0, c, 2c, ... below n * c: at most n of them.                   *)
LEMMA AtMost ==
  ASSUME NEW n \in Nat \ {0}, NEW c \in Nat, NEW S, \A s \in S : \E q \in 0..(n - 1) : s = c * q
  PROVE  Cardinality(S) \in Nat /\ Cardinality(S) <= n
<1> DEFINE Q == 0..(n - 1)
           f == [q \in Q |-> c * q]
           T == {f[q] : q \in Q}
<1>1. IsFiniteSet(Q) /\ Cardinality(Q) = n
  BY FS_Interval
<1>2. S \subseteq T
  OBVIOUS
<1>3. IsFiniteSet(T) /\ Cardinality(T) <= n /\ Cardinality(T) \in Nat
  <2> HIDE DEF Q
  <2>1. f \in Surjection(Q, T)
    BY DEF Surjection
  <2> HIDE DEF f, T
  <2> QED BY <1>1, <2>1, FS_Surjection, FS_CardinalityType
<1> HIDE DEF T
<1>4. Cardinality(S) <= Cardinality(T) /\ IsFiniteSet(S)
  BY <1>2, <1>3, FS_Subset
<1>5. Cardinality(S) \in Nat
  BY <1>4, FS_CardinalityType
<1> QED BY <1>3, <1>4, <1>5

(* What the auditor counts in a complete cell of one launch.               *)
LEMMA CompleteCounts ==
  ASSUME AuditInv, past = {launch}, NEW sub \in Subs, Present(sub), Complete(sub)
  PROVE  /\ Cardinality(Runs) \in Nat \ {0}
         /\ \A s \in Starts : Pooled(sub)[s] = Cardinality(Runs) * Size(launch.shards, s)
         /\ Shards(sub) = {s \in Starts : Size(launch.shards, s) > 0}
         /\ Total(sub) = Cardinality(Runs) * NumProblems
<1> DEFINE n == launch.shards
           R == Cardinality(Runs)
<1>1. n \in 1..NumProblems
  BY AuditAssumption DEF AuditInv, AuditTypes, Settings
<1>2. IsFiniteSet(Runs) /\ Runs # {} /\ \A r \in Runs, s \in Starts : Len(files[<<sub, r>>][s]) = Size(n, s)
  BY CompleteShards, AuditAssumption
<1> HIDE DEF n
<1>3. R \in Nat \ {0}
  BY <1>2, FS_CardinalityType, FS_EmptySet
<1>4. \A s \in Starts : Size(n, s) \in Nat
  BY <1>1, ShardsApart
<1>5. ASSUME NEW s \in Starts PROVE Pooled(sub)[s] = R * Size(n, s)
  <2> DEFINE f == [r \in Runs |-> Len(files[<<sub, r>>][s])]
             c == Size(n, s)
  <2>1. \A r \in Runs : f[r] = c
    BY <1>2
  <2>2. c \in Nat
    BY <1>4
  <2>3. Pooled(sub)[s] = SumFunctionOnSet(f, Runs)
    BY DEF Pooled
  <2> HIDE DEF f, c
  <2>4. SumFunctionOnSet(f, Runs) = R * c
    BY <1>2, <2>1, <2>2, SumOfEqual
  <2> QED BY <2>3, <2>4 DEF c
<1> DEFINE h == Pooled(sub)
<1> HIDE DEF R
<1>6. Total(sub) = R * NumProblems
  <2>1. Total(sub) = SumFunctionOnSet(h, Starts)
    BY DEF Total
  <2>2. \A s \in Starts : h[s] = R * Size(n, s)
    BY <1>5
  <2> HIDE DEF h
  <2> QED BY <1>1, <1>3, <2>1, <2>2, ShardsCover
<1>7. \A s \in Starts : R * Size(n, s) > 0 <=> Size(n, s) > 0
  <2> SUFFICES ASSUME NEW s \in Starts PROVE R * Size(n, s) > 0 <=> Size(n, s) > 0
    OBVIOUS
  <2> DEFINE z == Size(n, s)
  <2>1. z \in Nat
    BY <1>4
  <2> HIDE DEF z
  <2>2. R * z > 0 <=> z > 0
    BY <1>3, <2>1
  <2> QED BY <2>2 DEF z
<1>8. Shards(sub) = {s \in Starts : Size(n, s) > 0}
  BY <1>5, <1>7 DEF Shards
<1> QED BY <1>3, <1>5, <1>6, <1>8 DEF n, R

(* All its shards but the last count the same, so that count is the modal one. *)
LEMMA CompleteModal ==
  ASSUME AuditInv, past = {launch}, NEW sub \in Subs, Present(sub), Complete(sub),
         Cardinality(Shards(sub)) > 1
  PROVE  Modal(sub) = Cardinality(Runs) * (NumProblems \div launch.shards)
<1> DEFINE n == launch.shards
           R == Cardinality(Runs)
           H == Shards(sub)
           size == NumProblems \div n
           S == H \ {Max(H)}
           P == Pooled(sub)
           alike(s) == {t \in S : P[t] = P[s]}
           most == {s \in S : \A t \in S : Cardinality(alike(t)) <= Cardinality(alike(s))}
<1>1. n \in 1..NumProblems
  BY AuditAssumption DEF AuditInv, AuditTypes, Settings
<1>2. /\ \A s \in Starts : P[s] = R * Size(n, s)
      /\ H = {s \in Starts : Size(n, s) > 0} /\ Cardinality(H) > 1
  BY CompleteCounts
<1>3. Modal(sub) = P[Min(most)]
  BY DEF Modal
<1> HIDE DEF n, R, P
<1>4. H \subseteq Starts /\ IsFiniteSet(H) /\ IsFiniteSet(Starts)
  <2>1. IsFiniteSet(Starts)
    BY StartsAreNumbers, FS_Interval DEF Starts
  <2> QED BY <1>2, <2>1, FS_Subset
<1> DEFINE e == Max(H)
<1>5. e \in H /\ \A s \in H : s <= e
  <2>1. H # {}
    <3> SUFFICES ASSUME H = {} PROVE FALSE
      OBVIOUS
    <3> QED BY <1>2, FS_EmptySet
  <2>2. H \subseteq 0..(NumProblems - 1) /\ NumProblems - 1 \in Nat
    BY <1>4, AuditAssumption DEF Starts
  <2> HIDE DEF H
  <2> QED BY <2>1, <2>2, MaxOf
<1> HIDE DEF H, e
<1>6. S # {}
  <2> SUFFICES ASSUME S = {} PROVE FALSE
    OBVIOUS
  <2>1. H = {e}
    BY <1>5 DEF e
  <2>2. Cardinality({e}) = 1
    BY FS_Singleton
  <2> QED BY <1>2, <2>1, <2>2
<1>7. ASSUME NEW s \in S PROVE s \in Starts /\ P[s] = R * size
  <2>1. s \in Starts /\ s \in Nat /\ e \in Nat /\ e < NumProblems /\ s < e /\ Size(n, s) > 0 /\ Size(n, e) > 0
    <3>1. s \in Starts /\ e \in Starts /\ s # e /\ s <= e /\ Size(n, s) > 0 /\ Size(n, e) > 0
      BY <1>2, <1>4, <1>5 DEF e
    <3> QED BY <3>1, StartsAreNumbers
  <2>2. s + Size(n, s) <= e
    <3>1. e \in Starts
      BY <1>4, <1>5
    <3> QED BY <1>1, <2>1, <3>1, ShardsApart
  <2>3. Size(n, s) \in Nat
    BY <1>1, <2>1, ShardsApart
  <2> DEFINE z == Size(n, s)
  <2>4. s + z < NumProblems
    <3>1. s + z <= e /\ z \in Nat
      BY <2>2, <2>3
    <3> HIDE DEF z
    <3> QED BY <2>1, <3>1, StartsAreNumbers
  <2>5. Size(n, s) = size
    BY <1>1, <2>1, <2>4, ShardsMeet
  <2> QED BY <1>2, <2>1, <2>5
<1> HIDE DEF size
<1>8. \A s \in S : alike(s) = S
  BY <1>7
<1>9. most = S
  <2>1. Cardinality(S) \in Nat
    BY <1>4, FS_Subset, FS_CardinalityType
  <2> HIDE DEF S
  <2>2. \A s, t \in S : Cardinality(alike(t)) <= Cardinality(alike(s))
    <3> HIDE DEF alike
    <3> QED BY <1>8, <2>1
  <2> HIDE DEF alike
  <2> QED BY <2>2
<1>10. Min(S) \in S
  <2>1. S \subseteq Nat
    BY <1>7, StartsAreNumbers
  <2>2. \E t \in S : \A u \in S : t <= u
    <3> HIDE DEF S
    <3> QED BY <1>6, <2>1, Least
  <2> HIDE DEF S
  <2> QED BY <2>2 DEF Min
<1>11. Min(most) \in S
  <2> HIDE DEF most, S
  <2> QED BY <1>9, <1>10
<1>12. Modal(sub) = R * size
  <2> HIDE DEF most, S
  <2> QED BY <1>3, <1>7, <1>11
<1> QED BY <1>12 DEF R, size, n

(* A complete cell of one launch: no check of the auditor complains.       *)
LEMMA CompleteIsQuiet ==
  ASSUME AuditInv, past = {launch}, NEW sub \in Subs, Present(sub), Complete(sub)
  PROVE  /\ ~Ragged(sub) /\ ~TailShort(sub)
         /\ Cardinality(Runs) \in {1, 2, 4, 8, 16, 32} => ~Incomplete(sub)
<1> DEFINE n == launch.shards
           R == Cardinality(Runs)
           N == NumProblems
           size == N \div n
           H == Shards(sub)
<1>1. n \in 1..N /\ N \in Nat \ {0} /\ n \in Nat \ {0}
  <2>1. n \in 1..N /\ N \in Nat \ {0}
    BY AuditAssumption DEF AuditInv, AuditTypes, Settings
  <2> QED BY <2>1
<1>2. /\ R \in Nat \ {0} /\ Total(sub) = R * N
      /\ \A s \in H : s \in Starts /\ Size(n, s) > 0 /\ Pooled(sub)[s] = R * Size(n, s)
      /\ Cardinality(H) > 1 => Modal(sub) = R * size
  BY CompleteCounts, CompleteModal
<1>3. size \in Nat \ {0} /\ n * size <= N
  BY <1>1, ShardsMeet
<1>4. \A s \in H : Size(n, s) >= size /\ Size(n, s) \in Nat /\ \E q \in 0..(n - 1) : s = size * q
  BY <1>1, <1>2, ShardsMeet, ShardsApart
<1> HIDE DEF n, R, N, size, H
<1>5. Cardinality(H) \in Nat /\ Cardinality(H) <= n
  BY <1>1, <1>3, <1>4, AtMost
<1>6. ~Ragged(sub)
  <2> SUFFICES ASSUME Cardinality(H) > 1, NEW s \in H, Pooled(sub)[s] < Modal(sub) PROVE FALSE
    BY DEF Ragged, H
  <2> DEFINE z == Size(n, s)
             p == R * z
             q == R * size
  <2>1. z >= size /\ z \in Nat /\ Pooled(sub)[s] = p /\ Modal(sub) = q
    BY <1>2, <1>4
  <2> HIDE DEF z
  <2>2. p \in Nat /\ q \in Nat
    BY <1>2, <1>3, <2>1
  <2>3. q <= p
    <3> DEFINE y == z - size
    <3>1. y \in Nat /\ z = size + y
      BY <1>3, <2>1
    <3> HIDE DEF y
    <3>2. R * (size + y) = R * size + R * y /\ R * y \in Nat
      BY <1>2, <1>3, <3>1
    <3>3. p = q + R * y
      BY <3>1, <3>2
    <3> DEFINE x == R * y
    <3> HIDE DEF p, q, x
    <3>4. p = q + x /\ x \in Nat
      BY <3>2, <3>3 DEF x
    <3> QED BY <2>2, <3>4
  <2> HIDE DEF p, q
  <2> QED BY <2>1, <2>2, <2>3
<1>7. ~TailShort(sub)
  <2> SUFFICES ASSUME Cardinality(H) > 1, 10 * Cardinality(H) >= 9 * N, R * N < N * (R * size)
               PROVE  FALSE
    BY <1>2 DEF TailShort, H, N
  <2>1. size # 1
    <3> SUFFICES ASSUME size = 1 PROVE FALSE
      OBVIOUS
    <3>1. R * 1 = R /\ N * R = R * N /\ R * N \in Nat
      BY <1>1, <1>2
    <3>2. N * (R * size) = R * N
      BY <3>1
    <3> QED BY <3>1, <3>2
  <2>2. n * 2 <= N
    <3> DEFINE y == size - 2
    <3>1. y \in Nat /\ size = 2 + y
      BY <1>3, <2>1
    <3> HIDE DEF y
    <3>2. n * (2 + y) = n * 2 + n * y /\ n * y \in Nat /\ n * 2 \in Nat
      BY <1>1, <3>1
    <3> DEFINE x == n * y
    <3>3. n * 2 + x <= N /\ x \in Nat
      BY <1>3, <3>1, <3>2
    <3> HIDE DEF x
    <3> QED BY <1>1, <3>3
  <2> DEFINE k == Cardinality(H)
  <2>3. k \in Nat /\ k <= n /\ 10 * k >= 9 * N
    BY <1>5
  <2> HIDE DEF k
  <2> QED BY <1>1, <2>2, <2>3
<1>8. ASSUME R \in {1, 2, 4, 8, 16, 32} PROVE ~Incomplete(sub)
  <2> DEFINE A == {Q \in {1, 2, 4, 8, 16, 32} : Q * N >= Total(sub)}
  <2> SUFFICES ASSUME Total(sub) < N * Min(A) PROVE FALSE
    BY DEF Incomplete, N
  <2> DEFINE t == R * N
  <2>1. t \in Nat /\ Total(sub) = t /\ N * R = t
    BY <1>1, <1>2
  <2>2. t >= t
    <3> HIDE DEF t
    <3> QED BY <2>1
  <2>3. R \in A /\ A \subseteq Nat
    BY <1>8, <2>1, <2>2
  <2> HIDE DEF A
  <2>4. Min(A) \in A /\ Min(A) <= R
    <3>1. \E a \in A : \A b \in A : a <= b
      BY <2>3, Least
    <3> QED BY <2>3, <3>1 DEF Min
  <2> DEFINE a == Min(A)
             d == R - a
             x == N * a
             y == N * d
  <2>5. a \in Nat /\ d \in Nat /\ R = a + d
    <3>1. a \in Nat /\ a <= R
      BY <2>3, <2>4
    <3> HIDE DEF a
    <3> QED BY <1>2, <3>1
  <2> HIDE DEF a, d
  <2>6. N * (a + d) = N * a + N * d /\ N * a \in Nat /\ N * d \in Nat
    BY <1>1, <2>5
  <2>7. t = x + y /\ x \in Nat /\ y \in Nat
    BY <2>1, <2>5, <2>6
  <2>8. t < x
    BY <2>1 DEF a
  <2> HIDE DEF t, x, y
  <2> QED BY <2>7, <2>8
<1> QED BY <1>6, <1>7, <1>8 DEF R

(* A set with one element that the launch is in.                           *)
LEMMA NoAlarms == AuditInv => NoFalseAlarm
<1> SUFFICES ASSUME AuditInv, Cardinality(past) = 1
             PROVE  /\ ~Blocking
                    /\ \A sub \in Subs : Present(sub) /\ Complete(sub) =>
                         /\ ~Ragged(sub) /\ ~TailShort(sub)
                         /\ Cardinality(Runs) \in {1, 2, 4, 8, 16, 32} => ~Incomplete(sub)
  BY DEF NoFalseAlarm
<1>1. past = {launch}
  <2>1. IsFiniteSet(past) /\ launch \in past
    BY DEF AuditInv, AuditTypes
  <2>2. \E x : past = {x}
    BY <2>1, FS_Singleton
  <2> QED BY <2>1, <2>2
<1>2. ~Blocking
  BY <1>1, OneLaunchPasses
<1> QED BY <1>1, <1>2, CompleteIsQuiet

(* The cell audit, for every number of problems, shardings, runs and launches: a cell
   that passes is graded without an exception and each completion against its own
   problem and length, the gap report is exact, and a cell of one launch is never
   refused.                                                                *)
THEOREM AuditStaysSound == Spec => []AuditSound
<1>1. AuditInv => AuditSound
  BY CleanCells, NoAlarms, OnTheirProblems, LengthsPaired, GapsAreExact
     DEF AuditSound, AuditExact, PairingExact
<1>2. Spec => []AuditInv
  BY AuditStarts, AuditKeeps, PTL DEF Spec
<1> QED BY <1>1, <1>2, PTL
=============================================================================
