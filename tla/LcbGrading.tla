----------------------------- MODULE LcbGrading -----------------------------
(***************************************************************************)
(* kvcompress/eval/grader_lcb.py: completions of LiveCodeBench are run     *)
(* against the tests of their problem by a pool of threads, problem by     *)
(* problem and method by method.  work() is a closure: a thread reads the  *)
(* loop's variables gi and problem at the moment it runs.  Verdicts are    *)
(* cached across methods; parsed test files are cached up to a size.       *)
(*                                                                         *)
(* A candidate runs in a process of its own that is killed at its limit:   *)
(* what it does is summed up by the verdicts it may get.  A completion     *)
(* stands for its hash.                                                    *)
(***************************************************************************)
EXTENDS Naturals, FiniteSets, Functions

CONSTANTS
  Methods,       \* --methods, in their order: 1..n
  SlotsOf(_),    \* completions of a method
  RunOf(_),      \* completion -> its run directory
  Problems,      \* indices that lines may claim
  LastProblem,   \* n_total: the indices behind it are no problems
  Texts,         \* contents of completions
  Solves(_, _),  \* verdicts a problem's tests may give to a text
  TestBytes,     \* problem -> bytes of its test file
  Capacity,      \* --tests_cache_mb
  Workers,       \* threads of the pool
  FileStates,    \* test files under study: functions from Problems
  None

Slots == UNION {SlotsOf(m) : m \in Methods}
LastMethod == CHOOSE m \in Methods : \A n \in Methods : n <= m

ASSUME GraderAssumption ==
  /\ IsFiniteSet(Methods) /\ Methods # {} /\ Methods = 1..Cardinality(Methods)
  /\ \A m, n \in Methods : m # n => SlotsOf(m) \cap SlotsOf(n) = {}
  /\ \A p \in Problems : p \in Nat \ {0}
  /\ TestBytes \in [Problems -> Nat] /\ Capacity \in Nat
  /\ LastProblem \in Nat
  /\ \A f \in FileStates :
       /\ f \in [Problems -> {"good", "absent", "broken"}]
       /\ \A p \in Problems : p > LastProblem => f[p] = "absent"
  /\ \A p \in Problems, t \in Texts : Solves(p, t) \subseteq Nat
  /\ None \notin Nat /\ None \notin Problems \X Nat
  /\ None \notin [slot : Slots, key : Problems \X Texts]

VARIABLES
  gi, text,   \* completion -> its problem (shard + line) and content
  file,       \* problem -> "good", "absent" or "broken" test file
  method,     \* method whose directory is graded
  pc,         \* "read", "load", "drain", "done", "raised"
  problem,    \* the loop's gi, and with it the loop's problem; 0 before the first
  queue,      \* completions submitted to the pool and not taken
  worker,     \* thread -> [slot, key] of the candidate it runs, or None
  cache,      \* (problem, text) -> verdict, or None
  score,      \* completion -> <<problem, verdict>>, or None
  held        \* problems whose tests ProblemStore keeps

inputs == <<gi, text, file>>
graderVars == <<inputs, method, pc, problem, queue, worker, cache, score, held>>

GraderInit ==
  /\ gi \in [Slots -> Problems] /\ text \in [Slots -> Texts] /\ file \in FileStates
  /\ method = 1 /\ pc = "read" /\ problem = 0
  /\ queue = {} /\ worker = [w \in Workers |-> None]
  /\ cache = [k \in Problems \X Texts |-> None]
  /\ score = [s \in Slots |-> None] /\ held = {}

\* has_tests: completions without a test file are left out.
Graded(m) == {s \in SlotsOf(m) : file[gi[s]] # "absent"}

\* Mutant: lines past the last problem are dropped in silence, claims are not compared.
CorruptNever(m) == FALSE
\* An index past the last problem, or one claimed twice within a run directory.
Corrupt(m) ==
  \/ \E s \in SlotsOf(m) : gi[s] > LastProblem
  \/ \E s, t \in SlotsOf(m) : s # t /\ RunOf(s) = RunOf(t) /\ gi[s] = gi[t]

Read ==
  /\ pc = "read"
  /\ pc' = IF Corrupt(method) THEN "raised" ELSE "load"
  /\ problem' = 0
  /\ UNCHANGED <<inputs, method, queue, worker, cache, score, held>>

\* Problems of this method the loop has not come to.
Left == {gi[s] : s \in Graded(method)} \ 0..problem
Batch(p) == {s \in Graded(method) : gi[s] = p}

\* Mutant: the file that overruns the capacity is still kept.
HeldWithOverrun(p) ==
  IF p \in held \/ SumFunctionOnSet(TestBytes, held) > Capacity
  THEN held ELSE held \cup {p}
\* ProblemStore.get: a file is kept while it fits, for good.
HeldWith(p) ==
  IF p \in held \/ SumFunctionOnSet(TestBytes, held) + TestBytes[p] > Capacity
  THEN held ELSE held \cup {p}

\* The next index: its tests are loaded, its completions submitted.  A file that
\* does not parse scores them all 0.
Load ==
  /\ pc = "load" /\ Left # {}
  /\ problem' = CHOOSE p \in Left : \A q \in Left : p <= q
  /\ IF file[problem'] = "broken"
     THEN /\ score' = [s \in Slots |->
               IF s \in Batch(problem') THEN <<problem', 0>> ELSE score[s]]
          /\ UNCHANGED <<pc, queue, held>>
     ELSE /\ queue' = Batch(problem') /\ pc' = "drain"
          /\ held' = HeldWith(problem')
          /\ score' = score
  /\ UNCHANGED <<inputs, method, worker, cache>>

\* Mutant: the same program gets the same verdict for any problem.
KeyOfText(s) == <<1, text[s]>>
\* (gi, md5 of the completion): gi is the loop's.
Key(s) == <<problem, text[s]>>

\* A thread takes a completion: a cached verdict, or a run of the candidate.
Take(w, s) ==
  /\ worker[w] = None /\ s \in queue
  /\ queue' = queue \ {s}
  /\ IF cache[Key(s)] # None
     THEN score' = [score EXCEPT ![s] = <<problem, cache[Key(s)]>>] /\ worker' = worker
     ELSE worker' = [worker EXCEPT ![w] = [slot |-> s, key |-> Key(s)]] /\ score' = score
  /\ UNCHANGED <<inputs, method, pc, problem, cache, held>>

\* Mutant: a candidate that hangs is waited for.
JudgedForEver(s) == Solves(problem, text[s]) \ {0}
\* judge_completion: the candidate ends by itself or is killed.
Judged(s) == Solves(problem, text[s])

\* Mutant: the verdict is not kept.
CachedNever(key, verdict) == cache
Cached(key, verdict) == [cache EXCEPT ![key] = verdict]

Judge(w) ==
  /\ worker[w] # None
  /\ \E verdict \in Judged(worker[w].slot) :
       /\ cache' = Cached(worker[w].key, verdict)
       /\ score' = [score EXCEPT ![worker[w].slot] = <<problem, verdict>>]
  /\ worker' = [worker EXCEPT ![w] = None]
  /\ UNCHANGED <<inputs, method, pc, problem, queue, held>>

\* Mutant: the loop goes on when everything was handed out.
DrainedEarly == queue = {}
\* The results of ex.map are consumed to the last before the loop goes on.
Drained == \A s \in Batch(problem) : score[s] # None

Drain ==
  /\ pc = "drain" /\ Drained /\ pc' = "load"
  /\ UNCHANGED <<inputs, method, problem, queue, worker, cache, score, held>>

NextMethod ==
  /\ pc = "load" /\ Left = {}
  /\ IF method = LastMethod THEN pc' = "done" /\ method' = method
     ELSE pc' = "read" /\ method' = method + 1
  /\ UNCHANGED <<inputs, problem, queue, worker, cache, score, held>>

Main == Read \/ Load \/ Drain \/ NextMethod
Thread(w) == Judge(w) \/ \E s \in Slots : Take(w, s)
GraderNext == Main \/ \E w \in Workers : Thread(w)

GraderSpec == GraderInit /\ [][GraderNext]_graderVars

-----------------------------------------------------------------------------
\* A completion is scored as its own problem, by a verdict that problem's tests
\* may give it, although the threads read the loop's variables.
ScoredOnOwnProblem ==
  \A s \in Slots : score[s] # None =>
    /\ score[s][1] = gi[s]
    /\ score[s][2] \in IF file[gi[s]] = "broken" THEN {0} ELSE Solves(gi[s], text[s])

\* Methods are compared on equal terms: the same program for the same problem gets
\* the same verdict under every method, also where its run time is marginal, if no
\* directory holds it twice.
MethodsComparable ==
  \A s, t \in Slots : score[s] # None /\ score[t] # None /\ gi[s] = gi[t] /\ text[s] = text[t] =>
    \/ score[s] = score[t]
    \/ \E m \in Methods : \E x, y \in SlotsOf(m) :
         x # y /\ gi[x] = gi[s] /\ gi[y] = gi[s] /\ text[x] = text[s] /\ text[y] = text[s]

\* A mean is taken over each problem once per run, and over all of them; no line that
\* no problem belongs to was left out of it.
MeanIsWhole ==
  \A m \in Methods : m < method \/ pc = "done" =>
    /\ \A s \in SlotsOf(m) : gi[s] <= LastProblem
    /\ {s \in SlotsOf(m) : score[s] # None} = Graded(m)
    /\ \A s, t \in Graded(m) : s # t => <<RunOf(s), score[s][1]>> # <<RunOf(t), score[t][1]>>

\* Parsed tests never outgrow the cache.
StoreBounded == SumFunctionOnSet(TestBytes, held) <= Capacity

\* No candidate can hang the grader.
GraderEnds == <>(pc \in {"done", "raised"})

\* The execution grader: scores are of the completion's own problem and comparable
\* between methods, the mean is over whole runs, the store within its bound.
ScoresExact == ScoredOnOwnProblem /\ MethodsComparable /\ MeanIsWhole /\ StoreBounded
=============================================================================
