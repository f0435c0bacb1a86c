----------------------------- MODULE SynthRuns -----------------------------
(***************************************************************************)
(* The files of the synthetic suite: build_tasks.py writes a cell's        *)
(* instances and its meta.json, run_synth.py writes one arm's records and  *)
(* then a .done marker, and analyze_synth.py, scoreboard.py, analyze_s3.py,*)
(* analyze_s3_r2.py and gen_synth_tables.py contrast the arms they find.   *)
(* A build draws its instances from a generator that is seeded with the    *)
(* salted hash of a string: every build makes instances of its own.        *)
(***************************************************************************)
EXTENDS Naturals, Sequences, FiniteSets, SequencesExt, FiniteSetsExt

CONSTANTS
  Cells,      \* task cells, a sequence in the order they are built in
  Slices,     \* values of --n0 and --n: <<first, end>>
  BatchSize,  \* --bs
  MaxEvents,  \* bound on builds, starts and crashes together
  Missing

Models == {"qwen", "phi"}
\* Endpoints, an arm that was run once, and its two later replicates.
Arms == {"h0", "h8", "x", "x_r0", "x_r1"}
CellSet == {Cells[k] : k \in DOMAIN Cells}

ASSUME SuiteAssumption ==
  /\ \A s \in Slices : s[1] \in Nat /\ s[2] \in Nat /\ s[1] < s[2]
  /\ BatchSize \in Nat \ {0} /\ MaxEvents \in Nat
  /\ Cells \in Seq(CellSet) /\ Cells # << >>
  /\ \A j, k \in DOMAIN Cells : Cells[j] = Cells[k] => j = k
  /\ Missing \notin Nat /\ Missing \notin Seq([i : Nat, tasks : Nat])

VARIABLES
  instances,  \* cell -> build its instances.pt is of, or Missing
  meta,       \* cell -> build its meta.json is of, or Missing
  builder,    \* the running build, or Missing
  file,       \* cell -> arm -> records in its .jsonl, or Missing
  done,       \* cell -> arm -> n in its .done marker, or Missing
  runner,     \* the running arm, or Missing
  reopened,   \* (history) arms that were opened again behind their marker
  rebuilt,    \* (history) cells whose instances changed under existing records
  events      \* builds, starts and crashes so far

synthDisk == <<instances, meta, file, done>>
suiteVars == <<synthDisk, builder, runner, reopened, rebuilt, events>>

PerArm(v) == [c \in CellSet |-> [a \in Arms |-> v]]

SuiteInit ==
  /\ instances = [c \in CellSet |-> Missing] /\ meta = [c \in CellSet |-> Missing]
  /\ builder = Missing /\ runner = Missing
  /\ file = PerArm(Missing) /\ done = PerArm(Missing)
  /\ reopened = {} /\ rebuilt = {}
  /\ events = 0

-----------------------------------------------------------------------------
(* build_tasks.py                                                          *)

\* Mutant: the guard looks for <out>/instances.pt, where no cell keeps its own.
RefusedAtTop(model, force) == FALSE
\* The clobber guard: a model other than Qwen3-4B, over somebody's instances.
BuildRefused(model, force) ==
  model # "qwen" /\ ~force /\ \E c \in CellSet : instances[c] # Missing

StartBuild(model, force) ==
  /\ builder = Missing /\ events < MaxEvents /\ ~BuildRefused(model, force)
  /\ events' = events + 1
  /\ builder' = [model |-> model, force |-> force, id |-> events + 1, at |-> 1, half |-> FALSE]
  /\ UNCHANGED <<synthDisk, runner, reopened, rebuilt>>

WriteInstances ==
  /\ builder # Missing /\ ~builder.half
  /\ LET c == Cells[builder.at]
     IN  /\ instances' = [instances EXCEPT ![c] = builder.id]
         /\ rebuilt' = IF \E a \in Arms : file[c][a] # Missing THEN rebuilt \cup {c} ELSE rebuilt
  /\ builder' = [builder EXCEPT !.half = TRUE]
  /\ UNCHANGED <<meta, file, done, runner, reopened, events>>

WriteMeta ==
  /\ builder # Missing /\ builder.half
  /\ meta' = [meta EXCEPT ![Cells[builder.at]] = builder.id]
  /\ builder' = IF builder.at = Len(Cells) THEN Missing
                ELSE [builder EXCEPT !.at = @ + 1, !.half = FALSE]
  /\ UNCHANGED <<instances, file, done, runner, reopened, rebuilt, events>>

-----------------------------------------------------------------------------
(* run_synth.py                                                            *)

\* The file is opened for writing before the first batch; a marker of an earlier
\* run stays where it is.
StartRun(c, a, slice) ==
  /\ runner = Missing /\ events < MaxEvents
  /\ instances[c] # Missing /\ meta[c] # Missing
  /\ runner' = [cell |-> c, arm |-> a, n0 |-> slice[1], n |-> slice[2],
                tasks |-> instances[c], at |-> slice[1]]
  /\ file' = [file EXCEPT ![c][a] = << >>]
  /\ reopened' = IF done[c][a] # Missing THEN reopened \cup {<<c, a>>} ELSE reopened
  /\ events' = events + 1
  /\ UNCHANGED <<instances, meta, done, builder, rebuilt>>

\* Records of the instances from..to-1.
Records(from, to) == [k \in 1..(to - from) |-> [i |-> from + k - 1, tasks |-> runner.tasks]]
Written(to) ==
  file' = [file EXCEPT ![runner.cell][runner.arm] = @ \o Records(runner.at, to)]
BatchEnd == Min({runner.at + BatchSize, runner.n})

Batch ==
  /\ runner # Missing /\ runner.at < runner.n
  /\ Written(BatchEnd) /\ runner' = [runner EXCEPT !.at = BatchEnd]
  /\ UNCHANGED <<instances, meta, done, builder, reopened, rebuilt, events>>

Finish ==
  /\ runner # Missing /\ runner.at = runner.n
  /\ done' = [done EXCEPT ![runner.cell][runner.arm] = runner.n - runner.n0]
  /\ reopened' = reopened \ {<<runner.cell, runner.arm>>}
  /\ runner' = Missing
  /\ UNCHANGED <<instances, meta, file, builder, rebuilt, events>>

\* Lines of the batch at hand may have left the buffer before the death.
Die ==
  /\ events < MaxEvents /\ events' = events + 1
  /\ \/ /\ runner # Missing
        /\ \E to \in runner.at..BatchEnd : Written(to)
        /\ runner' = Missing /\ UNCHANGED builder
     \/ /\ builder # Missing /\ builder' = Missing /\ UNCHANGED <<runner, file>>
  /\ UNCHANGED <<instances, meta, done, reopened, rebuilt>>

-----------------------------------------------------------------------------
(* The analyses.  An arm is read when its file and its marker are there.   *)

Loadable(c, a) == file[c][a] # Missing /\ done[c][a] # Missing
\* The n-th of some row numbers, in an order.
Nth(K, Precedes(_, _), n) == CHOOSE k \in K : Cardinality({j \in K : Precedes(j, k)}) = n - 1
\* load sorts by instance, rows of one instance stay as they are.
Load(c, a) ==
  LET rows == file[c][a]
      before(j, k) == rows[j].i < rows[k].i \/ (rows[j].i = rows[k].i /\ j < k)
  IN  [n \in DOMAIN rows |-> rows[Nth(DOMAIN rows, before, n)]]
Index(rows) == {rows[k].i : k \in DOMAIN rows}
\* Mutant: the arms are cut to a common length instead of common instances.
AlignedByLength(arms, rows) ==
  SubSeq(rows, 1, Min({Len(arms[k]) : k \in DOMAIN arms}))
\* align: the rows of one of some arms whose instance all of them have.
Aligned(arms, rows) ==
  LET common == {x \in DOMAIN rows : \A k \in DOMAIN arms : rows[x].i \in Index(arms[k])}
  IN  [n \in 1..Cardinality(common) |-> rows[Nth(common, <, n)]]

\* Mutant: what is there of the replicates, and the single run beside them.
TablePoolAny(c) == {a \in {"x", "x_r0", "x_r1"} : Loadable(c, a)}
\* analyze_s3.py and analyze_s3_r2.py stop unless both replicates are there;
\* gen_synth_tables.py then takes the run without a suffix.
StrictPool(c) ==
  IF \A a \in {"x_r0", "x_r1"} : Loadable(c, a) THEN {"x_r0", "x_r1"} ELSE {}
TablePool(c) ==
  IF StrictPool(c) # {} THEN StrictPool(c) ELSE {a \in {"x"} : Loadable(c, a)}

\* What is subtracted or averaged row by row: some arms of a cell.
Sheet(c, arms) == SetToSeq({Load(c, a) : a \in arms})
\* R_of, ratio_of_means, boot_ratio: arms on the scale of the two endpoints.
R_of(c, arms) == Sheet(c, arms \cup {"h0", "h8"})
Loaded(c) == {a \in Arms : Loadable(c, a)}

\* One row of the scoreboard for every arm that is there.
Scoreboard(c) == {R_of(c, {a}) : a \in Loaded(c)}
\* P4 of S1b: the difference of two conditions on the scale of the endpoints.
Conditions(c) == {R_of(c, {a, b}) : a, b \in Loaded(c) \ {"h0", "h8"}}
\* The S4 gate: a selector against the random arm, instance by instance.
Gate(c) == {Sheet(c, {a, b}) : a, b \in Loaded(c)}
\* The replicates of an arm, averaged over the instances all of them have.
pool(c) == Sheet(c, StrictPool(c))
crow(c) == R_of(c, TablePool(c))

Contrasts(c) ==
  Gate(c) \cup (IF StrictPool(c) = {} THEN {} ELSE {pool(c)})
  \cup (IF {"h0", "h8"} \subseteq Loaded(c)
        THEN Scoreboard(c) \cup Conditions(c) \cup {crow(c)} ELSE {})

SuiteNext ==
  \/ \E m \in Models, f \in BOOLEAN : StartBuild(m, f)
  \/ WriteInstances \/ WriteMeta
  \/ \E c \in CellSet, a \in Arms, s \in Slices : StartRun(c, a, s)
  \/ Batch \/ Finish \/ Die

SuiteSpec == SuiteInit /\ [][SuiteNext]_suiteVars

-----------------------------------------------------------------------------
\* An arm that the analyses read is whole, every instance of its slice once and all
\* of one build, unless it was opened again behind the marker of an earlier run.
LoadedArmsWhole ==
  \A c \in CellSet, a \in Arms : Loadable(c, a) /\ <<c, a>> \notin reopened =>
    /\ Len(file[c][a]) = done[c][a]
    /\ \E s \in Slices : Index(file[c][a]) = s[1]..(s[2] - 1)
    /\ Cardinality({file[c][a][k].tasks : k \in DOMAIN file[c][a]}) = 1

\* "Instances paired by index": what a contrast subtracts row by row belongs to the
\* same instance in every arm, whatever the sizes and the order the arms were run in,
\* as long as nobody rebuilt the cell under its records.
ContrastsPaired ==
  \A c \in CellSet : \A arms \in Contrasts(c) :
    LET rows == [k \in DOMAIN arms |-> Aligned(arms, arms[k])]
    IN  \A j, k \in DOMAIN rows :
          /\ Len(rows[j]) = Len(rows[k])
          /\ \A x \in DOMAIN rows[j] :
               /\ rows[j][x].i = rows[k][x].i
               /\ c \notin rebuilt => rows[j][x] = rows[k][x]

\* A pooled row stands on both replicates or on the one run, never on half a pair.
PoolsComplete == \A c \in CellSet : TablePool(c) \in {{}, {"x"}, {"x_r0", "x_r1"}}

\* What the suite's numbers are computed from.
SuiteSound == LoadedArmsWhole /\ ContrastsPaired /\ PoolsComplete

\* The clobber guard: without --force_out, a build of another model never replaces
\* instances that somebody else's records are graded against.
ForeignBuildSpares ==
  [][\A c \in CellSet :
       instances'[c] # instances[c] /\ builder.model # "qwen" /\ ~builder.force
         => instances[c] = Missing]_suiteVars
=============================================================================
