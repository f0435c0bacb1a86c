----------------------------- MODULE RunTables -----------------------------
(***************************************************************************)
(* From run directories to table entries.  A launch puts one job per run   *)
(* group and shard on a queue and starts the next one whenever a rank is   *)
(* free: nothing waits for an earlier run group, and a process that died   *)
(* is only taken off the list.  run_annotations.py derives a cell's number *)
(* of runs from its lines, split_r1_r2.py ("slices") grades standard       *)
(* slices of an extended cell through views of symbolic links,             *)
(* split_extended_runs.py ("extended") the first of them and the cell as   *)
(* it is, while generation goes on.                                        *)
(***************************************************************************)
EXTENDS Naturals, Sequences, FiniteSets, FiniteSetsExt

CONSTANTS
  Problems,        \* problems of a task
  Standard,        \* STD: runs a table entry stands for
  Width, Groups,   \* batch size: runs of a group; run groups of a cell
  NumShards, Ranks,   \* NUM_SHARDS; workers of the node
  Step,            \* problems a process adds to its files at once
  MaxLaunches,     \* bound on the launches
  None

Tasks == {"aime25", "aime26"}
\* Problems the scripts count with.
NPROB == [aime25 |-> 29, aime26 |-> 30]
Jobs == (0..(Groups - 1)) \X (0..(NumShards - 1))
ShardSize == Problems \div NumShards
RunIndices == 0..(Width * Groups - 1)

TablesAssumption ==
  /\ {Problems, Standard, Width, Groups, NumShards, Ranks, Step} \subseteq Nat \ {0}
  /\ Problems % NumShards = 0 /\ ShardSize % Step = 0

VARIABLES
  task,     \* data set of the cell
  done,     \* <<group, shard>> -> problems with a line in the file of each run of the group
  queue,    \* job_queue
  active,   \* active_procs
  launches,
  script,   \* the script that runs, or ran last
  counted,  \* done when the script counted the cell, None between two runs of it
  graded,   \* what the grader saw in each grading so far: run -> lines
  view, linked, \* runs the slice's view links to; whether it was built for this one
  split     \* [counted, graded] of the printed row, or None

genVars == <<done, queue, active, launches>>
scriptVars == <<counted, graded, view, linked, split>>
vars == <<task, script, genVars, scriptVars>>

Init ==
  /\ task \in Tasks /\ script \in {"slices", "extended"}
  /\ done = [j \in Jobs |-> 0] /\ queue = << >> /\ active = {} /\ launches = 0
  /\ counted = None /\ graded = << >> /\ view = {} /\ linked = FALSE /\ split = None

-----------------------------------------------------------------------------
(* parallel_run_hf_mw.py                                                   *)

\* Run group by run group, shard by shard, from --run_id to --run_end_id.
Queued(first, last) ==
  [n \in 1..((last - first + 1) * NumShards) |->
     <<first + (n - 1) \div NumShards, (n - 1) % NumShards>>]

Launch ==
  /\ queue = << >> /\ active = {} /\ launches < MaxLaunches
  /\ \E first, last \in 0..(Groups - 1) : first <= last /\ queue' = Queued(first, last)
  /\ launches' = launches + 1
  /\ UNCHANGED <<task, script, done, active, scriptVars>>

StartJob ==
  /\ queue # << >> /\ Cardinality(active) < Ranks
  /\ active' = active \cup {Head(queue)} /\ queue' = Tail(queue)
  /\ UNCHANGED <<task, script, done, launches, scriptVars>>

\* The batches of a run group answer a problem together; what is there is resumed.
Generate(j) ==
  /\ j \in active /\ done[j] < ShardSize
  /\ done' = [done EXCEPT ![j] = @ + Step]
  /\ UNCHANGED <<task, script, queue, active, launches, scriptVars>>

\* The process has ended or died: its rank is free, and nobody asks which it was.
EndJob(j) ==
  /\ j \in active /\ active' = active \ {j}
  /\ UNCHANGED <<task, script, done, queue, launches, scriptVars>>

-----------------------------------------------------------------------------
(* The scripts.                                                            *)

Files(r) == {<<r \div Width, s>> : s \in 0..(NumShards - 1)}
LinesOf(d, r) == MapThenSumSet(LAMBDA j : d[j], Files(r))
Lines(r) == LinesOf(done, r)
Dirs == {r \in RunIndices : \E j \in Files(r) : done[j] > 0}
CountLines(d) == Width * MapThenSumSet(LAMBDA j : d[j], Jobs)

\* R is n / nprob to the nearest whole number, if it is within 0.02 of it.
Rounded(n) == (2 * n + NPROB[task]) \div (2 * NPROB[task])
Ragged(n) ==
  LET whole == Rounded(n) * NPROB[task]
  IN  50 * (IF n > whole THEN n - whole ELSE whole - n) > NPROB[task]

Annotation(n) ==
  CASE Ragged(n) -> "ragged"
    [] ~Ragged(n) /\ Rounded(n) < Standard -> "partial"
    [] ~Ragged(n) /\ Rounded(n) = Standard -> "standard"
    [] ~Ragged(n) /\ Rounded(n) > Standard -> "extended"

\* R <= STD + 0.01 is no extension, and only a multiple of STD has slices.
Splittable(n) ==
  /\ ~Ragged(n)
  /\ IF script = "extended" THEN 100 * n > (100 * Standard + 1) * NPROB[task]
     ELSE Rounded(n) > Standard /\ Rounded(n) % Standard = 0

\* The count is all the script asks of the cell.
Split ==
  /\ counted = None /\ split = None /\ Splittable(CountLines(done))
  /\ counted' = done /\ graded' = << >>
  /\ UNCHANGED <<task, script, genVars, view, linked, split>>

\* Gradings of a cell counted as d: the view and the cell, or k = R // s slices.
Parts(d) == IF script = "extended" THEN 2 ELSE Rounded(CountLines(d)) \div Standard

\* Mutant: slices counted from one.
SliceFromOne(i) == (i * Standard)..((i + 1) * Standard - 1)
\* Runs of the i-th slice, by index and never by outcome.
Slice(i) == ((i - 1) * Standard)..(i * Standard - 1)

\* The second grading of an extended cell is of the cell itself.
OfCell == script = "extended" /\ Len(graded) = 1

\* What a crash left under the view's name is removed before anything is linked, and
\* a run that has no directory is not linked.
HalfView ==
  /\ counted # None /\ ~linked /\ Len(graded) < Parts(counted) /\ ~OfCell
  /\ view' = Slice(Len(graded) + 1) \cap Dirs /\ linked' = TRUE
  /\ UNCHANGED <<task, script, genVars, counted, graded, split>>

\* The grader reads the files as they are now; the view is removed after it.
Grade ==
  /\ counted # None /\ linked
  /\ graded' = Append(graded, [r \in view |-> Lines(r)])
  /\ view' = {} /\ linked' = FALSE
  /\ UNCHANGED <<task, script, genVars, counted, split>>

GradeCell ==
  /\ counted # None /\ OfCell
  /\ graded' = Append(graded, [r \in Dirs |-> Lines(r)])
  /\ UNCHANGED <<task, script, genVars, counted, view, linked, split>>

\* A view without a completion has no accuracy that could be read.
Unparseable == \E i \in DOMAIN graded : DOMAIN graded[i] = {}

PrintRow ==
  /\ counted # None /\ Len(graded) = Parts(counted) /\ ~Unparseable
  /\ split' = [counted |-> counted, graded |-> graded] /\ counted' = None
  /\ UNCHANGED <<task, script, genVars, graded, view, linked>>

\* The cell is passed over, or the script is killed; it may be run again.
Abandon ==
  /\ counted # None
  /\ counted' = None /\ linked' = FALSE /\ graded' = << >>
  /\ UNCHANGED <<task, script, genVars, view, split>>

Next ==
  \/ Launch \/ StartJob \/ \E j \in Jobs : Generate(j) \/ EndJob(j)
  \/ Split \/ HalfView \/ Grade \/ GradeCell \/ PrintRow \/ Abandon

Spec == Init /\ [][Next]_vars

-----------------------------------------------------------------------------
Gradings == split.graded
Views == IF script = "extended" THEN {1} ELSE DOMAIN Gradings
StandardRuns(i) == {r \in RunIndices : r \div Standard = i - 1}
Whole(r) == \A j \in Files(r) : done[j] = ShardSize

\* Each slice was graded on Standard runs of all their problems, and no run twice.
Replicates(slices) ==
  /\ \A i \in DOMAIN slices :
       /\ DOMAIN slices[i] \subseteq RunIndices /\ Cardinality(DOMAIN slices[i]) = Standard
       /\ \A r \in DOMAIN slices[i] : slices[i][r] = Problems
  /\ \A i, j \in DOMAIN slices : i # j => DOMAIN slices[i] \cap DOMAIN slices[j] = {}

\* "Two independent standard-R replicates", "directly comparable to every other
\* standard-R cell": what split_r1_r2.py says of the slices it prints.
SlicesAreReplicates ==
  script = "slices" /\ split # None => Replicates(Gradings)

\* Whatever is generated, killed or run again between the count and the print, the
\* gradings of a printed row have every line that was counted for their runs, under the
\* right slice; and if the runs of the slices were whole at the count, the slices are
\* replicates, and the grading of an extended cell has its standard runs and more.
SlicesSound ==
  split # None =>
    LET seen(r) == LinesOf(split.counted, r)
        Sliced == UNION {StandardRuns(i) : i \in Views}
    IN  /\ \A i \in Views :
             /\ DOMAIN Gradings[i] \subseteq StandardRuns(i)
             /\ \A r \in StandardRuns(i) :
                  seen(r) > 0 => r \in DOMAIN Gradings[i] /\ Gradings[i][r] >= seen(r)
        /\ (\A r \in Sliced : seen(r) = Problems) =>
             /\ Replicates([i \in Views |-> Gradings[i]])
             /\ script = "extended" =>
                  /\ DOMAIN Gradings[2] \ Sliced # {}
                  /\ \A r \in Sliced : r \in DOMAIN Gradings[2] /\ Gradings[2][r] = Problems

\* A cell of exactly the standard runs, all complete, is annotated as standard, if the
\* script's number of problems is the task's.
CompleteIsStandard ==
  NPROB[task] = Problems /\ Dirs = 0..(Standard - 1) /\ (\A r \in Dirs : Whole(r)) =>
    Annotation(CountLines(done)) = "standard"

\* What both say of a cell.
RunsSound == SlicesSound /\ CompleteIsStandard
=============================================================================
