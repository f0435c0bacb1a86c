------------------------------ MODULE MCGrading ------------------------------
(***************************************************************************)
(* From files to numbers, model-checked in one run: the audit, repair and  *)
(* positional grading of a cell (extended), the execution grader, the      *)
(* merge of subsets, the run tables and the paper's tables.  They share no *)
(* state; an initial state picks the one that runs, and the others stay in *)
(* a first state of theirs.                                                *)
(***************************************************************************)
EXTENDS CellAudit, LcbGrading, SubsetMerge

VARIABLES
  active,   \* the component that runs
  task, done, jobs, procs, launches, script, counted, graded, view, linked, split,
  column, disk, tsv, commands, pairings, landings, emitted

tableVars == <<task, done, jobs, procs, launches, script, counted, graded, view, linked, split>>
paperVars == <<column, disk, tsv, commands, pairings, landings, emitted>>

\* Two methods: three completions in two run directories, and one in a third.
MCMethods == 1..2
MCSlots(m) == IF m = 1 THEN {1, 2, 3} ELSE {4}
MCRun(s) == IF s = 4 THEN 3 ELSE IF s = 3 THEN 2 ELSE 1
\* Two problems, and an index behind them.
MCProblems == 1..3
\* A solution of the first problem only; one whose run time is near the limit.
MCSolves(p, t) ==
  {v \in {0, 1} : v = 1 <=> t = "solution" /\ p = 1} \cup (IF t = "marginal" THEN {1} ELSE {})
\* The two test files do not fit the cache together.
MCBytes == [p \in MCProblems |-> p]
MCWorkers == 1..2
MCFiles == {<<"good", f, "absent">> : f \in {"good", "absent", "broken"}}

\* Two subsets of a gold of four, one out of order and sharing a question with the other.
MCFull == <<"a", "b", "c", "d">>
MCGolds == [early |-> <<"b", "a", "c">>, late |-> <<"d", "b">>]

Tables == INSTANCE RunTables
  WITH Problems <- 30, Standard <- 16, Width <- 16, Groups <- 3, NumShards <- 1, Ranks <- 2,
       Step <- 15, MaxLaunches <- 2, queue <- jobs, active <- procs

Paper == INSTANCE PaperTables
  WITH MaxLandings <- 3, MaxFiles <- 2, task <- column, files <- pairings

ASSUME TablesWellFormed == Tables!TablesAssumption

AuditAtRest == launch = [shards |-> 1, sub |-> CHOOSE sub \in Subs : TRUE]
GraderAtRest ==
  gi = [s \in 1..4 |-> 1] /\ text = [s \in 1..4 |-> "hangs"] /\ file = <<"good", "good", "absent">>

MCInit ==
  /\ active \in {"audit", "lcb", "tables", "paper", "merge"}
  /\ Init /\ (active # "audit" => AuditAtRest)
  /\ GraderInit /\ (active # "lcb" => GraderAtRest)
  /\ Tables!Init /\ task = "aime26" /\ (active # "tables" => script = "slices")
  /\ Paper!Init /\ (active # "paper" => column = "math")
  /\ MergeInit

AuditRuns ==
  active = "audit" /\ Next /\ UNCHANGED <<active, graderVars, tableVars, paperVars, mergeVars>>
GraderRuns ==
  active = "lcb" /\ GraderNext /\ UNCHANGED <<active, vars, tableVars, paperVars, mergeVars>>
TablesRun ==
  active = "tables" /\ Tables!Next /\ UNCHANGED <<active, vars, graderVars, paperVars, mergeVars>>
PaperRuns ==
  active = "paper" /\ Paper!Next /\ UNCHANGED <<active, vars, graderVars, tableVars, mergeVars>>
MergeRuns ==
  active = "merge" /\ MergeNext /\ UNCHANGED <<active, vars, graderVars, tableVars, paperVars>>
MCNext == AuditRuns \/ GraderRuns \/ TablesRun \/ PaperRuns \/ MergeRuns

MCFairSpec ==
  /\ MCInit /\ [][MCNext]_<<active, vars, graderVars, tableVars, paperVars, mergeVars>>
  /\ WF_vars(active = "audit" /\ Write) /\ WF_vars(active = "audit" /\ TrimSome)
  /\ WF_vars(active = "audit" /\ Quarantine)
  /\ WF_graderVars(active = "lcb" /\ Main)
  /\ \A w \in Workers : WF_graderVars(active = "lcb" /\ Thread(w))

(* The extended modules state the rest: AuditSound and TrimClears of the   *)
(* audit, ScoresExact of the execution grader and MergeSound of the merge, *)
(* which hold of a component at rest too.                                  *)

\* A quarantined, trimmed and refilled cell heals.
CellHeals == TrimClears /\ (active = "audit" => Heals)

\* No candidate can hang the grader.
GradingEnds == active = "lcb" => GraderEnds

\* Rows of slices keep what was counted, and whole cells give replicates.
RunsSound == active = "tables" => Tables!RunsSound

\* Every printed value is one grading, under its own test.
TablesSound == active = "paper" => Paper!TablesSound
=============================================================================
