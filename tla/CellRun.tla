------------------------------ MODULE CellRun ------------------------------
(***************************************************************************)
(* One accuracy cell of the harness: a launcher                            *)
(* (kvcompress/harness/parallel_run_hf_mw.py) runs one eval_hf.py process  *)
(* per data shard on a pool of GPU ranks; a process samples each problem   *)
(* of its shard once for every member run of the batch and appends, member *)
(* by member, the lengths (other_info) and the completion to their files.  *)
(* Processes and nodes crash; relaunching resumes every shard from what    *)
(* the leader run's file holds, and shard_batch_repair.py quarantines what *)
(* resuming cannot mend.  The graders pair line i of a shard file with     *)
(* problem start + i, and with entry i of the lengths.                     *)
(*                                                                         *)
(* One group of member runs is modelled: groups share no file.  A          *)
(* completion, and a length, is represented by its problem's index.        *)
(***************************************************************************)
EXTENDS Integers, Sequences, FiniteSets, FiniteSetsExt, SequencesExt

CONSTANTS
  NumProblems,     \* n_examples
  NumShards,       \* NUM_SHARDS
  NumGpus,         \* --num_gpus
  WorkersPerGpu,   \* WORKERS_PER_GPU
  BatchSize,       \* member runs written together
  MaxCrashes,      \* bound on the crashes
  TornWrites       \* may a crash hit between the open and the close of a file

(* A cell has problems, shards, GPU ranks, workers and member runs; the    *)
(* bounds are numbers.                                                     *)
ASSUME CellAssumption ==
  /\ {NumProblems, NumShards, NumGpus, WorkersPerGpu, BatchSize} \subseteq Nat \ {0}
  /\ MaxCrashes \in Nat /\ TornWrites \in BOOLEAN

Shards == 0..(NumShards - 1)
Members == 0..(BatchSize - 1)
Leader == 0
ShardSize == NumProblems \div NumShards

Start(s) == s * ShardSize
Stop(s) == IF s < NumShards - 1 THEN (s + 1) * ShardSize ELSE NumProblems

(* With a single GPU the launcher passes no example range: the process     *)
(* then takes all problems and writes files without a shard in their name. *)
Sharded == NumGpus > 1
WholeFile == NumProblems

(* Faulty variant: the name of the files does not depend on the shard.     *)
FileWhole(s) == WholeFile

File(s) == IF Sharded THEN Start(s) ELSE WholeFile
First(s) == IF Sharded THEN Start(s) ELSE 0
Count(s) == IF Sharded THEN Stop(s) - Start(s) ELSE NumProblems
Files == {File(s) : s \in Shards}

Missing == [state |-> "missing"]
Torn == [state |-> "torn"]
Whole(entries) == [state |-> "whole", entries |-> entries]
Stopped == [pc |-> "stopped"]

VARIABLES
  lines,     \* file -> member -> completions, as problem indices
  info,      \* file -> member -> the lengths file: missing, torn or whole
  queue,     \* job_queue: shards to start, in order
  proc,      \* shard -> its eval_hf process
  crashes

vars == <<lines, info, queue, proc, crashes>>

Init ==
  /\ lines = [f \in Files |-> [m \in Members |-> << >>]]
  /\ info = [f \in Files |-> [m \in Members |-> Missing]]
  /\ queue = << >> /\ proc = [s \in Shards |-> Stopped] /\ crashes = 0

(* Faulty variant: a resumed process counts the lines of the last member.  *)
ResumeAtFollower(f) == Len(lines[f][BatchSize - 1])

ResumeAt(f) == Len(lines[f][Leader])

Running == {s \in Shards : proc[s] # Stopped}
Idle == queue = << >> /\ Running = {}
Held(f, m) == Len(lines[f][m])

(* Completions the loop script counts: those in files with a shard name.   *)
Total ==
  IF Sharded
    THEN MapThenSumSet(LAMBDA f : MapThenSumSet(LAMBDA m : Held(f, m), Members), Files)
    ELSE 0

(***************************************************************************)
(* The launcher: a pass of the loop queues every shard and starts the next *)
(* one on a free GPU rank; a process that ended, well or not, frees its.   *)
(***************************************************************************)
Launch ==
  /\ Idle /\ Total < NumProblems * BatchSize
  /\ queue' = [k \in 1..NumShards |-> k - 1]
  /\ UNCHANGED <<lines, info, proc, crashes>>

Spawn ==
  /\ queue # << >> /\ Cardinality(Running) < NumGpus * WorkersPerGpu
  /\ queue' = Tail(queue)
  /\ proc' = [proc EXCEPT ![Head(queue)] = [pc |-> "load"]]
  /\ UNCHANGED <<lines, info, crashes>>

(***************************************************************************)
(* The process of shard s.  A resumed process reads back the lengths of    *)
(* every member and dies on a file it cannot parse.                        *)
(***************************************************************************)
At(s, pc) == proc[s].pc = pc

Resumable(f) ==
  ResumeAt(f) > 0 => \A m \in Members : info[f][m].state = "whole"

Loaded(f) ==
  [m \in Members |-> IF ResumeAt(f) = 0 THEN << >> ELSE info[f][m].entries]

Load(s) ==
  LET f == File(s) IN
  /\ At(s, "load")
  /\ proc' = [proc EXCEPT ![s] =
       IF ResumeAt(f) < Count(s) /\ Resumable(f)
         THEN [pc |-> "generate", i |-> ResumeAt(f), j |-> Leader, lens |-> Loaded(f)]
         ELSE Stopped]
  /\ UNCHANGED <<lines, info, queue, crashes>>

Generate(s) ==
  /\ At(s, "generate")
  /\ proc' = [proc EXCEPT ![s].pc = "open",
       ![s].lens = [m \in Members |-> Append(@[m], First(s) + proc[s].i)]]
  /\ UNCHANGED <<lines, info, queue, crashes>>

(* Opening the lengths file truncates it; it is readable again at close.   *)
OpenInfo(s) ==
  /\ At(s, "open")
  /\ info' = [info EXCEPT ![File(s)][proc[s].j] = Torn]
  /\ proc' = [proc EXCEPT ![s].pc = "close"]
  /\ UNCHANGED <<lines, queue, crashes>>

CloseInfo(s) ==
  /\ At(s, "close")
  /\ info' = [info EXCEPT ![File(s)][proc[s].j] = Whole(proc[s].lens[proc[s].j])]
  /\ proc' = [proc EXCEPT ![s].pc = "append"]
  /\ UNCHANGED <<lines, queue, crashes>>

(* Faulty variant: one problem too many.                                   *)
AfterLinePast(s, w) ==
  IF w.j < BatchSize - 1 THEN [w EXCEPT !.pc = "open", !.j = @ + 1]
  ELSE IF w.i < Count(s)
    THEN [w EXCEPT !.pc = "generate", !.i = @ + 1, !.j = Leader]
    ELSE Stopped

(* What the process does after member j's line: the next member, the next  *)
(* problem, or the end.                                                    *)
AfterLine(s, w) ==
  IF w.j < BatchSize - 1 THEN [w EXCEPT !.pc = "open", !.j = @ + 1]
  ELSE IF w.i < Count(s) - 1
    THEN [w EXCEPT !.pc = "generate", !.i = @ + 1, !.j = Leader]
    ELSE Stopped

AppendLine(s) ==
  /\ At(s, "append")
  /\ lines' = [lines EXCEPT ![File(s)][proc[s].j] = Append(@, First(s) + proc[s].i)]
  /\ proc' = [proc EXCEPT ![s] = AfterLine(s, @)]
  /\ UNCHANGED <<info, queue, crashes>>

Worker(s) ==
  Load(s) \/ Generate(s) \/ OpenInfo(s) \/ CloseInfo(s) \/ AppendLine(s)

(***************************************************************************)
(* Failures: one process dies (out of memory, a CUDA error), or the node   *)
(* goes with the launcher and every process on it.                         *)
(***************************************************************************)
MayDie(s) == proc[s] # Stopped /\ (At(s, "close") => TornWrites)

Crash(s) ==
  /\ crashes < MaxCrashes /\ MayDie(s)
  /\ crashes' = crashes + 1
  /\ proc' = [proc EXCEPT ![s] = Stopped]
  /\ UNCHANGED <<lines, info, queue>>

NodeLost ==
  /\ crashes < MaxCrashes /\ ~Idle /\ \A s \in Running : MayDie(s)
  /\ crashes' = crashes + 1
  /\ queue' = << >>
  /\ proc' = [s \in Shards |-> Stopped]
  /\ UNCHANGED <<lines, info>>

(***************************************************************************)
(* shard_batch_repair.py --apply, run between passes.  It knows the shards *)
(* only by the files it finds, so a shard nobody has started makes its     *)
(* predecessor look longer than it is.                                     *)
(***************************************************************************)
OnDisk == {f \in Files : \E m \in Members : Held(f, m) > 0}

Expected(f) ==
  LET later == {g \in OnDisk : g > f}
  IN (IF later = {} THEN NumProblems ELSE Min(later)) - f

(* Faulty variant: every short slot is taken for a misaligned one.         *)
ClassHarsh(f) ==
  IF \A m \in Members : Held(f, m) >= Expected(f) THEN "FULL"
  ELSE IF Held(f, Leader) >= Expected(f) THEN "STUCK" ELSE "MISALIGN-RISK"

(* Faulty variant: only the leader's count is looked at.                   *)
ClassByLeader(f) ==
  IF Held(f, Leader) >= Expected(f) THEN "FULL" ELSE "RESUMABLE"

Class(f) ==
  IF \A m \in Members : Held(f, m) >= Expected(f) THEN "FULL"
  ELSE IF Held(f, Leader) >= Expected(f) THEN "STUCK"
  ELSE IF \E m \in Members : Held(f, m) # Held(f, Leader) THEN "MISALIGN-RISK"
  ELSE "RESUMABLE"

Quarantined == {f \in OnDisk : Class(f) \in {"STUCK", "MISALIGN-RISK"}}

Repair ==
  /\ Sharded /\ Idle /\ Quarantined # {}
  /\ lines' = [f \in Files |->
       IF f \in Quarantined THEN [m \in Members |-> << >>] ELSE lines[f]]
  /\ info' = [f \in Files |->
       IF f \in Quarantined THEN [m \in Members |-> Missing] ELSE info[f]]
  /\ UNCHANGED <<queue, proc, crashes>>

Next ==
  \/ Launch \/ Spawn \/ Repair \/ NodeLost
  \/ \E s \in Shards : Worker(s) \/ Crash(s)

Spec == Init /\ [][Next]_vars

(***************************************************************************)
(* The loop relaunches, the launcher starts what it queued, processes run. *)
(* That the operator runs the repair tool between passes, again and again, *)
(* is assumed: no script does.                                             *)
(***************************************************************************)
FairSpec ==
  /\ Spec
  /\ WF_vars(Launch) /\ WF_vars(Spawn) /\ SF_vars(Repair)
  /\ \A s \in Shards : WF_vars(Worker(s))
-----------------------------------------------------------------------------
Owner(f) == CHOOSE s \in Shards : File(s) = f /\ (Sharded => Count(s) > 0)
Aligned(f, m) == \A k \in 1..Held(f, m) : lines[f][m][k] = First(Owner(f)) + k - 1
Full(f) == \A m \in Members : Held(f, m) >= Count(Owner(f))

(* Every piece of state has its type, and a process only writes problems   *)
(* of its own shard.                                                       *)
TypeOK ==
  /\ \A f \in Files, m \in Members :
       /\ lines[f][m] \in Seq(0..(NumProblems - 1))
       /\ info[f][m].state \in {"missing", "torn", "whole"}
  /\ queue \in Seq(Shards)
  /\ \A s \in Running : ~At(s, "load") => proc[s].i < Count(s)

(* No two processes past their start-up write the same files.              *)
OneWriterPerFile ==
  \A s, t \in {r \in Running : ~At(r, "load")} : File(s) = File(t) => s = t

(* Whatever crashed and was resumed or repaired, the leader's line k is    *)
(* the shard's k-th problem, and it never has more lines than the shard.   *)
LeaderAligned ==
  \A f \in Files : Aligned(f, Leader) /\ Held(f, Leader) <= Count(Owner(f))

(* A slot whose members all hold the shard's number of lines, which is all *)
(* that the repair tool looks at, has every line at its problem.           *)
FullMeansAligned == \A f \in Files : Full(f) => \A m \in Members : Aligned(f, m)

(* The repair tool never throws away a finished slot, although it may      *)
(* think it unfinished when the next shard is not on disk yet.             *)
RepairSparesFinished ==
  [][Repair => \A f \in Files : Full(f) => lines'[f] = lines[f]]_vars

(* No crash has left a lengths file between its open and its close.        *)
NoTornLeft ==
  \A f \in Files, m \in Members : info[f][m] = Torn =>
    \E s \in Running : File(s) = f /\ At(s, "close") /\ proc[s].j = m

(* With the repair tool run between the passes, and unless a crash leaves  *)
(* a torn lengths file, the cell gets all its completions.                 *)
EventuallyComplete == []NoTornLeft => <>[](\A f \in Files : Full(f))
-----------------------------------------------------------------------------
(* Stated by the repository, and not so (see the README).                  *)

(* A slot the repair tool leaves as RESUMABLE can be resumed               *)
(* (shard_batch_repair.py).                                                *)
ResumableResumes ==
  Idle => \A f \in OnDisk : Class(f) = "RESUMABLE" => Resumable(f)

(* Entry k of the lengths is the length of line k, once a slot is full     *)
(* (eval/grader.py pairs them by index).                                   *)
LengthsMatchLines ==
  \A f \in Files, m \in Members :
    Held(f, m) = Count(Owner(f)) /\ Idle => info[f][m] = Whole(lines[f][m])

(* Jobs do not share a file whatever the number of workers per GPU.        *)
JobsKeepApart == OneWriterPerFile

\* With more than one GPU rank, whatever crashed and was relaunched: one writer per
\* file, a leader whose lines are in order, and files counted as full that are aligned.
CompletionsAligned == TypeOK /\ OneWriterPerFile /\ LeaderAligned /\ FullMeansAligned
=============================================================================
