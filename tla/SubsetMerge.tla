---------------------------- MODULE SubsetMerge ----------------------------
(***************************************************************************)
(* kvcompress/eval/remap_lcb_subsets.py: an arm that was generated on two  *)
(* subsets of LiveCodeBench is rewritten in the index space of the full    *)
(* set.  In a subset's files a completion is known by its position alone:  *)
(* line i of shard file s answers entry s + i of that subset's gold file.  *)
(* The merged directory has a pair of files per problem, the completion    *)
(* and its length, numbered by the problem's index in the full gold, so    *)
(* that the positional graders read it unchanged.                          *)
(*                                                                         *)
(* The workers of the sources go on meanwhile and die between their own    *)
(* two writes, and the merge dies between any two of its writes and is run *)
(* again into the same directory, which is never emptied.                  *)
(***************************************************************************)
EXTENDS Integers, Sequences, FiniteSets

CONSTANTS
  Full,             \* the full gold: the order of its question ids
  Golds,            \* source -> the order of its gold's question ids
  Leaves,           \* <data>_bs<n> directories below a source, in path order
  MergedRuns,       \* run directories
  SubsetShardings,  \* values of NUM_SHARDS a source is launched with
  MaxLines,         \* bound on the entries of all lengths files
  MaxLosses,        \* bound on the deaths of workers between two writes
  MaxMerges,        \* bound on the merges
  MaxStops,         \* bound on the merges that die
  NoFile            \* no file is open; no length is known

Subsets == DOMAIN Golds
SubsetStarts(s) == 0..(Len(Golds[s]) - 1)
Files ==
  {f \in Subsets \X Leaves \X MergedRuns \X (0..(Len(Full) - 1)) : f[4] \in SubsetStarts(f[1])}

\* What the merge holds of the file it has open.
Readings == [file : Files, n : Nat, glens : Seq(Nat), i : Nat, half : BOOLEAN]

ASSUME MergeAssumption ==
  /\ Leaves \subseteq Nat /\ SubsetShardings \subseteq Nat \ {0}
  /\ \A s \in Subsets : Golds[s] # <<>>
  /\ IsFiniteSet(Files) /\ NoFile \notin Nat \cup Readings

VARIABLES
  lines,    \* <<source, leaf, run, shard>> -> lines of the completions file
  glens,    \* the same -> generate_lens of the other_info file: the line an entry is
            \* the length of, counted from one, or 0 when that line was never written
  torn,     \* files whose other_info file cannot be parsed
  losses,
  sources,  \* --src arguments the merge has still to come to
  todo,     \* files of the current one it has still to read
  reading,  \* the open file, its text and lengths as they were read, and the line it
            \* is at; half when that line's completion is written and its length is not
  seen,     \* keys it has filed
  out,      \* <<run, index>> -> the completions file of the merged directory
  info,     \* the same -> its other_info file: of tells the completion it came with
  merges, stops

sourceVars == <<lines, glens, torn, losses>>
scriptVars == <<sources, todo, reading, seen, merges, stops>>
mergeVars == <<sourceVars, scriptVars, out, info>>

MergeInit ==
  /\ lines = [f \in Files |-> 0] /\ glens = [f \in Files |-> <<>>] /\ torn = {} /\ losses = 0
  /\ sources = <<>> /\ todo = <<>> /\ reading = NoFile /\ seen = {}
  /\ out = <<>> /\ info = <<>> /\ merges = 0 /\ stops = 0

-----------------------------------------------------------------------------
(* The workers of the sources: a length first, then its completion.        *)

\* How many problems the shard that starts at i has, 0 when none starts there.
ShardSize(s, n, i) ==
  LET N == Len(Golds[s])
      size == N \div n
  IN  IF size = 0 \/ i % size # 0 \/ i \div size >= n THEN 0
      ELSE IF i \div size = n - 1 THEN N - i ELSE size

\* The length is written and its line is not.
Pending(f) == glens[f] # <<>> /\ glens[f][Len(glens[f])] = lines[f] + 1

\* A resumed worker reads the lengths back, whatever their number, and dies of a file
\* it cannot parse; without lines it starts the list anew.
WriteLength(f) ==
  /\ \E n \in SubsetShardings : lines[f] < ShardSize(f[1], n, f[4])
  /\ Cardinality({e \in Files \X (1..MaxLines) : e[2] <= Len(glens[e[1]])}) < MaxLines
  /\ ~Pending(f) /\ (lines[f] > 0 => f \notin torn)
  /\ glens' = [glens EXCEPT ![f] = Append(IF lines[f] = 0 THEN <<>> ELSE @, lines[f] + 1)]
  /\ torn' = torn \ {f}
  /\ UNCHANGED <<lines, losses, scriptVars, out, info>>

AppendLine(f) ==
  /\ Pending(f) /\ f \notin torn
  /\ lines' = [lines EXCEPT ![f] = @ + 1]
  /\ UNCHANGED <<glens, torn, losses, scriptVars, out, info>>

\* A worker dies while the lengths file is open for writing, or before it came to the
\* completion, which is sampled again.
Lose(f) ==
  /\ losses < MaxLosses /\ losses' = losses + 1 /\ f \notin torn
  /\ \/ ~Pending(f) /\ torn' = torn \cup {f} /\ UNCHANGED glens
     \/ Pending(f) /\ glens' = [glens EXCEPT ![f] = [@ EXCEPT ![Len(@)] = 0]] /\ UNCHANGED torn
  /\ UNCHANGED <<lines, scriptVars, out, info>>

-----------------------------------------------------------------------------
(* main                                                                    *)

\* load_ids and full_index: a subset's position, and the index of its question.
SubIndex(f, i) == f[4] + i
IndexOf(id) == CHOOSE k \in 1..Len(Full) : Full[k] = id
FullIndex(f, i) == IndexOf(Golds[f[1]][SubIndex(f, i) + 1]) - 1

Mapped(f, i) ==
  /\ SubIndex(f, i) < Len(Golds[f[1]])
  /\ \E k \in 1..Len(Full) : Full[k] = Golds[f[1]][SubIndex(f, i) + 1]

\* Mutant: what the directory holds counts as filed.
SeenOnDisk == DOMAIN out
\* Nothing counts as filed, whatever the directory holds.
SeenAtStart == {}

\* The command is given its sources in some order.
StartMerge ==
  /\ sources = <<>> /\ todo = <<>> /\ reading = NoFile
  /\ merges < MaxMerges /\ merges' = merges + 1
  /\ \E n \in 1..Cardinality(Subsets) :
       \E srcs \in [1..n -> Subsets] :
         /\ \A j, k \in 1..n : srcs[j] = srcs[k] => j = k
         /\ sources' = srcs
  /\ seen' = SeenAtStart
  /\ UNCHANGED <<sourceVars, todo, reading, stops, out, info>>

PathBefore(f, g) ==
  \/ f[2] < g[2]
  \/ f[2] = g[2] /\ (f[3] < g[3] \/ (f[3] = g[3] /\ f[4] < g[4]))

\* The completions files of the next source that are there, sorted by path.
OpenSource ==
  /\ sources # <<>> /\ todo = <<>> /\ reading = NoFile
  /\ LET found == {f \in Files : f[1] = Head(sources) /\ lines[f] > 0}
     IN  \E order \in [1..Cardinality(found) -> found] :
           /\ \A j, k \in DOMAIN order : j < k => PathBefore(order[j], order[k])
           /\ todo' = order
  /\ sources' = Tail(sources)
  /\ UNCHANGED <<sourceVars, reading, seen, merges, stops, out, info>>

\* A file is read once; lengths that cannot be read are none.
Opened(f) ==
  [file |-> f, n |-> lines[f], glens |-> IF f \in torn THEN <<>> ELSE glens[f],
   i |-> 0, half |-> FALSE]

ReadFile ==
  /\ reading = NoFile /\ todo # <<>>
  /\ reading' = Opened(Head(todo)) /\ todo' = Tail(todo)
  /\ UNCHANGED <<sourceVars, sources, seen, merges, stops, out, info>>

\* The key of the line the merge is at, and its completion.
MergeKey == <<reading.file[3], FullIndex(reading.file, reading.i)>>
Completion == [file |-> reading.file, line |-> reading.i]
AtLine == reading # NoFile /\ reading.i < reading.n
Fresh == Mapped(reading.file, reading.i) /\ MergeKey \notin seen

\* The first completion of a (run, problem) is filed, the others are counted.
WriteCompletion ==
  /\ AtLine /\ ~reading.half /\ Fresh
  /\ out' = [k \in DOMAIN out \cup {MergeKey} |-> IF k = MergeKey THEN Completion ELSE out[k]]
  /\ seen' = seen \cup {MergeKey} /\ reading' = [reading EXCEPT !.half = TRUE]
  /\ UNCHANGED <<sourceVars, sources, todo, merges, stops, info>>

WriteInfo ==
  /\ AtLine /\ reading.half
  /\ LET gl == IF reading.i < Len(reading.glens) THEN reading.glens[reading.i + 1] ELSE NoFile
     IN  info' = [k \in DOMAIN info \cup {MergeKey} |->
                    IF k = MergeKey THEN [of |-> Completion, len |-> gl] ELSE info[k]]
  /\ reading' = [reading EXCEPT !.half = FALSE, !.i = @ + 1]
  /\ UNCHANGED <<sourceVars, sources, todo, seen, merges, stops, out>>

PassOver ==
  /\ AtLine /\ ~reading.half /\ ~Fresh
  /\ reading' = [reading EXCEPT !.i = @ + 1]
  /\ UNCHANGED <<sourceVars, sources, todo, seen, merges, stops, out, info>>

CloseFile ==
  /\ reading # NoFile /\ ~AtLine
  /\ reading' = NoFile
  /\ UNCHANGED <<sourceVars, sources, todo, seen, merges, stops, out, info>>

\* The merge dies; what it has written stays, and a file that was open is left empty.
StopMerge ==
  /\ sources # <<>> \/ todo # <<>> \/ reading # NoFile
  /\ stops < MaxStops /\ stops' = stops + 1
  /\ sources' = <<>> /\ todo' = <<>> /\ reading' = NoFile /\ seen' = {}
  /\ \/ UNCHANGED <<out, info>>
     \/ /\ AtLine /\ ~reading.half /\ Fresh
        /\ out' = [k \in DOMAIN out \ {MergeKey} |-> out[k]] /\ UNCHANGED info
     \/ /\ AtLine /\ reading.half
        /\ info' = [k \in DOMAIN info \ {MergeKey} |-> info[k]] /\ UNCHANGED out
  /\ UNCHANGED <<sourceVars, merges>>

MergeNext ==
  \/ \E f \in Files : WriteLength(f) \/ AppendLine(f) \/ Lose(f)
  \/ StartMerge \/ OpenSource \/ ReadFile \/ WriteCompletion \/ WriteInfo \/ PassOver
  \/ CloseFile \/ StopMerge

MergeSpec == MergeInit /\ [][MergeNext]_mergeVars

-----------------------------------------------------------------------------
\* The pair that is being written, and those whose two files do not belong together.
Current == IF reading # NoFile /\ reading.half THEN {MergeKey} ELSE {}
Together(k) == k \in DOMAIN info /\ info[k].of = out[k]
TornPairs == {k \in DOMAIN out \ Current : ~Together(k)}

\* A worker's death has put an entry without a line before this one.
Shifted(f, i) == \E j \in 1..(i + 1) : j \in DOMAIN glens[f] /\ glens[f][j] = 0

\* What the positional grader takes for the completion of (run, problem) answers that
\* problem and was generated in that run.
Answers(k) ==
  /\ Golds[out[k].file[1]][out[k].file[4] + out[k].line + 1] = Full[k[2] + 1]
  /\ out[k].file[3] = k[1]

\* Its length is its own or none, unless the source's list had shifted.
OwnLength(k) ==
  \/ info[k].len \in {NoFile, out[k].line + 1}
  \/ Shifted(out[k].file, out[k].line)

\* Every completion is filed under its problem; a merge that dies leaves at most one
\* pair that does not belong together, wherever it dies and whatever the directory held,
\* and a later merge that comes to the problem mends it.
MergeSound ==
  /\ \A k \in DOMAIN out : Answers(k)
  /\ Cardinality(TornPairs) <= stops
  /\ TornPairs \cap seen = {}
  /\ \A k \in DOMAIN out \ (TornPairs \cup Current) : OwnLength(k)
=============================================================================
