----------------------------- MODULE CellAudit -----------------------------
(***************************************************************************)
(* The files of one method directory, from relaunched workers to the       *)
(* graders: kvcompress/eval/cell_integrity.py decides whether the cell may *)
(* be graded, trim_shard_overlaps.py repairs overlapping shard files, and  *)
(* grader.py pairs line i of shard file s with problem s + i and with      *)
(* entry i of the lengths file.                                            *)
(*                                                                         *)
(* A cell is launched again with another NUM_SHARDS or another batch size  *)
(* (another subdirectory), although the launcher asks not to: every repair *)
(* tool exists because that happened.  CellRun models one launch in        *)
(* detail, its crashes included; here a worker appends one line at a time. *)
(***************************************************************************)
EXTENDS Integers, Sequences, FiniteSets, FiniteSetsExt, SequencesExt

CONSTANTS
  NumProblems,  \* n_gold; NPROB of the auditor
  Shardings,    \* values of NUM_SHARDS a cell is launched with
  Subs,         \* subdirectories <data>_bs<n>... of the method directory
  Runs,         \* run directories of a subdirectory
  MaxLaunches   \* bound on the launches with other settings

ASSUME AuditAssumption ==
  /\ NumProblems \in Nat \ {0} /\ MaxLaunches \in Nat
  /\ Shardings \subseteq 1..NumProblems /\ IsFiniteSet(Runs)

Starts == 0..(NumProblems - 1)
Dirs == Subs \X Runs

VARIABLES
  files,   \* run directory -> first problem -> problems of the lines
  lens,    \* the same -> lines its length entries were made with, 0: trimmed
  launch,  \* settings of the current launch
  past     \* settings launched so far

vars == <<files, lens, launch, past>>

Settings == [shards : Shardings, sub : Subs]
Empty == [d \in Dirs |-> [s \in Starts |-> << >>]]

Init ==
  /\ files = Empty /\ lens = Empty
  /\ launch \in Settings /\ past = {launch}

-----------------------------------------------------------------------------
(* Workers.                                                                 *)

\* How many problems the shard starting at s has, 0 when none starts there.
Size(n, s) ==
  LET size == NumProblems \div n
  IN  IF s % size # 0 \/ s \div size >= n THEN 0
      ELSE IF s \div size = n - 1 THEN NumProblems - s ELSE size

\* run_cell.sh with other settings.
Relaunch ==
  /\ Cardinality(past) <= MaxLaunches
  /\ launch' \in Settings \ {launch}
  /\ past' = past \cup {launch'}
  /\ UNCHANGED <<files, lens>>

\* The worker of a shard resumes behind the lines of its own file and appends to
\* the lengths it finds; entries past the last problem are never read.
Write ==
  \E r \in Runs, s \in Starts :
    LET d == <<launch.sub, r>>
        k == Len(files[d][s])
    IN  /\ k < Size(launch.shards, s)
        /\ files' = [files EXCEPT ![d][s] = Append(@, s + k)]
        /\ lens' = [lens EXCEPT ![d][s] =
             IF Len(@) < NumProblems THEN Append(@, k + 1) ELSE @]
        /\ UNCHANGED <<launch, past>>

-----------------------------------------------------------------------------
(* cell_integrity.py                                                        *)

Existing(f) == {s \in Starts : f[s] # << >>}
Later(f, s) == {t \in Existing(f) : t > s}
Following(f, s) == Min(Later(f, s))
LastOf(f) == Max(Existing(f))

\* Mutants: the count of the first shard is taken for everyone's; the problem
\* count of a file without a closing newline, one too small.
OverlapByCount(f) ==
  \E s \in Existing(f) : Later(f, s) # {} /\ Len(f[s]) > Len(f[Min(Existing(f))])
OverlapTailEarly(f) ==
  Existing(f) # {} /\ LastOf(f) + Len(f[LastOf(f)]) > NumProblems - 1

\* OVERLAP: lines run past the next file's start, or past the last problem.
Overlap(f) ==
  \E s \in Existing(f) :
    s + Len(f[s]) > IF Later(f, s) = {} THEN NumProblems ELSE Following(f, s)

Present(sub) == \E r \in Runs : Existing(files[<<sub, r>>]) # {}

\* MIXED: two subdirectories for one data set, which the grader would pool.
Mixed == Cardinality({sub \in Subs : Present(sub)}) > 1

\* Exit status 1 of the auditor, which stops scripts/grade_cell.sh.
Blocking == Mixed \/ \E d \in Dirs : Overlap(files[d])

\* Lines per shard start, pooled over the runs.
Pooled(sub) ==
  [s \in Starts |-> SumFunctionOnSet([r \in Runs |-> Len(files[<<sub, r>>][s])], Runs)]
Shards(sub) == {s \in Starts : Pooled(sub)[s] > 0}

\* Counter(counts[:-1]).most_common(1): the first of the most frequent counts.
Modal(sub) ==
  LET S == Shards(sub) \ {Max(Shards(sub))}
      alike(s) == {t \in S : Pooled(sub)[t] = Pooled(sub)[s]}
      most == {s \in S : \A t \in S : Cardinality(alike(t)) <= Cardinality(alike(s))}
  IN  Pooled(sub)[Min(most)]

\* RAGGED and TAILSHORT, which only advise.
Ragged(sub) ==
  Cardinality(Shards(sub)) > 1 /\ \E s \in Shards(sub) : Pooled(sub)[s] < Modal(sub)

Total(sub) == SumFunctionOnSet(Pooled(sub), Starts)

TailShort(sub) ==
  /\ Cardinality(Shards(sub)) > 1
  /\ 10 * Cardinality(Shards(sub)) >= 9 * NumProblems
  /\ \A s \in Shards(sub) \ {Max(Shards(sub))} : Pooled(sub)[s] = Modal(sub)
  /\ Total(sub) < NumProblems * Modal(sub)

\* --completeness: short of the next standard number of runs.
Incomplete(sub) ==
  LET above == {R \in {1, 2, 4, 8, 16, 32} : R * NumProblems >= Total(sub)}
  IN  Total(sub) > 0 /\ above # {} /\ Total(sub) < NumProblems * Min(above)

-----------------------------------------------------------------------------
(* trim_shard_overlaps.py --apply                                           *)

\* Mutants: cut one line too few; one too many; the front instead of the end.
KeptLong(f, s) ==
  IF Later(f, s) # {} /\ Following(f, s) < s + Len(f[s])
  THEN SubSeq(f[s], 1, Following(f, s) - s + 1) ELSE f[s]
KeptShort(f, s) ==
  IF Later(f, s) # {} /\ Following(f, s) < s + Len(f[s])
  THEN SubSeq(f[s], 1, Following(f, s) - s - 1) ELSE f[s]
KeptEnd(f, s) ==
  IF Later(f, s) # {} /\ Following(f, s) < s + Len(f[s])
  THEN SubSeq(f[s], Len(f[s]) - (Following(f, s) - s) + 1, Len(f[s])) ELSE f[s]

\* A file into whose range another one starts loses the lines from there on.
Kept(f, s) ==
  IF Later(f, s) # {} /\ Following(f, s) < s + Len(f[s])
  THEN SubSeq(f[s], 1, Following(f, s) - s) ELSE f[s]

Trimmed(f) == [s \in Starts |-> Kept(f, s)]

\* The lengths file is left alone: entries of lines that went away stay.
LensAfter(d) ==
  [s \in Starts |-> [k \in DOMAIN lens[d][s] |->
     IF lens[d][s][k] > Len(Kept(files[d], s)) THEN 0 ELSE lens[d][s][k]]]

Trim(sub) ==
  /\ \E r \in Runs : Overlap(files[<<sub, r>>])
  /\ files' = [d \in Dirs |-> IF d[1] = sub THEN Trimmed(files[d]) ELSE files[d]]
  /\ lens' = [d \in Dirs |-> IF d[1] = sub THEN LensAfter(d) ELSE lens[d]]
  /\ UNCHANGED <<launch, past>>

\* The gap report walks the files in order with the lengths left by the cuts: what lies
\* between the furthest end so far and the next start, and behind the last end.
\* Mutant: with the lengths before the cuts.
GapsBefore(f) ==
  {p \in Starts : \A s \in Existing(f) : p \notin s..(s + Len(f[s]) - 1)}
Gaps(f) ==
  LET end(s) == s + Len(Trimmed(f)[s])
      cov(s) == Max({0} \cup {end(t) : t \in {u \in Existing(f) : u < s}})
  IN  UNION {cov(s)..(s - 1) : s \in Existing(f) \cup {NumProblems}}

\* The operator moves the subdirectories of other settings out of the way.
Quarantine ==
  /\ Mixed
  /\ files' = [d \in Dirs |-> IF d[1] = launch.sub THEN files[d] ELSE [s \in Starts |-> << >>]]
  /\ lens' = [d \in Dirs |-> IF d[1] = launch.sub THEN lens[d] ELSE [s \in Starts |-> << >>]]
  /\ UNCHANGED <<launch, past>>

TrimSome == \E sub \in Subs : Trim(sub)

Next == Relaunch \/ Write \/ TrimSome \/ Quarantine

Spec == Init /\ [][Next]_vars

\* Relaunching the same command resumes the workers; that the operator runs the
\* two repairs when the auditor blocks the grading is assumed.
FairSpec == Spec /\ WF_vars(Write) /\ WF_vars(TrimSome) /\ WF_vars(Quarantine)

-----------------------------------------------------------------------------
(* grader.py                                                                *)

\* The (problem, completion's problem, paired length) records of a run.
Records(d) ==
  UNION {{[gi |-> s + k - 1, of |-> files[d][s][k], file |-> s, line |-> k,
           length |-> IF k <= Len(lens[d][s]) THEN lens[d][s][k] ELSE 0]
          : k \in DOMAIN files[d][s]} : s \in Starts}

\* POSITIONAL CORRUPTION: an index past the gold answers, or one seen twice.
Raises(d) ==
  \/ \E x \in Records(d) : x.gi >= NumProblems
  \/ \E x, y \in Records(d) : x # y /\ x.gi = y.gi

-----------------------------------------------------------------------------
(* Properties.                                                              *)

\* grade_cell.sh runs the grader only behind the auditor: whatever settings were
\* mixed, trimmed and refilled, a cell that passes never makes it raise.
CleanCellGrades == ~Blocking => \A d \in Dirs : ~Raises(d)

\* Grading is positional: every completion is graded against the problem it
\* answers, through resumes under other shardings and end-truncations.
GradedOnItsProblem == \A d \in Dirs : \A x \in Records(d) : x.gi = x.of

\* A trimmed file keeps length entries of the lines it lost, and a refill appends
\* behind them; but then it overlaps again, so a clean cell's termination flags
\* come from the completions they are counted for.
LengthsPairedWhenClean ==
  ~Blocking => \A d \in Dirs : \A x \in Records(d) : x.length = x.line

\* The GAP lines name exactly the problems nothing is left of after the cuts.
GapsExact ==
  \A d \in Dirs : Gaps(files[d]) =
    {p \in Starts : \A s \in Starts : p \notin Range(Trimmed(files[d])[s])}

Complete(sub) ==
  \A r \in Runs : \A p \in Starts : \E x \in Records(<<sub, r>>) : x.gi = p

\* A cell launched with one setting only is never blocked, and once complete no
\* check of the auditor complains about it.
NoFalseAlarm ==
  Cardinality(past) = 1 =>
    /\ ~Blocking
    /\ \A sub \in Subs : Present(sub) /\ Complete(sub) =>
         ~Ragged(sub) /\ ~TailShort(sub)
         /\ (Cardinality(Runs) \in {1, 2, 4, 8, 16, 32} => ~Incomplete(sub))

\* One pass over the files in order clears every overlap, chains included.
TrimClears ==
  [][\A sub \in Subs : Trim(sub) => \A r \in Runs : ~Overlap(files'[<<sub, r>>])]_vars

Refined(p) == \A q \in past, s \in Starts : Size(q.shards, s) > 0 => Size(p.shards, s) > 0

\* If in the end the cell is relaunched with one setting, whose shards start where
\* those of every earlier one did, trimming and refilling end and every run has
\* every problem once.  (Under a coarser one they undo each other for ever.)
Heals ==
  \A p \in Settings :
    <>[](launch = p /\ Refined(p)) => <>[](~Blocking /\ Complete(p.sub))

\* The auditor blocks a cell if the grader would raise on it, and never one that was
\* launched with one setting only.
AuditExact == CleanCellGrades /\ NoFalseAlarm

\* What a grading pairs belongs together, and what a trim reports missing is missing.
PairingExact == GradedOnItsProblem /\ LengthsPairedWhenClean /\ GapsExact

\* A cell the audit passes is graded, and what is paired belongs together.
AuditSound == AuditExact /\ PairingExact
=============================================================================
