----------------------------- MODULE RunLedger -----------------------------
(***************************************************************************)
(* The resumable experiment runners: scripts/qwen35/run_math.py (one       *)
(* answer at a time), scripts/qwen35/run_math_batch.py (two rollouts of a  *)
(* problem together) and scripts/qwen3_control/run_math_batch.py (the      *)
(* same, behind validation gates), with the auditors that read what they   *)
(* leave.  A group is one (problem, first run, cell) of the loops, in the  *)
(* order the loops visit it; a rollout is journaled before it is graded.   *)
(*                                                                         *)
(* atomic_json writes a temporary file, syncs it and renames it: one step. *)
(* The grader is another process, whose verdict (timeouts included) is     *)
(* free; a process may die between any two steps.                          *)
(***************************************************************************)
EXTENDS Naturals, FiniteSets

CONSTANTS
  Kinds,       \* runners under study: "single", "batch", "control"
  Procs,       \* launches of the command, possibly at the same time
  LastGroup,   \* number of groups
  OverlongSets, \* sets of groups whose prompt does not fit the cell's capacity
  Sources,     \* versions of the source files
  Validated,   \* versions the validation gates of the control were run on
  None, Nobody, \* no record; no process
  MaxCrashes,  \* bound on the deaths of a process
  MaxEdits     \* bound on the edits of the sources

Groups == 1..LastGroup

\* What a journal holds: which sampling of the group it is, and of which sources.
Rollouts == [rollout : Nat, source : Sources]
\* The two records an answer file may be.
Answers == [status : {"complete"}, rollout : Nat, source : Sources,
            grader : Sources, errors : BOOLEAN]
Ineligible == [status |-> "budget_ineligible"]

ASSUME LedgerAssumption ==
  /\ Kinds \subseteq {"single", "batch", "control"}
  /\ LastGroup \in Nat \ {0} /\ OverlongSets \subseteq SUBSET Groups
  /\ Validated \subseteq Sources
  /\ MaxCrashes \in Nat /\ Nobody \notin Procs
  /\ None \notin Sources /\ None \notin Rollouts
  /\ None \notin Answers /\ None # Ineligible

VARIABLES
  kind,      \* which runner's directory this is
  overlong,  \* its groups whose prompt does not fit
  source,    \* source files on the disk
  manifest,  \* settings in manifest.json, or None
  answer,    \* group -> row -> the answer's record, or None
  journal,   \* group -> the journaled rollouts, or None
  rollouts,  \* group -> times its generation was started
  summary,   \* n_complete in summary.json
  lock,      \* holder of .run.lock, or Nobody
  pc,        \* process -> where it is
  at,        \* process -> group the loops are at
  mem,       \* process -> the rollouts it holds in memory
  crashes, edits

disk == <<manifest, answer, journal, summary>>
vars == <<kind, overlong, source, disk, rollouts, lock, pc, at, mem, crashes, edits>>

Rows == IF kind = "single" THEN {0} ELSE {0, 1}
Answered(g) == {r \in Rows : answer[g][r] # None}
Complete(g) == {r \in Answered(g) : answer[g][r].status = "complete"}
Flawed(g) == \E r \in Complete(g) : answer[g][r].errors

Init ==
  /\ kind \in Kinds /\ overlong \in OverlongSets /\ source \in Sources
  /\ manifest = None
  /\ answer = [g \in Groups |-> [r \in {0, 1} |-> None]]
  /\ journal = [g \in Groups |-> None]
  /\ rollouts = [g \in Groups |-> 0] /\ summary = 0
  /\ lock = Nobody
  /\ pc = [p \in Procs |-> "idle"] /\ at = [p \in Procs |-> 1]
  /\ mem = [p \in Procs |-> None]
  /\ crashes = 0 /\ edits = 0

Goto(p, there) == pc' = [pc EXCEPT ![p] = there]

\* Mutant: a lock file of the process's own, which its death leaves behind.
ExitHolding(p, there) == Goto(p, there) /\ lock' = lock
\* The process ends, by an exception or at its end: the lock goes with it.
Exit(p, there) ==
  /\ Goto(p, there)
  /\ lock' = IF lock = p THEN Nobody ELSE lock

\* Mutant: the lock is not asked for.
MayRunUnlocked(p) == TRUE

\* flock(LOCK_EX | LOCK_NB).  run_math.py takes no lock: one launch at a time is
\* the operator's word there (scripts/qwen35/README.md).
MayRun(p) ==
  IF kind = "single" THEN \A q \in Procs : pc[q] \in {"idle", "finished"} ELSE lock = Nobody

\* Mutant: a resume does not compare the settings.
RefusedNever == FALSE

\* The settings, source hashes included, must be those of the manifest, and the
\* control's sources those its validation passed on.
Refused ==
  \/ manifest # None /\ manifest # source
  \/ kind = "control" /\ (source \notin Validated \/ overlong # {})

Start(p) ==
  /\ pc[p] = "idle" /\ MayRun(p) /\ ~Refused
  /\ manifest' = source
  /\ lock' = IF kind = "single" THEN lock ELSE p
  /\ Goto(p, "visit") /\ at' = [at EXCEPT ![p] = 1]
  /\ UNCHANGED <<kind, overlong, source, answer, journal, rollouts, summary, mem, crashes, edits>>

\* Mutants: grading errors are passed over; an existing journal is not used.
NextStepForgiving(g) ==
  IF Answered(g) = Rows THEN "skip" ELSE IF journal[g] # None THEN "grade" ELSE "generate"
NextStepForgetful(g) ==
  IF Flawed(g) THEN "stop" ELSE IF Answered(g) = Rows THEN "skip" ELSE "generate"

\* What a visit of a group leads to.
NextStep(g) ==
  IF Flawed(g) THEN "stop"
  ELSE IF Answered(g) = Rows
  THEN IF kind # "single" /\ journal[g] # None THEN "grade" ELSE "skip"
  ELSE IF kind = "single" /\ g \in overlong THEN "ineligible"
  ELSE IF journal[g] # None THEN "grade"
  ELSE IF Answered(g) # {} \/ g \in overlong THEN "stop"
  ELSE "generate"

Advance(p) ==
  /\ at' = [at EXCEPT ![p] = @ + 1]
  /\ Goto(p, IF at[p] = LastGroup THEN "last" ELSE "visit")

Visit(p) ==
  LET g == at[p] IN
  /\ pc[p] = "visit"
  /\ \/ /\ NextStep(g) = "skip" /\ Advance(p)
        /\ UNCHANGED <<answer, rollouts, lock, mem>>
     \/ /\ NextStep(g) = "stop" /\ Exit(p, "idle")
        /\ UNCHANGED <<answer, rollouts, at, mem>>
     \/ /\ NextStep(g) = "ineligible" /\ Advance(p)
        /\ answer' = [answer EXCEPT ![g][0] = Ineligible]
        /\ UNCHANGED <<rollouts, lock, mem>>
     \/ /\ NextStep(g) = "grade" /\ Goto(p, "grade")
        /\ mem' = [mem EXCEPT ![p] = journal[g]]
        /\ UNCHANGED <<answer, rollouts, at, lock>>
     \/ /\ NextStep(g) = "generate" /\ Goto(p, "generate")
        /\ rollouts' = [rollouts EXCEPT ![g] = @ + 1]
        /\ mem' = [mem EXCEPT ![p] = [rollout |-> rollouts'[g], source |-> source]]
        /\ UNCHANGED <<answer, at, lock>>
  /\ UNCHANGED <<kind, overlong, source, manifest, journal, summary, crashes, edits>>

\* Both rollouts become durable in one file before either is graded.
Journal(p) ==
  /\ pc[p] = "generate"
  /\ journal' = [journal EXCEPT ![at[p]] = mem[p]]
  /\ Goto(p, "grade")
  /\ UNCHANGED <<kind, overlong, source, manifest, answer, summary, rollouts, lock, at, mem, crashes, edits>>

\* Mutant: rows that have their answers are graded again.
ToGradeAgain(g) == IF Answered(g) = Rows THEN Rows ELSE Rows \ Answered(g)
\* Rows left to grade: an answer that is there is kept.
ToGrade(g) == Rows \ Answered(g)

\* grade_pending_group, one row; a record with grading errors is persisted first
\* and stops the run after.  run_math.py removes the journal before it stops.
Grade(p) ==
  LET g == at[p] IN
  /\ pc[p] = "grade" /\ ToGrade(g) # {}
  /\ \E errors \in BOOLEAN :
       LET r == CHOOSE s \in ToGrade(g) : \A t \in ToGrade(g) : s <= t IN
       /\ answer' = [answer EXCEPT ![g][r] =
            [status |-> "complete", rollout |-> mem[p].rollout, source |-> mem[p].source,
             grader |-> source, errors |-> errors]]
       /\ IF errors /\ kind # "single"
          THEN Exit(p, "idle")
          ELSE Goto(p, IF kind = "single" THEN "unlink" ELSE "grade") /\ lock' = lock
  /\ UNCHANGED <<kind, overlong, source, manifest, journal, summary, rollouts, at, mem, crashes, edits>>

\* Mutant: the journal goes once the first of its rows is graded.
GradedFirst(g) == Answered(g) # {}
Graded(g) == Answered(g) = Rows

Unlink(p) ==
  LET g == at[p] IN
  /\ pc[p] \in {"grade", "unlink"} /\ Graded(g)
  /\ journal' = [journal EXCEPT ![g] = None]
  /\ IF Flawed(g) THEN Exit(p, "idle") ELSE Goto(p, "summarize") /\ lock' = lock
  /\ UNCHANGED <<kind, overlong, source, manifest, answer, summary, rollouts, at, mem, crashes, edits>>

\* Mutant: whatever its status.
CountedAll == Cardinality({x \in Groups \X Rows : x[2] \in Answered(x[1])})
\* The complete records, those with grading errors among them.
Counted == Cardinality({x \in Groups \X Rows : x[2] \in Complete(x[1])})

\* summarize() after every group and once at the end.
Summarize(p) ==
  /\ pc[p] \in {"summarize", "last"}
  /\ summary' = Counted
  /\ IF pc[p] = "last" THEN Exit(p, "finished") /\ at' = at ELSE Advance(p) /\ lock' = lock
  /\ UNCHANGED <<kind, overlong, source, manifest, answer, journal, rollouts, mem, crashes, edits>>

\* The process is killed, or the grader's process fails or runs out of time.
Crash(p) ==
  /\ pc[p] \notin {"idle", "finished"} /\ crashes < MaxCrashes
  /\ crashes' = crashes + 1 /\ Exit(p, "idle")
  /\ mem' = [mem EXCEPT ![p] = None]
  /\ UNCHANGED <<kind, overlong, source, disk, rollouts, at, edits>>

\* Sources change between launches only, as the protocol demands.
Edit ==
  /\ edits < MaxEdits /\ \A p \in Procs : pc[p] \in {"idle", "finished"}
  /\ source' \in Sources \ {source} /\ edits' = edits + 1
  /\ UNCHANGED <<kind, overlong, disk, rollouts, lock, pc, at, mem, crashes>>

Step(p) ==
  Start(p) \/ Visit(p) \/ Journal(p) \/ Grade(p) \/ Unlink(p) \/ Summarize(p)

Next == (\E p \in Procs : Step(p) \/ Crash(p)) \/ Edit

Spec == Init /\ [][Next]_vars

\* A process that lives makes progress; the command is launched again.
FairSpec == Spec /\ \A p \in Procs : WF_vars(Step(p))

-----------------------------------------------------------------------------
(* The auditors: audit_and_load (and audit_progress on a prefix), and audit *)
(* of the control, which also refuses a journal.                            *)

Audited(k) ==
  \A g \in 1..k :
    /\ Complete(g) = Rows /\ ~Flawed(g)
    /\ kind = "control" => journal[g] = None

-----------------------------------------------------------------------------
(* Properties.                                                              *)

\* A journaled rollout was started; the summary never counts an answer that is
\* not there, or one that had no budget to run.
TypeOK ==
  /\ kind \in Kinds /\ source \in Sources /\ manifest \in Sources \cup {None}
  /\ \A g \in Groups : rollouts[g] \in 0..(MaxCrashes + 1)
  /\ \A g \in Groups : journal[g] # None => journal[g].rollout \in 1..rollouts[g]
  /\ \A p \in Procs : at[p] \in 1..(LastGroup + 1)
  /\ summary \in 0..Cardinality({x \in Groups \X Rows : x[2] \in Complete(x[1])})

\* The error "Partly graded group lacks recovery journal" cannot happen: the
\* journal outlives the grading of its last row.
JournalOutlivesGrading ==
  \A g \in Groups : Answered(g) \notin {{}, Rows} => journal[g] # None

\* The two answers of a problem are rows of one batch, whatever crashed between
\* their gradings: regenerating one alone would pair rows of two batches.
PairFromOneBatch ==
  \A g \in Groups : \A q, r \in Complete(g) :
    /\ answer[g][q].rollout = answer[g][r].rollout
    /\ journal[g] # None => answer[g][q].rollout = journal[g].rollout

\* Every answer was generated and graded under the settings of the manifest.
OneProtocol ==
  \A g \in Groups : \A r \in Complete(g) :
    answer[g][r].source = manifest /\ answer[g][r].grader = manifest

\* A grading error stops the directory for good: no later group was touched, so
\* no report can be built around it.
NothingPastAnError ==
  \A g, h \in Groups : g < h /\ Flawed(g) =>
    Answered(h) = {} /\ journal[h] = None /\ rollouts[h] = 0

\* FINISHED is only printed over a directory the auditors accept: every answer
\* there, gradings clean, the summary complete.
FinishedIsWhole ==
  (\E p \in Procs : pc[p] = "finished") =>
    /\ \A g \in Groups : Answered(g) = Rows /\ ~Flawed(g)
    /\ kind # "single" => Audited(LastGroup) /\ \A g \in Groups : journal[g] = None
    /\ summary = Counted

\* "Generated answers are never generated again": a rollout that is durable,
\* graded or not, is the last one of its group.
NoSecondRollout ==
  [][\A g \in Groups : journal[g] # None \/ Answered(g) # {} =>
       rollouts'[g] = rollouts[g]]_vars

\* What an audit of a prefix accepted stays byte for byte what it was, under any
\* number of crashes, resumes and repeated launches.
AuditedPrefixFrozen ==
  [][\A k \in Groups : Audited(k) =>
       Audited(k)' /\ \A g \in 1..k : answer'[g] = answer[g]]_vars

\* Crashes are survived: unless a grading error stops it, a prompt does not fit
\* or the sources move, a repeated command finishes.
Finishes ==
  /\ [](\A g \in Groups : ~Flawed(g))
  /\ (kind # "single" => overlong = {})
  /\ <>[](manifest \in {None, source} /\ (kind = "control" => source \in Validated))
  => <>(\E p \in Procs : pc[p] = "finished")

\* A ledger after any crashes: journals outlive their grading, nothing follows an
\* error, and a summary that says finished is of the whole.
LedgerSound == TypeOK /\ JournalOutlivesGrading /\ NothingPastAnError /\ FinishedIsWhole

\* The two answers of a pair were sampled together and under one protocol.
PairsComparable == PairFromOneBatch /\ OneProtocol

\* No answer is sampled twice, and what the audit passed is never rewritten.
NothingRepeated == NoSecondRollout /\ AuditedPrefixFrozen
=============================================================================
