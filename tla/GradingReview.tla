---------------------------- MODULE GradingReview ----------------------------
(***************************************************************************)
(* The masked review of gradings under scripts/qwen35:                     *)
(* prepare_grading_review.py collects doubtful answers into packets that   *)
(* hide who gave them, record_frontier_review_decisions.py records a       *)
(* judgment per packet, analyze_grading_review.py ("main") and             *)
(* analyze_frontier_review.py ("frontier") lay the judgments over the      *)
(* scores.  Commands run in any order, on any directory; in between a      *)
(* record of the study may be replaced.  A value stands for its hash.      *)
(***************************************************************************)
EXTENDS Naturals, FiniteSets

CONSTANTS
  AnswerFiles, \* answer files of the study
  ProblemOf,   \* answer -> its problem
  Possible,    \* records: [boxed, final, ended, text]
  Reviews,     \* review directories, each with its file of decisions
  SampleSize,  \* accepted answers drawn for review
  MaxRewrites, \* bound on the replaced records
  Unset

\* What grade_completion leaves: no box is no credit, the gold string is credit.
ASSUME ReviewAssumption ==
  \A r \in Possible :
    /\ r.boxed \in {"none", "gold", "other"} /\ r.final \in BOOLEAN /\ r.ended \in BOOLEAN
    /\ r.boxed = "none" => ~r.final
    /\ r.boxed = "gold" => r.final

VARIABLES
  study,      \* "main" or "frontier"
  published,  \* the records as the published analysis hashed them
  record,     \* the records on the disk
  review,     \* directory -> the answers it selected, as they were, or Unset;
              \* "from" (history) has all records as they were then
  decided,    \* directory -> [for, choice] of its decisions, or Unset
  sensitivity, \* the last sensitivity report, or Unset
  rewrites

reviewVars == <<study, published, record, review, decided, sensitivity, rewrites>>

ReviewInit ==
  /\ study \in {"main", "frontier"}
  /\ record \in [AnswerFiles -> Possible] /\ published = record
  /\ review = [v \in Reviews |-> Unset] /\ decided = [v \in Reviews |-> Unset]
  /\ sensitivity = Unset /\ rewrites = 0

Accepted == {x \in AnswerFiles : record[x].final}
Sample(sample) ==
  /\ sample \subseteq Accepted
  /\ \/ Cardinality(sample) = SampleSize
     \/ sample = Accepted /\ Cardinality(sample) < SampleSize

\* Mutant: a final answer the cap cut off is taken to be settled.
DoubtfulEnded(r) == ~r.final /\ r.ended
\* eos_incorrect, incorrect_box, cap_correct
Doubtful(r) ==
  \/ ~r.final /\ (r.ended \/ r.boxed # "none")
  \/ r.final /\ ~r.ended

Prepare(v) ==
  /\ review[v] = Unset
  /\ \E sample \in SUBSET Accepted :
       /\ Sample(sample)
       /\ LET selected == {x \in AnswerFiles : Doubtful(record[x])} \cup sample IN
          review' = [review EXCEPT ![v] =
            [refs |-> [x \in selected |-> record[x]], sample |-> sample, from |-> record]]
  /\ UNCHANGED <<study, published, record, decided, sensitivity, rewrites>>

\* One packet for all answers of a problem with one box.
Case(x, r) == <<ProblemOf[x], r.boxed>>
Packets(v) == {Case(x, review[v].refs[x]) : x \in DOMAIN review[v].refs}
Texts(v, c) ==
  {review[v].refs[x].text : x \in {y \in DOMAIN review[v].refs : Case(y, review[v].refs[y]) = c}}

\* packets.json: what the judge sees of the answers.
PacketFile(v) == [c \in Packets(v) |-> Texts(v, c)]

\* A judgment: the new score (Unset keeps the old one) and, where it rests on the
\* context, the final texts that were read.
Judgments(v, c) ==
  IF c[2] = "gold" THEN {[new |-> TRUE, texts |-> Unset]}
  ELSE [new : {TRUE, FALSE, Unset}, texts : {Unset}] \cup {[new |-> TRUE, texts |-> Texts(v, c)]}

Decide(v) ==
  /\ review[v] # Unset /\ decided[v] = Unset
  /\ \E choice \in [Packets(v) -> UNION {Judgments(v, c) : c \in Packets(v)}] :
       /\ \A c \in Packets(v) : choice[c] \in Judgments(v, c)
       /\ decided' = [decided EXCEPT ![v] = [for |-> PacketFile(v), choice |-> choice]]
  /\ UNCHANGED <<study, published, record, review, sensitivity, rewrites>>

\* Mutant: the packets behind the decisions are not compared.
FilesBelongAny(v, d) == DOMAIN d.choice = Packets(v)
\* packets_sha256: the decisions are those on packets that read the same.
FilesBelong(v, d) == d.for = PacketFile(v) /\ DOMAIN d.choice = Packets(v)

\* Mutant: records may have been replaced since.
RefHoldsStale(v, d, x) == TRUE
\* record_sha256, old_final_correct, problem, box and text of one reference, and
\* review_value: an absent box is never rescued.
RefHolds(v, d, x) ==
  LET old == review[v].refs[x]
      judgment == d.choice[Case(x, old)]
  IN  /\ record[x] = old
      /\ judgment.texts # Unset => record[x].text \in judgment.texts
      /\ ~(judgment.new = TRUE /\ record[x].boxed = "none")

\* Mutant: the frontier's data are not compared with the published ones.
DataFrozenNever == TRUE
\* Only analyze_frontier_review.py hashes the whole directory.
DataFrozen == study = "frontier" => record = published

\* The command stops at the first assertion that fails, and writes nothing then.
Analyze(v, w) ==
  /\ review[v] # Unset /\ decided[w] # Unset
  /\ DataFrozen /\ FilesBelong(v, decided[w])
  /\ \A x \in DOMAIN review[v].refs : RefHolds(v, decided[w], x)
  /\ Cardinality(review[v].sample) = SampleSize
  /\ LET Judged(x) == decided[w].choice[Case(x, review[v].refs[x])].new IN
     sensitivity' = [directory |-> v, scored |-> record,
       new |-> [x \in AnswerFiles |->
         IF x \in DOMAIN review[v].refs /\ Judged(x) # Unset THEN Judged(x) ELSE record[x].final]]
  /\ UNCHANGED <<study, published, record, review, decided, rewrites>>

\* A record is regenerated or regraded behind the review's back.
Rewrite(x) ==
  /\ rewrites < MaxRewrites
  /\ record' \in {[record EXCEPT ![x] = r] : r \in Possible \ {record[x]}}
  /\ rewrites' = rewrites + 1
  /\ UNCHANGED <<study, published, review, decided, sensitivity>>

ReviewNext ==
  \/ \E v \in Reviews : Prepare(v) \/ Decide(v)
  \/ \E v, w \in Reviews : Analyze(v, w)
  \/ \E x \in AnswerFiles : Rewrite(x)

ReviewSpec == ReviewInit /\ [][ReviewNext]_reviewVars

-----------------------------------------------------------------------------
\* A score moves only by a judgment on that very answer, whichever files the command
\* was given: its record is the one that was selected and the one that was scored, the
\* packet of its problem and box showed its text, the judgment gave the new score and
\* read the text where it rests on it; and no answer without a box is rescued.
ChangeHasEvidence ==
  sensitivity # Unset =>
    \A x \in AnswerFiles : sensitivity.new[x] # sensitivity.scored[x].final =>
      LET r == sensitivity.scored[x]
          c == Case(x, r)
          selected == review[sensitivity.directory].refs
      IN  /\ x \in DOMAIN selected /\ selected[x] = r
          /\ r.boxed = "none" => sensitivity.new[x] # TRUE
          /\ \E v \in Reviews :
               /\ decided[v] # Unset /\ c \in DOMAIN decided[v].for
               /\ r.text \in decided[v].for[c]
               /\ decided[v].choice[c].new = sensitivity.new[x]
               /\ decided[v].choice[c].texts # Unset => r.text \in decided[v].choice[c].texts

\* No doubtful answer escapes: in a frontier report on a selection from the published
\* records every score that was not reviewed is an answer that ended, in a box, and was
\* accepted, or has no box at all and did not end.  (The preparation itself hashes the
\* manifest alone: a record that was away while the selection was made, and came back,
\* is not missed by any command.)
NothingDoubtfulEscapes ==
  sensitivity # Unset /\ study = "frontier" /\ review[sensitivity.directory].from = published =>
    \A x \in AnswerFiles \ DOMAIN review[sensitivity.directory].refs :
      LET r == sensitivity.scored[x] IN IF r.final THEN r.ended ELSE r.boxed = "none" /\ ~r.ended

\* A review changes a grade on evidence only, and misses no doubtful one.
ReviewSound == ChangeHasEvidence /\ NothingDoubtfulEscapes
=============================================================================
