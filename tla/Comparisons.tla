---------------------------- MODULE Comparisons ----------------------------
(***************************************************************************)
(* What the experiments on top of the math runs publish: the windows of    *)
(* the decode benchmark, the records of the delayed-lookup probe and the   *)
(* answers an audit of two directories ties together.  The three share no  *)
(* state; each compares its methods with native answers of the same run,   *)
(* the same trace or the same seed.                                        *)
(***************************************************************************)
EXTENDS BenchmarkLedger, ProbeLedger, StudyAudits

\* Over any number of crashes, repeated commands, edits and updates of the driver, the
\* reports of a benchmark are comparable, the records of the probe pass their audit, and
\* the reports on two directories stand.
ReportsComparable == BenchmarkComparable /\ ProbeSound /\ ReportsStand
=============================================================================
