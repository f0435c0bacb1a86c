---------------------------- MODULE MCExperiments ----------------------------
(***************************************************************************)
(* The experiments, model-checked in one run: the ledgers of generated     *)
(* answers, the review of gradings and the files of the synthetic suite    *)
(* (extended), the measurement windows of the decode benchmark, the        *)
(* records of the delayed-lookup probe and the audits across directories.  *)
(* They share no state; an initial state picks the one that runs.          *)
(***************************************************************************)
EXTENDS RunLedger, GradingReview, SynthRuns, Comparisons

VARIABLE active  \* the component that runs

\* The windows at 4 end before the first round, those at 9 behind it.
BothContexts == <<4, 9>>
BothModes == <<"throughput", "synchronized">>
MethodOrders ==
  {<<"native_dynamic", "native_preallocated", "compressed">>, <<"native_dynamic", "compressed">>,
   <<"compressed">>, <<"native_dynamic", "compressed", "native_preallocated">>}

\* The traces end before the first round, with it, and three rounds later.
FourGaps == <<0, 1, 2, 5>>
PolicyOrders == {<<"native", "recency_pp", "random_pp">>, <<"random_shared_pp", "native">>}

\* Answers end inside the uncompressed prefix of both cells, of one, or past a cap.
SharedPrefixes == [c \in {"C1", "C2"} |-> IF c = "C1" THEN 2 ELSE 4]

Outcome(boxed, final, ended, text) ==
  [boxed |-> boxed, final |-> final, ended |-> ended, text |-> text]

\* Two answers to one problem, of every kind the selection tells apart.
SameProblem == [x \in AnswerFiles |-> 1]
Outcomes ==
  {Outcome("none", FALSE, TRUE, 1), Outcome("gold", TRUE, TRUE, 1),
   Outcome("other", FALSE, FALSE, 1), Outcome("other", FALSE, TRUE, 2),
   Outcome("other", TRUE, FALSE, 1)}

\* One build and four arms reach a contrast of a replicated arm with both endpoints.
OneCell == <<"a1536_s2r">>
TwoSlices == {<<0, 3>>, <<1, 3>>}

\* The hypothesis of the theorem on ReportsComparable.
ASSUME NativeLeadsHere == NativeLeads

LedgerAtRest ==
  kind = "single" /\ overlong = {} /\ source = CHOOSE s \in Sources : TRUE
BenchAtRest == order = <<"compressed">>
ProbeAtRest == probeOrder = <<"random_shared_pp", "native">> /\ probeSource = source
AuditsAtRest ==
  pairStudy = "control" /\ departure = 2 /\ \A c \in DOMAIN ends : ends[c] = 2
ReviewAtRest ==
  study = "main" /\ \A x \in AnswerFiles : record[x] = Outcome("none", FALSE, TRUE, 1)

MCInit ==
  /\ active \in {"ledger", "bench", "probe", "audits", "review", "suite"}
  /\ Init /\ (active # "ledger" => LedgerAtRest)
  /\ BenchInit /\ (active # "bench" => BenchAtRest)
  /\ ProbeInit /\ (active # "probe" => ProbeAtRest)
  /\ AuditsInit /\ pairSource = "v1" /\ (active # "audits" => AuditsAtRest)
  /\ ReviewInit /\ (active # "review" => ReviewAtRest)
  /\ SuiteInit

LedgerRuns == active = "ledger" /\ Next
  /\ UNCHANGED <<active, benchVars, probeVars, auditsVars, reviewVars, suiteVars>>
BenchRuns == active = "bench" /\ BenchNext
  /\ UNCHANGED <<active, vars, probeVars, auditsVars, reviewVars, suiteVars>>
ProbeRuns == active = "probe" /\ ProbeNext
  /\ UNCHANGED <<active, vars, benchVars, auditsVars, reviewVars, suiteVars>>
AuditRuns == active = "audits" /\ AuditsNext
  /\ UNCHANGED <<active, vars, benchVars, probeVars, reviewVars, suiteVars>>
ReviewRuns == active = "review" /\ ReviewNext
  /\ UNCHANGED <<active, vars, benchVars, probeVars, auditsVars, suiteVars>>
SuiteRuns == active = "suite" /\ SuiteNext
  /\ UNCHANGED <<active, vars, benchVars, probeVars, auditsVars, reviewVars>>
MCNext == LedgerRuns \/ BenchRuns \/ ProbeRuns \/ AuditRuns \/ ReviewRuns \/ SuiteRuns

MCFairSpec ==
  /\ MCInit
  /\ [][MCNext]_<<active, vars, benchVars, probeVars, auditsVars, reviewVars, suiteVars>>
  /\ \A p \in Procs : WF_vars(active = "ledger" /\ Step(p))
  /\ WF_benchVars(active = "bench" /\ BenchWork)
  /\ WF_probeVars(active = "probe" /\ ProbeWork)

(* The properties are stated in the components' modules, those of the      *)
(* reports together in Comparisons.  Here: a command that is repeated      *)
(* finishes its directory.                                                 *)
StudiesFinish ==
  /\ active = "ledger" => Finishes
  /\ active = "bench" => BenchmarkFinishes
  /\ active = "probe" => ProbeFinishes
=============================================================================
