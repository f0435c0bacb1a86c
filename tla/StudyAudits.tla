---------------------------- MODULE StudyAudits ----------------------------
(***************************************************************************)
(* The audits that tie two directories of answers together.  In the        *)
(* "frontier" study of scripts/qwen35 the base directory is the published  *)
(* main study and the new one has further capacities, without native       *)
(* answers of its own; in the "control" study of scripts/qwen3_control the *)
(* base is the smoke phase and the new one the pilot, under a higher cap.  *)
(*                                                                         *)
(* An answer stands for both runs of a problem (RunLedger has the pairs,   *)
(* CacheAccounting the counts of a record).  Seeds fix its tokens: those   *)
(* sampled before the first round are the native ones.  A driver of the    *)
(* GPU is in no manifest, and may change the tokens from some step on.     *)
(* Nothing reads a report: a behaviour is followed up to its first one.    *)
(***************************************************************************)
EXTENDS Integers, FiniteSets, FiniteSetsExt

CONSTANTS
  Studies,     \* studies that may be under way
  ShortCap, LongCap,  \* --max-new-tokens of the smoke phase; of the others
  SharedLength, \* compressed cell -> tokens sampled before its first round
  Lengths,     \* lengths at which answers may end by themselves
  Departures,  \* steps from which the new driver's tokens may differ
  PairSources, \* versions of the source files
  MaxDisturbances, \* bound on edits, new drivers and removed records
  Nothing

Compressed == DOMAIN SharedLength

ASSUME StudyAssumption ==
  /\ Studies \subseteq {"frontier", "control"}
  /\ {ShortCap, LongCap} \subseteq Nat \ {0} /\ ShortCap < LongCap
  /\ Lengths \subseteq Nat \ {0} /\ Departures \subseteq Nat \ {0}
  /\ Compressed = {"C1", "C2"} /\ \A c \in Compressed : SharedLength[c] \in Nat \ {0, 1}

Dirs == {"base", "new"}

VARIABLES
  pairStudy, pairSource,
  driver,     \* 1, or 2 behind an update
  ends,       \* cell -> length of its answers
  departure,  \* first step whose token driver 2 changes
  pairManifest, \* directory -> the sources it was started with, or Nothing
  answers,    \* directory -> (problem, cell) -> driver of its answer
  baseline,   \* the main study's answers, as BASELINE_SHA has them, or Nothing
  snapshot,   \* [k, answers] of the first audit of a prefix of "new", or Nothing
  pairReport, \* [kind, base, new, seen] of the report, or Nothing
  disturbed

pairDisk == <<pairManifest, answers>>
pairSetting == <<pairStudy, ends, departure>>
auditsVars ==
  <<pairSetting, pairSource, driver, pairDisk, baseline, snapshot, pairReport, disturbed>>

Problems(d) == IF pairStudy = "control" /\ d = "base" THEN {1} ELSE {1, 2}
CellsOf(d) ==
  IF pairStudy = "control" THEN {"native", "C1"}
  ELSE IF d = "base" THEN {"native", "C1"} ELSE {"C2"}
Keys(d) == Problems(d) \X CellsOf(d)
Cap(d) == IF pairStudy = "control" /\ d = "base" THEN ShortCap ELSE LongCap

\* An answer that ended before its first round is the native one.
Natural(lengths) ==
  \A c \in Compressed :
    IF lengths["native"] <= SharedLength[c] THEN lengths[c] = lengths["native"]
    ELSE lengths[c] > SharedLength[c]

AuditsInit ==
  /\ pairStudy \in Studies /\ pairSource \in PairSources /\ driver = 1
  /\ ends \in {f \in [Compressed \cup {"native"} -> Lengths] : Natural(f)}
  /\ departure \in Departures
  /\ pairManifest = [d \in Dirs |-> Nothing] /\ answers = [d \in Dirs |-> << >>]
  /\ baseline = Nothing /\ snapshot = Nothing /\ pairReport = Nothing /\ disturbed = 0

Has(d, k) == k \in DOMAIN answers[d]
Whole(d) == DOMAIN answers[d] = Keys(d)

\* Problem by problem, native first.
Before(j, k) == j[1] < k[1] \/ (j[1] = k[1] /\ j[2] = "native" /\ k[2] # "native")

\* The runner goes through the keys in order and leaves answers that are there alone; it
\* refuses a directory that was started with other sources.
Generate(d) ==
  /\ pairManifest[d] \in {Nothing, pairSource}
  /\ \E k \in Keys(d) :
       /\ ~Has(d, k) /\ \A j \in Keys(d) : Before(j, k) => Has(d, j)
       /\ answers' = [answers EXCEPT ![d] =
            [j \in DOMAIN @ \cup {k} |-> IF j = k THEN driver ELSE @[j]]]
  /\ pairManifest' = [pairManifest EXCEPT ![d] = pairSource]
  /\ UNCHANGED <<pairSetting, pairSource, driver, baseline, snapshot, pairReport, disturbed>>

Disturb == disturbed < MaxDisturbances /\ disturbed' = disturbed + 1

EditSources ==
  /\ Disturb /\ pairSource' \in PairSources \ {pairSource}
  /\ UNCHANGED <<pairSetting, driver, pairDisk, baseline, snapshot, pairReport>>

Update ==
  /\ Disturb /\ driver = 1 /\ driver' = 2
  /\ UNCHANGED <<pairSetting, pairSource, pairDisk, baseline, snapshot, pairReport>>

\* A record is taken away by hand; the command, repeated, generates it anew.
RemoveAnswer(d) ==
  /\ Disturb
  /\ \E k \in DOMAIN answers[d] :
       answers' = [answers EXCEPT ![d] = [j \in DOMAIN @ \ {k} |-> @[j]]]
  /\ UNCHANGED <<pairSetting, pairSource, driver, pairManifest, baseline, snapshot, pairReport>>

-----------------------------------------------------------------------------
(* The tokens of an answer.                                                 *)

EndOf(c, drv) == IF drv = 2 /\ departure <= ends[c] THEN ends[c] + 1 ELSE ends[c]
Emitted(c, drv, cap) == Min({cap, EndOf(c, drv)})
Token(c, drv, i) ==
  [drawn |-> IF c # "native" /\ i > SharedLength[c] THEN c ELSE "native",
   under |-> IF i >= departure THEN drv ELSE 1,
   eos   |-> i = EndOf(c, drv)]
Terminated(c, drv, cap) == EndOf(c, drv) <= cap

Agree(c, drv, d, drvd, n) == \A i \in 1..n : Token(c, drv, i) = Token(d, drvd, i)

\* Mutant: one token more than those sampled from the whole context.
ComparedLong(c, drv, cap) == Min({Emitted("native", drv, cap), SharedLength[c] + 1})
\* check_prefix of analyze_frontier.py, audit of the control.
Compared(c, drv, cap) == Min({Emitted("native", drv, cap), SharedLength[c]})

PrefixHolds(c, drv, native, cap) ==
  LET n == Compared(c, native, cap) IN
  /\ Emitted(c, drv, cap) >= n
  /\ Agree(c, drv, "native", native, n)

-----------------------------------------------------------------------------
(* The audits.                                                              *)

\* The hashes in the manifest are those of the sources on the disk.
Frozen(d) == pairManifest[d] = pairSource

\* The first k problems of a directory are there: audit_progress.py,
\* audit_frontier_prefix.py, audit of the control with --problems.
Prefix(d, k) == {j \in Keys(d) : j[1] <= k}
There(d, k) == Prefix(d, k) \subseteq DOMAIN answers[d]

\* The native answer an audit lays beside an answer of this directory.
NativeDir(d) == IF "native" \in CellsOf(d) THEN d ELSE "base"
NativeOf(d, p) == answers[NativeDir(d)][<<p, "native">>]

PairsHold(d, k) ==
  \A j \in Prefix(d, k) : j[2] # "native" =>
    PrefixHolds(j[2], answers[d][j], NativeOf(d, j[1]), Cap(d))

\* Mutant: the data behind the published reference are not hashed.
ReferenceHoldsNever == baseline # Nothing /\ Whole("base") /\ Frozen("base")
\* load_reference: the hash of the main study, its audit, its sources.
ReferenceHolds ==
  baseline # Nothing /\ answers["base"] = baseline /\ Whole("base") /\ Frozen("base")

\* Without native answers of its own a directory is compared with the reference,
\* under the reference's settings.
Comparable(d) ==
  IF NativeDir(d) = d THEN TRUE
  ELSE ReferenceHolds /\ pairManifest[d] = pairManifest["base"]

\* Both studies: a prefix of a run that may still be under way.
AuditPrefix(k) ==
  /\ snapshot = Nothing
  /\ Frozen("new") /\ There("new", k) /\ Comparable("new") /\ PairsHold("new", k)
  /\ snapshot' = [k |-> k, answers |-> [j \in Prefix("new", k) |-> answers["new"][j]]]
  /\ UNCHANGED <<pairSetting, pairSource, driver, pairDisk, baseline, pairReport, disturbed>>

\* analyze_main.py, whose data hash analyze_frontier.py and its kin pin.
Publish ==
  /\ pairStudy = "frontier" /\ baseline = Nothing /\ Whole("base")
  /\ baseline' = answers["base"]
  /\ UNCHANGED <<pairSetting, pairSource, driver, pairDisk, snapshot, pairReport, disturbed>>

MakeReport(kind) ==
  /\ pairReport' = [kind |-> kind, base |-> answers["base"], new |-> answers["new"],
                seen |-> snapshot]
  /\ UNCHANGED <<pairSetting, pairSource, driver, pairDisk, baseline, snapshot, disturbed>>

\* preflight_frontier.py, before anything new is generated.
Preflight ==
  /\ pairStudy = "frontier" /\ ReferenceHolds /\ PairsHold("base", 2)
  /\ MakeReport("preflight")

AnalyzeFrontier ==
  /\ pairStudy = "frontier" /\ ReferenceHolds
  /\ Whole("new") /\ Frozen("new") /\ Comparable("new") /\ PairsHold("new", 2)
  /\ MakeReport("final")

\* check_prefix of audit_extension.py: the tokens of the shorter run, and its end.
ExtendsAnswer(c, short, long) ==
  LET n == Emitted(c, short, ShortCap) IN
  /\ Emitted(c, long, LongCap) >= n /\ Agree(c, short, c, long, n)
  /\ Terminated(c, short, ShortCap) =>
       Terminated(c, long, LongCap) /\ Emitted(c, long, LongCap) = n

\* audit_extension.py: the smoke answers go on, unchanged, in the pilot.
AuditExtension ==
  /\ pairStudy = "control"
  /\ Whole("base") /\ Frozen("base") /\ PairsHold("base", 1)
  /\ Frozen("new") /\ There("new", 1) /\ PairsHold("new", 1)
  /\ pairManifest["base"] = pairManifest["new"]
  /\ \A j \in Keys("base") : ExtendsAnswer(j[2], answers["base"][j], answers["new"][j])
  /\ MakeReport("extension")

\* Mutant: the earlier audit is not looked at.
UnchangedNever == snapshot # Nothing
Unchanged ==
  snapshot # Nothing /\ \A j \in DOMAIN snapshot.answers :
    Has("new", j) /\ answers["new"][j] = snapshot.answers[j]

\* audit_completed_pilot.py, and analyze_math.py --final.
AuditCompleted ==
  /\ pairStudy = "control" /\ Unchanged
  /\ Whole("new") /\ Frozen("new") /\ PairsHold("new", 2)
  /\ MakeReport("final")

AuditsNext == pairReport = Nothing /\
  \/ \E d \in Dirs : Generate(d) \/ RemoveAnswer(d)
  \/ EditSources \/ Update
  \/ \E k \in {1, 2} : AuditPrefix(k)
  \/ Publish \/ Preflight \/ AnalyzeFrontier \/ AuditExtension \/ AuditCompleted

AuditsSpec == AuditsInit /\ [][AuditsNext]_auditsVars

-----------------------------------------------------------------------------
Reported == pairReport # Nothing

Drivers == UNION {{answers[d][k] : k \in DOMAIN answers[d]} : d \in Dirs}

\* No honest answer is refused: answers of one driver, of each that has given any, hold
\* the prefix gates and the extension gate, wherever they end, before or at a cap or
\* before a round.
HonestAnswersPass ==
  \A drv \in Drivers :
    /\ \A c \in Compressed, cap \in {ShortCap, LongCap} : PrefixHolds(c, drv, drv, cap)
    /\ \A c \in Compressed \cup {"native"} : ExtendsAnswer(c, drv, drv)

\* Where a report lays an answer beside a native one, all tokens both have from
\* before the first round are the same: a change of driver escapes it only where
\* it shows behind the first round or the end of the answer.
ReportSeesDrift ==
  Reported /\ pairReport.kind = "final" =>
    \A j \in DOMAIN pairReport.new : j[2] # "native" =>
      LET native == IF pairStudy = "control" THEN pairReport.new[<<j[1], "native">>]
                    ELSE pairReport.base[<<j[1], "native">>]
      IN  native # pairReport.new[j] =>
            \/ departure > SharedLength[j[2]]
            \/ departure > Emitted("native", native, LongCap)

\* The smoke phase could have been cut out of the pilot.
ReportExtends ==
  Reported /\ pairReport.kind = "extension" =>
    \A j \in DOMAIN pairReport.base :
      LET c == j[2]
          long == pairReport.new[j]
          short == pairReport.base[j]
      IN  /\ Emitted(c, short, ShortCap) = Emitted(c, long, ShortCap)
          /\ Terminated(c, short, ShortCap) <=> Terminated(c, long, ShortCap)

\* A report is of the published data, and a final one of what was audited before.
ReportIsOfRecord ==
  Reported =>
    /\ pairStudy = "frontier" => pairReport.base = baseline
    /\ pairStudy = "control" /\ pairReport.kind = "final" =>
         /\ pairReport.seen # Nothing
         /\ \A j \in DOMAIN pairReport.seen.answers :
              pairReport.new[j] = pairReport.seen.answers[j]

ReportsStand == HonestAnswersPass /\ ReportSeesDrift /\ ReportExtends /\ ReportIsOfRecord
=============================================================================
