-------------------------- MODULE BenchmarkLedger --------------------------
(***************************************************************************)
(* scripts/qwen35/benchmark_decode.py on one batch size: every method      *)
(* decodes the same tokens through the same measurement windows, and the   *)
(* logits of native_dynamic are the reference the others are compared      *)
(* with.  The reference is a file of its own beside the methods' reports,  *)
(* kept over crashes and resumes (run_retrieval_probe.py keeps it in the   *)
(* native record).  analyze_efficiency.py audits the reports.              *)
(***************************************************************************)
EXTENDS Integers, Sequences, FiniteSets, FiniteSetsExt

CONSTANTS
  BenchOrders,            \* --cells: sequences of methods
  Contexts,               \* --contexts, ascending
  Steps, Repeats, Modes,  \* steps of a window; windows per context and mode
  BenchPrompt,            \* length of the prompt
  BenchCapacity, BenchRecent,  \* of the compressed method
  MaxBenchCrashes,        \* bound on the crashes
  NoRun                   \* no file, nothing in memory

\* Mutant: the modes' windows are not counted.
WidthNarrow == Steps * Repeats
Width == Steps * Repeats * Len(Modes)
Maximum == Contexts[Len(Contexts)] + Width

Methods == {"native_dynamic", "native_preallocated", "compressed"}
WindowKeys == (DOMAIN Contexts) \X (1..Repeats) \X (DOMAIN Modes)
Windows == [key : WindowKeys, start : Nat, end : Nat, compared : Nat \cup {NoRun}]

\* What parse_cell, schedule and main assert of the arguments.
ASSUME ScheduleAssumption ==
  /\ Modes \in Seq({"throughput", "synchronized"})
  /\ {Steps, Repeats, Len(Modes), Len(Contexts)} \subseteq Nat \ {0}
  /\ Contexts \in Seq(Nat) /\ BenchPrompt \in Nat
  /\ \A i \in 1..(Len(Contexts) - 1) : Contexts[i] + Width <= Contexts[i + 1]
  /\ Contexts[1] > BenchPrompt
  /\ {BenchCapacity, BenchRecent} \subseteq Nat \ {0} /\ BenchCapacity > BenchRecent
  /\ BenchOrders \subseteq Seq(Methods)
  /\ \A o \in BenchOrders : \A i \in DOMAIN o :
       o[i] = "native_preallocated" => \E j \in 1..(i - 1) : o[j] = "native_dynamic"
  /\ NoRun \notin Nat
  /\ NoRun \notin [windows : Seq(Windows), reference : Nat \cup {NoRun}]

VARIABLES
  order,      \* the methods of this benchmark
  report,     \* method -> its windows and reference, or NoRun
  stored,     \* run whose logits native_logits.pt holds, or NoRun
  reference,  \* run whose logits are in memory, or NoRun
  runs,       \* runs started
  benchPc, benchAt,     \* where the process is; index of its method
  position,   \* logical position of the cache
  windows,    \* windows measured in this run
  benchCrashes

benchDisk == <<report, stored>>
benchRun  == <<reference, runs, position, windows>>
benchVars == <<order, benchDisk, benchRun, benchPc, benchAt, benchCrashes>>

BenchInit ==
  /\ order \in BenchOrders
  /\ report = [m \in Methods |-> NoRun] /\ stored = NoRun
  /\ reference = NoRun /\ runs = 0
  /\ benchPc = "idle" /\ benchAt = 1 /\ position = 0 /\ windows = << >>
  /\ benchCrashes = 0

Method == order[benchAt]

BenchStart ==
  /\ benchPc = "idle" /\ benchPc' = "visit" /\ benchAt' = 1 /\ reference' = NoRun
  /\ UNCHANGED <<order, report, stored, runs, position, windows, benchCrashes>>

\* Mutant: a resume leaves the reference on the disk.
LoadedNever == reference

\* A resume reads the reference behind the report that names it.
LoadedReference == IF Method = "native_dynamic" THEN stored ELSE reference

BenchSkip ==
  /\ benchPc = "visit" /\ benchAt <= Len(order) /\ report[Method] # NoRun
  /\ Method = "native_dynamic" => stored = report[Method].reference
  /\ reference' = LoadedReference
  /\ benchAt' = benchAt + 1
  /\ UNCHANGED <<order, report, stored, runs, benchPc, position, windows, benchCrashes>>

Begin ==
  /\ benchPc = "visit" /\ benchAt <= Len(order) /\ report[Method] = NoRun
  /\ benchPc' = "measure" /\ runs' = runs + 1
  /\ position' = BenchPrompt /\ windows' = << >>
  /\ UNCHANGED <<order, report, stored, reference, benchAt, benchCrashes>>

\* Rounds of eviction up to a position (CacheAccounting shows the closed form);
\* the native methods have none: preallocation reserves the whole trace.
Rounds(m, end) ==
  IF m # "compressed" \/ end < BenchCapacity THEN 0 ELSE (end - BenchCapacity) \div BenchRecent

\* The windows come context by context, repeat by repeat, mode by mode.
KeyOf(i) ==
  LET perContext == Repeats * Len(Modes)
      within == (i - 1) % perContext
  IN  <<(i - 1) \div perContext + 1, within \div Len(Modes) + 1, (within % Len(Modes)) + 1>>

\* Mutant: the history is not decoded up to the context before a measurement.
WarmedNot(key) == position
\* Decoding runs on to the next context, and never back.
Warmed(key) == Max({position, Contexts[key[1]]})

Measure ==
  LET key   == KeyOf(Len(windows) + 1)
      start == Warmed(key)
      end   == start + Steps
      compared == reference # NoRun /\
        (Method = "native_preallocated" \/ (Method = "compressed" /\ Rounds(Method, end) = 0))
  IN
  /\ benchPc = "measure" /\ Len(windows) < Repeats * Len(Modes) * Len(Contexts)
  /\ IF Method = "native_preallocated" /\ reference = NoRun
     THEN benchPc' = "idle" /\ UNCHANGED <<position, windows>>
     ELSE /\ position' = end
          /\ windows' = Append(windows, [key |-> key, start |-> start, end |-> end,
               compared |-> IF compared THEN reference ELSE NoRun])
          /\ benchPc' = benchPc
  /\ UNCHANGED <<order, report, stored, reference, runs, benchAt, benchCrashes>>

\* Mutant: the report does not wait for the reference it names.
MayReportEarly == TRUE
\* The reference is durable before the report that names it.
MayReport == Method = "native_dynamic" => stored = runs

Measured == benchPc = "measure" /\ Len(windows) = Repeats * Len(Modes) * Len(Contexts)

SaveReference ==
  /\ Measured /\ Method = "native_dynamic" /\ stored # runs
  /\ stored' = runs /\ reference' = runs
  /\ UNCHANGED <<order, report, runs, benchPc, benchAt, position, windows, benchCrashes>>

WriteReport ==
  /\ Measured /\ MayReport
  /\ report' = [report EXCEPT ![Method] =
       [windows |-> windows, reference |-> IF Method = "native_dynamic" THEN runs ELSE NoRun]]
  /\ benchPc' = "visit" /\ benchAt' = benchAt + 1
  /\ UNCHANGED <<order, stored, reference, runs, position, windows, benchCrashes>>

BenchFinish ==
  /\ benchPc = "visit" /\ benchAt > Len(order) /\ benchPc' = "finished"
  /\ UNCHANGED <<order, benchDisk, benchRun, benchAt, benchCrashes>>

BenchCrash ==
  /\ benchPc \notin {"idle", "finished"} /\ benchCrashes < MaxBenchCrashes
  /\ benchCrashes' = benchCrashes + 1 /\ benchPc' = "idle"
  /\ UNCHANGED <<order, benchDisk, benchRun, benchAt>>

BenchWork ==
  \/ BenchStart \/ BenchSkip \/ Begin \/ Measure
  \/ SaveReference \/ WriteReport \/ BenchFinish
BenchNext == BenchWork \/ BenchCrash

BenchSpec == BenchInit /\ [][BenchNext]_benchVars
BenchFairSpec == BenchSpec /\ WF_benchVars(BenchWork)

-----------------------------------------------------------------------------
(* analyze_efficiency.py                                                    *)

\* Mutant: repeats counted without the modes between them.
AuditedStartDense(key) == Contexts[key[1]] + (key[2] - 1 + key[3] - 1) * Steps

AuditedStart(key) ==
  Contexts[key[1]] + ((key[2] - 1) * Len(Modes) + (key[3] - 1)) * Steps

Listed(m) == \E i \in DOMAIN order : order[i] = m

WindowAccepted(m, w) ==
  /\ w.start = AuditedStart(w.key) /\ w.end = w.start + Steps
  /\ m = "native_preallocated" => w.compared # NoRun
  /\ m = "compressed" /\ Rounds(m, w.end) = 0 /\ Listed("native_dynamic") => w.compared # NoRun

ReportAccepted(m) ==
  /\ {report[m].windows[i].key : i \in DOMAIN report[m].windows} = WindowKeys
  /\ Len(report[m].windows) = Cardinality(WindowKeys)
  /\ \A i \in DOMAIN report[m].windows : WindowAccepted(m, report[m].windows[i])

\* --cells is not checked for the place of the compressed method: an order in which
\* native_dynamic comes behind it leaves windows without a reference.
NativeLeads ==
  \A o \in BenchOrders : \A i, j \in DOMAIN o :
    o[i] = "native_dynamic" /\ o[j] = "compressed" => i < j

-----------------------------------------------------------------------------
\* Reports written over any number of crashes pass the audit: every window once,
\* where the closed form has it, and compared wherever nothing was evicted.
ReportsPassAudit == \A m \in Methods : report[m] # NoRun => ReportAccepted(m)

\* A report names the reference on the disk, so that no resume refuses it and all
\* methods were compared with logits of one run.
OneReference ==
  /\ report["native_dynamic"] # NoRun => report["native_dynamic"].reference = stored
  /\ \A m \in Methods : report[m] # NoRun =>
       \A i \in DOMAIN report[m].windows : report[m].windows[i].compared \in {NoRun, stored}

\* The windows of a run never overlap and never leave the prepared trace.
WindowsDisjoint ==
  /\ \A i, j \in DOMAIN windows : i < j => windows[i].end <= windows[j].start
  /\ position <= Maximum

\* Repeating the command finishes the benchmark.
BenchmarkFinishes == <>(benchPc = "finished")

\* Reports a reader may compare: audited, of one reference, with windows that keep apart.
BenchmarkComparable == ReportsPassAudit /\ OneReference /\ WindowsDisjoint
=============================================================================
