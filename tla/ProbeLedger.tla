---------------------------- MODULE ProbeLedger ----------------------------
(***************************************************************************)
(* The delayed-lookup probe: scripts/qwen35/run_retrieval_probe.py forces  *)
(* one trace (a fact, a gap of filler, a query) through every cell, counts *)
(* which rows of the fact are left before the last query token and scores  *)
(* the answer; analyze_retrieval_probe.py audits the records.  The native  *)
(* scores of a trace are the reference for the cells that evicted nothing, *)
(* read back from the native record when the command is repeated.  The     *)
(* lock admits one process; a crash loses the trace that is being scored.  *)
(***************************************************************************)
EXTENDS Integers, Sequences, FiniteSets

CONSTANTS
  ProbeOrders,  \* --cells: sequences of policies
  Gaps,         \* --gaps, a sequence
  Cases,        \* --cases
  ProbePrompt, Fact, Query,  \* tokens of the prompt, the fact, the query
  Value,        \* offset of the value in the fact; the value ends with the fact
  ProbeCapacity, ProbeRecent,  \* of the cells that evict
  ProbeSources, \* versions of the source files
  MaxProbeCrashes, MaxProbeEdits,  \* bounds
  NoTrace       \* no file, nothing in memory

Policies == {"native", "recency_pp", "random_shared_pp", "random_pp"}
Heads == {1, 2}

\* Case by case, gap by gap, cell by cell.
Visits == (1..Cases) \X (DOMAIN Gaps)

Retention == [fact : [Heads -> Nat], value : [Heads -> Nat], alike : BOOLEAN]
TraceRecords ==
  [before : Nat, rounds : Nat, retained : Retention, native : BOOLEAN,
   compared : Visits \cup {NoTrace}]

\* make_case, main, and the prompt check of EvictionLayer.update.
ASSUME ProbeAssumption ==
  /\ Cases \in Nat \ {0} /\ Gaps \in Seq(Nat) /\ Len(Gaps) > 0
  /\ {Value, Fact, ProbePrompt, ProbeCapacity} \subseteq Nat /\ Value < Fact
  /\ {Query, ProbeRecent} \subseteq Nat \ {0} /\ ProbePrompt < ProbeCapacity - ProbeRecent
  /\ ProbeOrders \subseteq Seq(Policies) \ {<< >>}
  /\ \A o \in ProbeOrders : \A i, j \in DOMAIN o : o[i] = o[j] => i = j
  /\ NoTrace \notin TraceRecords /\ NoTrace \notin Visits

VARIABLES
  probeOrder,     \* the cells of this directory
  probeSource,    \* source files on the disk
  probeManifest,  \* their versions in manifest.json, or NoTrace
  probeRecord,    \* policy -> <<case, gap>> -> its record, or NoTrace
  probeReference, \* trace whose native scores are in memory, or NoTrace
  probePc, probeAt, probeCell,  \* where the process is: its trace, its cell
  probeCrashes, probeEdits

probeDisk == <<probeManifest, probeRecord>>
probeRun  == <<probeReference, probeAt, probeCell>>
probeVars == <<probeOrder, probeSource, probeDisk, probeRun, probePc, probeCrashes, probeEdits>>

ProbeInit ==
  /\ probeOrder \in ProbeOrders /\ probeSource \in ProbeSources /\ probeManifest = NoTrace
  /\ probeRecord = [policy \in Policies |-> [v \in Visits |-> NoTrace]]
  /\ probeReference = NoTrace /\ probePc = "idle" /\ probeAt = <<1, 1>> /\ probeCell = 1
  /\ probeCrashes = 0 /\ probeEdits = 0

-----------------------------------------------------------------------------
(* score_trace on the cache of kvcompress/qwen35/cache.py                   *)

Trace(v) == Fact + Gaps[v[2]] + Query
FactRows == ProbePrompt..(ProbePrompt + Fact - 1)
ValueRows == (ProbePrompt + Value)..(ProbePrompt + Fact - 1)

\* The rows a round may leave of those of one head.
Survivors(policy, rows, newest) ==
  LET pinned == {x \in rows : x < ProbePrompt \/ x > newest - ProbeRecent}
      kept   == {k \in SUBSET (rows \ pinned) : Cardinality(pinned \cup k) = ProbeCapacity}
  IN  {pinned \cup k : k \in
         IF policy = "recency_pp"
         THEN {k \in kept : \A x \in k, y \in (rows \ pinned) \ k : y < x}
         ELSE kept}

\* A token joins the rows of a head; the one that fills the store brings on a round.
Follow(policy, store, token) ==
  LET rows == store.rows \cup {token} IN
  IF policy # "native" /\ Cardinality(rows) = ProbeCapacity + ProbeRecent
  THEN {[rounds |-> store.rounds + 1, rows |-> kept] : kept \in Survivors(policy, rows, token)}
  ELSE {[rounds |-> store.rounds, rows |-> rows]}

\* The stores one head may have once so many tokens are cached; all agree on the rounds.
Cached(policy, length) ==
  LET After[n \in ProbePrompt..length] ==
        IF n = ProbePrompt THEN {[rounds |-> 0, rows |-> 0..(ProbePrompt - 1)]}
        ELSE UNION {Follow(policy, store, n - 1) : store \in After[n - 1]}
  IN  After[length]

RoundsRun(policy, length) == (CHOOSE store \in Cached(policy, length) : TRUE).rounds

\* Retention is read before the last query token.
Snapshot(v) == ProbePrompt + Trace(v) - 1

\* Heads that choose alone, or all alike.
Holdings(policy, rows) ==
  IF policy = "random_pp" THEN [Heads -> rows] ELSE {[h \in Heads |-> r] : r \in rows}

\* retained(): the older generated rows of the heads are compared as sets.
Older(rows, v) == {x \in rows : ProbePrompt <= x /\ x < Snapshot(v) - ProbeRecent}

Retained(held, v) ==
  [fact  |-> [h \in Heads |-> Cardinality(held[h] \cap FactRows)],
   value |-> [h \in Heads |-> Cardinality(held[h] \cap ValueRows)],
   alike |-> \A g, h \in Heads : Older(held[g], v) = Older(held[h], v)]

\* What a snapshot may show: the counts of the fact, and whether all rows are there.
Shown(policy, v) ==
  {[retained |-> Retained(held, v),
    native   |-> policy = "native" \/ \A h \in Heads : held[h] = 0..(Snapshot(v) - 1)] :
     held \in Holdings(policy, {store.rows : store \in Cached(policy, Snapshot(v))})}

-----------------------------------------------------------------------------
(* main                                                                     *)

Policy == probeOrder[probeCell]

\* The settings, source hashes included, must be those of the manifest.
ProbeStart ==
  /\ probePc = "idle" /\ probeManifest \in {NoTrace, probeSource}
  /\ probeManifest' = probeSource
  /\ probePc' = "visit" /\ probeAt' = <<1, 1>> /\ probeCell' = 1 /\ probeReference' = NoTrace
  /\ UNCHANGED <<probeOrder, probeSource, probeRecord, probeCrashes, probeEdits>>

\* Mutant: the next trace keeps the reference of the last.
ReferenceAtTraceKept(carried) == carried
ReferenceAtTrace(carried) == NoTrace

ProbeAdvance(carried) ==
  IF probeCell < Len(probeOrder)
  THEN probeCell' = probeCell + 1 /\ probeReference' = carried /\ UNCHANGED <<probePc, probeAt>>
  ELSE /\ probeCell' = 1 /\ probeReference' = ReferenceAtTrace(carried)
       /\ IF probeAt[2] < Len(Gaps)
          THEN probeAt' = <<probeAt[1], probeAt[2] + 1>> /\ probePc' = "visit"
          ELSE IF probeAt[1] < Cases
          THEN probeAt' = <<probeAt[1] + 1, 1>> /\ probePc' = "visit"
          ELSE probeAt' = probeAt /\ probePc' = "finished"

\* Mutant: a record that is there is passed over.
ReadBackNever == probeReference
\* A record that is there is the reference if it is native.
ReadBack == IF Policy = "native" THEN probeAt ELSE probeReference

ProbeSkip ==
  /\ probePc = "visit" /\ probeRecord[Policy][probeAt] # NoTrace
  /\ ProbeAdvance(ReadBack)
  /\ UNCHANGED <<probeOrder, probeSource, probeManifest, probeRecord, probeCrashes, probeEdits>>

\* The last token is scored on the rows of the snapshot: with all of them its
\* scores are the native ones.
TraceRecord(policy, v, shown) ==
  LET rounds == RoundsRun(policy, ProbePrompt + Trace(v)) IN
  [before |-> RoundsRun(policy, Snapshot(v)), rounds |-> rounds,
   retained |-> shown.retained, native |-> shown.native,
   compared |-> IF policy # "native" /\ rounds = 0 THEN probeReference ELSE NoTrace]

Score ==
  /\ probePc = "visit" /\ probeRecord[Policy][probeAt] = NoTrace
  /\ \E shown \in Shown(Policy, probeAt) :
       probeRecord' = [probeRecord EXCEPT ![Policy][probeAt] =
         TraceRecord(Policy, probeAt, shown)]
  /\ ProbeAdvance(IF Policy = "native" THEN probeAt ELSE probeReference)
  /\ UNCHANGED <<probeOrder, probeSource, probeManifest, probeCrashes, probeEdits>>

ProbeCrash ==
  /\ probePc = "visit" /\ probeCrashes < MaxProbeCrashes
  /\ probeCrashes' = probeCrashes + 1 /\ probePc' = "idle"
  /\ UNCHANGED <<probeOrder, probeSource, probeDisk, probeRun, probeEdits>>

\* The sources are edited while nothing runs.
ProbeEdit ==
  /\ probePc # "visit" /\ probeEdits < MaxProbeEdits
  /\ probeSource' \in ProbeSources \ {probeSource} /\ probeEdits' = probeEdits + 1
  /\ UNCHANGED <<probeOrder, probeDisk, probeRun, probePc, probeCrashes>>

ProbeWork == ProbeStart \/ ProbeSkip \/ Score
ProbeNext == ProbeWork \/ ProbeCrash \/ ProbeEdit

ProbeSpec == ProbeInit /\ [][ProbeNext]_probeVars
ProbeFairSpec == ProbeSpec /\ WF_probeVars(ProbeWork)

-----------------------------------------------------------------------------
(* analyze_retrieval_probe.py                                               *)

\* Mutant: rounds counted up to the last token.
AuditedRoundsAll(policy, length) ==
  IF policy = "native" \/ length < ProbeCapacity THEN 0
  ELSE (length - ProbeCapacity + 1) \div ProbeRecent

AuditedRounds(policy, length) ==
  IF policy = "native" \/ length < ProbeCapacity THEN 0
  ELSE (length - ProbeCapacity) \div ProbeRecent

\* Strict recency must have dropped the fact.
MustForget(v) ==
  /\ Snapshot(v) - ProbeRecent >= ProbeCapacity
  /\ ProbePrompt + Fact <= Snapshot(v) - (ProbeCapacity - ProbePrompt + ProbeRecent)

RecordAccepted(policy, v) ==
  LET r == probeRecord[policy][v] IN
  /\ r.before = AuditedRounds(policy, Snapshot(v))
  /\ r.rounds = AuditedRounds(policy, ProbePrompt + Trace(v))
  /\ \A h \in Heads : r.retained.value[h] <= r.retained.fact[h]
  /\ policy \in {"native", "recency_pp", "random_shared_pp"} => r.retained.alike
  /\ r.before = 0 =>
       \A h \in Heads : r.retained.fact[h] = Fact /\ r.retained.value[h] = Fact - Value
  /\ policy = "recency_pp" /\ MustForget(v) => \A h \in Heads : r.retained.fact[h] = 0

InOrder(policy) == \E i \in DOMAIN probeOrder : probeOrder[i] = policy

PairAccepted(policy, v) ==
  InOrder("native") /\ probeRecord[policy][v].rounds = 0 => probeRecord[policy][v].native

ProbeRecords == {x \in Policies \X Visits : probeRecord[x[1]][x[2]] # NoTrace}

AuditPasses ==
  /\ probeSource = probeManifest
  /\ ProbeRecords = {p \in Policies : InOrder(p)} \X Visits
  /\ \A x \in ProbeRecords : RecordAccepted(x[1], x[2]) /\ PairAccepted(x[1], x[2])

-----------------------------------------------------------------------------
\* Whatever crashed in between, every record passes the audit of its counts: the
\* rounds before and behind the last query token, all rows where there were none,
\* no row of the fact where strict recency has passed it, alike where heads share.
CountsPassAudit == \A x \in ProbeRecords : RecordAccepted(x[1], x[2])

\* A cell that evicted nothing was held against the native scores of its own trace
\* whenever these came first, in this run or in one before it.
ComparedWithOwn ==
  \A x \in ProbeRecords :
    LET r == probeRecord[x[1]][x[2]] IN
    /\ r.compared \in {NoTrace, x[2]}
    /\ (x[1] # "native" /\ r.rounds = 0 /\
        \E i, j \in DOMAIN probeOrder : i < j /\ probeOrder[i] = "native" /\ probeOrder[j] = x[1])
       => r.compared = x[2]

\* A finished probe passes the audit for as long as its sources stay.
FinishedPasses == probePc = "finished" /\ probeSource = probeManifest => AuditPasses

ProbeSound == CountsPassAudit /\ ComparedWithOwn /\ FinishedPasses

\* The command, repeated, finishes unless the sources move for good.
ProbeFinishes == <>[](probeManifest \in {NoTrace, probeSource}) => <>(probePc = "finished")
=============================================================================
