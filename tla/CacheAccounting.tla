-------------------------- MODULE CacheAccounting --------------------------
(***************************************************************************)
(* The closed forms by which the auditors of the Qwen3.5 and Qwen3-control *)
(* experiments judge a record, long after the cache is gone, against the   *)
(* layer that evicts step by step: scripts/qwen35/analyze_math.py,         *)
(* analyze_frontier.py, analyze_retrieval_probe.py, analyze_efficiency.py  *)
(* and scripts/qwen3_control/analyze_math.py.  All layers of a model evict *)
(* alike, so the counts are those of one layer.                            *)
(***************************************************************************)
EXTENDS Qwen35Layer

\* The record of a generation is taken between the post-hook of a pass and the
\* next pass: n sampled tokens leave prompt + n - 1 of them in the cache.
Measured == policy # "none" /\ hooked /\ phase = "forward" /\ logicalLength > 0
Sampled == logicalLength - promptLength + 1

\* Mutant: a round is expected with every block of tokens past the capacity.
AuditedEventsEager(logical) ==
  IF logical < Capacity THEN 0 ELSE (logical - Capacity + Recent) \div Recent

\* max(0, (logical - capacity) // recent)
AuditedEvents(logical) ==
  IF logical < Capacity THEN 0 ELSE (logical - Capacity) \div Recent

\* final_physical_lengths of the control, and the bound of analyze_math.py.
AuditedLength(logical) == logical - Recent * AuditedEvents(logical)

\* check_prefix: tokens a compressed generation must share with the native one.
\* Mutant: one more.
SharedPrefixLong(prompt) == Capacity + Recent - prompt + 2
SharedPrefix(prompt) == Capacity + Recent - prompt + 1

\* Retained positions of a span, and those the probe compares across heads.
Held(h) == {positions[h][s] : s \in Slots}
HeldOf(h, first, end) == Held(h) \cap first..(end - 1)
Older(h) == HeldOf(h, promptLength, logicalLength - Recent)

\* Mutant: forgotten one token early.
AuditedForgottenEarly(end) ==
  /\ logicalLength - Recent >= Capacity
  /\ end <= logicalLength - (Capacity - promptLength)

\* analyze_retrieval_probe.py: strict recency has dropped a span that ends here.
AuditedForgotten(end) ==
  /\ logicalLength - Recent >= Capacity
  /\ end <= logicalLength - (Capacity - promptLength + Recent)

-----------------------------------------------------------------------------
\* No honest record fails an audit, whenever the generation ended: the number of
\* rounds and the rows left are the ones computed from the lengths alone.
RecordsPassAudit ==
  Measured =>
    /\ promptLength < Capacity - Recent
    /\ events = AuditedEvents(logicalLength)
    /\ length = AuditedLength(logicalLength) /\ length <= Capacity + Recent

\* The prefix gate compares exactly the tokens that were sampled from the whole
\* context: all of those it names, and the next one no longer was.
PrefixGateExact ==
  policy # "none" /\ hooked /\ phase = "hook" =>
    (Sampled <= SharedPrefix(promptLength) <=>
       \A h \in Heads : {rows[h][s] : s \in Slots} = 0..(logicalLength - 1))

\* The probe's retention counts: everything before the first round, nothing of a
\* span that strict recency must have dropped, and equal sets in all heads where
\* the policy chooses one set.
ProbeCountsPass ==
  Measured =>
    /\ AuditedEvents(logicalLength) = 0 =>
         \A h \in Heads : Held(h) = 0..(logicalLength - 1)
    /\ policy = "recency_pp" =>
         \A h \in Heads, end \in promptLength..logicalLength :
           AuditedForgotten(end) => HeldOf(h, promptLength, end) = {}
    /\ policy \in {"recency_pp", "random_shared_pp"} =>
         \A g, h \in Heads : Older(g) = Older(h)

\* The closed forms of the audits (rounds and lengths, common prefix, forgotten rows)
\* are what every generation does.
AuditsAgree == RecordsPassAudit /\ PrefixGateExact /\ ProbeCountsPass
=============================================================================
