---------------------------- MODULE KeepPolicies ----------------------------
(***************************************************************************)
(* The eviction policies of kvcompress/engine/cache_utils.py, as pure      *)
(* operators.  An eviction round of one layer sees n candidate slots       *)
(* 0..n-1 (everything but the Residual newest slots) and keeps KeepCount   *)
(* of them in every KV head.  Every mode ends in a top-k over a score row, *)
(* with +inf for what the mode pins and -inf for what it blacklists, so a  *)
(* mode is modelled by the PRIORITY it gives a slot: top-k takes slots of  *)
(* higher priority first and is free among equals.  A score computed from  *)
(* random draws, attention or key/value magnitudes is one priority class   *)
(* (any order of those slots is possible); an index used as a score        *)
(* ("recency") is a priority per slot.                                     *)
(***************************************************************************)
EXTENDS Integers, FiniteSets

CONSTANTS
  Heads,        \* the KV heads of the layer
  Budget,       \* token_budget
  Residual,     \* residual_length: the newest slots, never candidates
  NumSink,      \* n_sink
  PmixSmall,    \* PMIX_SMALL
  PromptCap,    \* PROMPT_CAP
  PlanPrefix,   \* PLAN_PREFIX
  MinScatter,   \* the 64 slots random_ppp leaves for scatter
  RecentKeep,   \* round(rkv_lambda * K), the tail of random_pp_rec
  TailPercent,  \* 100 * SOFTMIX_Q
  Carriers,     \* CARRIER_HEADS
  Spans,        \* SYNTH_SPEC for this layer: records [lo, hi, heads, rho]
  ForceLo,      \* FORCE_KEEP_RANGE is ForceLo..ForceHi-1; empty when unset
  ForceHi

(* init_evict_configs refuses budgets that are not a larger multiple of    *)
(* the residual length.                                                    *)
ASSUME BudgetAssumption ==
  /\ Budget \in Nat \ {0} /\ Residual \in Nat \ {0}
  /\ Residual < Budget /\ Budget % Residual = 0

(* The parameters of the modes are in the ranges their flags document.     *)
ASSUME PolicyAssumption ==
  /\ NumSink \in 0..(Budget - Residual)
  /\ PmixSmall \in Nat /\ PromptCap \in Nat /\ PlanPrefix \in Nat
  /\ MinScatter \in 0..(Budget - Residual)
  /\ RecentKeep \in Nat /\ TailPercent \in 0..100
  /\ Carriers \subseteq Heads
  /\ ForceLo \in Nat /\ ForceHi \in Nat
  /\ \A sp \in Spans : /\ sp.lo \in Nat /\ sp.hi \in Nat
                        /\ sp.heads \subseteq Heads /\ sp.rho \in BOOLEAN
  /\ \A sp, other \in Spans : sp = other \/ sp.hi <= other.lo \/ other.hi <= sp.lo

Least(a, b) == IF a <= b THEN a ELSE b
Most(a, b) == IF a <= b THEN b ELSE a

KeepCount == Budget - Residual

(* Prompt tokens a *_pp mode can protect: at least one slot stays free.    *)
Protected(promptLen) == Least(promptLen, KeepCount - 1)

(***************************************************************************)
(* The modes, by what they pin.  FreeModes pin nothing and SinkModes the   *)
(* first n_sink slots; every other mode but random_pcap and synth_pin      *)
(* pins a prefix of slots that starts at the prompt.                       *)
(***************************************************************************)
FreeModes ==
  {"attn", "attn_rkv", "rkv_official", "range_attn", "range_sample_attn",
   "evict_large_range", "attn_sample", "attn_random", "random", "recency",
   "caote", "cusa", "triattn"}
SinkModes ==
  {"range_sink_sample_attn", "var_sink_sample_attn", "l2_sink_sample_attn",
   "cur_fixed_gauss", "cur_resample_gauss"}
PromptModes ==
  {"random_pp", "random_unified", "segment_pp", "segment_pp_rot", "recency_pp",
   "random_pp_rec", "random_block_pp", "attn_pp", "attn_rkv_pp", "mix_step_pp",
   "mix_head_pp", "union_topk_pp", "random_strat_pp", "random_cluster_pp",
   "range_sink_sample_attn_pp", "caote_pp", "triattn_pp", "triattn_pl",
   "triattn_ph", "carrier_mix", "anti_mix", "carrier_softmix", "anti_softmix",
   "random_pmix", "random_ppp"}
PositionModes == {"random_pcap", "synth_pin"}
AllModes == FreeModes \cup SinkModes \cup PromptModes \cup PositionModes

(* Modes that make one choice for all heads of the layer.                  *)
SharedModes == {"random_unified", "cusa"}

(* How many leading slots mode m pins in head h.                           *)
PinnedPrefix(m, h, promptLen, archivists) ==
  LET pl == Protected(promptLen)
  IN  CASE m \in FreeModes \cup PositionModes -> 0
        [] m \in SinkModes -> NumSink
        [] m = "random_pmix" /\ h \notin archivists -> Least(PmixSmall, pl)
        [] m = "random_ppp" -> Least(pl + PlanPrefix, KeepCount - MinScatter)
        [] OTHER -> pl

(* int(round(0.25 * K)), Python's round-half-to-even, and at least 1.      *)
CusaReserve ==
  LET q == KeepCount \div 4
      r == KeepCount % 4
  IN  Most(1, IF r = 3 \/ (r = 2 /\ q % 2 = 1) THEN q + 1 ELSE q)

(* Heads whose score is the slot index itself.                             *)
AgeScored(m, h) ==
  \/ m \in {"recency", "recency_pp"}
  \/ m = "carrier_mix" /\ h \notin Carriers
  \/ m = "anti_mix" /\ h \in Carriers

(* How many trailing candidate slots mode m pins in head h.                *)
PinnedTail(m, h, promptLen) ==
  LET free == KeepCount - Protected(promptLen)
  IN  CASE m = "random_pp_rec" -> Least(RecentKeep, free)
        [] \/ m = "carrier_softmix" /\ h \notin Carriers
           \/ m = "anti_softmix" /\ h \in Carriers -> (TailPercent * free) \div 100
        [] m = "cusa" -> CusaReserve
        [] OTHER -> 0

InSpan(sp, p) == sp.lo <= p /\ p < sp.hi

(* Membership by tracked absolute position p rather than by slot.          *)
Designated(m, h, p, promptLen, holders) ==
  LET pl  == Protected(promptLen)
      cap == Least(PromptCap, pl)
  IN  \/ m = "random_pcap" /\ \/ p < cap
                              \/ cap <= p /\ p < pl /\ (p - cap) % 2 = 0
      \/ m = "random_pp" /\ ForceLo < ForceHi /\ ForceLo <= p /\ p < ForceHi
      \/ m = "synth_pin" /\ \E sp \in Spans : InSpan(sp, p) /\ h \in holders[sp]

(* Faulty variant: spans are pinned but never blacklisted elsewhere.       *)
BlacklistedNever(m, h, p, holders) == FALSE

Blacklisted(m, h, p, holders) ==
  m = "synth_pin" /\ \E sp \in Spans : InSpan(sp, p) /\ h \notin holders[sp]

(* Faulty variant: the designated prompt subsample is recognised by slot.  *)
PriorityBySlot(m, h, n, s, p, promptLen, archivists, holders) ==
  IF \/ s < PinnedPrefix(m, h, promptLen, archivists)
     \/ s >= n - PinnedTail(m, h, promptLen)
     \/ Designated(m, h, s, promptLen, holders)
  THEN n
  ELSE IF Blacklisted(m, h, p, holders) THEN -1
  ELSE IF AgeScored(m, h) THEN s ELSE 0

(* Faulty variant: the pinned tail starts one slot too late.               *)
PriorityShortTail(m, h, n, s, p, promptLen, archivists, holders) ==
  IF \/ s < PinnedPrefix(m, h, promptLen, archivists)
     \/ s > n - PinnedTail(m, h, promptLen)
     \/ Designated(m, h, p, promptLen, holders)
  THEN n
  ELSE IF Blacklisted(m, h, p, holders) THEN -1
  ELSE IF AgeScored(m, h) THEN s ELSE 0

(* The priority of candidate slot s of head h, which holds position p; n   *)
(* is the number of candidates and stands for +inf, -1 for -inf.           *)
Priority(m, h, n, s, p, promptLen, archivists, holders) ==
  IF \/ s < PinnedPrefix(m, h, promptLen, archivists)
     \/ s >= n - PinnedTail(m, h, promptLen)
     \/ Designated(m, h, p, promptLen, holders)
  THEN n
  ELSE IF Blacklisted(m, h, p, holders) THEN -1
  ELSE IF AgeScored(m, h) THEN s ELSE 0

(* Faulty variant: topk's own order, newest first for a score by index.    *)
Descending(n) ==
  {f \in [0..(KeepCount - 1) -> 0..(n - 1)] :
     \A i, j \in 0..(KeepCount - 1) : i < j => f[i] > f[j]}

(* Ascending index vectors: what torch.sort makes of a top-k result.       *)
Ascending(n) ==
  {f \in [0..(KeepCount - 1) -> 0..(n - 1)] :
     \A i, j \in 0..(KeepCount - 1) : i < j => f[i] < f[j]}

Kept(f) == {f[i] : i \in 0..(KeepCount - 1)}

(* f selects a top-k of the priority row prio over slots 0..n-1.           *)
IsTopK(f, n, prio) ==
  \A s \in 0..(n - 1) \ Kept(f) : \A t \in Kept(f) : prio[s] <= prio[t]
=============================================================================
