----------------------------- MODULE EvictLayer -----------------------------
(***************************************************************************)
(* One EvictLayer of kvcompress/engine/cache_utils.py through one          *)
(* generation: the prompt is appended in one forward pass, then every      *)
(* decode pass appends one token and may run an eviction round.            *)
(*                                                                         *)
(* The K/V row stored in a slot is represented by the absolute position of *)
(* the token it was computed from, which is also how the repository's own  *)
(* tests instrument the engine.  kv is that content; positions is the      *)
(* engine's own position buffer, kept only by the modes that need it.      *)
(* The batch dimension is dropped here: rows of a batch never interact in  *)
(* this class (module BatchGenerate models the rows).                      *)
(***************************************************************************)
EXTENDS KeepPolicies

CONSTANTS
  Modes,       \* the eviction modes under study, a subset of AllModes
  Prompts,     \* prompt lengths; a chat prompt has at least two tokens
  MaxTokens,   \* bound on the tokens of a generation
  TrackAll     \* KEEPLOG or FORCE_KEEP_RANGE is set: every mode tracks

(* Prompts are never a single token: that is what tells prefill from       *)
(* decode.                                                                 *)
ASSUME LayerAssumption ==
  /\ Modes \subseteq AllModes
  /\ Prompts \subseteq Nat \ {0, 1}
  /\ MaxTokens \in Nat
  /\ TrackAll \in BOOLEAN
  /\ ForceLo < ForceHi => TrackAll

VARIABLES
  mode,         \* self.MODE, fixed at construction
  kv,           \* head -> (slot -> absolute position of the row stored there)
  positions,    \* head -> (slot -> tracked absolute position)
  seqlen,       \* cache_seqlens
  cumulative,   \* cumulative_length
  promptLen,    \* prompt_len
  archivists,   \* _pmix_arch, drawn at the first eviction and persisted
  holders,      \* heads that pin a span; a rho span draws them once
  evicted       \* some eviction has run

vars == <<mode, kv, positions, seqlen, cumulative, promptLen, archivists,
          holders, evicted>>

Tracked ==
  \/ mode \in {"triattn_pl", "triattn_ph", "random_pcap", "synth_pin"}
  \/ TrackAll

Slots == 0..(seqlen - 1)
Empty == [h \in Heads |-> [s \in {} |-> 0]]

(* k_cache is allocated for max(prompt_len, token_budget) + residual rows. *)
MaxCacheLen == Most(promptLen, Budget) + Residual

Init ==
  /\ mode \in Modes
  /\ kv = Empty /\ positions = Empty
  /\ seqlen = 0 /\ cumulative = 0 /\ promptLen = 0
  /\ archivists = {}
  /\ holders = [sp \in Spans |-> IF sp.rho THEN {} ELSE sp.heads]
  /\ evicted = FALSE

(* The buffer after n new rows are written behind the current ones.        *)
Appended(buf, n) ==
  [h \in Heads |-> [s \in 0..(seqlen + n - 1) |->
     IF s < seqlen THEN buf[h][s] ELSE cumulative + (s - seqlen)]]

(* Faulty variant: the length of the prompt pass is not counted.           *)
PrefillUncounted(p) ==
  /\ seqlen = 0
  /\ kv' = Appended(kv, p)
  /\ positions' = IF Tracked THEN Appended(positions, p) ELSE positions
  /\ seqlen' = 1 /\ cumulative' = 1 /\ promptLen' = p
  /\ UNCHANGED <<mode, archivists, holders, evicted>>

(* The prompt's forward pass: allocate, append, remember prompt_len.       *)
Prefill(p) ==
  /\ seqlen = 0
  /\ kv' = Appended(kv, p)
  /\ positions' = IF Tracked THEN Appended(positions, p) ELSE positions
  /\ seqlen' = p /\ cumulative' = p /\ promptLen' = p
  /\ UNCHANGED <<mode, archivists, holders, evicted>>

(* Faulty variants: every token past the budget; only past the buffer.     *)
EvictionDueEveryToken(len) == len > Budget
EvictionDuePastBuffer(len) == len > Budget + Residual /\ len % Residual = 0

EvictionDue(len) == len > Budget /\ len % Residual = 0

(* Faulty variant: every round draws the roles again.                      *)
DrawRolesEveryRound ==
  /\ IF mode = "random_pmix"
     THEN archivists' \in (SUBSET Heads) \ {{}}
     ELSE UNCHANGED archivists
  /\ UNCHANGED holders

(* Roles that the first eviction draws and later ones reuse.               *)
DrawRoles ==
  IF evicted
  THEN UNCHANGED <<archivists, holders>>
  ELSE /\ IF mode = "random_pmix"
          THEN archivists' \in (SUBSET Heads) \ {{}}
          ELSE UNCHANGED archivists
       /\ IF mode = "synth_pin"
          THEN holders' \in {d \in [Spans -> SUBSET Heads] : \A sp \in Spans :
                               IF sp.rho THEN d[sp] \subseteq sp.heads
                                         ELSE d[sp] = sp.heads}
          ELSE UNCHANGED holders

(* f is a sorted top-k that head h may get from its n candidates.          *)
IsChoice(f, h, n, pos) ==
  IsTopK(f, n, [s \in 0..(n - 1) |->
     Priority(mode, h, n, s, pos[h][s], promptLen, archivists', holders')])

(* Faulty variant: the residual slice is one row too old.                  *)
CompactedOldResidual(buf, ids, len) ==
  [h \in Heads |-> [s \in 0..(Budget - 1) |->
     IF s < KeepCount THEN buf[h][ids[h][s]] ELSE buf[h][len - Budget + s - 1]]]

(* Gather the kept candidates into [0, K) and move the residual rows       *)
(* behind them into [K, Budget).                                           *)
Compacted(buf, ids, len) ==
  [h \in Heads |-> [s \in 0..(Budget - 1) |->
     IF s < KeepCount THEN buf[h][ids[h][s]] ELSE buf[h][len - Budget + s]]]

(* Faulty variant: the positions of the residual are not moved.            *)
RunEvictionStalePositions(full, fullPos, len) ==
  /\ DrawRoles
  /\ \E ids \in [Heads -> Ascending(len - Residual)] :
       /\ \A h \in Heads : IsChoice(ids[h], h, len - Residual, fullPos)
       /\ mode \in SharedModes => \A g, h \in Heads : ids[g] = ids[h]
       /\ kv' = Compacted(full, ids, len)
       /\ positions' =
            IF ~Tracked THEN positions
            ELSE [h \in Heads |-> [s \in 0..(Budget - 1) |->
                    IF s < KeepCount THEN fullPos[h][ids[h][s]] ELSE fullPos[h][s]]]
  /\ seqlen' = Budget
  /\ evicted' = TRUE

RunEviction(full, fullPos, len) ==
  /\ DrawRoles
  /\ \E ids \in [Heads -> Ascending(len - Residual)] :
       /\ \A h \in Heads : IsChoice(ids[h], h, len - Residual, fullPos)
       /\ mode \in SharedModes => \A g, h \in Heads : ids[g] = ids[h]
       /\ kv' = Compacted(full, ids, len)
       /\ positions' = IF Tracked THEN Compacted(fullPos, ids, len) ELSE positions
  /\ seqlen' = Budget
  /\ evicted' = TRUE

(* One decode pass: append the token, stamp it, evict when due.            *)
Decode ==
  /\ seqlen > 0 /\ cumulative < MaxTokens
  /\ cumulative' = cumulative + 1
  /\ LET full    == Appended(kv, 1)
         fullPos == IF Tracked THEN Appended(positions, 1) ELSE positions
     IN  IF EvictionDue(seqlen + 1)
         THEN RunEviction(full, fullPos, seqlen + 1)
         ELSE /\ kv' = full /\ positions' = fullPos /\ seqlen' = seqlen + 1
              /\ UNCHANGED <<archivists, holders, evicted>>
  /\ UNCHANGED <<mode, promptLen>>

Next == \/ \E p \in Prompts : Prefill(p)
        \/ Decode

Spec == Init /\ [][Next]_vars
-----------------------------------------------------------------------------
(* Types: the buffers are functions on exactly the live slots.             *)
TypeOK ==
  /\ mode \in Modes
  /\ seqlen \in Nat /\ cumulative \in Nat /\ promptLen \in Nat
  /\ kv \in [Heads -> [Slots -> Nat]]
  /\ positions \in [Heads -> [IF Tracked THEN Slots ELSE {} -> Nat]]
  /\ archivists \subseteq Heads
  /\ holders \in [Spans -> SUBSET Heads]
  /\ evicted \in BOOLEAN

(* Universal chronological compaction: in every mode and every head the    *)
(* rows are stored in strictly increasing token order, so that a slot      *)
(* index can stand for age in the modes that score by index.               *)
Chronological ==
  \A h \in Heads : \A s, t \in Slots : s < t => kv[h][s] < kv[h][t]

(* Prompt protection survives any number of rounds: slot s of the pinned   *)
(* prefix still holds the row of token s.  Pinning is by slot, so this is  *)
(* what makes "keep the first slots" mean "keep the first tokens".         *)
PinnedPrefixIntact ==
  \A h \in Heads : \A s \in Slots :
    s < PinnedPrefix(mode, h, promptLen, archivists) => kv[h][s] = s

(* The guaranteed window: after a round, the newest rows of every head are *)
(* the residual and, in front of it, the tail the mode pins; a mode that   *)
(* scores by age keeps a true sliding window behind the prompt.            *)
GuaranteedTail(h) ==
  Residual + IF AgeScored(mode, h)
             THEN KeepCount - PinnedPrefix(mode, h, promptLen, archivists)
             ELSE PinnedTail(mode, h, promptLen)

(* After a round, the newest rows of every head are its guaranteed tail,   *)
(* without a gap.                                                          *)
WindowIsNewest ==
  evicted => \A h \in Heads : \A s \in Slots :
               s >= seqlen - GuaranteedTail(h) => kv[h][s] = cumulative - seqlen + s

(* The tracked positions describe the rows: both buffers are compacted by  *)
(* the same gather and the same move, whatever the mode keeps.             *)
PositionsDescribeRows ==
  Tracked => positions = kv

(* Rows below this position have been candidates of some round.            *)
Judged == cumulative - seqlen + KeepCount

Holds(h, p) == \E s \in Slots : kv[h][s] = p

(* random_pcap: the designated subsample of a capped prompt never decays.  *)
CappedPromptIntact ==
  mode = "random_pcap" =>
    \A h \in Heads : \A p \in 0..(promptLen - 1) :
      Designated(mode, h, p, promptLen, holders) => Holds(h, p)

(* synth_pin: once a span's token has been a candidate, the heads holding  *)
(* it are exactly the heads that pin it.                                   *)
SpanCopiesExact ==
  mode = "synth_pin" /\ evicted =>
    \A sp \in Spans : \A p \in sp.lo..(sp.hi - 1) :
      p < Judged => \A h \in Heads : Holds(h, p) <=> h \in holders[sp]

(* Every write stays inside the preallocated buffers, however long the     *)
(* prompt is and however late the round after it comes.                    *)
WithinCapacity == seqlen > 0 => seqlen <= MaxCacheLen

(* A round moves the residual without overlap: its rows lie behind their   *)
(* destination, which is what the plain slice copies need.                 *)
ResidualMoveDisjoint ==
  [][seqlen > 0 /\ seqlen' <= seqlen => seqlen + 1 - Residual >= Budget]_vars

(* The layer implements the retention promise: what a head dropped stays   *)
(* dropped, and the pinned prefix is settled by the first round.           *)
Promise == INSTANCE RetentionCache
  WITH Limit <- Budget, Window <- Residual, seen <- cumulative,
       held <- [h \in Heads |-> {kv[h][s] : s \in Slots}],
       pin <- [h \in Heads |-> IF evicted
                               THEN PinnedPrefix(mode, h, promptLen, archivists)
                               ELSE 0],
       trimmed <- evicted

(* Every behaviour of the layer is a behaviour of the retention promise.   *)
ImplementsPromise == Promise!Spec

\* What the buffers say of a tracked layer is true: they have entries for exactly the
\* live rows, every stamp is its row's token, and a capped prompt is still whole.
TrackedPromptIntact == TypeOK /\ PositionsDescribeRows /\ CappedPromptIntact
=============================================================================
