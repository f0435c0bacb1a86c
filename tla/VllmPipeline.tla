---------------------------- MODULE VllmPipeline ----------------------------
(***************************************************************************)
(* The vLLM port (scripts/vllm_rp_bench): TriAttentionScheduler plans      *)
(* steps, TriAttentionModelRunner executes them, and the two keep separate *)
(* books of one thing, the blocks that hold a request's compacted cache.   *)
(* The batch queue lets the scheduler plan the next steps before the       *)
(* worker's compression events of earlier ones have come back.             *)
(*                                                                         *)
(*   Schedule   scheduler: allocate blocks, build signals, enqueue a step  *)
(*   Execute    worker: consume signals, compress, shrink the rows, forward*)
(*   Update     scheduler: requests end, compression events are applied    *)
(*                                                                         *)
(* Lengths and block ids are kept exactly; which rows a round keeps is the *)
(* business of EvictLayer.  One KV-cache group, prefix caching off and no  *)
(* preemption, as the benchmark scripts run it.                            *)
(***************************************************************************)
EXTENDS Integers, FiniteSets, SequencesExt

CONSTANTS
  NumRequests,    \* requests 1..NumRequests, served in this order
  PromptLengths,  \* the prompt lengths a request may have
  MaxLength,      \* tokens of a request, prompt included
  BlockSize, NumBlocks,
  MaxScheduled,   \* max_num_scheduled_tokens
  MaxRowBlocks,   \* max_num_blocks_per_req of the worker's table
  KvBudget, DivideLength,
  Grace,          \* TRIATTN_RESERVE_GRACE
  ReserveCap,     \* block_size - 1 of the real blocks
  GuardMultiples, \* effective_len_guard_divide_multiples
  RegressionPercent, \* effective_len_regression_ratio
  Lookahead       \* steps in flight at once

ASSUME PipelineAssumption ==
  /\ {NumRequests, BlockSize, DivideLength, Lookahead, MaxScheduled} \subseteq Nat \ {0}
  /\ {MaxLength, NumBlocks, MaxRowBlocks, KvBudget, Grace, ReserveCap,
      GuardMultiples, RegressionPercent} \subseteq Nat
  /\ ReserveCap < BlockSize /\ BlockSize <= DivideLength
  /\ \A p \in PromptLengths : p \in 1..MaxLength

Requests == 1..NumRequests
NoSignal == [sent |-> FALSE, fires |-> FALSE, est |-> 0, tokens |-> 0]
None == "none"
NoLag == -1

VARIABLES
  prompt,   \* length of each request's prompt
  status,   \* "waiting", "running" or "finished", as the scheduler sees it
  nct,      \* num_computed_tokens, advanced when a step is planned
  manager,  \* req_to_blocks: the scheduler's block list
  free,     \* the block pool
  offset,   \* _triattention_effective_kv_offset, 0 when absent
  lag,      \* effective-length tracker: num_computed - effective, or NoLag
  step,     \* _triattention_step
  ended,    \* finished ids the worker has not been told
  queue,    \* steps planned and not yet taken back by the scheduler
  row,      \* the worker's block ids
  seen,     \* num_computed_tokens of the worker's request state
  curLen,   \* current_cache_len of the runtime state
  lastStep, \* last_compression_step, -1 before the first round
  shift,    \* cache_len_after - num_computed of the last round, 0 before it
  kv,       \* how many cache rows the worker holds for the request
  error     \* the RuntimeError raised, if any

schedulerVars == <<status, nct, manager, free, offset, lag, step, ended>>
workerVars == <<row, seen, curLen, lastStep, shift, kv>>
vars == <<prompt, schedulerVars, queue, workerVars, error>>

Lesser(a, b) == IF a < b THEN a ELSE b
Greater(a, b) == IF a < b THEN b ELSE a
Blocks(tokens) == (tokens + BlockSize - 1) \div BlockSize

\* What the requests served before r take of a shared supply, each its f[q].
Before(f, r) == Cardinality(UNION {{q} \X (1..f[q]) : q \in 1..(r - 1)})

Init ==
  /\ prompt \in [Requests -> PromptLengths]
  /\ status = [r \in Requests |-> "waiting"]
  /\ nct = [r \in Requests |-> 0]
  /\ manager = [r \in Requests |-> <<>>]
  /\ free = 1..NumBlocks
  /\ offset = [r \in Requests |-> 0]
  /\ lag = [r \in Requests |-> NoLag]
  /\ step = 0 /\ ended = {} /\ queue = <<>>
  /\ row = [r \in Requests |-> <<>>]
  /\ seen = [r \in Requests |-> 0]
  /\ curLen = [r \in Requests |-> 0]
  /\ lastStep = [r \in Requests |-> -1]
  /\ shift = [r \in Requests |-> 0]
  /\ kv = [r \in Requests |-> 0]
  /\ error = None

-----------------------------------------------------------------------------
(* The scheduler plans a step.                                              *)

\* budget + divide_length: the prompt is counted inside the budget.
Threshold == KvBudget + DivideLength

\* prepare_request_effective_num_computed, read by the block allocator.
OffsetUsable(r) == offset[r] > 0 /\ nct[r] >= offset[r]
Effective(r) == IF OffsetUsable(r) THEN nct[r] - offset[r] ELSE nct[r]

\* _compute_max_chunk_for_compression.
StepTokens ==
  LET headroom == NumBlocks * BlockSize - KvBudget
  IN  IF headroom <= 0 THEN MaxScheduled
      ELSE Lesser(MaxScheduled, Greater(1, headroom - BlockSize))

\* The base scheduler: what a request still has to compute, served in order
\* until the step's tokens are used up.
Wanted(r) == IF nct[r] < prompt[r] THEN prompt[r] - nct[r]
             ELSE IF nct[r] < MaxLength THEN 1 ELSE 0

Granted(S) ==
  LET wanted == [r \in Requests |-> IF r \in S THEN Wanted(r) ELSE 0]
  IN  [r \in Requests |-> Lesser(wanted[r], Greater(0, StepTokens - Before(wanted, r)))]

\* The blocks allocate_slots adds so that the effective length fits.
Missing(r, g) == IF g[r] = 0 THEN 0
                 ELSE Greater(0, Blocks(Effective(r) + g[r]) - Len(manager[r]))

\* The pool hands its blocks out in order: the k-th block of request r is the
\* one whose rank among the free ones is Turn(g, r, k).
Rank(b) == Cardinality({c \in free : c <= b})
Turn(g, r, k) == Before([q \in Requests |-> Missing(q, g)], r) + k

Enough(g) ==
  \A r \in Requests : \A k \in 1..Missing(r, g) : \E b \in free : Rank(b) = Turn(g, r, k)

Allocated(g) ==
  [r \in Requests |-> [k \in 1..Missing(r, g) |->
     CHOOSE b \in free : Rank(b) = Turn(g, r, k)]]

\* _build_signals: the base length is read after the plan advanced it.
Signal(r, g, now) ==
  LET base == IF lag[r] = NoLag THEN now[r] ELSE now[r] - lag[r]
      est == base + g[r]
  IN  IF g[r] > 0 /\ (est >= Threshold \/ lag[r] # NoLag)
      THEN [sent |-> TRUE, fires |-> est >= Threshold, est |-> est, tokens |-> g[r]]
      ELSE NoSignal

\* _sync_prefill_lens: the tracker restarts with a new request and forgets one
\* that ended.
TrackerSynced(admitted) ==
  [r \in Requests |-> IF r \in admitted \cup ended THEN NoLag ELSE lag[r]]

\* No step is planned behind one whose compression the queue must drain.
Drained == Len(queue) < Lookahead /\ \A i \in DOMAIN queue : ~queue[i].barrier

\* schedule: admit waiting requests, allocate, advance, signal, enqueue.
Schedule ==
  /\ error = None /\ Drained
  /\ \E new \in SUBSET {r \in Requests : status[r] = "waiting"} :
       LET S == new \cup {r \in Requests : status[r] = "running"}
           g == Granted(S)
           blocks == Allocated(g)
           now == [r \in Requests |-> nct[r] + g[r]]
           signals == [r \in Requests |-> Signal(r, g, now)]
           admitted == {r \in new : g[r] > 0}
       IN  /\ \E r \in S : g[r] > 0
           /\ Enough(g)
           /\ status' = [r \in Requests |-> IF r \in admitted THEN "running" ELSE status[r]]
           /\ nct' = now
           /\ manager' = [r \in Requests |-> manager[r] \o blocks[r]]
           /\ free' = free \ UNION {Range(blocks[r]) : r \in Requests}
           /\ offset' = [r \in Requests |-> IF status[r] = "running" /\ ~OffsetUsable(r)
                                            THEN 0 ELSE offset[r]]
           /\ lag' = TrackerSynced(admitted)
           /\ step' = step + 1
           /\ queue' = Append(queue, [
                step |-> step + 1, tokens |-> g, pre |-> nct, blocks |-> blocks,
                signals |-> signals, ended |-> ended, done |-> FALSE, events |-> {},
                barrier |-> \E r \in Requests : signals[r].fires])
           /\ ended' = {}
  /\ UNCHANGED <<prompt, workerVars, error>>

-----------------------------------------------------------------------------
(* The worker executes a step.                                              *)

\* compression_count > 0: only an applied round makes the shift negative.
Compressed(r) == shift[r] < 0

\* consume_runner_signals: a signal refreshes the worker's length estimate.
Heard(s) == [r \in Requests |-> IF s.signals[r].sent THEN s.signals[r].est ELSE curLen[r]]

\* The tokens the blocks of a request hold.
Capacity(r) == Len(row[r]) * BlockSize

\* The worker's own view of the length: its running estimate once the request
\* was compressed, before that the capacity of its block table.
OwnLength(r, s) ==
  IF Compressed(r) /\ Heard(s)[r] > 0 THEN Heard(s)[r] + Greater(1, s.tokens[r])
  ELSE Capacity(r)

\* _supplement_worker_self_triggers.
SelfTriggers(r, s) ==
  /\ s.tokens[r] > 0 /\ row[r] # <<>>
  /\ ~(s.signals[r].fires /\ s.signals[r].tokens <= 1)
  /\ OwnLength(r, s) >= Threshold

Supplemented(s) ==
  [r \in Requests |->
     IF SelfTriggers(r, s)
     THEN [sent |-> TRUE, fires |-> TRUE, est |-> OwnLength(r, s), tokens |-> s.tokens[r]]
     ELSE s.signals[r]]

\* The batch-queue dedup guard of execute_runner_compression_actions.
Deduplicated(r, s, sig) ==
  Compressed(r) /\ lastStep[r] >= 0 /\ s.step - lastStep[r] <= 1 /\ sig.tokens <= 1

\* build_hook_runtime_context, pre-forward.
Estimate(r, s, sig) == IF Compressed(r) /\ Heard(s)[r] > 0 THEN Heard(s)[r] ELSE sig.est

\* Mutant: the logical length is taken for the compacted one.
HookTokensLogical(r, s, sig) == seen[r]
HookTokens(r, s, sig) ==
  LET pending == Greater(0, Estimate(r, s, sig) - sig.tokens)
  IN  Lesser(Lesser(pending, seen[r]), Capacity(r) + BlockSize)

\* Mutant: no grace for the step planned before the event comes back.
ReserveNoGrace(r, sig, total) ==
  LET wish == Lesser(Greater(1, sig.tokens), ReserveCap)
  IN  IF total - wish < prompt[r] THEN 0 ELSE wish

Reserve(r, sig, total) ==
  LET wish == Lesser(Greater(1, sig.tokens) + Grace, ReserveCap)
  IN  IF total - wish < prompt[r] THEN 0 ELSE wish

BudgetTotal(r, s, sig) ==
  LET total == Lesser(HookTokens(r, s, sig), KvBudget)
      reserve == Reserve(r, sig, total)
  IN  IF total > reserve THEN total - reserve ELSE total

Defers(r, s, sig) ==
  Compressed(r) /\ Estimate(r, s, sig) < BudgetTotal(r, s, sig) + DivideLength

\* The effective-length regression guard of the hook.
GuardUpper == KvBudget + GuardMultiples * DivideLength

Regressed(r, s, sig) ==
  LET slack == BlockSize + Greater(1, sig.est - seen[r]) + Greater(1, sig.tokens)
  IN  /\ Compressed(r) /\ seen[r] >= prompt[r]
      /\ HookTokens(r, s, sig) > GuardUpper + slack /\ seen[r] > GuardUpper + slack
      /\ 100 * HookTokens(r, s, sig) >= RegressionPercent * seen[r]

\* The random_pp selector: nothing to do under the budget, and no selection at
\* all (a clean no-op) when the protected prompt does not fit.
Selects(r, s, sig) ==
  HookTokens(r, s, sig) > BudgetTotal(r, s, sig) /\ prompt[r] <= BudgetTotal(r, s, sig)

Applies(r, s) ==
  LET sig == Supplemented(s)[r]
  IN  /\ sig.fires /\ row[r] # <<>>
      /\ ~Deduplicated(r, s, sig) /\ ~Defers(r, s, sig) /\ Selects(r, s, sig)

Kept(r, s) == BudgetTotal(r, s, Supplemented(s)[r])

\* The event sent back: block ids before and after, and the step's own count.
Event(r, s) ==
  [req |-> r, len |-> Kept(r, s), pre |-> s.pre[r], tokens |-> Supplemented(s)[r].tokens,
   before |-> Len(row[r]),
   after |-> IF Blocks(Kept(r, s)) < Len(row[r])
             THEN SubSeq(row[r], 1, Blocks(Kept(r, s))) ELSE <<>>]

\* The rows shrink before the base runner appends the step's new blocks, which
\* are trimmed to the table's width for compressed requests.
Row(r, s) ==
  LET shrunk == IF Applies(r, s) /\ Event(r, s).after # <<>> THEN Event(r, s).after ELSE row[r]
      room == IF Compressed(r) \/ Applies(r, s)
              THEN Greater(0, MaxRowBlocks - Len(shrunk)) ELSE Len(s.blocks[r])
  IN  IF s.tokens[r] = 0 THEN shrunk
      ELSE shrunk \o SubSeq(s.blocks[r], 1, Lesser(room, Len(s.blocks[r])))

\* RequestStateStore: a finished request's state goes, a round that was applied
\* rebases the lengths on what it kept, a skipped one leaves the round's step alone.
CurLenAfter(r, s) == IF r \in s.ended THEN 0
                     ELSE IF Applies(r, s) THEN Kept(r, s) + s.tokens[r] ELSE Heard(s)[r]
\* Mutants: a skip arms the dedup guard too; the token count is kept for the step.
LastStepOnSkip(r, s) == IF r \in s.ended THEN -1
                        ELSE IF Supplemented(s)[r].fires THEN s.step ELSE lastStep[r]
LastStepTokens(r, s) == IF r \in s.ended THEN -1
                        ELSE IF Applies(r, s) THEN s.pre[r] ELSE lastStep[r]
LastStepAfter(r, s) == IF r \in s.ended THEN -1
                       ELSE IF Applies(r, s) THEN s.step ELSE lastStep[r]
\* Mutant: the length already advanced past the step is recorded.
ShiftLate(r, s) == IF r \in s.ended THEN 0
                   ELSE IF Applies(r, s) THEN Kept(r, s) - s.pre[r] - s.tokens[r] ELSE shift[r]
ShiftAfter(r, s) == IF r \in s.ended THEN 0
                    ELSE IF Applies(r, s) THEN Kept(r, s) - s.pre[r] ELSE shift[r]

\* What the forward pass leaves in the cache: one row per scheduled token on top
\* of what a round kept.
RowsHeld(r, s) == IF r \in s.ended THEN 0
                  ELSE (IF Applies(r, s) THEN Kept(r, s) ELSE kv[r]) + s.tokens[r]

\* In strict mode an exception of the hook ends the engine.
Fatal(s) ==
  \E r \in Requests : LET sig == Supplemented(s)[r] IN
    sig.fires /\ row[r] # <<>> /\ ~Deduplicated(r, s, sig) /\ Regressed(r, s, sig)

\* execute_model, with the events attached to its own or to sample_tokens' output.
Execute ==
  /\ error = None
  /\ \E i \in DOMAIN queue :
       LET s == queue[i]
           hit == {r \in Requests \ s.ended : Applies(r, s)}
       IN  /\ ~s.done /\ \A j \in 1..(i - 1) : queue[j].done
           /\ error' = IF Fatal(s) THEN "effective_len_regressed" ELSE None
           /\ row' = [r \in Requests |-> IF r \in s.ended THEN <<>> ELSE Row(r, s)]
           /\ seen' = [r \in Requests |-> IF s.tokens[r] > 0 THEN s.pre[r] ELSE seen[r]]
           /\ curLen' = [r \in Requests |-> CurLenAfter(r, s)]
           /\ lastStep' = [r \in Requests |-> LastStepAfter(r, s)]
           /\ shift' = [r \in Requests |-> ShiftAfter(r, s)]
           /\ kv' = [r \in Requests |-> RowsHeld(r, s)]
           /\ queue' = [queue EXCEPT ![i] = [s EXCEPT
                !.done = TRUE,
                !.events = {Event(r, s) : r \in hit},
                !.barrier = @ \/ \E r \in Requests : SelfTriggers(r, s)]]
  /\ UNCHANGED <<prompt, schedulerVars>>

-----------------------------------------------------------------------------
(* The scheduler takes the step back.                                       *)

\* An event counts only while its request lives.
AppliedEvents(s, over) ==
  {e \in s.events : status[e.req] = "running" /\ e.req \notin over}

\* The effective-length tracker, from the live token count.
TrackedLag(e) == nct[e.req] - e.len

\* A reclaim payload is checked against the scheduler's own list.
Mismatched(e) ==
  /\ e.after # <<>>
  /\ \/ Len(e.after) > Len(manager[e.req])
     \/ ~IsPrefix(e.after, manager[e.req])

\* With a payload the blocks appended after the hook ran are kept; without one
\* the list is cut to the length, which only a decode step may do.
\* Mutants: blocks appended since are dropped; they stay but are freed as well.
ReassembledShort(e) ==
  LET m == manager[e.req]
  IN  IF e.after # <<>> THEN SubSeq(m, 1, Len(e.after))
      ELSE IF e.tokens <= 1 THEN SubSeq(m, 1, Lesser(Blocks(e.len), Len(m))) ELSE m
RemovedTail(e) ==
  IF e.after = <<>> THEN {}
  ELSE Range(SubSeq(manager[e.req], Len(e.after) + 1, Len(manager[e.req])))

Reassembled(e) ==
  LET m == manager[e.req]
  IN  IF e.after # <<>>
      THEN SubSeq(m, 1, Len(e.after)) \o SubSeq(m, e.before + 1, Len(m))
      ELSE IF e.tokens <= 1 THEN SubSeq(m, 1, Lesser(Blocks(e.len), Len(m))) ELSE m

Removed(e) == Range(manager[e.req]) \ Range(Reassembled(e))

\* Removed blocks, and those of ended requests, go back to the pool.
Returned(over, applied) ==
  free \cup (UNION {Range(manager[r]) : r \in over})
       \cup (UNION {Removed(e) : e \in applied})

\* update_request_effective_kv_offset_anchored: both terms of the event's own step.
AnchoredOffset(pre, len) == Greater(0, pre - len)

\* A round that freed nothing leaves the offset alone.
\* Mutant: the offset of the unpatched port, from the live token count.
AnchoredLive(e) == IF Removed(e) = {} THEN offset[e.req] ELSE Greater(0, nct[e.req] - e.len)
Anchored(e) == IF Removed(e) = {} THEN offset[e.req] ELSE AnchoredOffset(e.pre, e.len)

\* update_from_output: requests end first, then the events of those that live on.
Update ==
  /\ error = None /\ queue # <<>> /\ Head(queue).done
  /\ LET s == Head(queue)
         sampled == {r \in Requests : /\ status[r] = "running" /\ s.tokens[r] > 0
                                      /\ s.pre[r] + s.tokens[r] >= prompt[r]}
         full == {r \in sampled : s.pre[r] + s.tokens[r] = MaxLength}
     IN  \E over \in {F \in SUBSET sampled : full \subseteq F} :
           LET applied == AppliedEvents(s, over)
               event(r) == CHOOSE e \in applied : e.req = r
               hit == {e.req : e \in applied}
           IN  /\ error' = IF \E e \in applied : Mismatched(e) THEN "block_reclaim" ELSE None
               /\ status' = [r \in Requests |-> IF r \in over THEN "finished" ELSE status[r]]
               /\ manager' = [r \in Requests |->
                    IF r \in over THEN <<>>
                    ELSE IF r \in hit THEN Reassembled(event(r)) ELSE manager[r]]
               /\ free' = Returned(over, applied)
               /\ offset' = [r \in Requests |->
                    IF r \in hit THEN Anchored(event(r)) ELSE offset[r]]
               /\ lag' = [r \in Requests |->
                    IF r \in hit THEN TrackedLag(event(r)) ELSE lag[r]]
               /\ ended' = ended \cup over
  /\ queue' = Tail(queue)
  /\ UNCHANGED <<prompt, nct, step, workerVars>>

Next == Schedule \/ Execute \/ Update

Spec == Init /\ [][Next]_vars

-----------------------------------------------------------------------------
(* The input patch: where a compressed request's last token is written and  *)
(* how long its sequence is said to be (its rounds are decode steps).       *)

SlotPosition(r) == seen[r] + shift[r]
SequenceLength(r) == SlotPosition(r) + 1

\* The armed probe: the slot resolves inside the request's own block row.
Reachable(r) == Compressed(r) => SlotPosition(r) \div BlockSize < Len(row[r])

-----------------------------------------------------------------------------
(* Properties.                                                              *)

Live(r) == status[r] = "running" /\ row[r] # <<>>

\* Types of both sides' books.
TypeOK ==
  /\ \A r \in Requests : /\ prompt[r] \in PromptLengths
                          /\ nct[r] \in 0..MaxLength /\ seen[r] \in 0..MaxLength
                          /\ Range(manager[r]) \subseteq 1..NumBlocks
                          /\ Range(row[r]) \subseteq 1..NumBlocks
                          /\ offset[r] \in Nat /\ kv[r] \in 0..MaxLength
                          /\ lag[r] \in Nat \cup {NoLag} /\ lastStep[r] \in -1..step
  /\ free \subseteq 1..NumBlocks /\ ended \subseteq Requests
  /\ Len(queue) <= Lookahead

\* The armed reachability probe of input_patch_vllm_v1_backend.py stays silent:
\* every token written resolves inside the request's own block row, however far
\* the scheduler's allocation lags behind the worker's compression.
NoOrphanWrite == \A r \in Requests : Live(r) => Reachable(r)

\* So it does for every request whose prompt leaves room for the boundary reserve
\* (or never fits and is never compressed), with up to Lookahead steps in flight.
KeepsReserve(r) == prompt[r] \notin (KvBudget - Lesser(1 + Grace, ReserveCap) + 1)..KvBudget
NoOrphanWithReserve == \A r \in Requests : Live(r) /\ KeepsReserve(r) => Reachable(r)

\* A block the worker's row names is neither free nor another live request's:
\* reclaiming never returns a block that is still written or read.
NoUseAfterFree ==
  \A r \in Requests : Live(r) =>
    /\ Range(row[r]) \cap free = {}
    /\ \A q \in Requests \ {r} : Live(q) => Range(row[r]) \cap Range(row[q]) = {}

\* No block is lost or held twice: the pool and the scheduler's lists partition it.
BlocksConserved ==
  /\ free \cup UNION {Range(manager[r]) : r \in Requests} = 1..NumBlocks
  /\ \A r \in Requests : /\ IsInjective(manager[r])
                          /\ Range(manager[r]) \cap free = {}
                          /\ \A q \in Requests \ {r} :
                               Range(manager[r]) \cap Range(manager[q]) = {}

\* The reclaim checks of _apply_compression_events and the regression guard of
\* the hook never fire in a legal run.
NeverFatal == error = None

\* Once every step has come back, scheduler and worker name the same blocks.
DrainedBooksAgree ==
  queue = <<>> => \A r \in Requests : Live(r) => manager[r] = row[r]

\* The anchored offset: the scheduler's effective length is the worker's true
\* compacted length, whatever was in flight when the event was applied.
OffsetExact ==
  queue = <<>> => \A r \in Requests : Live(r) /\ Compressed(r) => Effective(r) = kv[r]

\* The slot of a decoded token, its logical position shifted by the compaction,
\* is the next free cache row: nothing is overwritten and no gap is left.
SlotsExact ==
  \A r \in Requests : Live(r) /\ Compressed(r) => kv[r] = SequenceLength(r)

\* The cache of a request whose prompt fits the budget stays within the budget,
\* one cadence and the lookahead: deferred or deduplicated rounds do not let it grow.
CacheBounded ==
  \A r \in Requests : Live(r) /\ prompt[r] <= KvBudget => kv[r] <= Threshold + Lookahead

\* Blocks: none used after it was freed, none lost, none held twice.
BlocksSafe == TypeOK /\ NoUseAfterFree /\ BlocksConserved

\* Scheduler and worker agree, block by block and in the effective length, whenever
\* nothing is in flight, every decoded token gets the next free row, and no check of
\* either side fires on the way.
BooksAgree == NeverFatal /\ DrainedBooksAgree /\ OffsetExact /\ SlotsExact
=============================================================================
