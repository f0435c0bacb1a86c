# Random-Attention: a TLA+ verification project

TLA+ models of the parts of this repository that carry its own logic: the
KV-cache eviction engines, the decoding loops that drive them, the vLLM port,
the harness that fills an accuracy cell across crashes and relaunches, and the
path from its files to a printed number: audits, repairs, graders, resumable
experiment ledgers, reviews, slices and tables.  TLC checks the models on small
instances; TLAPS proves, for every value of their parameters, the properties of
the eviction layers, the query ring, the shared keep-set, the sampling loops,
the vLLM port, the cell with its audit, trimming, graders and merge, the answer
ledger, the masked review and the synthetic suite.

Contents

1. The system: inventory
2. What the models keep and what they abstract
3. Modules and their correspondence to the code
4. Runs: what is checked, with which bounds, and what it shows
5. Fairness and termination
6. Proofs
7. Where the code and what is said of it part
8. Remarks the models led to
9. What is not modelled
10. Plan

Paths are relative to `src/`; `C` abbreviates
`kvcompress/engine/cache_utils.py`.

---

## 1. The system: inventory

### 1.1 Eviction layer of the main engine (`C`, `engine/modify_forward.py`)

*State.* One `EvictLayer` per decoder layer: preallocated `k_cache`/`v_cache`
of `max(prompt, budget) + residual` rows, `cache_seqlens`, `cumulative_length`
(absolute position of the next token), `prompt_len`, an optional per-head
`positions` buffer, a circular buffer of the last `residual_length` queries
with its write position, and roles some modes draw once and persist (archivist
heads of `random_pmix`, carriers of a drawn span of `synth_pin`).

*Operations.* A forward pass calls, in this order, `update` (lazy allocation),
`update_queries`, the attention kernel that appends the new rows at
`cache_seqlens`, and `post_attention_update`, which counts the rows, stamps
positions and, when the length is beyond the budget and a multiple of the
residual, runs `_run_eviction`: score the candidates (everything but the
residual), take the top K per head, SORT, gather, move the residual behind
them.  `batch_select_indices` drops finished rows.

*Hard behaviour.* The engine's properties are properties of many rounds.  A
mode scores slots by index, by drawn position, by attention; it pins slots, not
tokens; roles are drawn in the first round and must be remembered by the later
ones; blocks, strata and windows are laid over slots anew at every round.  The
sizes (budget, residual, prompt length) meet in several clamps.

*Correct when* every head stores its rows in token order after any number of
rounds; pinned prompts survive them; the newest rows are never lost; tracked
positions describe the rows; no append leaves the buffer; the residual move
never overlaps; a round scores with the newest queries and nothing else.

### 1.2 The shared keep-set of `triattn_ph` (`C:34-59`, `C:900-997`)

*State.* One module-level slot: a key and the kept indices.  It outlives layers,
passes and generations.  *Operations.* The first layer of a round scores over
ALL layers and fills the slot; later layers reuse it while the key matches; the
constructor of a cache clears it.  *Hard behaviour.* The hook fires layer by
layer inside one forward pass, so the scoring layer reads layers that have not
appended this pass's token; keys of different problems can tie.  *Correct when*
a keep-set is used only in the round and generation it was scored in, on the
candidates it was scored on.

### 1.3 Qwen3.5 hybrid cache (`kvcompress/qwen35/cache.py`)

*State.* `EvictionLayer`: storage of `capacity + recent` rows, logical and
physical length, position storage, recorded queries.  *Operations.* `update`
(append before the attention), the post-hook (record queries, evict).
*Hard behaviour.* Append and eviction are two steps with the attention between
them, Transformers builds the mask from `get_mask_sizes` in between, and the
hook runs only if it was installed.  Long after the cache is gone, five audit
scripts judge a record by closed forms of its counts.  *Correct when* the
newest slot holds the newest token, the storage bound is kept with the hooks
and refused without them, the layer implements the same promise as the main
engine, and no honest record fails an audit.

### 1.4 Generation loops (`harness/generation_utils.py`, `qwen35/batch.py`)

`batch_exist_generate` samples a batch and REMOVES rows that ended, from the
cache, the mask, the query buffers and a map of batch positions to original
rows; `generate_batch` keeps both rows of a pair and masks the finished one.
*Correct when* batching is invisible: each row is an independent sample, its
cache is its own history, and the recorded lengths are those of the sampled
text.

### 1.5 A cell of accuracy runs (`harness/parallel_run_hf_mw.py`, `harness/eval_hf.py`, `harness/my_utils.py`, `eval/shard_batch_repair.py`, `scripts/loop_until_complete.sh`)

*State.* The job queue and process pool of the launcher; per shard and member
run a completions file and a lengths file; per process the loop position.
*Interaction.* A shell loop relaunches the launcher until the directory holds
enough lines; the launcher starts one process per (run group, shard) on a free
GPU rank; a process reads its checkpoint, samples each problem once for all
member runs and writes member by member: rewrite the lengths, append the line.
An operator runs the repair tool between passes.  Graders pair line i of shard
file `start` with problem `start + i`, and with entry i of the lengths.
*Hard behaviour.* Processes and nodes die between any two of these steps;
resuming looks at the leader's file only.  *Correct when* what counts as
finished has every line at its problem, running jobs never share a file, the
repair tool spares finished slots, and the cell is eventually complete.

### 1.6 Audit, trimming, grading, slices (`eval/`)

`cell_integrity.py` decides whether a cell may be graded, `trim_shard_overlaps.py`
cuts the completions of overlapping shard files and leaves their lengths files
as they are, `grader.py` pools by position,
`grader_lcb.py` executes candidates in a thread pool with a verdict cache shared
by methods, `remap_lcb_subsets.py` rewrites subset completions in the index
space of the full set, `run_annotations.py` derives runs from lines,
`split_r1_r2.py` and `split_extended_runs.py` grade slices of a cell through
views of links.  *Hard behaviour.* Everything is positional and nothing carries
an identity; cells were launched with other shard counts and batch sizes,
trimmed and refilled; generation goes on while slices are graded; threads read
a loop's variables.  The run groups of a launch are generated beside each other,
and a process that died is taken off the list like one that finished, so lines
say how many there are and not of which runs.  The merge writes two files per
problem into a directory that is never emptied, may die between them, and reads
lists of lengths that a worker's death has shifted.  *Correct when* a cell that
passes the audit is graded on its own problems, healthy cells are not blocked,
repairs end, scores are of the completion's own problem and comparable between
methods, a merged completion answers its problem and carries its own length
unless its source had lost that already, and what is printed of slices has
every line that was counted, in disjoint standard slices.

### 1.7 The vLLM port (`scripts/vllm_rp_bench`)

Shims into vLLM's scheduler and GPU runner.  *State.* Scheduler: block lists,
`num_computed_tokens`, an effective offset anchored at each compression, a
step counter; worker: block rows, `current_cache_len`, the shift of physical
slots; between them a queue of steps in flight.  *Interaction.* The runner
compresses a request's blocks and reports an event; the scheduler applies it
one or two steps later, resets its anchors and frees blocks.  *Correct when*
every written token resolves inside the request's own blocks, no block is used
after it was freed, and both sides' books agree when nothing is in flight.

### 1.8 Studies on Qwen3.5 and the Qwen3 control (`scripts/qwen35`, `scripts/qwen3_control`)

Resumable directories of answers under a lock and a manifest (`run_math*.py`),
a decode benchmark (`benchmark_decode.py`), a delayed-lookup probe
(`run_retrieval_probe.py`), and a dozen audits and analyses over one or two
directories; a masked review of gradings (`prepare_grading_review.py`, ...).
*Hard behaviour.* A process dies between any two writes and the command is
simply repeated; sources are edited between launches; a reference lives partly
in memory; audits are off by one easily; records are replaced behind a review.
*Correct when* nothing is sampled twice, pairs come from one batch and one
protocol, a report is compared with the reference of its own run, audits accept
honest data and see what they claim to see, and scores move on evidence only.

### 1.9 The synthetic suite (`kvcompress/synth`)

`build_tasks.py` lays needles, filler, query and value tokens into boxes and
publishes spans and an event count; `run_synth.py` forces them through the
decode path and writes records and a `.done` marker; five scripts contrast the
arms they find.  *Correct when* the spans cover what they claim, the measured
value was read behind the published rounds, an analysis reads whole arms of one
build and contrasts them instance by instance, and a foreign build cannot
replace instances under existing records.

### 1.10 Paper tables (`eval/gen_paper_tables.py`, `stats_paired.py`, `lcb_paired.py`, `organize_results.py`)

Cells are resolved from graded rows by directory and by method name, gated by
size; paired tests are printed as commands, run by hand and read back by
section and name.  *Correct when* a mark is of the test of the very gradings
printed beside it, partial columns are not folded, and the layouts agree.

### 1.11 Other

TriAttention scoring and calibration, answer parsing, trace analyses, figures:
section 9.

---

## 2. What the models keep and what they abstract

* **A K/V row is the absolute position of its token.**  The repository's own
  tests instrument the engine the same way.  Key, value and position buffers
  are compacted by separate copies; `kv` stands for the first two and
  `positions` for the third, so that a mismatch is visible.
* **A score is a priority.**  Every mode ends in `top-k` with +inf for pinned
  and -inf for blacklisted slots.  A score computed from random draws,
  attention or magnitudes is ONE priority class, and `top-k` chooses freely
  inside a class, so each such mode is checked for every score it may compute.
  A score that IS the slot index is a priority per slot.  `DiversityModes`
  builds the scores of the shaping modes as the code does.  For the redundancy
  modes rows are near-duplicates or orthogonal, so that the mean of
  `cache_utils.py:330`, which has no threshold, and the threshold of
  `rkv_official` both count similar rows.
* **Control is complete.**  Append order, the two branches of the query buffer,
  the trigger, the draw-once guards, the sort, both copies, every early return
  of the checkpoint loader, the order of two file writes, every assertion of an
  audit that compares counts, hashes or prefixes.
* **A completion, and a length, is a problem's index** in the cell models; a
  token is one of a few model values in the loops; a graded row is its size
  class and the state of the files it was graded from; a value of a file stands
  for its hash.
* A verdict (answer comparison, execution of a candidate, a judgment in the
  masked review) is a free choice, constrained by what the code guarantees of
  it.
* An append of one line is one step (a single short buffered write); the
  rewrite of a lengths file is two, for `open(..., 'w')` truncates it;
  `atomic_json` (temporary file, sync, rename) is one.
* Components that share no state are checked side by side in one run: an
  initial state picks the one that runs (`active` in the `MC` modules), so that
  the states add up instead of multiplying.  Within a component every
  interleaving is kept.  A component that theorems are about is EXTENDED by the
  module of its run, so that the run checks the very definition that is proved
  (`SharedInit`, `HybridNext`, `LedgerSound`, ...); the others are instances.

## 3. Modules and their correspondence to the code

| module | models | state -> code |
|---|---|---|
| `KeepPolicies` | the selection of every mode, pure operators | `PinnedPrefix`, `PinnedTail`, `Designated`, `Blacklisted`, `AgeScored` -> the branches of `_run_eviction`; `IsTopK`, `Ascending` -> topk and sort |
| `EvictLayer` | one layer through one generation | `kv` k/v_cache, `positions`, `seqlen` cache_seqlens, `cumulative` cumulative_length, `archivists` _pmix_arch, `holders` pin sets of spans; `Prefill`, `Decode`, with `RunEviction` inside |
| `RetentionCache` | abstract: the promise of an eviction cache | tokens seen, set held per head, settled pin |
| `DiversityModes` | the shape of block, stratum, window, rank-union and redundancy modes over rounds | `held` rows, `kept` slots of a round; `Round` |
| `QueryRing` | the circular query buffer and what a round reads from it | `ring`, `writePos`; `Prefill`, `Decode` -> update_queries + trigger |
| `SharedKeepSet` | `triattn_ph` across layers and generations | `memo` -> `_triattn_ph_shared`, `turn` the layer of the pass; `NewCache`, `RowsLeave`, `Forward` |
| `Qwen35Layer` | one full-attention layer of the hybrid cache | fields under their own names; `Update`, `PostHook` |
| `CacheAccounting` | closed forms of five audit scripts, over `Qwen35Layer` | `AuditedEvents`, `SharedPrefix`, `AuditedForgotten`, ... |
| `SampledRows` | abstract: independent samples | text and end of each row |
| `BatchGenerate`, `Qwen35Batch`, together `SampledBatches` | the two generation loops | `curToOrig`, `cache`, `mask`, `generated`; `output`, `drawn`, `finished` |
| `SynthTasks` | layout of a synthetic instance and its forced decode | `fed`, `cur`, `rounds`, `horizon`; `StubPass`, `ForcedPass` |
| `CellRun` | a cell: loop, launcher, processes, files, crashes, repair | `lines`, `info`, `queue`, `proc`; one action per step of the script concerned |
| `VllmPipeline` | the vLLM port | scheduler's books, worker's books, `queue` of steps in flight; `Schedule`, `Execute`, `Update` |
| `CellAudit` | relaunches, audit, trimming, quarantine, positional grading | `files`, `lens`, `launch`, `past` |
| `LcbGrading` | execution grader | loop variables, `queue`, `worker`, `cache`, `held`; `Read`, `Load`, `Take`, `Judge`, `Drain` |
| `SubsetMerge` | merge of subset completions, line by line | workers: `lines`, `glens`, `torn`; merge: `sources`, `todo`, `reading` (the file open), `seen`, `out` and `info` (the two files of a pair); `WriteLength`, `AppendLine`, `Lose`, `StartMerge`, `OpenSource`, `ReadFile`, `WriteCompletion`, `WriteInfo`, `PassOver`, `CloseFile`, `StopMerge` |
| `RunTables` | launcher, run counts and slices | `queue`, `active`, `done` (lines per run group and shard); `counted`, `view`, `graded`, `split`; `Launch`, `StartJob`, `Generate`, `EndJob`, `Split`, `HalfView`, `Grade`, `GradeCell`, `PrintRow`, `Abandon` |
| `PaperTables` | tables and paired tests | `disk` (how often files grew), `tsv`, `commands`, `files`; `Land`, `Grow`, `Emit`, `RunPair`, `PairLcb` |
| `RunLedger` | three resumable answer runners and their audits | `manifest`, `answer`, `journal`, `summary`, `lock`, `pc` |
| `BenchmarkLedger` | decode benchmark and its audit | `report`, `stored`, `reference`, `windows` |
| `ProbeLedger` | delayed-lookup probe and its audit | `probeRecord`, `probeReference`, `probeAt` and `probeCell` (the loops of `main`), `probeManifest` |
| `StudyAudits` | audits across two directories | `answers`, `driver`, `baseline` (BASELINE_SHA), `snapshot`, `pairReport` |
| `Comparisons` | what benchmark, probe and audits publish, together | states `ReportsComparable` |
| `GradingReview` | masked review of gradings | `record`, `review`, `decided`, `sensitivity` |
| `SynthRuns` | files of the synthetic suite | `instances`, `meta`, `file`, `done`, `runner` |
| `EvictLayerProofs` | theorems about the policies and `EvictLayer` | section 6 |
| `SideStateProofs`, `HybridCacheProofs` | theorems about `QueryRing`, `SharedKeepSet` and `SampledBatches`; about `Qwen35Layer` with `CacheAccounting` | section 6 |
| `VllmPipelineProofs` | theorems about `VllmPipeline` | section 6 |
| `CellRunProofs` | theorems about `CellRun` | section 6 |
| `LedgerProofs` | theorems about `RunLedger`, `BenchmarkLedger`, `ProbeLedger` and `StudyAudits` | section 6 |
| `GradingProofs` | theorems about `CellAudit`, `LcbGrading` and `SubsetMerge` | section 6 |
| `StudyProofs` | theorems about `GradingReview`, `SynthRuns` and `SynthTasks` | section 6 |

`MCEvictLayer`, `MCDecoding`, `MCGrading` and `MCExperiments` give constants
their values and put components side by side.  Definitions commented "Mutant"
or "Faulty variant" are plausible bugs, each next to the definition it would
replace; no specification uses them.  They document what each property catches:
with the variant in place, the property named in `PROJECT.json` fails.

Notes per module:

* **KeepPolicies, EvictLayer.**  All 45 mode names the engine dispatches on are
  members of `AllModes`: nothing pinned, sinks pinned, prompt pinned, membership
  by tracked position.  Clamps are kept as written (`min(pl, K - 1)`,
  `min(pl + PLAN_PREFIX, K - 64)`, `round` half to even for `cusa`).  `Prefill`
  and `Decode` are told apart by the number of new rows, as in the code, which
  is why prompts have at least two tokens.  Refinement: the held set of a head
  is the positions in its slots; a round shrinks it to `Limit` rows, what is
  dropped never returns, the newest `Window` tokens are always held, and a
  settled pin is never dropped.  The patched forwards of phi3, qwen and llama
  (`modify_forward.py`) make the same calls in the same order, once each.
* **Qwen35Layer.**  `Update` has the code's three early exits; an error leaves
  the layer in a final phase.  It implements the same `RetentionCache`.
* **CellRun.**  `Launch` is a pass of the shell loop, `Spawn` the launcher's
  pool, `Load`, `Generate`, `OpenInfo`, `CloseInfo`, `AppendLine` the process;
  `Crash` ends one process and `NodeLost` all of them, between any two steps.
  `Repair` knows shards only by the files it finds, as the script does.  With
  one GPU the launcher passes no example range; `File`, `First`, `Count` keep
  that.
* **VllmPipeline.**  Lengths and block ids are exact.  `Schedule` advances
  `num_computed_tokens` before the worker has run; `Execute` consumes signals,
  compresses, shrinks rows and writes; `Update` applies events and frees blocks
  while later steps are in `queue`.  One KV-cache group, prefix caching off, no
  preemption: how the benchmark scripts run it.  Tokens and blocks are handed
  out in the order of the requests; `Before` counts what earlier ones take of a
  supply as the size of a set, not as a sum, so that it can be reasoned about.
* **LcbGrading.**  `Problems` may hold indices behind `LastProblem`, the last one
  of the gold file: a completion there is an overrun, and the grader raises
  when it reads the files (`Corrupt`).
* **SubsetMerge.**  The source's workers write a length and then its line and die
  in between, so an entry of a lengths file is the number of the line it was
  written for, or 0 when that line never came; what follows a 0 is shifted.  The
  merge reads a file at once and files a line in two writes.  One that dies
  while a file is open leaves it empty, which a reader takes for no file; the
  other file of the pair stays.  `seen` starts empty, so a later merge overwrites
  what it comes to.
* **RunTables.**  `Launch` queues the shards of all its run groups, `StartJob`
  takes the next as soon as a rank is free, and `EndJob` does not tell an end
  from a death.  The runs of one group advance together, `Step` problems at a
  time.  A launcher that is killed is one whose jobs have all ended.  The
  scripts count, link and grade at any moment of this.
* **PaperTables.**  The paired tests grade the files of the moment
  (`stats_paired.py:62`), which may have grown since their row landed (`Grow`,
  `OnDisk`); growth before a first row is part of the landing.
* **RunLedger.**  One module for the three runners: `kind` selects the guards
  that differ (validation gates of the control, overlong prompts of the single
  runner).
* **StudyAudits.**  A `driver` stands for what no manifest captures: from some
  step on it may change tokens.  The reports are checked against it.
* **SynthRuns.**  A build is an identity; that a rebuild with the same seed
  makes other instances is what the salted string hash in the seed does.

---

## 4. Runs

Distinct states are those of the given bounds, explored completely.

| run | module / bounds | states | shows |
|---|---|---|---|
| `evict_layer` | `MCEvictLayer`: 14 modes, 2 heads, Budget 6, Residual 2, prompts {2, 3, 7}, 10 tokens | 30,113 | chronology, pinned prefix, guaranteed window, tracked positions, span copies, capacity, disjoint move, `RetentionCache` |
| `decoding` | `MCDecoding`: seven components side by side (bounds below) | 127,314 | query windows, shared keep-set, batches, Qwen3.5 layer and its audits, instance layout, shapes |
| `cell_run` | `CellRun`: 5 problems, 3 shards (1, 1, 3), 2 ranks, 2 members, 3 crashes, torn files | 190,990 | alignment, repair spares the finished, completion |
| `vllm_pipeline` | `VllmPipeline`: 2 requests, 11 blocks of 5, prompts {6, 9, 13}, 25 tokens, 2 steps in flight | 871,727 | no orphan write, blocks safe, books agree, caches bounded |
| `grading` | `MCGrading`: five components | 446,869 | audit, graders, merge, slices, tables |
| `experiments` | `MCExperiments`: six components | 665,367 | ledgers, benchmark, probe, audits, review, suite |
| `cell_run_torn`, `cell_run_lengths`, `cell_run_one_gpu`, `vllm_orphan`, `run_tables_slices`, `synth_rounds` | small (`run_tables_slices`: three groups of 16 runs, two shards, two ranks, two launches), except `synth_rounds`, which uses the registered sizes | | counterexamples of section 7 |

What the properties of the composed runs are made of:

* `decoding`.  `QueriesExact` (`QueryRing`: `RoundSeesNewestQueries` and
  `WindowInOrder`); `LayersShareOneSet`, `KeepSetIsFresh` (`SharedKeepSet`);
  `RowsStayWhole` and `BatchesImplementSamples` (`SampledBatches`, both loops:
  own cache, mask and lengths, and the refinement of `SampledRows`);
  `HybridSafe` (newest slot and recency window of every policy, queries of the
  attention just done, storage never passed) and `HybridImplementsPromise`
  (`Qwen35Layer`); `AuditsAgree` (`CacheAccounting`: every honest record passes,
  the prefix gate is exact, the probe's counts hold); `LayoutExact`
  (`SynthTasks`: boxes cell-constant, query never a candidate before it is
  measured, needles candidates of every round, parity inert, rounds within one
  step of the published ones); `ShapesExact` (`DiversityModes`: what each mode's
  comment says of a round, and what it becomes over rounds).
* `grading`.  `AuditSound` (a cell that passes never makes the grader raise, a
  cell of one launch setting is not blocked, records and lengths pair with
  their own problem, gap reports are exact); `CellHeals` (one pass of trimming
  clears all overlaps; a refined relaunch ends with every problem once);
  `ScoresExact` (execution grader: own problem and none behind the last, equal
  terms, whole means, bounded store);
  `MergeSound` (the completion of a pair answers its problem and is of its run;
  its length is its own or none unless the source's list had shifted before it;
  there are at most as many pairs whose halves do not belong together as merges
  that died, and none of them among those the running merge has filed);
  `GradingEnds`; `RunsSound` (the gradings of a printed row have every line that
  was counted for their runs, each under its slice, and slices whose runs were
  whole at the count are standard replicates; a complete standard cell is
  annotated as one); `TablesSound` (marks are of the gradings printed, gray
  cells of their own row and of the files as they were, nothing partial folded,
  layouts agree, the own method has one value).
* `experiments`.  `LedgerSound`, `PairsComparable`, `NothingRepeated`
  (`RunLedger`); `ReportsComparable` (`Comparisons`: `BenchmarkComparable`,
  `ProbeSound`, `ReportsStand`); `ReviewSound`; `SuiteSound`,
  `ForeignBuildSpares` (`SynthRuns`); `StudiesFinish` (liveness of ledger,
  benchmark and probe).

**Why the bounds suffice.**

* Eviction: with Residual 2 and Budget 6 a round drops two of six candidates
  and keeps four.  Ten tokens give two or three rounds with two heads, so a
  round meets the result of a round and every drawn role is reused.
  `PromptCap = 0` gives the capped prompt's designated set a gap with K = 4.
  Prompts lie below K, just below K and above the budget (odd, so that the first
  round does not come at once).  Two heads tell per-head from shared choices
  and carriers from others.  The flags of the modes are small (`NumSink`,
  `PmixSmall`, `PlanPrefix`, `MinScatter` 1, `RecentKeep` 2, tail 50 %), so that
  the clamps take effect.  The modes left out differ from a listed one only in
  a score that is a single class in both; the theorems cover all of them.
* Query ring: the ring has four slots; prompts cover shorter, equal, longer,
  every residue, beyond the budget; 40 tokens wrap it many times.
* Shared keep-set: three layers are a first, an inner and a last one; a tie of
  keys needs two generations and the end of one a round after its first
  compaction, both within 12 tokens.
* Batches: with three rows a middle row can leave first, last and together with
  another: every way a filter can shift positions.
* Synthetic instances: every length an eighth of the builder's; stubs at both
  ends of their range, ages below, around and far above the budget (the last
  has dozens of rounds).
* Shapes: budget 8, two to four heads, so that blocks overlap, just meet, and
  touch neither end of the history; three rounds.
* Cell: shards of unequal length, more shards than ranks (so that one is not on
  disk while its neighbour is finished), a leader and a follower, three
  crashes: one to make a slot short, one to hit the relaunch, one to hit the
  repaired slot.
* vLLM: prompts below, near and above the budget of 10; blocks are handed out
  lowest first, so that a freed block comes back to either request at once,
  which is what a use after the free would need to show; two steps in flight
  is what the asynchronous batch queue allows.
* Grading: three problems under one, two and three shards in two
  subdirectories, one relaunch with another setting; two threads, three
  completions in two run directories and one of another method, on two problems
  or an index behind them; a store that cannot hold both test files.
  Merge: two subset golds that share a question, one of them out of order; three
  entries in lengths files, so that one can be lost and another follow it; one
  death of a worker; two merges, one of which dies at any of its writes, so that
  a torn pair is met by a merge that comes to it and by one that does not.
  Slices: three run groups on two ranks, so that a third starts while one of the
  first two is unfinished, and two launches, so that holes are refilled behind a
  count.  Tables: three growths, landings or regradings.
* Experiments: two groups of two rows, two processes, three crashes and an
  edit; benchmark contexts before and behind the first round; probe gaps of no,
  one and several rounds, the reference carried over a crash; answers that end
  inside the common prefix of both cells, of one, or past a cap; two reviews of
  two answers and one rewrite; five builds, starts and crashes, with which a
  replicated arm and both endpoints can be had.

`CHECK_DEADLOCK FALSE` stands in every configuration because every one of these
systems really stops: a generation reaches its bound, a batch is done, a cell is
complete, a report is printed.  That a stop is not premature is what the
liveness properties and the exactness of recorded lengths are for.

Bounds that exist only in the models: `MaxTokens`, `MaxLength`,
`MaxGenerations`, `MaxRounds`, `MaxCrashes`, `MaxBenchCrashes`,
`MaxProbeCrashes`, `MaxEdits`, `MaxProbeEdits`, `MaxDisturbances`, `MaxEvents`,
`MaxLaunches`, `MaxLines` (entries of all lengths files), `MaxLosses`,
`MaxMerges`, `MaxStops`, `MaxLandings`, `MaxFiles`, `MaxRewrites`.

## 5. Fairness and termination

* `EventuallyComplete` (`CellRun!FairSpec`): `WF(Launch)`, the `while` of
  `loop_until_complete.sh`; `WF(Spawn)`, the polling loop of the launcher;
  `WF(Worker(s))`, a process that does not crash goes on; `SF(Repair)`: the
  operator runs the repair tool again and again between passes.  NO script does
  this; it is an assumption about the operator, and strong because the tool is
  only enabled between passes.  Without it a stuck slot keeps the loop
  relaunching for ever, which is why the tool exists.  The property excludes
  torn lengths files (`NoTornLeft`), with which it is false (`cell_run_torn`).
* `CellHeals`: `WF` of writing, trimming and quarantine: relaunching resumes the
  workers, and the operator runs the repair the audit asks for.  The relaunch
  must refine the layout of the earlier ones; under a coarser one trimming and
  refilling undo each other for ever, and the property says so in its
  hypothesis.
* `GradingEnds`: `WF` of the main loop and of each pool thread.  A candidate
  that hangs is killed at its limit, which is what makes `Judge` enabled.
* `StudiesFinish`: `WF` of each process: the command is repeated after a crash,
  which the scripts' documentation asks for.  Its hypotheses (no grading error,
  prompts that fit, sources that stay put in the end) are the ways the code
  stops on purpose.

Crashes, edits and rebuilds are never fair and always bounded: with crashes for
ever nothing is ever complete.

## 6. Proofs

`tlapm` checks every leaf of these theorems.  They hold for all constants the
named assumptions admit: any number of heads, layers, rows, shards, members,
groups or processes, any budget, residual, prompt and run length, any number of
crashes.  The assumptions are ranges that the code enforces or its callers
respect (the budget is a larger multiple of the residual, which
`init_evict_configs` asserts; prompts have at least two tokens; a batch has a
row; the filler is an end-of-sequence token; run directories, methods and the
files of a merge are finitely many; the boxes of a synthetic cell fit a first
budget, its query and values a residual, and every cell ends behind the budget,
which holds of every cell `build_tasks.py` registers; the windows of a context
end before the next context, the compressed cell of a benchmark or probe has a
larger capacity than its residual, and the probe's prompt leaves a residual
free, which the drivers assert).  A probe has two heads and an audit of two
directories two compressed cells and two problems, as in the models.

| module | theorem | states |
|---|---|---|
| `EvictLayerProofs` | `TypeCorrect` | buffers are functions on exactly the live slots |
| | `ChronologyKept` | rows are stored in token order |
| | `WindowKept` | the newest rows are the guaranteed window |
| | `PrefixKept` | the pinned prefix holds the pinned tokens (`ForceHi <= ForceLo`) |
| | `CapacityKept` | no append past the buffer |
| | `MoveDisjoint` | the residual move never overlaps |
| | `TrackedPromptKept` | tracked positions are true, a capped prompt keeps its designated tokens |
| | `SpanCopiesKept` | a judged span token is in exactly its pinning heads (`SpansFit`) |
| | `PromiseImplemented` | `EvictLayer` refines `RetentionCache` (`ForceHi <= ForceLo`) |
| `SideStateProofs` | `QueriesStayExact` | a round reads exactly the newest queries, `rkv_official` in their order |
| | `KeepSetIsShared` | one set serves all layers: same slots, same rows |
| | `KeepSetStaysFresh` | no set of another round or generation is used |
| | `RowsStayTheirOwn` | a row's cache, mask, mapping, draws and recorded length are its own |
| | `BatchesStaySamples` | both loops refine `SampledRows` |
| `HybridCacheProofs` | `HybridStaysSafe` | windows, queries and storage of the Qwen3.5 layer |
| | `HybridKeepsPromise` | `Qwen35Layer` refines `RetentionCache` |
| | `AuditsStayTrue` | the auditors' closed forms are what the layer did |
| `VllmPipelineProofs` | `BlocksStaySafe` | no block used after it was freed, lost or held twice (`Deployment`) |
| | `BooksStayAgree` | scheduler and worker agree when nothing is in flight; no check fires (`Deployment`) |
| | `CacheStaysBounded` | a compacted cache stays within budget, cadence and lookahead (`Deployment`) |
| | `RowsStayReached` | no token is written outside its request's blocks (`Deployment`, a grace, a reserve) |
| `CellRunProofs` | `CompletionsStayAligned` | one writer per file; full files are aligned (more than one GPU) |
| | `FinishedIsSpared` | the repair tool takes no line of a finished shard (more than one GPU) |
| | `DriftStaysSound` | the inductive invariant of a cell |
| `LedgerProofs` | `LedgerStaysSound` | journals outlive gradings, nothing behind an error, summaries whole |
| | `PairsStayComparable` | a pair comes from one sampling, a directory from one protocol |
| | `NothingIsRepeated` | nothing durable is sampled again, an audited prefix is never rewritten |
| | `BenchmarkStaysComparable` | reports have each window once, where the audit puts it, held against one reference (`NativeLeads`) |
| | `ProbeStaysSound` | probe records pass the audit of their counts and were held against their own trace |
| | `ReportsAlwaysStand` | gates between directories pass honest answers, and their reports are true of the tokens |
| | `ReportsStayComparable` | the three together (`NativeLeads`) |
| `GradingProofs` | `AuditStaysSound` | a cell that passes the audit is graded without an exception, on its own problems and lengths; gap reports are exact; a cell of one launch is never refused |
| | `TrimClearsOverlaps` | one run of the trimming clears every overlap, chains included |
| | `ScoresStayExact` | execution scores are of the completion's own problem, comparable, whole, the store within its bound |
| | `MergeStaysSound` | wherever merges and the sources' workers die: a filed completion answers its problem in its run, its length is its own, none or one the source had shifted, torn pairs are no more than the merges that died |
| `StudyProofs` | `ReviewStaysSound` | grades move on evidence; a frontier report passes over no doubtful answer |
| | `SuiteStaysSound` | marked arms are whole and of one build; contrasted rows are of one instance; pools are complete |
| | `ForeignSparesInstances` | a build of another model replaces no instances unless forced |
| | `LayoutStaysExact` | spans, length and rounds of a synthetic instance are those of its cell |

Most state the very definition that a run of section 4 checks: the run shows it
on an instance, the theorem for every value.  `TypeCorrect` and `DriftStaysSound`
are invariants the others rest on, `TrimClearsOverlaps` states the first part of
`CellHeals`, and the three theorems behind `ReportsStayComparable` its parts.

**Arguments.**  None of these properties is inductive; what had to be added to
each says most about why the code works.

* *Selections* (first part of `EvictLayerProofs`).  An ascending selection that
  contains an initial segment keeps it in place, one that contains a final
  segment keeps it at the end, a top-k keeps all +inf slots when they fit, and
  the clamps of every mode make them fit.
* *Order.*  An append keeps token order only if every stored position lies in
  the past.  `OrderInv` adds that, that the buffer is the identity before the
  first round (which is when `random_pmix` settles its prefix), that it is full
  after it, and the window itself: a round's last candidates must already be
  consecutive to stay consecutive.
* *Prefix.*  Pinning is by slot.  `PrefixInv` carries from round to round that
  these slots hold those tokens; the base is the untouched buffer.  With a
  forced replay range inside `random_pp` the number of +inf slots may exceed K,
  and top-k may drop any of them: hence `ForceHi <= ForceLo`.
* *Capacity.*  `CapacityInv`: no multiple of the residual was passed beyond the
  longest kept length; the next one comes within `residual` appends.
* *Spans.*  A head that does not pin a span's token must have room to drop it:
  at the first round that needs fewer span tokens than the round drops, at
  least a residual; later rounds find none among the kept rows.  `SpansFit` is
  this bound; the suite's two boxes take 16 slots each
  (`build_tasks.py:229`), its residual is 64.
* *Promise.*  The held set of a head is the image of its slots.  A round's image
  has `Limit` members because the kept indices are pairwise different; the
  window is held because of `OrderInv`; a settled pin because of `PrefixInv` or,
  for pins by position, because a tracked position is that of its row.
* *Ring.*  `RingInv`: going back t steps from the write position finds the t-th
  newest query, for every t up to what was ever written, and a round happens
  only when the ring is full.
* *Shared keep-set.*  In the middle of a pass the layers that ran are one pass
  ahead of those that did not.  `Ahead` says what a layer holds in terms of one
  that is still behind, compacted with the slot's own indices if the round is
  due; then the key, the candidates and their rows agree for all later layers.
  `MemoCurrent` says that a set in the slot is of this generation and not of the
  future, so that a key that matches is of this very round: the absolute
  position is part of the key.
* *Batches.*  The mapping is the sorted list of the unfinished rows, and picking
  the entries that go on gives again the sorted list of those; the i-th cache
  row with its next input is the prompt and the text of row `cur_to_orig[i]`.
  A row's tokens are without an end of sequence, or padded behind the first.
* *Qwen3.5 layer.*  `RowsExact` (rows tracked as they are, ascending, the newest
  ones consecutive) and `Bounds` (`length = logicalLength - Recent * events`,
  room for one token before each append) carry each other: the storage bound
  needs a round in time, the round's window needs the exact length.
* *Audits.*  That counts of a record follow from the lengths is
  `length = logicalLength - Recent * events` with the bounds of a round's
  length, turned into a division with remainder.
* *vLLM port.*  `IInv` relates the two books at the one place where they meet,
  the first step in `queue` the worker has not executed (`AtStep`).
  `WorkerBook` says what the worker holds of a request there (`Held`) and that
  each of the steps still ahead was planned for what it will then find
  (`Planned`): before the first round the row has the blocks of the plan and a
  round is due exactly when the scheduler says so; after one, the rows held,
  `kv = x + shift`, fit the row or are at most two beyond what the round kept.
  `SchedulerBook` says that the scheduler's list is the row followed by the
  blocks of the steps not yet executed, and that offset and tracker are those of
  the last round, unless an event of the request is under way; then
  `EventsTrue` says that the list becomes that when the event is applied.
  `QueueInOrder` and `EndedIdle` place steps and ended requests.  Three facts
  carry the rest: the step behind a round was planned without knowing of it, so
  its signal may be wrong, but the dedup guard skips it and the step after it is
  not planned before the event is back (the barrier); a round on a decode step
  always frees a block, so an event is never without a payload (an event without
  one cuts the list to the kept length and would drop what was appended since);
  and what a round returns to the pool is what it cuts out of the list, which
  the row no longer names.
  `Deployment` is what the benchmark's settings satisfy: two steps in flight
  (`README.md:74` of the port), a budget that is a whole number of blocks (1024
  and 2048, blocks of 16), a cadence of at least five (64), a guard of at least
  one cadence (`hook_runtime_context.py:54` takes the maximum with one), a table
  as wide as the longest request.  It is needed: with a budget of 11, blocks of
  5 and a cadence of 6 a round need not free a block, and `BlocksSafe` fails.
  `RowsStayReached` adds a grace of one token and a reserve of two (three and
  fifteen as shipped); with less, or for a prompt inside the reserve
  (`vllm_orphan`), a step planned late is written past the row.  TLC checked
  `IInv` itself on the instance of `vllm_pipeline` before it was proved.
* *Cell.*  `Drift`: counting the line a process owes, no member is ahead of its
  leader, and one that is level never lost a line, so it is aligned.  A line a
  crash lost is never made up for, which is why a full file is a sound one and
  a short one must be repaired.  `Sharded` (more than one GPU) is what gives
  jobs their own files; without it the property is false (`cell_run_one_gpu`).
* *Ledger.*  `Frontier`: nothing was begun behind a group that is not done, and
  a process has passed only finished ones; `InHand`: where a process stands
  determines what its group's journal and answers may be; `Counting`: a group
  sampled more often than once lost a process in between.
* *Benchmark* (`BenchInv`).  The windows measured so far are the first ones of
  the schedule (`OnSchedule`): the key of a window is its index written in mixed
  radix, so every key occurs once, and a start is a sum over these digits, which
  is the closed form of the audit.  `ReferenceInv`: the reference on the disk is
  the one the native report names; one in memory is none but this, and it is
  there once the native method has been passed in this run, whether it was
  measured or read back.  Until the native report is written nothing has been
  held against any, which is why a crash between the two files loses nothing.
  `NativeLeads` excludes the orders of section 8 that a run completes and its
  audit refuses; the script's default order satisfies it.
* *Probe* (`ProbeInv`).  What a head holds after n tokens has a shape
  (`StoreShape`): rows plus dropped rows are n, the prompt is whole, recency keeps
  a final segment.  From it the rounds are the audit's quotient, with no round
  the fact is whole, and where recency must have forgotten it the rows behind it
  already fill the store.  `Cached` is a recursive function; that it has a
  value, and that its values have the shape, is shown by the least length at
  which it fails.  The loops add `Behind` (all visits ahead of the present one
  have records) and `AtHand` (the reference in memory is of this trace, and there
  once the native cell was passed).
* *Directories* (`AuditsInv`).  Answers of one driver differ only where cells
  draw apart or at their ends, so they hold every gate.  A gate that answers of
  two drivers hold is passed before the departure, since the token at the
  departure names its driver.

* *Audit* (`AuditInv`).  Three facts about one directory survive any launches,
  trims and quarantines: line k of file s is of problem s + k - 1
  (`FilesPositional`); entry k of a lengths file is of line k unless another
  file starts at or before that line (`LengthsInStep`: what a trim leaves of the
  lengths lies under a later file); under one setting no file is longer than its
  shard (`OneSetting`).  The audit refuses overlaps, and without one nothing is
  overlaid, so records pair with their lengths.  Files cut to
  the next start are disjoint intervals, so the furthest end seen so far is that
  of the last file and the gap report names what lies between.  For "never
  refused": shards of one setting start at multiples of the shard size, so no
  file reaches the next start; in a cell whose runs are all whole the pooled
  counts are the number of runs times the size of a shard, and their sum over
  the shards is the number of runs times the number of problems.
* *Trim.*  Files are cut in the order of their starts.  What is cut depends only
  on the starts of the files that exist, and a cut never empties a file, so the
  starts stay what they were and a chain needs no second pass.
* *Execution grader* (`GraderInv`).  `LoopInStep`: the loop has scored exactly
  what lies behind it; `PoolInStep`: while the pool is drained its completions
  are of the loop's problem, each with one thread, so that the variables a
  thread reads are those of its task; `CacheInStep`: a verdict given is the one
  in the cache unless one directory holds the program twice (`HeldTwice`), which
  is the only way two threads run it side by side.  The bound of the store is a
  fact about the sum of the library: adding a file adds its size, evicting
  removes it, in any order.
* *Merge* (`MergeInv`).  `SourcesShaped`: a source's list holds, entry by entry,
  the lengths of its lines up to the first lost one, so that where nothing was
  lost entry and line agree.  What a worker's death has shifted stays shifted as
  long as the file has lines (`ShiftsStay`), so a length the merge read earlier
  is judged rightly now.  `ReadingShaped`: the text and the lengths in memory
  are a former state of the open file.  `InfosOwn`: a length filed is that of
  the completion filed with it, or from a list shifted there.  `PairsFiled`: a
  pair is together, or the one being written, or one of at most `stops` that a
  merge left behind: a merge that dies is at one problem, so it adds at most
  one, and every write of a pair that is completed mends it.
* *Review.*  A selection has all doubtful answers of the records it was made
  from; decisions have the packets of the selection whose hash they carry; the
  analysis compares the hashes of both.  That is enough, with no bound on the
  rewrites of records: each command looks at the disk once, so one rewrite in
  the run stands for any number between two commands.
* *Suite* (`SuiteInv`).  A file is an interval of rows of one build, and so is
  what the running arm is about to append (`RunnerWrites`); a marker of an arm
  that no later start opened again stands beside a whole slice.  Pairing by
  position is then pairing by instance, because two whole arms of one slice
  are the same interval.  A foreign build that is not forced found no instances
  ahead of it (`ForeignAhead`).
* *Layout* (`PassesInStep`).  The cache is one residual shorter than what was
  fed for each round so far and below budget plus residual, so that a round comes
  exactly with the first whole residual behind the budget.  The horizon of the
  last round is then a closed form, and the number of rounds at a value is a
  quotient that differs from the published one by the remainder.

Sums and cardinalities are the library's, defined by choice and recursion over
finite sets.  The library's induction theorems take an operator as a parameter
and cannot be used; where a fact about all finite sets is needed (sums, sizes
of images and unions), it is stated of the set of counterexamples, which has a
least element.

**Model-checked only.**

* Liveness (`EventuallyComplete`, `CellHeals`, `GradingEnds`, `StudiesFinish`) is
  outside what the proof system can state.
* `ShapesExact`: the shape of a block, stratum or window is a statement about the
  sizes of the choices of a top-k with ties; the closed forms of `SegmentsSettle`
  are for sizes that divide as the shipped ones do.
* `RunsSound` is about the sizes the scripts use (groups of sixteen runs, sixteen
  to a standard entry, thirty problems): which counts of lines round to a
  multiple of the standard is a fact about these numbers, and the sums over the
  jobs of a run would need an induction.
* `TablesSound` folds over sequences of rows that are filtered, sorted and
  flattened; what such a fold computes needs an induction over the sequence.

## 7. Where the code and what is said of it part

Six runs end in a counterexample; each checks one property that a comment, a
docstring or a report of the tools states.

1. **`cell_run_torn`** (`shard_batch_repair.py:65`).  A crash between opening
   and closing a lengths file leaves one that cannot be parsed.  The slot's
   counts agree, the tool says RESUMABLE and leaves it, and every relaunch
   raises before writing: the loop never ends.
2. **`cell_run_lengths`** (`eval_hf.py:221`).  The lengths are written before the
   line.  A crash in between, then a relaunch, leaves one length too many and
   shifts those behind it; `grader.py` takes termination flags from the wrong
   sample.  It needs no second member and the repair tool cannot see it.
3. **`cell_run_one_gpu`** (`parallel_run_hf_mw.py:227`).  With one GPU no example
   range is passed although the queue holds one job per shard: with two workers
   per GPU the jobs share one file.
4. **`vllm_orphan`** (`scripts/vllm_rp_bench/shims`, `VllmPipeline` names the
   lines).  The boundary reserve is skipped for requests that are compacted for
   real when their prompt is within the reserve of the budget; the last token of
   a step is then written behind the kept blocks.  `NoOrphanWithReserve` shows
   that no other prompt can.
5. **`run_tables_slices`** (`SlicesAreReplicates`, `split_r1_r2.py:101`).  The script derives the number
   of runs from the number of lines and asks only that it be near a multiple of
   the standard.  The launcher queues all run groups of a launch and drops
   processes that died like those that finished (`parallel_run_hf_mw.py:181-202`),
   so a later group may be whole while a shard of an earlier one is missing.
   When the lines add up to 32 runs the row is printed with "each R16" (`:127`)
   although a slice has runs that lack problems; the docstring (`:17-19`) calls
   the slices independent standard replicates, directly comparable to every
   other standard cell.  `split_extended_runs.py` counts in the same way.
   `SlicesSound` says what remains true: nothing counted is lost, and slices that
   were whole at the count are replicates.
6. **`synth_rounds`** (`build_tasks.py:259`).  The published event count E is
   `(total - TB) // RES + 1`; the engine runs no round at `TB` itself
   (`C:221`, `cur_len > token_budget`), so a value is read behind E - 1 rounds.
   `gen_synth_tables.py:214` prints 57 rounds where 56 take place.  `LayoutExact`
   bounds the difference for all stubs and value lengths (E - 1 or E - 2).

## 8. Remarks the models led to

Behaviour the models contain, that no run isolates, and that a reader of the
code may want to know.

*Eviction.*  `random_ppp` protects `min(pl + PLAN_PREFIX, K - 64)` slots
(`C:505`) where the comment at `C:497` promises the prompt: a prompt longer
than K - 64 loses its last rows.  `segment_pp`'s "the heads together cover the
whole trace" holds of one round and of slots: over rounds a head whose block
reaches the start of the history keeps the oldest rows for ever, one whose
block reaches the end becomes a recency window, and the middle of the trace is
lost (`SegmentsSettle`).  `LOG_UNION` counts distinct slots, which are other
positions in each head after the first round.  In `rkv_official` neither copy of
an exact pair of near-duplicates is penalised.

*Cells.*  A crash between two members' appends followed by a plain relaunch
leaves the follower's later lines one index early (`my_utils.py:146` counts the
leader's lines only); the repair tool's docstring says so, `run_cell.sh:25`
promises a plain resume.  `CompletionsAligned` and `EventuallyComplete` show
that the tool, run between the passes, makes up for it.  The directory name of
a configuration leaves out the residual length and the token limit: two
settings may share a directory.

*Audit and slices.*  RAGGED is advisory although `grade_cell.sh:20` lists it
among the refusals; a second trim overwrites the first one's `.tail` backup; the
tolerance of 0.02 lets up to ten lines of a math cell be missing; an "extended"
row with a few lines of a third run compares R2 with R2.  The execution grader
scores an unparsable test file as 0 but leaves an absent one out; a marginal run
time may give two copies of a program in one directory different verdicts
(`MethodsComparable` excludes exactly that).  AIME-2025 is counted with 29
problems in three scripts (`run_annotations.py:39`, `split_r1_r2.py:36`,
`split_extended_runs.py:37`) where `cell_integrity.py:47` has 30 and says why: a
complete cell of 16 runs is called ragged, and one of 32 is passed over.

*Merge.*  The merged directory is never emptied: answers of a source that is no
longer listed stay.  A merge that dies between the two writes of a problem leaves
a completion beside another one's length; only a later merge that comes to the
same run and problem mends it, and nothing tells that there is such a pair.  Two
leaves of one source are pooled, the first in path order wins.

*Studies.*  Only the frontier review hashes the whole directory; in the main
review a record outside the packets may be replaced unseen.  The preparation
itself (`prepare_grading_review.py`) hashes `manifest.json` alone: a doubtful
record that was away while the selection was made, and came back before the
report, is missed by every command, which is why the promise of
`NothingDoubtfulEscapes` is made for selections from the published records.
Drift of a driver escapes a final report only where it shows behind the first
round or the end of the answer.  An order of cells with `compressed` before
`native_dynamic` would complete and then fail its audit.

*Synthetic suite.*  A stale `.done` beside a file that was opened again is
accepted (`SuiteSound` says exactly which arms: `reopened`); no script checks
that a runner's model is the builder's; a rebuild for the same model passes the
clobber guard and makes other instances; a crashed build for another model can
only be continued with `--force_out`.

*Tables.*  The LCB column is not gated by size although the docstring says
partials are never folded; `EXPECTED_N` of aime25 (464 = 29 x 16) makes a
complete cell of 480 lines pending; `promptprotect` tolerates a nearly complete
grading and looks up by method first where `resolve` goes by directory first;
`organize_results.py` drops an aime26 row without its aime25 counterpart.

*vLLM.*  `shims/runner.py:159-161` says that a step's blocks are in the table
before the step executes, `shims/scheduler.py:417-419` that they may be appended
after the hook ran; in the model, as in the overridden `execute_model`, they are
appended after it.

## 9. What is not modelled

* Numeric scoring (attention, TriAttention, value ranges, clustering of real
  vectors): floating point over tensors.  It enters as a free choice.
  `calibrate_triattn_pl.py` and `triattn_official.py` have no state.
* `FORCE_KEEP_RANGE` is in the model and excluded from the runs' constants.
  Loggers (`KEEPLOG` and others) have no effect on the cache.  `vase_pp` and
  multinomial draws with zero weights are not followed into the sampler.
* Answer parsing and math comparison (`harness/Utils/parser.py`, `grader.py`,
  `math_normalization.py`): rewriting of strings and expressions, copied from
  another project; the verdict is a free choice.  `Utils/livecodebench*` is
  imported by nothing.
* In the cell: `SHARD_SUBSET` splits across nodes, the start offset of run ids,
  several run groups (they share no file there; `RunTables` has their order), LCB
  task tables.
* In the vLLM port: preemption and resume, several KV groups, the `kv_usage`
  trigger, prefix-cache metadata, the group resolver, the legacy offset path
  and the post-forward mode.  vLLM itself is modelled from how the shims use it.
* In Qwen3.5: the linear-attention layers (Transformers' own), row selection,
  and the adapter `qwen3_control/cache.py`, which has no state of its own.
* In the studies: timing and memory summaries, bootstraps, plots.  Sources are
  edited only while nothing runs; the operator's rule that a pilot follows its
  smoke phase is not enforced by code and not assumed.
* In the synthetic suite: bootstrap numbers; two runners at once.
* In the tables: layouts that only format numbers given to them (efficiency, GPU
  hours, vLLM, iso-memory, eviction cost, long traces).
* Trace analyses (`analysis/`), `analyze_probe.py`, `fit_calibration_v2.py`,
  figures: one-shot functions of finished files.
* What the models trust: one appended line reaches the file whole, moving and
  creating files and directories succeeds, Transformers calls the cache in the
  order the hooks assume.

## 10. Plan

Done: everything in section 3 and the theorems of section 6.  What would come
next, most important first:

1. `VllmPipeline` with preemption and resume.
2. `CellRun` with `SHARD_SUBSET` on two nodes, composed with `CellAudit`.
