----------------------------- MODULE SynthTasks -----------------------------
(***************************************************************************)
(* One instance of the synthetic suite: the boxes build_tasks.py lays its  *)
(* tokens out in, and the loop of run_synth.py that forces them through    *)
(* the decode path of the engine, value tokens last, followed by a free    *)
(* tail.  Lengths are in tokens; a position counts from the stub's first.  *)
(***************************************************************************)
EXTENDS Integers

CONSTANTS
  TB, RES,       \* token_budget, residual_length
  Inert,         \* the budget of a --parity run
  Pre, Mid,      \* filler in front of x and between x and y
  NB, QBUDGET,   \* tokens of a needle box, most tokens of a query
  Ages,          \* tokens from the end of x's box to the first value token, plus a box
  Stubs, Needles, Queries, Values,  \* token counts of the parts of an instance
  FreeTokens     \* --free_tokens

(* What the builder and the runner assert, and of the registered sizes: the boxes lie  *)
(* within a first budget, query and values within a residual, every cell ends behind   *)
(* the budget and, with its free tokens, before the one of a parity run.               *)
ASSUME TaskAssumption ==
  /\ {TB, RES, Inert, QBUDGET} \subseteq Nat \ {0} /\ {Pre, Mid, NB, FreeTokens} \subseteq Nat
  /\ TB % RES = 0 /\ Inert % RES = 0
  /\ \A s \in Stubs : s \in 1..(RES - 1) /\ s + Pre + NB + Mid + NB <= TB
  /\ Needles # {} /\ \A n \in Needles : n \in 1..NB
  /\ \A q \in Queries : q \in 1..QBUDGET
  /\ \A v \in Values : v \in Nat \ {0} /\ QBUDGET + v <= RES
  /\ \A g \in Ages : g \in Nat /\ g >= NB + Mid + NB + QBUDGET
  /\ \A s \in Stubs, g \in Ages, v \in Values :
       TB <= s + Pre + g + v /\ s + Pre + g + v + FreeTokens <= Inert

VARIABLES
  age, stub, query, nv,   \* the instance: its age, the tokens of its parts
  budget,                 \* tb: TB, or Inert in a parity run
  fed,                    \* tokens in the engine, the stub's included
  cur,                    \* cur_len of the cache
  rounds,                 \* eviction rounds so far
  horizon                 \* first position no round has had as a candidate

instance == <<age, stub, query, nv, budget>>
taskVars == <<age, stub, query, nv, budget, fed, cur, rounds, horizon>>

-----------------------------------------------------------------------------
(* build_tasks.py                                                          *)

\* Mutant: the filler behind y does not take up the slack of a short query.
PostUnpadded(g, q) == g - NB - Mid - NB - QBUDGET
Post(g, q) == (g - NB - Mid - NB - QBUDGET) + (QBUDGET - q)

\* pre, x with its padding, mid, y with its padding, post, query, values
Boxed(n) == n + (NB - n)
Length(g, nx, ny, q, v) == Pre + Boxed(nx) + Mid + Boxed(ny) + Post(g, q) + q + v
\* Where the boxes of x and y start and end in the sequence behind a stub.
BoxX(s, nx) == <<s + Pre, s + Pre + Boxed(nx)>>
BoxY(s, nx, ny) == <<BoxX(s, nx)[2] + Mid, BoxX(s, nx)[2] + Mid + Boxed(ny)>>

\* The spans of meta.json, computed from the box sizes alone.
SpanX(s) == <<s + Pre, s + Pre + NB>>
SpanY(s) == <<s + Pre + NB + Mid, s + Pre + NB + Mid + NB>>

SomeNeedle == CHOOSE n \in Needles : TRUE
TotalTokens == stub + Length(age, SomeNeedle, SomeNeedle, query, nv)
\* max(0, (total - TB) // RES + 1)
E == IF TotalTokens < TB THEN 0 ELSE (TotalTokens - TB) \div RES + 1

-----------------------------------------------------------------------------
(* run_synth.py                                                            *)

TaskInit ==
  /\ age \in Ages /\ stub \in Stubs /\ query \in Queries /\ nv \in Values
  /\ budget \in {TB, Inert}
  /\ fed = 0 /\ cur = 0 /\ rounds = 0 /\ horizon = 0

\* The stub is the only prefill; no round runs behind a prefill.
StubPass ==
  /\ fed = 0
  /\ fed' = stub /\ cur' = stub
  /\ UNCHANGED <<instance, rounds, horizon>>

\* Mutant: a round with every full residual, whatever the budget.
RoundAlways(n) == n % RES = 0
RoundFalls(n) == n > budget /\ n % RES = 0

\* The newest tokens that a round never drops.
Undroppable == RES

\* The next token, forced or free, and the round its pass may end with.
ForcedPass ==
  /\ fed > 0 /\ fed < TotalTokens + FreeTokens - 1
  /\ fed' = fed + 1
  /\ IF RoundFalls(cur + 1)
     THEN cur' = budget /\ rounds' = rounds + 1 /\ horizon' = fed + 1 - Undroppable
     ELSE cur' = cur + 1 /\ UNCHANGED <<rounds, horizon>>
  /\ UNCHANGED instance

TaskNext == StubPass \/ ForcedPass

TaskSpec == TaskInit /\ [][TaskNext]_taskVars

\* The pass that is next reads the log-probability of a value token.
MeasuredNext == fed + 1 \in (TotalTokens - nv)..(TotalTokens - 1)

-----------------------------------------------------------------------------
\* "Constant-size boxes": whatever the tokenizer makes of an instance's needles and
\* query, the spans of the cell cover its needles and its length is the cell's.
BoxesCellConstant ==
  \A nx, ny \in Needles, q \in Queries :
    /\ stub + Length(age, nx, ny, q, nv) = TotalTokens
    /\ BoxX(stub, nx) = SpanX(stub) /\ BoxY(stub, nx, ny) = SpanY(stub)

\* "The query is terminal - always inside the recency buffer at measurement": no round
\* had a token of it, or of the values, as a candidate before the last value is read.
QueryInWindow == MeasuredNext => horizon <= TotalTokens - nv - query

\* Both needles are candidates of every round there is: what a cell's age counts.
NeedlesFaceEveryRound == rounds > 0 => horizon >= SpanY(stub)[2]

\* "parity: inert": the reference run never evicts.
ParityInert == budget = Inert => rounds = 0

\* The number of rounds a value was read behind stays within the same step of the
\* published one for every stub the builder accepts: short of it by one, or by two
\* when the last whole residual ends among the values.
RoundsTrackAge ==
  MeasuredNext /\ budget = TB => E - rounds \in {1, 2}

\* An instance is laid out, and its values are measured, where its cell's metadata says.
LayoutExact ==
  /\ BoxesCellConstant /\ QueryInWindow /\ NeedlesFaceEveryRound
  /\ ParityInert /\ RoundsTrackAge

\* "E = number of eviction events between the needle exiting the recency buffer and
\* measurement" (build_tasks.py:28-29).  Every round of a run is such an event.
EventsAsPublished == MeasuredNext /\ budget = TB => E = rounds
=============================================================================
