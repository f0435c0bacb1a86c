------------------------- MODULE VllmPipelineProofs -------------------------
(***************************************************************************)
(* The two books of the vLLM port agree, no block is lost, held twice or   *)
(* used after it was freed, and a compacted cache neither outgrows its     *)
(* bound nor is written outside its own blocks: for any number of          *)
(* requests, any prompts, pool, block size and lengths, with up to two     *)
(* steps in flight, under what the port's settings satisfy (Deployment).   *)
(***************************************************************************)
EXTENDS VllmPipeline, FiniteSetTheorems, SequenceTheorems, TLAPS

(* What the settings of the benchmark scripts satisfy: budgets of 1024 and *)
(* 2048 (run_c64_efficiency.sh:43, run_phi.sh:52) are whole numbers of     *)
(* blocks, the case hook_runtime_context.py:195 is about; the cadence is   *)
(* 64 (run_phi.sh:42); the guard allows at least one multiple of it        *)
(* (hook_runtime_context.py:54); the engine queue holds two steps          *)
(* (README.md:74); the worker's table is as wide as the longest request.   *)
Deployment ==
  /\ Lookahead <= 2 /\ GuardMultiples >= 1
  /\ KvBudget % BlockSize = 0 /\ DivideLength >= 5
  /\ MaxLength <= MaxRowBlocks * BlockSize

-----------------------------------------------------------------------------
(* Types.                                                                  *)

Blocklists == Seq(1..NumBlocks)
Signals == [sent : BOOLEAN, fires : BOOLEAN, est : Int, tokens : Nat]
Events == [req : Requests, len : Int, pre : Nat, tokens : Nat, before : Nat,
           after : Blocklists]
Steps == [step : Nat, tokens : [Requests -> Nat], pre : [Requests -> 0..MaxLength],
          blocks : [Requests -> Blocklists], signals : [Requests -> Signals],
          ended : SUBSET Requests, done : BOOLEAN, events : SUBSET Events,
          barrier : BOOLEAN]

Types ==
  /\ prompt \in [Requests -> PromptLengths]
  /\ status \in [Requests -> {"waiting", "running", "finished"}]
  /\ nct \in [Requests -> 0..MaxLength]
  /\ manager \in [Requests -> Blocklists] /\ free \in SUBSET (1..NumBlocks)
  /\ offset \in [Requests -> Nat] /\ lag \in [Requests -> Nat \cup {NoLag}]
  /\ step \in Nat /\ ended \in SUBSET Requests /\ queue \in Seq(Steps)
  /\ row \in [Requests -> Blocklists]
  /\ seen \in [Requests -> 0..MaxLength] /\ curLen \in [Requests -> Int]
  /\ lastStep \in [Requests -> Int] /\ shift \in [Requests -> Int]
  /\ kv \in [Requests -> Int]

-----------------------------------------------------------------------------
(* What a step holds for a request.                                        *)

Pre(s, r) == s.pre[r]
Tokens(s, r) == s.tokens[r]
Added(s, r) == s.blocks[r]
Sent(s, r) == s.signals[r].sent
Fires(s, r) == s.signals[r].fires
Est(s, r) == s.signals[r].est
Asked(s, r) == s.signals[r].tokens

-----------------------------------------------------------------------------
(* Where the worker stands in the queue, and where that is in a request.   *)

AtStep(i) ==
  /\ i \in 1..(Len(queue) + 1)
  /\ \A j \in 1..(i - 1) : queue[j].done
  /\ i <= Len(queue) => ~queue[i].done

Position(i, r) == IF i <= Len(queue) THEN Pre(queue[i], r) ELSE nct[r]
StepNumber(i) == IF i <= Len(queue) THEN queue[i].step ELSE step + 1

(* The blocks of the steps that the worker has not executed.               *)
Outstanding(i, r) ==
  IF i \in DOMAIN queue /\ ~queue[i].done THEN Added(queue[i], r) ELSE <<>>
Pending(r) == Outstanding(1, r) \o Outstanding(2, r)

(* The worker holds state of the request, or will.                         *)
Served(r) == status[r] # "finished" \/ row[r] # <<>>

(* How many rows a round keeps of the request.                             *)
Top(r) ==
  LET wish == Lesser(1 + Grace, ReserveCap)
  IN  IF KvBudget - wish < prompt[r] THEN KvBudget ELSE KvBudget - wish

-----------------------------------------------------------------------------
(* The inductive invariant, part by part.                                  *)

(* What a step is, whoever looks at it.                                    *)
StepShape(s, r) ==
  /\ Pre(s, r) < prompt[r] => Pre(s, r) + Tokens(s, r) <= prompt[r]
  /\ Pre(s, r) >= prompt[r] => Tokens(s, r) <= 1
  /\ Tokens(s, r) = 0 => Added(s, r) = <<>> /\ ~Fires(s, r)
  /\ Fires(s, r) => s.barrier
  /\ Fires(s, r) => Asked(s, r) = Tokens(s, r)
  /\ Sent(s, r) => Asked(s, r) = Tokens(s, r)
  /\ status[r] = "waiting" => Tokens(s, r) = 0

(* The steps follow each other: numbers, positions and execution.          *)
QueueInOrder ==
  /\ Len(queue) <= Lookahead
  /\ \A i \in DOMAIN queue :
       /\ queue[i].step + 1 = StepNumber(i + 1)
       /\ queue[i].done => \A j \in 1..(i - 1) : queue[j].done
       /\ \A r \in Requests : /\ StepShape(queue[i], r)
                              /\ Pre(queue[i], r) + Tokens(queue[i], r) = Position(i + 1, r)

(* A request that ended takes no part in the steps that tell the worker.   *)
EndedIdle ==
  /\ \A r \in ended : status[r] = "finished"
  /\ \A i \in DOMAIN queue : \A r \in queue[i].ended :
       /\ status[r] = "finished"
       /\ \A k \in i..Len(queue) : Tokens(queue[k], r) = 0
  /\ \A r \in Requests :
       /\ status[r] = "waiting" => nct[r] = 0 /\ shift[r] = 0
       /\ ~Served(r) =>
            /\ kv[r] = 0 /\ shift[r] = 0 /\ lastStep[r] = -1
            /\ \A i \in DOMAIN queue : ~queue[i].done => Tokens(queue[i], r) = 0

(* What the worker holds of a request at position x, before step now.      *)
HeldWhole(x, r) ==
  /\ lastStep[r] = -1
  /\ Served(r) => /\ kv[r] = x /\ Len(row[r]) = Blocks(x)
                  /\ prompt[r] <= KvBudget => x <= Threshold - 2

HeldCompacted(x, now, r) ==
  /\ x > prompt[r] /\ prompt[r] <= Top(r)
  /\ kv[r] = x + shift[r] /\ kv[r] > Top(r) /\ kv[r] <= Threshold
  /\ KvBudget <= Capacity(r) /\ Len(row[r]) <= Blocks(MaxLength)
  /\ kv[r] <= Capacity(r) \/ kv[r] <= Top(r) + 2
  /\ lastStep[r] >= 0 /\ lastStep[r] < now
  /\ now = lastStep[r] + 1 => kv[r] <= Top(r) + 1

Held(x, now, r) ==
  /\ x <= prompt[r] => seen[r] < prompt[r]
  /\ x > prompt[r] => seen[r] = x - 1
  /\ shift[r] <= 0
  /\ shift[r] = 0 => HeldWhole(x, r)
  /\ shift[r] < 0 => HeldCompacted(x, now, r)

(* What a step that the worker has not executed was planned with, when its *)
(* row will then hold that many blocks.                                    *)
PlannedWhole(s, have, r) ==
  /\ have + Len(Added(s, r)) = Blocks(Pre(s, r) + Tokens(s, r))
  /\ Fires(s, r) <=> Pre(s, r) + 2 * Tokens(s, r) >= Threshold
  /\ Fires(s, r) => /\ Sent(s, r)
                           /\ Est(s, r) = Pre(s, r) + 2 * Tokens(s, r)

RowsFit(s, rows, reach, r) ==
  \/ rows <= reach * BlockSize
  \/ s.step = lastStep[r] + 1 /\ rows <= Top(r) + 2

Informed(s, rows, r) ==
  /\ Sent(s, r) /\ (Est(s, r) = rows - 1 \/ Est(s, r) = rows)
  /\ Fires(s, r) <=> Est(s, r) >= Threshold

PlannedCompacted(s, have, r) ==
  LET rows == Pre(s, r) + 1 + shift[r]
  IN  /\ RowsFit(s, rows, have + Len(Added(s, r)), r)
      /\ s.step > lastStep[r] + 1 => Informed(s, rows, r)

Planned(s, have, r) ==
  Served(r) /\ Tokens(s, r) > 0 =>
    /\ have + Len(Added(s, r)) <= Blocks(MaxLength)
    /\ shift[r] = 0 => PlannedWhole(s, have, r)
    /\ shift[r] < 0 => PlannedCompacted(s, have, r)

WorkerAt(i, r) ==
  /\ Held(Position(i, r), StepNumber(i), r)
  /\ i <= Len(queue) => Planned(queue[i], Len(row[r]), r)
  /\ i + 1 <= Len(queue) =>
       Planned(queue[i + 1], Len(row[r]) + Len(Added(queue[i], r)), r)

WorkerBook == \A i \in 1..3 : AtStep(i) => \A r \in Requests : WorkerAt(i, r)

(* What the scheduler holds of a request none of whose events is under way. *)
NoEvent(r) == \A i \in DOMAIN queue : \A e \in queue[i].events : e.req # r

SchedulerAt(r) ==
  /\ manager[r] = row[r] \o Pending(r)
  /\ shift[r] = 0 => offset[r] = 0 /\ lag[r] = NoLag
  /\ shift[r] < 0 => offset[r] = -shift[r] /\ lag[r] \in {1 - shift[r], 2 - shift[r]}

SchedulerBook ==
  \A r \in Requests :
    /\ status[r] = "finished" => manager[r] = <<>>
    /\ status[r] # "finished" /\ NoEvent(r) => SchedulerAt(r)

(* An event of step s under way: applied to the scheduler's list it gives   *)
(* the worker's row and the blocks still to be appended to it.              *)
Reported(s, e) ==
  LET m == manager[e.req]
  IN  /\ e.pre = Pre(s, e.req) /\ Tokens(s, e.req) = 1
      /\ e.len = Top(e.req) /\ shift[e.req] = e.len - e.pre /\ shift[e.req] < 0
      /\ lastStep[e.req] = s.step
      /\ e.after # <<>> /\ Len(e.after) < e.before /\ e.before <= Len(m)
      /\ IsPrefix(e.after, m)
      /\ SubSeq(m, 1, Len(e.after)) \o SubSeq(m, e.before + 1, Len(m))
           = row[e.req] \o Pending(e.req)

EventsTrue ==
  \A i \in DOMAIN queue :
    /\ queue[i].events # {} => queue[i].done /\ queue[i].barrier
    /\ \A e \in queue[i].events :
         /\ status[e.req] # "finished" => Reported(queue[i], e)
         /\ \A f \in queue[i].events : e.req = f.req => e = f

IInv ==
  /\ Types /\ QueueInOrder /\ EndedIdle /\ WorkerBook /\ SchedulerBook /\ EventsTrue
  /\ BlocksConserved /\ NeverFatal

-----------------------------------------------------------------------------
(* Blocks and budgets.                                                     *)

LEMMA ConstantTypes ==
  /\ BlockSize \in Nat /\ BlockSize > 0 /\ DivideLength \in Nat /\ DivideLength > 0
  /\ NumRequests \in Nat /\ MaxLength \in Nat /\ NumBlocks \in Nat /\ MaxRowBlocks \in Nat
  /\ KvBudget \in Nat /\ Grace \in Nat /\ ReserveCap \in Nat /\ GuardMultiples \in Nat
  /\ RegressionPercent \in Nat /\ Lookahead \in Nat /\ MaxScheduled \in Nat
  /\ ReserveCap < BlockSize /\ BlockSize <= DivideLength
  /\ \A p \in PromptLengths : p \in Nat /\ 1 <= p /\ p <= MaxLength
BY PipelineAssumption

LEMMA Division ==
  ASSUME NEW a \in Nat, NEW b \in Nat, b > 0
  PROVE  /\ a \div b \in Nat
         /\ (a \div b) * b <= a /\ a < (a \div b) * b + b
OBVIOUS

(* More whole blocks hold more.                                            *)
LEMMA Products ==
  ASSUME NEW m \in Nat, NEW n \in Nat
  PROVE  /\ m * BlockSize \in Nat
         /\ m <= n => m * BlockSize <= n * BlockSize
         /\ m < n => m * BlockSize + BlockSize <= n * BlockSize
         /\ (m + n) * BlockSize = m * BlockSize + n * BlockSize
BY ConstantTypes

(* Blocks(t) is the least number of blocks that hold t tokens.             *)
LEMMA BlocksLeast ==
  ASSUME NEW t \in Nat
  PROVE  /\ Blocks(t) \in Nat
         /\ \A n \in Nat : Blocks(t) <= n <=> t <= n * BlockSize
<1>1. t + BlockSize - 1 \in Nat
  BY ConstantTypes
<1>2. /\ Blocks(t) \in Nat
      /\ Blocks(t) * BlockSize <= t + BlockSize - 1
      /\ t + BlockSize - 1 < Blocks(t) * BlockSize + BlockSize
  BY <1>1, Division, ConstantTypes DEF Blocks
<1>3. ASSUME NEW n \in Nat
      PROVE  Blocks(t) <= n <=> t <= n * BlockSize
  <2>1. Blocks(t) <= n => Blocks(t) * BlockSize <= n * BlockSize
    BY <1>2, <1>3, Products
  <2>2. n < Blocks(t) => n * BlockSize + BlockSize <= Blocks(t) * BlockSize
    BY <1>2, <1>3, Products
  <2>3. n * BlockSize \in Nat /\ Blocks(t) * BlockSize \in Nat
    BY <1>2, <1>3, Products
  <2> QED
    BY <1>2, <1>3, <2>1, <2>2, <2>3, ConstantTypes
<1> QED
  BY <1>2, <1>3

LEMMA BlocksGrow ==
  ASSUME NEW t \in Nat, NEW u \in Nat
  PROVE  /\ t <= u => Blocks(t) <= Blocks(u)
         /\ t <= Blocks(t) * BlockSize
         /\ Blocks(t) = 0 <=> t = 0
<1>1. Blocks(t) \in Nat /\ Blocks(u) \in Nat
  BY BlocksLeast
<1>2. t <= Blocks(t) * BlockSize /\ u <= Blocks(u) * BlockSize
  BY <1>1, BlocksLeast
<1>3. Blocks(t) * BlockSize \in Nat /\ Blocks(u) * BlockSize \in Nat
  BY <1>1, Products
<1>4. t <= u => Blocks(t) <= Blocks(u)
  BY <1>1, <1>2, <1>3, BlocksLeast
<1>5. Blocks(t) <= 0 <=> t <= 0
  <2>1. 0 * BlockSize = 0
    BY ConstantTypes
  <2> QED
    BY <2>1, BlocksLeast
<1> QED
  BY <1>1, <1>2, <1>4, <1>5

(* The budget is that many blocks, and so is what a round keeps of it.     *)
BudgetBlocks == KvBudget \div BlockSize

LEMMA BudgetIsWhole ==
  ASSUME Deployment
  PROVE  /\ BudgetBlocks \in Nat /\ KvBudget = BudgetBlocks * BlockSize
         /\ \A k \in Nat : k <= KvBudget /\ KvBudget < k + BlockSize =>
              Blocks(k) = BudgetBlocks
         /\ \A n \in Nat : KvBudget < n * BlockSize => BudgetBlocks < n
         /\ \A n \in Nat : KvBudget <= n * BlockSize => BudgetBlocks <= n
         /\ \A n \in Nat : BudgetBlocks <= n => KvBudget <= n * BlockSize
<1>1. BudgetBlocks \in Nat /\ KvBudget = BudgetBlocks * BlockSize
  BY ConstantTypes, Division DEF Deployment, BudgetBlocks
<1>2. ASSUME NEW n \in Nat
      PROVE  /\ KvBudget < n * BlockSize => BudgetBlocks < n
             /\ KvBudget <= n * BlockSize => BudgetBlocks <= n
             /\ BudgetBlocks <= n => KvBudget <= n * BlockSize
  <2>1. /\ n <= BudgetBlocks => n * BlockSize <= BudgetBlocks * BlockSize
        /\ n < BudgetBlocks => n * BlockSize + BlockSize <= BudgetBlocks * BlockSize
        /\ BudgetBlocks <= n => BudgetBlocks * BlockSize <= n * BlockSize
        /\ n * BlockSize \in Nat
    BY <1>1, <1>2, Products
  <2> QED
    BY <1>1, <1>2, <2>1, ConstantTypes
<1>3. ASSUME NEW k \in Nat, k <= KvBudget, KvBudget < k + BlockSize
      PROVE  Blocks(k) = BudgetBlocks
  <2>1. Blocks(k) \in Nat /\ Blocks(k) <= BudgetBlocks
    BY <1>1, <1>3, BlocksLeast
  <2>2. Blocks(k) < BudgetBlocks => Blocks(k) * BlockSize + BlockSize <= KvBudget
    BY <1>1, <2>1, Products
  <2>3. k <= Blocks(k) * BlockSize /\ Blocks(k) * BlockSize \in Nat
    BY <2>1, BlocksGrow, Products
  <2> QED
    BY <1>1, <1>3, <2>1, <2>2, <2>3, ConstantTypes
<1> QED
  BY <1>1, <1>2, <1>3

(* What a round keeps is the budget up to the reserve, in as many blocks.  *)
LEMMA TopFacts ==
  ASSUME Deployment, Types, NEW r \in Requests, prompt[r] <= KvBudget
  PROVE  /\ Top(r) \in Nat /\ Top(r) <= KvBudget /\ KvBudget < Top(r) + BlockSize
         /\ prompt[r] <= Top(r) /\ Blocks(Top(r)) = BudgetBlocks
         /\ prompt[r] \in Nat /\ 1 <= prompt[r] /\ BudgetBlocks >= 1
<1>1. prompt[r] \in Nat /\ 1 <= prompt[r]
  BY ConstantTypes DEF Types
<1>2. /\ Top(r) \in Nat /\ Top(r) <= KvBudget /\ KvBudget < Top(r) + BlockSize
      /\ prompt[r] <= Top(r)
  BY <1>1, ConstantTypes DEF Top, Lesser
<1>3. Blocks(Top(r)) = BudgetBlocks
  BY <1>2, BudgetIsWhole
<1>4. BudgetBlocks \in Nat /\ BudgetBlocks # 0
  BY <1>1, <1>2, <1>3, BlocksGrow, BudgetIsWhole
<1> QED
  BY <1>1, <1>2, <1>3, <1>4

-----------------------------------------------------------------------------
(* Lists of blocks.                                                        *)

LEMMA LongNotEmpty == ASSUME NEW s, Len(s) # 0 PROVE s # <<>>
OBVIOUS

LEMMA Cut ==
  ASSUME NEW S, NEW s \in Seq(S), NEW n \in 0..Len(s)
  PROVE  /\ SubSeq(s, 1, n) \in Seq(S) /\ Len(SubSeq(s, 1, n)) = n
         /\ SubSeq(s, n + 1, Len(s)) \in Seq(S)
         /\ Len(SubSeq(s, n + 1, Len(s))) = Len(s) - n
         /\ \A k \in 1..n : SubSeq(s, 1, n)[k] = s[k]
         /\ \A k \in 1..(Len(s) - n) : SubSeq(s, n + 1, Len(s))[k] = s[n + k]
<1>1. Len(s) \in Nat /\ \A k \in 1..Len(s) : s[k] \in S
  BY ElementOfSeq, LenProperties
<1>2. \A k \in 1..n : s[k] \in S
  BY <1>1
<1>3. \A k \in (n + 1)..Len(s) : s[k] \in S
  BY <1>1
<1>4. /\ SubSeq(s, 1, n) \in Seq(S)
      /\ Len(SubSeq(s, 1, n)) = (IF 1 <= n THEN n - 1 + 1 ELSE 0)
      /\ \A k \in 1..(n - 1 + 1) : SubSeq(s, 1, n)[k] = s[1 + k - 1]
  BY <1>1, <1>2, SubSeqProperties
<1>5. /\ SubSeq(s, n + 1, Len(s)) \in Seq(S)
      /\ Len(SubSeq(s, n + 1, Len(s)))
           = (IF n + 1 <= Len(s) THEN Len(s) - (n + 1) + 1 ELSE 0)
      /\ \A k \in 1..(Len(s) - (n + 1) + 1) :
           SubSeq(s, n + 1, Len(s))[k] = s[n + 1 + k - 1]
  BY <1>1, <1>3, SubSeqProperties
<1> QED
  BY <1>1, <1>4, <1>5

(* The two parts of a concatenation.                                       *)
LEMMA Parts ==
  ASSUME NEW S, NEW s \in Seq(S), NEW t \in Seq(S)
  PROVE  /\ \A n \in 0..Len(s) : SubSeq(s \o t, 1, n) = SubSeq(s, 1, n)
         /\ SubSeq(s \o t, Len(s) + 1, Len(s \o t)) = t
         /\ Len(s \o t) = Len(s) + Len(t) /\ s \o t \in Seq(S)
<1>1. /\ s \o t \in Seq(S) /\ Len(s \o t) = Len(s) + Len(t)
      /\ \A i \in 1 .. Len(s) + Len(t) :
           (s \o t)[i] = IF i <= Len(s) THEN s[i] ELSE t[i - Len(s)]
      /\ Len(s) \in Nat /\ Len(t) \in Nat
  BY ConcatProperties, LenProperties
<1>2. ASSUME NEW n \in 0..Len(s)
      PROVE  SubSeq(s \o t, 1, n) = SubSeq(s, 1, n)
  <2>1. n \in 0..Len(s \o t)
    BY <1>1, <1>2
  <2>2. /\ SubSeq(s, 1, n) \in Seq(S) /\ Len(SubSeq(s, 1, n)) = n
        /\ \A k \in 1..n : SubSeq(s, 1, n)[k] = s[k]
    BY <1>2, Cut
  <2>3. /\ SubSeq(s \o t, 1, n) \in Seq(S) /\ Len(SubSeq(s \o t, 1, n)) = n
        /\ \A k \in 1..n : SubSeq(s \o t, 1, n)[k] = (s \o t)[k]
    BY <1>1, <2>1, Cut
  <2>4. \A k \in 1..n : SubSeq(s \o t, 1, n)[k] = SubSeq(s, 1, n)[k]
    BY <1>1, <1>2, <2>2, <2>3
  <2> QED
    BY <2>2, <2>3, <2>4, SeqEqual
<1>3. SubSeq(s \o t, Len(s) + 1, Len(s \o t)) = t
  <2>1. Len(s) \in 0..Len(s \o t)
    BY <1>1
  <2>2. LET u == SubSeq(s \o t, Len(s) + 1, Len(s \o t))
        IN  /\ u \in Seq(S) /\ Len(u) = Len(t)
            /\ \A k \in 1..Len(t) : u[k] = (s \o t)[Len(s) + k]
    BY <1>1, <2>1, Cut
  <2>3. \A k \in 1..Len(t) : (s \o t)[Len(s) + k] = t[k]
    BY <1>1
  <2> QED
    BY <2>2, <2>3, SeqEqual
<1> QED
  BY <1>1, <1>2, <1>3

(* A middle taken out of a list without repetitions.                       *)
LEMMA CutOut ==
  ASSUME NEW S, NEW m \in Seq(S), IsInjective(m),
         NEW a \in Nat, NEW b \in Nat, a < b, b <= Len(m)
  PROVE  LET u == SubSeq(m, 1, a) \o SubSeq(m, b + 1, Len(m))
         IN  /\ u \in Seq(S) /\ IsInjective(u) /\ Range(u) \subseteq Range(m)
             /\ Range(m) \ Range(u) # {}
<1> DEFINE u == SubSeq(m, 1, a) \o SubSeq(m, b + 1, Len(m))
           place(k) == IF k <= a THEN k ELSE k - a + b
<1>1. Len(m) \in Nat /\ DOMAIN m = 1..Len(m)
  BY LenProperties
<1>2. a \in 0..Len(m) /\ b \in 0..Len(m)
  BY <1>1
<1>3. /\ SubSeq(m, 1, a) \in Seq(S) /\ Len(SubSeq(m, 1, a)) = a
      /\ \A k \in 1..a : SubSeq(m, 1, a)[k] = m[k]
  BY <1>2, Cut
<1>4. /\ SubSeq(m, b + 1, Len(m)) \in Seq(S)
      /\ Len(SubSeq(m, b + 1, Len(m))) = Len(m) - b
      /\ \A k \in 1..(Len(m) - b) : SubSeq(m, b + 1, Len(m))[k] = m[b + k]
  BY <1>2, Cut
<1>5. /\ u \in Seq(S) /\ Len(u) = a + (Len(m) - b)
      /\ \A k \in 1..(a + (Len(m) - b)) :
           u[k] = IF k <= a THEN SubSeq(m, 1, a)[k] ELSE SubSeq(m, b + 1, Len(m))[k - a]
  <2> DEFINE left == SubSeq(m, 1, a)
             right == SubSeq(m, b + 1, Len(m))
  <2>1. /\ left \in Seq(S) /\ right \in Seq(S) /\ Len(left) = a /\ Len(right) = Len(m) - b
    BY <1>3, <1>4
  <2> HIDE DEF left, right
  <2>2. /\ left \o right \in Seq(S) /\ Len(left \o right) = Len(left) + Len(right)
        /\ \A k \in 1 .. Len(left) + Len(right) :
             (left \o right)[k] = IF k <= Len(left) THEN left[k] ELSE right[k - Len(left)]
    <3>1. left \in Seq(S) /\ right \in Seq(S)
      BY <2>1
    <3> QED
      BY ONLY <3>1, ConcatProperties
  <2>3. u = left \o right
    BY DEF left, right
  <2> QED
    BY <2>1, <2>2, <2>3 DEF left, right
<1>6. DOMAIN u = 1..(a + (Len(m) - b))
  BY <1>5, LenProperties
<1>7. \A k \in DOMAIN u : u[k] = m[place(k)] /\ place(k) \in 1..Len(m) /\ place(k) # b
  <2>1. SUFFICES ASSUME NEW k \in DOMAIN u
                 PROVE  u[k] = m[place(k)] /\ place(k) \in 1..Len(m) /\ place(k) # b
    OBVIOUS
  <2>2. k \in 1..(a + (Len(m) - b))
    BY <1>6
  <2>3. CASE k <= a
    BY <1>1, <1>3, <1>5, <2>2, <2>3
  <2>4. CASE ~(k <= a)
    <3>1. k - a \in 1..(Len(m) - b)
      BY <1>1, <2>2, <2>4
    <3>2. u[k] = m[b + (k - a)]
      BY <1>4, <1>5, <2>2, <2>4, <3>1
    <3>3. b + (k - a) = place(k) /\ place(k) \in 1..Len(m) /\ place(k) # b
      BY <1>1, <2>2, <2>4
    <3> QED
      BY <3>2, <3>3
  <2> QED
    BY <2>3, <2>4
<1>8. \A j, k \in DOMAIN u : place(j) = place(k) => j = k
  BY <1>1, <1>6
<1>9. IsInjective(u)
  <2>1. ASSUME NEW j \in DOMAIN u, NEW k \in DOMAIN u, u[j] = u[k]
        PROVE  j = k
    <3>1. m[place(j)] = m[place(k)] /\ place(j) \in DOMAIN m /\ place(k) \in DOMAIN m
      BY <1>1, <1>7, <2>1
    <3> QED
      BY <1>8, <2>1, <3>1 DEF IsInjective
  <2> QED
    BY <2>1 DEF IsInjective
<1>10. Range(u) \subseteq Range(m)
  BY <1>1, <1>7 DEF Range
<1>11. m[b] \in Range(m) /\ m[b] \notin Range(u)
  <2>1. b \in DOMAIN m
    BY <1>1
  <2>2. \A k \in DOMAIN u : u[k] # m[b]
    BY <1>1, <1>7, <2>1 DEF IsInjective
  <2> QED
    BY <2>1, <2>2 DEF Range
<1> QED
  BY <1>5, <1>9, <1>10, <1>11

-----------------------------------------------------------------------------
(* The hook: when a round is applied, and how much it keeps.               *)

LEMMA ConstantBounds ==
  ASSUME Deployment
  PROVE  /\ Threshold \in Nat /\ GuardUpper \in Nat
         /\ Threshold = KvBudget + DivideLength /\ KvBudget + 5 <= Threshold
         /\ Threshold <= GuardUpper
<1>1. GuardMultiples * DivideLength \in Nat /\ DivideLength <= GuardMultiples * DivideLength
  BY ConstantTypes DEF Deployment
<1> QED
  BY <1>1, ConstantTypes DEF Deployment, Threshold, GuardUpper

LEMMA RequestLists ==
  ASSUME Types, NEW r \in Requests
  PROVE  /\ manager[r] \in Blocklists /\ row[r] \in Blocklists
         /\ Len(manager[r]) \in Nat /\ Len(row[r]) \in Nat
         /\ row[r] = <<>> <=> Len(row[r]) = 0
<1>1. manager[r] \in Blocklists /\ row[r] \in Blocklists
  BY DEF Types
<1> QED
  BY <1>1, EmptySeq, LenProperties DEF Blocklists

LEMMA RequestTypes ==
  ASSUME Types, NEW r \in Requests
  PROVE  /\ prompt[r] \in Nat /\ 1 <= prompt[r] /\ prompt[r] <= MaxLength
         /\ nct[r] \in Nat /\ nct[r] <= MaxLength /\ Capacity(r) \in Nat
         /\ offset[r] \in Nat /\ lag[r] \in Int /\ lag[r] >= -1 /\ curLen[r] \in Int
         /\ seen[r] \in Nat /\ seen[r] <= MaxLength
         /\ lastStep[r] \in Int /\ shift[r] \in Int /\ kv[r] \in Int /\ step \in Nat
<1>1. Capacity(r) \in Nat
  BY RequestLists, Products DEF Capacity
<1> QED
  BY <1>1, ConstantTypes DEF Types, NoLag

LEMMA StepLists ==
  ASSUME NEW s \in Steps, NEW r \in Requests
  PROVE  /\ Added(s, r) \in Blocklists /\ Len(Added(s, r)) \in Nat
         /\ Added(s, r) = <<>> <=> Len(Added(s, r)) = 0
<1>1. Added(s, r) \in Blocklists
  BY DEF Steps, Added
<1> QED
  BY <1>1, EmptySeq, LenProperties DEF Blocklists

LEMMA StepTypes ==
  ASSUME NEW s \in Steps, NEW r \in Requests
  PROVE  /\ s.step \in Nat /\ Tokens(s, r) \in Nat
         /\ Pre(s, r) \in Nat /\ Pre(s, r) <= MaxLength
         /\ s.ended \subseteq Requests /\ s.done \in BOOLEAN /\ s.barrier \in BOOLEAN
         /\ s.events \subseteq Events /\ s.signals[r] \in Signals
BY ConstantTypes DEF Steps, Tokens, Pre

LEMMA SignalTypes ==
  ASSUME NEW s \in Steps, NEW r \in Requests
  PROVE  /\ Fires(s, r) \in BOOLEAN /\ Sent(s, r) \in BOOLEAN
         /\ Est(s, r) \in Int /\ Asked(s, r) \in Nat
BY StepTypes DEF Signals, Fires, Sent, Est, Asked

HeardOf(s, r) == Heard(s)[r]

LEMMA HeardTypes ==
  ASSUME Types, NEW s \in Steps, NEW r \in Requests
  PROVE  /\ HeardOf(s, r) = IF Sent(s, r) THEN Est(s, r) ELSE curLen[r]
         /\ HeardOf(s, r) \in Int
<1>1. HeardOf(s, r) = IF Sent(s, r) THEN Est(s, r) ELSE curLen[r]
  BY DEF HeardOf, Heard, Sent, Est
<1> QED
  BY <1>1, SignalTypes, RequestTypes

(* The worker's own length and the estimate, in these terms.               *)
LEMMA Lengths ==
  ASSUME NEW s, NEW r \in Requests, NEW sig
  PROVE  /\ OwnLength(r, s) = IF Compressed(r) /\ HeardOf(s, r) > 0
                              THEN HeardOf(s, r) + Greater(1, Tokens(s, r)) ELSE Capacity(r)
         /\ Estimate(r, s, sig) = IF Compressed(r) /\ HeardOf(s, r) > 0
                                  THEN HeardOf(s, r) ELSE sig.est
BY DEF OwnLength, Estimate, HeardOf, Tokens

(* A signal that fires is the scheduler's, or the worker's own.            *)
LEMMA SignalFacts ==
  ASSUME Types, NEW s \in Steps, NEW r \in Requests, StepShape(s, r),
         NEW sig, sig = Supplemented(s)[r]
  PROVE  /\ sig \in Signals /\ sig.est \in Int /\ sig.tokens \in Nat /\ sig.fires \in BOOLEAN
         /\ sig.fires => sig.tokens = Tokens(s, r) /\ Tokens(s, r) > 0
         /\ sig.fires => \/ /\ SelfTriggers(r, s) /\ sig.est = OwnLength(r, s)
                            /\ sig.est >= Threshold
                         \/ Fires(s, r) /\ sig = s.signals[r]
         /\ Fires(s, r) => sig.fires
         /\ Fires(s, r) /\ Tokens(s, r) = 1 => sig = s.signals[r]
<1>1. sig = IF SelfTriggers(r, s)
            THEN [sent |-> TRUE, fires |-> TRUE, est |-> OwnLength(r, s), tokens |-> Tokens(s, r)]
            ELSE s.signals[r]
  BY DEF Supplemented, Tokens
<1>2. OwnLength(r, s) \in Int
  BY Lengths, StepTypes, SignalTypes, HeardTypes, RequestTypes DEF Greater
<1>3. CASE SelfTriggers(r, s)
  <2>1. Tokens(s, r) > 0 /\ OwnLength(r, s) >= Threshold
        /\ ~(Fires(s, r) /\ Asked(s, r) <= 1)
    BY <1>3 DEF SelfTriggers, Tokens, Fires, Asked
  <2>2. ~(Fires(s, r) /\ Tokens(s, r) = 1)
    BY <2>1, StepTypes, SignalTypes, HeardTypes DEF StepShape
  <2>3. Tokens(s, r) \in Nat /\ ~(Fires(s, r) /\ Tokens(s, r) = 1)
    BY <2>2, StepTypes
  <2> QED
    BY <1>1, <1>2, <1>3, <2>1, <2>3 DEF Signals
<1>4. CASE ~SelfTriggers(r, s)
  <2>1. Fires(s, r) => Asked(s, r) = Tokens(s, r) /\ Tokens(s, r) > 0
    BY StepTypes, SignalTypes, HeardTypes DEF StepShape
  <2>2. sig = s.signals[r] /\ sig.fires = Fires(s, r) /\ sig.tokens = Asked(s, r) /\ sig.est = Est(s, r)
    BY <1>1, <1>4 DEF Fires, Asked, Est
  <2> QED
    BY <2>1, <2>2, StepTypes, SignalTypes
<1> QED
  BY <1>3, <1>4

(* A round of one token on at least the budget keeps what Top says.        *)
LEMMA RoundSize ==
  ASSUME Deployment, Types, NEW s, NEW r \in Requests, NEW sig,
         HookTokens(r, s, sig) \in Int, KvBudget <= HookTokens(r, s, sig),
         sig.tokens = 1, prompt[r] <= KvBudget
  PROVE  BudgetTotal(r, s, sig) = Top(r)
<1>1. Lesser(HookTokens(r, s, sig), KvBudget) = KvBudget
  BY ConstantTypes DEF Lesser
<1>2. Reserve(r, sig, KvBudget)
       = LET wish == Lesser(1 + Grace, ReserveCap)
         IN  IF KvBudget - wish < prompt[r] THEN 0 ELSE wish
  BY ConstantTypes DEF Reserve, Greater
<1> QED
  BY <1>1, <1>2, ConstantTypes, RequestTypes DEF BudgetTotal, Top, Lesser

(* The table of an uncompressed request is just as long as it must be.     *)
LEMMA WholeCapacity ==
  ASSUME Types, NEW r \in Requests, NEW x \in Nat, x > 0, Len(row[r]) = Blocks(x)
  PROVE  x <= Capacity(r) /\ Capacity(r) < x + BlockSize /\ Len(row[r]) > 0
<1>1. Len(row[r]) > 0 /\ x <= Capacity(r) /\ Len(row[r]) \in Nat /\ Capacity(r) \in Nat
  BY BlocksGrow, RequestTypes, RequestLists DEF Capacity
<1>2. Len(row[r]) - 1 \in Nat /\ ~(Blocks(x) <= Len(row[r]) - 1)
  BY <1>1
<1>3. ~(x <= (Len(row[r]) - 1) * BlockSize) /\ (Len(row[r]) - 1) * BlockSize \in Nat
  BY <1>2, BlocksLeast, Products
<1>4. ((Len(row[r]) - 1) + 1) * BlockSize = (Len(row[r]) - 1) * BlockSize + BlockSize
  <2>1. 1 * BlockSize = BlockSize
    BY ConstantTypes
  <2> QED
    BY <1>2, <2>1, Products
<1>5. Capacity(r) = (Len(row[r]) - 1) * BlockSize + BlockSize
  BY <1>1, <1>4 DEF Capacity
<1> QED
  BY <1>1, <1>3, <1>5, ConstantTypes

(* A step about to be executed, with what the worker holds then.           *)
AtHook(s, r) ==
  StepShape(s, r) /\ Held(Pre(s, r), s.step, r) /\ Planned(s, Len(row[r]), r)

(* The length the hook sees when a round of a decode step may be due: the  *)
(* whole budget and no more than the worker holds, which its blocks hold.  *)
LEMMA HookLength ==
  ASSUME Deployment, Types, NEW s \in Steps, NEW r \in Requests, AtHook(s, r), Served(r),
         NEW sig, sig = Supplemented(s)[r], sig.fires,
         Pre(s, r) > prompt[r], shift[r] < 0 => s.step > lastStep[r] + 1
  PROVE  /\ Tokens(s, r) = 1 /\ sig.tokens = 1
         /\ HookTokens(r, s, sig) \in Int
         /\ KvBudget <= HookTokens(r, s, sig) /\ KvBudget < Capacity(r)
         /\ shift[r] = 0 => HookTokens(r, s, sig) = Pre(s, r) - 1
         /\ shift[r] < 0 => /\ kv[r] - 1 <= HookTokens(r, s, sig)
                            /\ HookTokens(r, s, sig) <= kv[r]
                            /\ Estimate(r, s, sig) = Est(s, r)
                            /\ Est(s, r) >= kv[r]
<1>1. /\ Tokens(s, r) = 1 /\ sig.tokens = 1 /\ sig.est \in Int
      /\ \/ sig.est = OwnLength(r, s) /\ sig.est >= Threshold
         \/ Fires(s, r) /\ sig.est = Est(s, r)
  <2>1. Tokens(s, r) <= 1
    BY StepTypes, SignalTypes, HeardTypes, RequestTypes DEF StepShape, AtHook
  <2> QED
    BY <2>1, SignalFacts, StepTypes DEF AtHook, Est
<1>2. seen[r] = Pre(s, r) - 1 /\ Pre(s, r) \in Nat /\ Pre(s, r) > 0
  BY StepTypes, SignalTypes, HeardTypes, RequestTypes DEF Held, AtHook
<1>4. /\ Threshold \in Nat /\ KvBudget + 5 <= Threshold
      /\ KvBudget + BlockSize <= Threshold /\ KvBudget \in Nat /\ BlockSize \in Nat /\ BlockSize > 0
  BY ConstantBounds, ConstantTypes
<1>5. CASE shift[r] = 0
  <2>1. kv[r] = Pre(s, r) /\ Len(row[r]) = Blocks(Pre(s, r))
    BY <1>5 DEF Held, HeldWhole, AtHook
  <2>2. Pre(s, r) <= Capacity(r) /\ Capacity(r) < Pre(s, r) + BlockSize /\ Capacity(r) \in Nat
    BY <2>1, WholeCapacity, StepTypes, SignalTypes, HeardTypes, RequestTypes
  <2>3. PlannedWhole(s, Len(row[r]), r)
    BY <1>1, <1>5 DEF Planned, AtHook
  <2>4. Estimate(r, s, sig) = sig.est
    <3>1. ~Compressed(r)
      BY <1>5 DEF Compressed
    <3> QED
      BY <3>1, Lengths
  <2>5. /\ sig.est = Capacity(r) \/ sig.est = Pre(s, r) + 2
        /\ sig.est >= Threshold
    <3>1. OwnLength(r, s) = Capacity(r)
      BY <1>5, Lengths DEF Compressed
    <3>2. Fires(s, r) => Est(s, r) = Pre(s, r) + 2 /\ Pre(s, r) + 2 >= Threshold
      BY <1>1, <2>3, StepTypes, SignalTypes, HeardTypes DEF PlannedWhole
    <3> QED
      BY <1>1, <3>1, <3>2
  <2>6. KvBudget < Pre(s, r)
    BY <1>4, <2>2, <2>5, StepTypes, SignalTypes
  <2>7. HookTokens(r, s, sig) = Pre(s, r) - 1
    <3>1. HookTokens(r, s, sig)
           = Lesser(Lesser(Greater(0, sig.est - 1), Pre(s, r) - 1), Capacity(r) + BlockSize)
      BY <1>1, <1>2, <2>4 DEF HookTokens
    <3>2. Pre(s, r) - 1 < sig.est - 1 \/ Pre(s, r) - 1 = sig.est - 1
      BY <1>2, <2>2, <2>5
    <3> QED
      BY <1>2, <1>4, <2>2, <2>5, <3>1, <3>2 DEF Lesser, Greater
  <2> QED
    BY <1>1, <1>4, <1>5, <2>2, <2>6, <2>7, StepTypes, SignalTypes
<1>6. CASE shift[r] < 0
  <2>1. /\ kv[r] = Pre(s, r) + shift[r] /\ kv[r] > Top(r)
        /\ kv[r] <= Capacity(r) \/ kv[r] <= Top(r) + 2
    BY <1>6 DEF Held, HeldCompacted, AtHook
  <2>2. Top(r) \in Nat /\ Top(r) <= KvBudget /\ kv[r] \in Int /\ Capacity(r) \in Nat
        /\ shift[r] \in Int /\ Pre(s, r) \in Nat
    BY <2>1, ConstantTypes, RequestTypes, StepTypes, SignalTypes, HeardTypes DEF Top, Lesser
  <2>3. /\ Sent(s, r) /\ (Est(s, r) = kv[r] \/ Est(s, r) = kv[r] + 1)
        /\ Fires(s, r) <=> Est(s, r) >= Threshold
    <3>1. Informed(s, Pre(s, r) + 1 + shift[r], r)
      <4>1. PlannedCompacted(s, Len(row[r]), r)
        BY <1>1, <1>6 DEF Planned, AtHook
      <4> QED
        BY <1>6, <4>1 DEF PlannedCompacted
    <3>2. (Pre(s, r) + 1 + shift[r]) - 1 = kv[r] /\ Pre(s, r) + 1 + shift[r] = kv[r] + 1
      BY <2>1, <2>2
    <3> QED
      BY <3>1, <3>2 DEF Informed
  <2>4. HeardOf(s, r) = Est(s, r) /\ HeardOf(s, r) > 0 /\ Est(s, r) \in Int
    BY <2>1, <2>2, <2>3, HeardTypes, SignalTypes
  <2>5. Estimate(r, s, sig) = Est(s, r)
    BY <1>6, <2>4, Lengths DEF Compressed
  <2>6. Est(s, r) >= Threshold - 1
    <3>1. OwnLength(r, s) = Est(s, r) + 1
      BY <1>1, <1>6, <2>4, Lengths DEF Compressed, Greater
    <3> QED
      BY <1>1, <1>4, <2>3, <2>4, <3>1
  <2>7. KvBudget + 3 <= kv[r] /\ kv[r] <= Capacity(r)
    BY <1>4, <2>1, <2>2, <2>3, <2>4, <2>6
  <2>8. HookTokens(r, s, sig) \in Int /\ HookTokens(r, s, sig) <= kv[r]
        /\ kv[r] - 1 <= HookTokens(r, s, sig)
    BY <1>1, <1>2, <1>4, <1>6, <2>1, <2>2, <2>3, <2>4, <2>5, <2>7
       DEF HookTokens, Lesser, Greater
  <2> QED
    BY <1>1, <1>4, <1>6, <2>2, <2>3, <2>4, <2>5, <2>7, <2>8
<1>7. shift[r] \in Int /\ shift[r] <= 0
  BY RequestTypes DEF Held, AtHook
<1> QED
  BY <1>5, <1>6, <1>7

(* What any round keeps and protects, whatever the lengths.                *)
LEMMA RoundBounds ==
  ASSUME Types, NEW s \in Steps, NEW r \in Requests, StepShape(s, r),
         NEW sig, sig = Supplemented(s)[r]
  PROVE  /\ HookTokens(r, s, sig) \in Nat /\ HookTokens(r, s, sig) <= seen[r]
         /\ BudgetTotal(r, s, sig) \in Nat /\ BudgetTotal(r, s, sig) <= KvBudget
<1>1. sig.est \in Int /\ sig.tokens \in Nat
  BY SignalFacts
<1>2. Estimate(r, s, sig) \in Int
  BY <1>1, Lengths, HeardTypes
<1>3. HookTokens(r, s, sig) \in Nat /\ HookTokens(r, s, sig) <= seen[r]
  BY <1>1, <1>2, RequestTypes, ConstantTypes DEF HookTokens, Lesser, Greater
<1>4. LET total == Lesser(HookTokens(r, s, sig), KvBudget)
      IN  total \in Nat /\ total <= KvBudget
  BY <1>3, ConstantTypes DEF Lesser
<1>5. \A n \in Nat : Reserve(r, sig, n) \in Nat
  BY <1>1, ConstantTypes DEF Reserve, Lesser, Greater
<1> QED
  BY <1>3, <1>4, <1>5, ConstantTypes DEF BudgetTotal

(* A round is applied in a decode step only, on a cache beyond the budget, *)
(* never right behind another, and it keeps Top(r) rows.                   *)
LEMMA RoundFacts ==
  ASSUME Deployment, Types, NEW s \in Steps, NEW r \in Requests, AtHook(s, r),
         Applies(r, s)
  PROVE  /\ Served(r) /\ Pre(s, r) > prompt[r] /\ Tokens(s, r) = 1
         /\ prompt[r] <= KvBudget /\ Kept(r, s) = Top(r)
         /\ KvBudget < Capacity(r) /\ KvBudget < Pre(s, r)
         /\ shift[r] < 0 => s.step > lastStep[r] + 1
<1> DEFINE sig == Supplemented(s)[r]
<1>1. sig.fires /\ row[r] # <<>> /\ ~Deduplicated(r, s, sig) /\ Selects(r, s, sig)
  BY DEF Applies
<1> HIDE DEF sig
<1>2. Served(r)
  BY <1>1 DEF Served
<1>3. StepShape(s, r)
  BY DEF AtHook
<1>4. sig = Supplemented(s)[r]
  BY DEF sig
<1>5. sig.tokens = Tokens(s, r) /\ Tokens(s, r) > 0
  BY <1>1, <1>3, <1>4, SignalFacts
<1>6. /\ prompt[r] <= BudgetTotal(r, s, sig) /\ BudgetTotal(r, s, sig) < HookTokens(r, s, sig)
      /\ prompt[r] <= KvBudget /\ prompt[r] < seen[r]
  <2>1. /\ prompt[r] <= BudgetTotal(r, s, sig)
        /\ HookTokens(r, s, sig) > BudgetTotal(r, s, sig)
    BY <1>1 DEF Selects
  <2>2. /\ HookTokens(r, s, sig) \in Nat /\ HookTokens(r, s, sig) <= seen[r]
        /\ BudgetTotal(r, s, sig) \in Nat /\ BudgetTotal(r, s, sig) <= KvBudget
    BY <1>3, <1>4, RoundBounds
  <2> QED
    BY <2>1, <2>2, RequestTypes, ConstantTypes
<1>7. Pre(s, r) > prompt[r]
  <2>1. Pre(s, r) <= prompt[r] => seen[r] < prompt[r]
    BY DEF AtHook, Held
  <2> QED
    BY <1>6, <2>1, StepTypes, RequestTypes
<1>8. Tokens(s, r) = 1
  BY <1>3, <1>5, <1>7, StepTypes, RequestTypes DEF StepShape
<1>9. shift[r] < 0 => s.step > lastStep[r] + 1
  <2>1. SUFFICES ASSUME shift[r] < 0 PROVE s.step > lastStep[r] + 1
    OBVIOUS
  <2>2. lastStep[r] >= 0
    BY <2>1 DEF AtHook, Held, HeldCompacted
  <2>3. ~(s.step - lastStep[r] <= 1)
    BY <1>1, <1>5, <1>8, <2>1, <2>2 DEF Deduplicated, Compressed
  <2> QED
    BY <2>3, StepTypes, RequestTypes
<1>10. /\ HookTokens(r, s, sig) \in Int /\ KvBudget <= HookTokens(r, s, sig)
       /\ KvBudget < Capacity(r)
  BY <1>1, <1>2, <1>4, <1>7, <1>9, HookLength
<1>11. BudgetTotal(r, s, sig) = Top(r)
  BY <1>5, <1>6, <1>8, <1>10, RoundSize
<1>12. Kept(r, s) = Top(r)
  BY <1>4, <1>11 DEF Kept
<1>13. KvBudget < Pre(s, r)
  <2>1. seen[r] = Pre(s, r) - 1
    BY <1>7 DEF AtHook, Held
  <2>2. HookTokens(r, s, sig) <= seen[r]
    BY <1>3, <1>4, RoundBounds
  <2> QED
    BY <1>10, <2>1, <2>2, StepTypes, RequestTypes, ConstantTypes
<1> QED
  BY <1>2, <1>6, <1>7, <1>8, <1>9, <1>10, <1>12, <1>13

(* A cache whose prompt fits the budget is compacted before it outgrows    *)
(* the threshold.                                                          *)
LEMMA RoundDue ==
  ASSUME Deployment, Types, NEW s \in Steps, NEW r \in Requests, AtHook(s, r),
         Served(r), Tokens(s, r) > 0, prompt[r] <= KvBudget, ~Applies(r, s)
  PROVE  /\ shift[r] = 0 => Pre(s, r) + Tokens(s, r) <= Threshold - 2
         /\ shift[r] < 0 /\ s.step > lastStep[r] + 1 => kv[r] < Threshold
<1> DEFINE sig == Supplemented(s)[r]
<1> HIDE DEF sig
<1>1. sig = Supplemented(s)[r] /\ StepShape(s, r)
  BY DEF sig, AtHook
<1>2. /\ Threshold \in Nat /\ KvBudget + 5 <= Threshold /\ KvBudget \in Nat
      /\ Threshold = KvBudget + DivideLength /\ DivideLength \in Nat
  BY ConstantBounds, ConstantTypes
<1>3. /\ Tokens(s, r) \in Nat /\ Pre(s, r) \in Nat /\ prompt[r] \in Nat
      /\ Pre(s, r) < prompt[r] => Pre(s, r) + Tokens(s, r) <= prompt[r]
      /\ Pre(s, r) >= prompt[r] => Tokens(s, r) <= 1
  BY <1>1, StepTypes, RequestTypes DEF StepShape
<1>4. Top(r) \in Nat /\ prompt[r] <= Top(r) /\ Top(r) <= KvBudget
  BY TopFacts
<1>5. ASSUME Fires(s, r), Pre(s, r) > prompt[r], shift[r] < 0 => s.step > lastStep[r] + 1,
             KvBudget < HookTokens(r, s, sig),
             shift[r] < 0 => Estimate(r, s, sig) >= Threshold /\ Estimate(r, s, sig) \in Int
      PROVE  FALSE
  <2>1. Tokens(s, r) = 1 /\ sig.fires /\ sig.tokens = 1
    BY <1>1, <1>3, <1>5, SignalFacts
  <2>2. HookTokens(r, s, sig) \in Int /\ KvBudget < Capacity(r)
    BY <1>1, <1>5, <2>1, HookLength
  <2>3. BudgetTotal(r, s, sig) = Top(r)
    BY <1>2, <1>5, <2>1, <2>2, RoundSize
  <2>4. row[r] # <<>>
    <3>1. Len(row[r]) = 0 => Capacity(r) = 0
      BY ConstantTypes DEF Capacity
    <3> QED
      BY <1>2, <2>2, <3>1, RequestLists
  <2>5. ~Deduplicated(r, s, sig)
    <3>1. shift[r] < 0 => ~(s.step - lastStep[r] <= 1)
      BY <1>5, StepTypes, RequestTypes
    <3> QED
      BY <3>1 DEF Deduplicated, Compressed
  <2>6. ~Defers(r, s, sig)
    <3>1. shift[r] < 0 => ~(Estimate(r, s, sig) < Top(r) + DivideLength)
      BY <1>2, <1>4, <1>5
    <3> QED
      BY <2>3, <3>1 DEF Defers, Compressed
  <2>7. Selects(r, s, sig)
    BY <1>2, <1>4, <1>5, <2>2, <2>3 DEF Selects
  <2>8. Applies(r, s)
    BY <1>1, <2>1, <2>4, <2>5, <2>6, <2>7 DEF Applies
  <2> QED
    BY <2>8
<1>6. ASSUME shift[r] = 0
      PROVE  Pre(s, r) + Tokens(s, r) <= Threshold - 2
  <2>1. SUFFICES ASSUME ~(Pre(s, r) + Tokens(s, r) <= Threshold - 2)
                 PROVE  FALSE
    OBVIOUS
  <2>2. Pre(s, r) > prompt[r] /\ Tokens(s, r) = 1 /\ Pre(s, r) + 2 >= Threshold
    BY <1>2, <1>3, <2>1
  <2>3. Fires(s, r)
    <3>1. PlannedWhole(s, Len(row[r]), r)
      BY <1>6 DEF AtHook, Planned
    <3>2. Fires(s, r) <=> Pre(s, r) + 2 * Tokens(s, r) >= Threshold
      BY <3>1 DEF PlannedWhole
    <3>3. Pre(s, r) + 2 * Tokens(s, r) = Pre(s, r) + 2
      BY <2>2
    <3> QED
      BY <2>2, <3>2, <3>3
  <2>4. sig.fires
    BY <1>1, <2>3, SignalFacts
  <2>5. HookTokens(r, s, sig) = Pre(s, r) - 1
    BY <1>1, <1>6, <2>2, <2>4, HookLength
  <2>6. KvBudget < HookTokens(r, s, sig)
    BY <1>2, <1>3, <2>2, <2>5
  <2> QED
    BY <1>5, <1>6, <2>2, <2>3, <2>6
<1>7. ASSUME shift[r] < 0, s.step > lastStep[r] + 1
      PROVE  kv[r] < Threshold
  <2>1. SUFFICES ASSUME kv[r] >= Threshold
                 PROVE  FALSE
    BY <1>2, RequestTypes
  <2>2. Pre(s, r) > prompt[r] /\ kv[r] = Pre(s, r) + shift[r]
    BY <1>7 DEF AtHook, Held, HeldCompacted
  <2>3. Est(s, r) >= Threshold /\ Fires(s, r) /\ Est(s, r) \in Int
    <3>1. PlannedCompacted(s, Len(row[r]), r)
      BY <1>7 DEF AtHook, Planned
    <3>2. Informed(s, Pre(s, r) + 1 + shift[r], r)
      BY <1>7, <3>1 DEF PlannedCompacted
    <3>3. (Pre(s, r) + 1 + shift[r]) - 1 = kv[r] /\ Pre(s, r) + 1 + shift[r] = kv[r] + 1
      BY <1>3, <2>2, RequestTypes
    <3>4. (Est(s, r) = kv[r] \/ Est(s, r) = kv[r] + 1) /\ (Fires(s, r) <=> Est(s, r) >= Threshold)
      BY <3>2, <3>3 DEF Informed
    <3> QED
      BY <1>2, <2>1, <3>4, RequestTypes, SignalTypes
  <2>4. sig.fires
    BY <1>1, <2>3, SignalFacts
  <2>5. kv[r] - 1 <= HookTokens(r, s, sig) /\ Estimate(r, s, sig) = Est(s, r)
        /\ HookTokens(r, s, sig) \in Int
    BY <1>1, <1>7, <2>2, <2>4, HookLength
  <2>6. KvBudget < HookTokens(r, s, sig)
    BY <1>2, <2>1, <2>5, RequestTypes
  <2> QED
    BY <1>5, <1>7, <2>2, <2>3, <2>5, <2>6
<1> QED
  BY <1>6, <1>7

(* The regression guard of the hook never fires.                           *)
LEMMA NotRegressed ==
  ASSUME Deployment, Types, NEW s \in Steps, NEW r \in Requests, AtHook(s, r),
         Served(r), NEW sig, sig = Supplemented(s)[r], sig.fires, ~Deduplicated(r, s, sig)
  PROVE  ~Regressed(r, s, sig)
<1>1. SUFFICES ASSUME Regressed(r, s, sig) PROVE FALSE
  OBVIOUS
<1>2. shift[r] < 0
  BY <1>1 DEF Regressed, Compressed
<1>3. Pre(s, r) > prompt[r] /\ lastStep[r] >= 0 /\ kv[r] <= Threshold
  BY <1>2 DEF AtHook, Held, HeldCompacted
<1>4. StepShape(s, r)
  BY DEF AtHook
<1>5. sig.tokens = 1 /\ sig.est \in Int
  <2>1. sig.tokens = Tokens(s, r) /\ Tokens(s, r) > 0 /\ sig.est \in Int
    BY <1>4, SignalFacts
  <2> QED
    BY <1>3, <1>4, <2>1, StepTypes, RequestTypes DEF StepShape
<1>6. s.step > lastStep[r] + 1
  <2>1. ~(s.step - lastStep[r] <= 1)
    BY <1>2, <1>3, <1>5 DEF Deduplicated, Compressed
  <2> QED
    BY <2>1, StepTypes, RequestTypes
<1>7. HookTokens(r, s, sig) \in Int /\ HookTokens(r, s, sig) <= kv[r]
  BY <1>2, <1>3, <1>6, HookLength
<1>8. HookTokens(r, s, sig) <= GuardUpper
  BY <1>3, <1>7, ConstantBounds, RequestTypes
<1>9. LET slack == BlockSize + Greater(1, sig.est - seen[r]) + Greater(1, sig.tokens)
      IN  slack \in Nat /\ HookTokens(r, s, sig) > GuardUpper + slack
  <2>1. BlockSize + Greater(1, sig.est - seen[r]) + Greater(1, sig.tokens) \in Nat
    BY <1>5, ConstantTypes, RequestTypes DEF Greater
  <2> QED
    BY <1>1, <2>1 DEF Regressed
<1> QED
  BY <1>7, <1>8, <1>9, ConstantBounds

(* A round always frees a block, so its event carries a payload: the first *)
(* blocks of the row, as many as the budget is.                            *)
LEMMA EventFacts ==
  ASSUME Deployment, Types, NEW s \in Steps, NEW r \in Requests, AtHook(s, r),
         Applies(r, s)
  PROVE  /\ Event(r, s) \in Events /\ Event(r, s).req = r
         /\ Event(r, s).len = Top(r) /\ Event(r, s).pre = Pre(s, r)
         /\ Event(r, s).before = Len(row[r])
         /\ Event(r, s).after = SubSeq(row[r], 1, BudgetBlocks)
         /\ BudgetBlocks \in Nat /\ 1 <= BudgetBlocks /\ BudgetBlocks < Len(row[r])
         /\ Len(SubSeq(row[r], 1, BudgetBlocks)) = BudgetBlocks
         /\ SubSeq(row[r], 1, BudgetBlocks) \in Blocklists
         /\ SubSeq(row[r], 1, BudgetBlocks) # <<>>
<1>1. /\ prompt[r] <= KvBudget /\ Kept(r, s) = Top(r) /\ KvBudget < Capacity(r)
      /\ Tokens(s, r) = 1
  BY RoundFacts
<1>2. /\ Blocks(Top(r)) = BudgetBlocks /\ BudgetBlocks \in Nat /\ 1 <= BudgetBlocks
      /\ Top(r) \in Nat
  BY <1>1, TopFacts, BudgetIsWhole
<1>3. BudgetBlocks < Len(row[r]) /\ row[r] \in Blocklists /\ Len(row[r]) \in Nat
  BY <1>1, BudgetIsWhole, RequestLists DEF Capacity
<1>4. /\ SubSeq(row[r], 1, BudgetBlocks) \in Blocklists
      /\ Len(SubSeq(row[r], 1, BudgetBlocks)) = BudgetBlocks
  <2> DEFINE m == row[r]
             b == BudgetBlocks
             S == 1..NumBlocks
  <2>1. m \in Seq(S) /\ b \in 0..Len(m)
    BY <1>2, <1>3 DEF Blocklists
  <2> HIDE DEF m, b, S
  <2>2. SubSeq(m, 1, b) \in Seq(S) /\ Len(SubSeq(m, 1, b)) = b
    BY <2>1, Cut
  <2> QED
    BY <2>2 DEF m, b, S, Blocklists
<1>5. SubSeq(row[r], 1, BudgetBlocks) # <<>>
  <2>1. Len(SubSeq(row[r], 1, BudgetBlocks)) # 0
    BY <1>2, <1>4
  <2> QED
    BY <2>1, LongNotEmpty
<1>6. Supplemented(s)[r].tokens \in Nat
  BY SignalFacts DEF AtHook
<1>7. Event(r, s) = [req |-> r, len |-> Top(r), pre |-> Pre(s, r),
                     tokens |-> Supplemented(s)[r].tokens, before |-> Len(row[r]),
                     after |-> SubSeq(row[r], 1, BudgetBlocks)]
  BY <1>1, <1>2, <1>3 DEF Event, Pre
<1>8. Event(r, s) \in Events
  BY <1>2, <1>3, <1>4, <1>6, <1>7, StepTypes DEF Events
<1> QED
  BY <1>2, <1>3, <1>4, <1>5, <1>7, <1>8

Shrunk(r, s) == IF Applies(r, s) THEN SubSeq(row[r], 1, BudgetBlocks) ELSE row[r]

(* The new blocks are never trimmed.                                       *)
LEMMA RowFacts ==
  ASSUME Deployment, Types, NEW s \in Steps, NEW r \in Requests, AtHook(s, r),
         Tokens(s, r) > 0 => Served(r)
  PROVE  /\ Row(r, s) = Shrunk(r, s) \o Added(s, r)
         /\ Row(r, s) \in Blocklists /\ Shrunk(r, s) \in Blocklists
         /\ Len(Row(r, s)) = Len(Shrunk(r, s)) + Len(Added(s, r))
         /\ Len(Shrunk(r, s)) \in Nat /\ Len(Shrunk(r, s)) <= Len(row[r])
         /\ Applies(r, s) => Len(Shrunk(r, s)) = BudgetBlocks
<1>1. /\ row[r] \in Blocklists /\ Len(row[r]) \in Nat
      /\ Added(s, r) \in Blocklists /\ Len(Added(s, r)) \in Nat
      /\ Added(s, r) = <<>> <=> Len(Added(s, r)) = 0
  BY RequestLists, StepLists
<1>2. /\ Shrunk(r, s) \in Blocklists /\ Len(Shrunk(r, s)) \in Nat
      /\ Len(Shrunk(r, s)) <= Len(row[r])
      /\ Applies(r, s) => Len(Shrunk(r, s)) = BudgetBlocks
  BY <1>1, EventFacts DEF Shrunk
<1>3. (IF Applies(r, s) /\ Event(r, s).after # <<>> THEN Event(r, s).after ELSE row[r])
       = Shrunk(r, s)
  BY EventFacts DEF Shrunk
<1>4. /\ Shrunk(r, s) \o Added(s, r) \in Blocklists
      /\ Len(Shrunk(r, s) \o Added(s, r)) = Len(Shrunk(r, s)) + Len(Added(s, r))
  BY <1>1, <1>2, ConcatProperties DEF Blocklists
<1>5. CASE Tokens(s, r) = 0
  <2>1. Added(s, r) = <<>>
    BY <1>5 DEF AtHook, StepShape
  <2>2. Row(r, s) = Shrunk(r, s)
    BY <1>3, <1>5 DEF Row, Tokens
  <2>3. Shrunk(r, s) \o <<>> = Shrunk(r, s)
    BY <1>2, ConcatEmptySeq DEF Blocklists
  <2> QED
    BY <1>2, <1>4, <2>1, <2>2, <2>3
<1>6. CASE Tokens(s, r) > 0
  <2> DEFINE room == IF Compressed(r) \/ Applies(r, s)
                     THEN Greater(0, MaxRowBlocks - Len(Shrunk(r, s))) ELSE Len(Added(s, r))
  <2>1. Row(r, s) = Shrunk(r, s) \o SubSeq(Added(s, r), 1, Lesser(room, Len(Added(s, r))))
    <3>1. s.tokens[r] # 0
      BY <1>6, StepTypes DEF Tokens
    <3> QED
      BY <1>3, <3>1, Zenon DEF Row, Added
  <2>2. Len(row[r]) + Len(Added(s, r)) <= MaxRowBlocks
    <3>1. Len(row[r]) + Len(Added(s, r)) <= Blocks(MaxLength)
      BY <1>6 DEF AtHook, Planned
    <3>2. Blocks(MaxLength) <= MaxRowBlocks /\ Blocks(MaxLength) \in Nat
      BY BlocksLeast, ConstantTypes DEF Deployment
    <3>3. Len(row[r]) + Len(Added(s, r)) \in Nat
      BY <1>1
    <3>4. \A x, y, z \in Nat : x <= y /\ y <= z => x <= z
      OBVIOUS
    <3> QED
      BY <3>1, <3>2, <3>3, <3>4, ConstantTypes, Zenon
  <2>3. Lesser(room, Len(Added(s, r))) = Len(Added(s, r))
    BY <1>1, <1>2, <2>2, ConstantTypes DEF Lesser, Greater
  <2>4. SubSeq(Added(s, r), 1, Len(Added(s, r))) = Added(s, r)
    BY <1>1, SubSeqFull DEF Blocklists
  <2> QED
    BY <1>2, <1>4, <2>1, <2>3, <2>4
<1> QED
  BY <1>5, <1>6, StepTypes

-----------------------------------------------------------------------------
(* The worker executes step s.                                             *)

(* What Execute does to request r.                                         *)
Executed(s, r) ==
  /\ row'[r] = IF r \in s.ended THEN <<>> ELSE Row(r, s)
  /\ seen'[r] = IF Tokens(s, r) > 0 THEN Pre(s, r) ELSE seen[r]
  /\ lastStep'[r] = LastStepAfter(r, s)
  /\ shift'[r] = ShiftAfter(r, s)
  /\ kv'[r] = RowsHeld(r, s)
  /\ prompt' = prompt /\ status' = status

(* What the queue's order says of the step and the request.                *)
Ready(s, r) ==
  /\ AtHook(s, r)
  /\ r \in s.ended => status[r] = "finished" /\ Tokens(s, r) = 0
  /\ ~Served(r) => /\ kv[r] = 0 /\ shift[r] = 0 /\ lastStep[r] = -1
                   /\ Tokens(s, r) = 0

LEMMA ServedBefore ==
  ASSUME Deployment, Types, NEW s \in Steps, NEW r \in Requests, Ready(s, r), Executed(s, r),
         Served(r)'
  PROVE  Served(r) /\ r \notin s.ended
<1>1. r \notin s.ended
  BY DEF Ready, Executed, Served
<1>2. Served(r)
  <2>1. SUFFICES ASSUME ~Served(r) PROVE FALSE
    OBVIOUS
  <2>2. status[r] = "finished" /\ row[r] = <<>> /\ Tokens(s, r) = 0
    BY <2>1 DEF Served, Ready
  <2>3. row'[r] = Row(r, s) /\ Row(r, s) # <<>>
    BY <1>1, <2>2 DEF Executed, Served
  <2>4. ~Applies(r, s)
    BY <2>2 DEF Applies
  <2>5. Row(r, s) = row[r] \o Added(s, r)
    <3>1. Row(r, s) = Shrunk(r, s) \o Added(s, r)
      <4>1. Tokens(s, r) > 0 => Served(r)
        BY <2>2
      <4> QED
        BY <4>1, RowFacts DEF Ready
    <3>2. Shrunk(r, s) = row[r]
      BY <2>4 DEF Shrunk
    <3> QED
      BY <3>1, <3>2
  <2>6. Added(s, r) = <<>>
    BY <2>2 DEF Ready, AtHook, StepShape
  <2>7. <<>> \o <<>> = <<>>
    OBVIOUS
  <2> QED
    BY <2>2, <2>3, <2>5, <2>6, <2>7
<1> QED
  BY <1>1, <1>2

(* What the step leaves: a round, or a longer cache.                       *)
LEMMA ExecutedValues ==
  ASSUME Deployment, Types, NEW s \in Steps, NEW r \in Requests, Ready(s, r), Executed(s, r),
         r \notin s.ended
  PROVE  /\ row'[r] = Shrunk(r, s) \o Added(s, r) /\ row'[r] \in Blocklists
         /\ Len(row'[r]) = Len(Shrunk(r, s)) + Len(Added(s, r))
         /\ Applies(r, s) => /\ lastStep'[r] = s.step /\ shift'[r] = Top(r) - Pre(s, r)
                             /\ kv'[r] = Top(r) + Tokens(s, r)
         /\ ~Applies(r, s) => /\ lastStep'[r] = lastStep[r] /\ shift'[r] = shift[r]
                              /\ kv'[r] = kv[r] + Tokens(s, r)
<1>1. /\ Row(r, s) = Shrunk(r, s) \o Added(s, r) /\ Row(r, s) \in Blocklists
      /\ Len(Row(r, s)) = Len(Shrunk(r, s)) + Len(Added(s, r))
  BY RowFacts, StepTypes DEF Ready
<1>2. Applies(r, s) => Kept(r, s) = Top(r)
  BY RoundFacts DEF Ready
<1> QED
  BY <1>1, <1>2 DEF Executed, LastStepAfter, ShiftAfter, RowsHeld, Pre, Tokens

LEMMA ExecutedSeen ==
  ASSUME Types, NEW s \in Steps, NEW r \in Requests, Ready(s, r), Executed(s, r)
  PROVE  LET x == Pre(s, r) + Tokens(s, r)
         IN  /\ x <= prompt[r] => seen'[r] < prompt[r]
             /\ x > prompt[r] => seen'[r] = x - 1
<1>1. /\ Tokens(s, r) \in Nat /\ Pre(s, r) \in Nat /\ prompt[r] \in Nat /\ seen[r] \in Nat
  BY StepTypes, RequestTypes
<1>2. /\ Pre(s, r) < prompt[r] => Pre(s, r) + Tokens(s, r) <= prompt[r]
      /\ Pre(s, r) >= prompt[r] => Tokens(s, r) <= 1
  BY DEF Ready, AtHook, StepShape
<1>3. /\ Pre(s, r) <= prompt[r] => seen[r] < prompt[r]
      /\ Pre(s, r) > prompt[r] => seen[r] = Pre(s, r) - 1
  BY DEF Ready, AtHook, Held
<1>4. seen'[r] = IF Tokens(s, r) > 0 THEN Pre(s, r) ELSE seen[r]
  BY DEF Executed
<1> QED
  BY <1>1, <1>2, <1>3, <1>4

LEMMA ExecutedWhole ==
  ASSUME Deployment, Types, NEW s \in Steps, NEW r \in Requests, Ready(s, r), Executed(s, r),
         r \in s.ended \/ (~Applies(r, s) /\ shift[r] = 0)
  PROVE  shift'[r] = 0 /\ HeldWhole(Pre(s, r) + Tokens(s, r), r)'
<1>1. CASE r \in s.ended
  <2>1. shift'[r] = 0 /\ lastStep'[r] = -1 /\ ~Served(r)'
    BY <1>1 DEF Executed, Ready, LastStepAfter, ShiftAfter, Served
  <2> QED
    BY <2>1 DEF HeldWhole
<1>2. CASE r \notin s.ended
  <2>1. ~Applies(r, s) /\ shift[r] = 0
    BY <1>2
  <2>2. /\ shift'[r] = 0 /\ lastStep'[r] = lastStep[r] /\ kv'[r] = kv[r] + Tokens(s, r)
        /\ Len(row'[r]) = Len(row[r]) + Len(Added(s, r))
    BY <1>2, <2>1, ExecutedValues DEF Shrunk
  <2>3. HeldWhole(Pre(s, r), r)
    BY <2>1 DEF Ready, AtHook, Held
  <2>4. ASSUME Served(r)'
        PROVE  /\ kv'[r] = Pre(s, r) + Tokens(s, r)
               /\ Len(row'[r]) = Blocks(Pre(s, r) + Tokens(s, r))
               /\ prompt[r] <= KvBudget => Pre(s, r) + Tokens(s, r) <= Threshold - 2
    <3>1. Served(r)
      BY <2>4, ServedBefore
    <3>2. /\ kv[r] = Pre(s, r) /\ Len(row[r]) = Blocks(Pre(s, r))
          /\ prompt[r] <= KvBudget => Pre(s, r) <= Threshold - 2
      BY <2>3, <3>1 DEF HeldWhole
    <3>3. CASE Tokens(s, r) = 0
      <4>1. Len(Added(s, r)) = 0
        BY <3>3, StepLists DEF Ready, AtHook, StepShape
      <4>2. Pre(s, r) + Tokens(s, r) = Pre(s, r) /\ Len(row'[r]) = Len(row[r])
        BY <2>2, <3>3, <4>1, StepTypes, RequestLists
      <4> QED
        BY <2>2, <3>2, <3>3, <4>2, StepTypes
    <3>4. CASE Tokens(s, r) > 0
      <4>1. PlannedWhole(s, Len(row[r]), r)
        BY <2>1, <3>1, <3>4 DEF Ready, AtHook, Planned
      <4>2. Len(row[r]) + Len(Added(s, r)) = Blocks(Pre(s, r) + Tokens(s, r))
        BY <4>1 DEF PlannedWhole
      <4>3. prompt[r] <= KvBudget => Pre(s, r) + Tokens(s, r) <= Threshold - 2
        BY <2>1, <3>1, <3>4, RoundDue DEF Ready
      <4> QED
        BY <2>2, <3>2, <4>2, <4>3
    <3> QED
      BY <3>3, <3>4, StepTypes
  <2>5. lastStep'[r] = -1
    BY <2>2, <2>3 DEF HeldWhole
  <2>6. prompt'[r] = prompt[r]
    BY DEF Executed
  <2> QED
    BY <2>2, <2>4, <2>5, <2>6 DEF HeldWhole, Threshold
<1> QED
  BY <1>1, <1>2

(* A round just applied keeps Top(r) rows in the first blocks of the row.  *)
LEMMA ExecutedRound ==
  ASSUME Deployment, Types, NEW s \in Steps, NEW r \in Requests, Ready(s, r), Executed(s, r),
         r \notin s.ended, Applies(r, s)
  PROVE  /\ shift'[r] \in Int /\ shift'[r] < 0 /\ shift'[r] = Top(r) - Pre(s, r)
         /\ lastStep'[r] = s.step /\ Tokens(s, r) = 1
         /\ HeldCompacted(Pre(s, r) + Tokens(s, r), s.step + 1, r)'
<1>1. /\ Served(r) /\ Pre(s, r) > prompt[r] /\ Tokens(s, r) = 1
      /\ prompt[r] <= KvBudget /\ KvBudget < Pre(s, r)
  BY RoundFacts DEF Ready
<1>2. Top(r) \in Nat /\ Top(r) <= KvBudget /\ prompt[r] <= Top(r) /\ KvBudget + 5 <= Threshold
      /\ Threshold \in Nat
  BY <1>1, TopFacts, ConstantBounds
<1>3. /\ lastStep'[r] = s.step /\ shift'[r] = Top(r) - Pre(s, r)
      /\ kv'[r] = Top(r) + Tokens(s, r)
      /\ Len(row'[r]) = Len(Shrunk(r, s)) + Len(Added(s, r))
  BY ExecutedValues
<1>4. /\ Len(Shrunk(r, s)) = BudgetBlocks /\ Len(Shrunk(r, s)) \in Nat
      /\ Len(Shrunk(r, s)) <= Len(row[r])
  BY <1>1, RowFacts DEF Ready
<1>5. Len(row[r]) + Len(Added(s, r)) <= Blocks(MaxLength)
  BY <1>1 DEF Ready, AtHook, Planned
<1>6. /\ Len(row'[r]) \in Nat /\ BudgetBlocks <= Len(row'[r]) /\ Len(row'[r]) <= Blocks(MaxLength)
      /\ KvBudget <= Len(row'[r]) * BlockSize
  <2>1. Len(row[r]) \in Nat /\ Len(Added(s, r)) \in Nat /\ Blocks(MaxLength) \in Nat
    BY RequestLists, StepLists, BlocksLeast, ConstantTypes
  <2>2. Len(row'[r]) \in Nat /\ BudgetBlocks <= Len(row'[r]) /\ Len(row'[r]) <= Blocks(MaxLength)
    BY <1>3, <1>4, <1>5, <2>1
  <2> QED
    BY <2>2, BudgetIsWhole
<1>7. prompt'[r] = prompt[r] /\ Top(r)' = Top(r)
  BY DEF Executed, Top
<1>8. /\ Pre(s, r) + Tokens(s, r) > prompt[r] /\ kv'[r] = Pre(s, r) + Tokens(s, r) + shift'[r]
      /\ kv'[r] > Top(r) /\ kv'[r] <= Threshold /\ kv'[r] <= Top(r) + 1 /\ kv'[r] <= Top(r) + 2
      /\ shift'[r] \in Int /\ shift'[r] < 0 /\ lastStep'[r] >= 0 /\ lastStep'[r] < s.step + 1
  <2>1. Pre(s, r) \in Nat /\ s.step \in Nat /\ prompt[r] \in Nat /\ KvBudget \in Nat
    BY StepTypes, RequestTypes, ConstantTypes
  <2>2. PICK x, top, rows, move, most :
          /\ x = Pre(s, r) /\ top = Top(r) /\ rows = kv'[r] /\ move = shift'[r]
          /\ most = Threshold
    OBVIOUS
  <2>3. /\ x \in Nat /\ top \in Nat /\ most \in Nat /\ top <= KvBudget /\ KvBudget < x
        /\ prompt[r] < x /\ KvBudget + 5 <= most /\ rows = top + 1 /\ move = top - x
    BY <1>1, <1>2, <1>3, <2>1, <2>2
  <2>4. /\ x + 1 > prompt[r] /\ rows = x + 1 + move /\ rows > top /\ rows <= most
        /\ rows <= top + 1 /\ rows <= top + 2 /\ move \in Int /\ move < 0
    BY <2>1, <2>3
  <2>5. lastStep'[r] >= 0 /\ lastStep'[r] < s.step + 1
    BY <1>3, <2>1
  <2> QED
    BY <1>1, <2>2, <2>4, <2>5
<1> QED
  BY <1>1, <1>2, <1>3, <1>6, <1>7, <1>8 DEF HeldCompacted, Capacity, Blocks, Threshold

(* A compacted request grows by the token of the step.                     *)
LEMMA ExecutedGrows ==
  ASSUME Deployment, Types, NEW s \in Steps, NEW r \in Requests, Ready(s, r), Executed(s, r),
         r \notin s.ended, ~Applies(r, s), shift[r] < 0
  PROVE  /\ shift'[r] = shift[r] /\ lastStep'[r] = lastStep[r]
         /\ Len(row'[r]) = Len(row[r]) + Len(Added(s, r))
         /\ HeldCompacted(Pre(s, r) + Tokens(s, r), s.step + 1, r)'
<1>1. /\ HeldCompacted(Pre(s, r), s.step, r) /\ Served(r)
  BY DEF Ready, AtHook, Held
<1>2. /\ Pre(s, r) > prompt[r] /\ prompt[r] <= Top(r)
      /\ kv[r] = Pre(s, r) + shift[r] /\ kv[r] > Top(r) /\ kv[r] <= Threshold
      /\ lastStep[r] >= 0 /\ lastStep[r] < s.step
      /\ s.step = lastStep[r] + 1 => kv[r] <= Top(r) + 1
  BY <1>1 DEF HeldCompacted
<1>3. /\ lastStep'[r] = lastStep[r] /\ shift'[r] = shift[r] /\ kv'[r] = kv[r] + Tokens(s, r)
  BY ExecutedValues
<1>11. /\ KvBudget <= Capacity(r) /\ Len(row[r]) <= Blocks(MaxLength)
       /\ kv[r] <= Capacity(r) \/ kv[r] <= Top(r) + 2
  BY <1>1 DEF HeldCompacted
<1>10. Len(row'[r]) = Len(row[r]) + Len(Added(s, r))
  BY ExecutedValues DEF Shrunk
<1>4. /\ Tokens(s, r) \in {0, 1} /\ Pre(s, r) \in Nat /\ s.step \in Nat
      /\ Tokens(s, r) = 0 => Added(s, r) = <<>>
  BY <1>2, StepTypes, RequestTypes DEF Ready, AtHook, StepShape
<1>5. prompt[r] \in Nat /\ shift[r] \in Int /\ kv[r] \in Int /\ lastStep[r] \in Int
  BY RequestTypes
<1>12. /\ Len(row[r]) \in Nat /\ Len(Added(s, r)) \in Nat /\ Blocks(MaxLength) \in Nat
       /\ Capacity(r) \in Nat
  BY RequestTypes, RequestLists, StepLists, BlocksLeast, ConstantTypes
<1>6. /\ Threshold \in Nat /\ KvBudget + 5 <= Threshold /\ KvBudget \in Nat
      /\ Top(r) \in Nat /\ Top(r) <= KvBudget
  BY ConstantBounds, ConstantTypes, RequestTypes DEF Top, Lesser
<1>7. prompt'[r] = prompt[r] /\ Top(r)' = Top(r) /\ Capacity(r)' = Len(row'[r]) * BlockSize
  BY DEF Executed, Top, Capacity
<1>8. CASE Tokens(s, r) = 0
  <2>1. Len(row'[r]) = Len(row[r]) /\ Capacity(r)' = Capacity(r)
    BY <1>4, <1>7, <1>8, <1>10, <1>12, StepLists DEF Capacity
  <2>2. Pre(s, r) + Tokens(s, r) = Pre(s, r) /\ kv'[r] = kv[r]
    BY <1>3, <1>4, <1>5, <1>8
  <2>3. s.step + 1 # lastStep'[r] + 1 /\ lastStep'[r] < s.step + 1
    BY <1>2, <1>3, <1>4, <1>5
  <2> QED
    <3>1. /\ Pre(s, r) + Tokens(s, r) > prompt'[r] /\ prompt'[r] <= Top(r)'
          /\ kv'[r] = Pre(s, r) + Tokens(s, r) + shift'[r] /\ kv'[r] > Top(r)'
          /\ kv'[r] <= Threshold' /\ lastStep'[r] >= 0 /\ lastStep'[r] < s.step + 1
          /\ s.step + 1 # lastStep'[r] + 1
      BY <1>2, <1>3, <1>7, <2>2, <2>3 DEF Threshold
    <3>2. /\ KvBudget <= Capacity(r)' /\ Len(row'[r]) <= Blocks(MaxLength)
          /\ kv'[r] <= Capacity(r)' \/ kv'[r] <= Top(r)' + 2
      BY <1>7, <1>11, <2>1, <2>2
    <3>3. HeldCompacted(Pre(s, r) + Tokens(s, r), s.step + 1, r)'
      BY <3>1, <3>2 DEF HeldCompacted, Blocks
    <3> QED
      BY <1>3, <1>10, <3>3
<1>9. CASE Tokens(s, r) = 1
  <2>1. /\ Len(row[r]) + Len(Added(s, r)) <= Blocks(MaxLength)
        /\ RowsFit(s, Pre(s, r) + 1 + shift[r], Len(row[r]) + Len(Added(s, r)), r)
    <3>1. Planned(s, Len(row[r]), r) /\ Tokens(s, r) > 0
      BY <1>9 DEF Ready, AtHook
    <3> QED
      BY <1>1, <3>1 DEF Planned, PlannedCompacted
  <2>2. kv'[r] <= Capacity(r)' \/ kv'[r] <= Top(r) + 2
    <3>1. Pre(s, r) + 1 + shift[r] = kv'[r]
      BY <1>2, <1>3, <1>4, <1>5, <1>9
    <3> QED
      BY <1>7, <1>10, <2>1, <3>1 DEF RowsFit
  <2>3. KvBudget <= Capacity(r)'
    <3>1. BudgetBlocks <= Len(row[r]) /\ BudgetBlocks \in Nat
      BY <1>11, <1>12, BudgetIsWhole DEF Capacity
    <3>2. BudgetBlocks <= Len(row'[r]) /\ Len(row'[r]) \in Nat
      BY <1>10, <1>12, <3>1
    <3> QED
      BY <1>7, <3>2, BudgetIsWhole
  <2>4. kv'[r] <= Threshold
    <3>1. s.step > lastStep[r] + 1 => kv[r] < Threshold
      <4>1. Tokens(s, r) > 0 /\ prompt[r] <= KvBudget /\ AtHook(s, r)
        BY <1>2, <1>5, <1>6, <1>9 DEF Ready
      <4> QED
        BY <1>1, <4>1, RoundDue
    <3>2. s.step > lastStep[r] + 1 \/ s.step = lastStep[r] + 1
      BY <1>2, <1>4, <1>5
    <3> QED
      BY <1>2, <1>3, <1>5, <1>6, <1>9, <3>1, <3>2
  <2>5. /\ Pre(s, r) + Tokens(s, r) > prompt[r]
        /\ kv'[r] = Pre(s, r) + Tokens(s, r) + shift'[r] /\ kv'[r] > Top(r)
        /\ lastStep'[r] >= 0 /\ lastStep'[r] < s.step + 1 /\ s.step + 1 # lastStep'[r] + 1
    BY <1>2, <1>3, <1>4, <1>5, <1>6, <1>9
  <2> QED
    BY <1>2, <1>3, <1>7, <1>10, <2>1, <2>2, <2>3, <2>4, <2>5 DEF HeldCompacted, Blocks, Threshold
<1> QED
  BY <1>3, <1>4, <1>8, <1>9, <1>10

(* What the worker holds behind the step.                                  *)
LEMMA ExecutedHeld ==
  ASSUME Deployment, Types, NEW s \in Steps, NEW r \in Requests, Ready(s, r), Executed(s, r)
  PROVE  Held(Pre(s, r) + Tokens(s, r), s.step + 1, r)'
<1>1. shift[r] <= 0 /\ shift[r] \in Int
  BY RequestTypes DEF Ready, AtHook, Held
<1>2. LET x == Pre(s, r) + Tokens(s, r)
      IN  /\ x <= prompt'[r] => seen'[r] < prompt'[r]
          /\ x > prompt'[r] => seen'[r] = x - 1
  BY ExecutedSeen DEF Executed
<1>3. /\ shift'[r] <= 0
      /\ shift'[r] = 0 => HeldWhole(Pre(s, r) + Tokens(s, r), r)'
      /\ shift'[r] < 0 => HeldCompacted(Pre(s, r) + Tokens(s, r), s.step + 1, r)'
  <2>1. CASE r \in s.ended \/ (~Applies(r, s) /\ shift[r] = 0)
    BY <2>1, ExecutedWhole
  <2>2. CASE r \notin s.ended /\ Applies(r, s)
    BY <2>2, ExecutedRound
  <2>3. CASE r \notin s.ended /\ ~Applies(r, s) /\ shift[r] < 0
    BY <1>1, <2>3, ExecutedGrows
  <2> QED
    BY <1>1, <2>1, <2>2, <2>3
<1> QED
  BY <1>2, <1>3 DEF Held

(* The step behind it was planned with what the worker then holds.         *)
LEMMA ExecutedPlanned ==
  ASSUME Deployment, Types, NEW s \in Steps, NEW r \in Requests, Ready(s, r), Executed(s, r),
         NEW s2 \in Steps, s2.step = s.step + 1, Pre(s2, r) = Pre(s, r) + Tokens(s, r),
         StepShape(s2, r), Planned(s2, Len(row[r]) + Len(Added(s, r)), r)
  PROVE  Planned(s2, Len(row[r]), r)'
<1> SUFFICES ASSUME Served(r)', Tokens(s2, r) > 0
             PROVE  /\ Len(row'[r]) + Len(Added(s2, r)) <= Blocks(MaxLength)
                    /\ shift'[r] = 0 => PlannedWhole(s2, Len(row[r]), r)'
                    /\ shift'[r] < 0 => PlannedCompacted(s2, Len(row[r]), r)'
  BY DEF Planned, Tokens, Added, Blocks
<1>1. Served(r) /\ r \notin s.ended
  BY ServedBefore
<1>2. /\ Len(row[r]) + Len(Added(s, r)) + Len(Added(s2, r)) <= Blocks(MaxLength)
      /\ shift[r] = 0 => PlannedWhole(s2, Len(row[r]) + Len(Added(s, r)), r)
      /\ shift[r] < 0 => PlannedCompacted(s2, Len(row[r]) + Len(Added(s, r)), r)
  BY <1>1 DEF Planned
<1>3. /\ Len(row'[r]) = Len(Shrunk(r, s)) + Len(Added(s, r))
      /\ Len(Shrunk(r, s)) \in Nat /\ Len(Shrunk(r, s)) <= Len(row[r])
  BY <1>1, ExecutedValues, RowFacts DEF Ready
<1>4. /\ Len(row[r]) \in Nat /\ Len(Added(s, r)) \in Nat /\ Len(Added(s2, r)) \in Nat
      /\ Blocks(MaxLength) \in Nat
  BY RequestLists, StepLists, BlocksLeast, ConstantTypes
<1>5. Len(row'[r]) + Len(Added(s2, r)) <= Blocks(MaxLength)
  BY <1>2, <1>3, <1>4
<1>6. Top(r)' = Top(r)
  BY DEF Executed, Top
<1>7. CASE Applies(r, s)
  <2>1. /\ shift'[r] < 0 /\ shift'[r] = Top(r) - Pre(s, r) /\ lastStep'[r] = s.step
        /\ Tokens(s, r) = 1
    BY <1>1, <1>7, ExecutedRound
  <2>2. Top(r) \in Nat
    BY <1>7, RoundFacts, TopFacts DEF Ready
  <2>3. Pre(s2, r) + 1 + shift'[r] <= Top(r) + 2 /\ s2.step = lastStep'[r] + 1
        /\ ~(s2.step > lastStep'[r] + 1) /\ shift'[r] # 0
    <3>1. s.step \in Nat /\ Pre(s, r) \in Nat
      BY StepTypes
    <3> QED
      BY <2>1, <2>2, <3>1
  <2>4. PlannedCompacted(s2, Len(row[r]), r)'
    BY <1>6, <2>3 DEF PlannedCompacted, RowsFit, Pre, Added
  <2> QED
    BY <1>5, <2>3, <2>4
<1>8. CASE ~Applies(r, s)
  <2>1. /\ shift'[r] = shift[r] /\ lastStep'[r] = lastStep[r]
        /\ Len(row'[r]) = Len(row[r]) + Len(Added(s, r))
    BY <1>1, <1>8, ExecutedValues DEF Shrunk
  <2>2. shift[r] = 0 => PlannedWhole(s2, Len(row[r]), r)'
    BY <1>2, <2>1 DEF PlannedWhole, Pre, Tokens, Added, Fires, Sent, Est, Blocks, Threshold
  <2>3. shift[r] < 0 => PlannedCompacted(s2, Len(row[r]), r)'
    BY <1>2, <1>6, <2>1 DEF PlannedCompacted, RowsFit, Informed, Pre, Added, Fires, Sent, Est, Threshold
  <2> QED
    BY <1>5, <2>1, <2>2, <2>3
<1> QED
  BY <1>7, <1>8

-----------------------------------------------------------------------------
(* The queue and the worker's place in it.                                 *)

LEMMA QueueFacts ==
  ASSUME Deployment, Types, QueueInOrder
  PROVE  /\ Len(queue) \in {0, 1, 2} /\ Len(queue) <= Lookahead
         /\ DOMAIN queue = 1..Len(queue)
         /\ \A i \in DOMAIN queue : queue[i] \in Steps
<1>1. queue \in Seq(Steps) /\ Len(queue) <= Lookahead
  BY DEF Types, QueueInOrder
<1>2. Len(queue) \in Nat /\ DOMAIN queue = 1..Len(queue)
  BY <1>1, LenProperties
<1>3. Len(queue) \in {0, 1, 2}
  BY <1>1, <1>2, ConstantTypes DEF Deployment
<1>4. \A i \in DOMAIN queue : queue[i] \in Steps
  BY <1>1, <1>2, ElementOfSeq
<1> QED
  BY <1>1, <1>2, <1>3, <1>4

(* Exactly one step is the next for the worker.                            *)
LEMMA WorkerStands ==
  ASSUME Deployment, Types, QueueInOrder
  PROVE  \E i \in 1..3 : i <= Len(queue) + 1 /\ AtStep(i)
<1>1. Len(queue) \in {0, 1, 2}
  BY QueueFacts
<1>2. CASE Len(queue) = 0
  <2>1. AtStep(1)
    BY <1>2 DEF AtStep
  <2> QED
    BY <1>2, <2>1
<1>3. CASE Len(queue) > 0 /\ ~queue[1].done
  <2>1. AtStep(1)
    BY <1>1, <1>3 DEF AtStep
  <2> QED
    BY <1>1, <2>1
<1>4. CASE Len(queue) > 0 /\ queue[1].done
  <2>1. CASE Len(queue) = 1 \/ ~queue[2].done
    <3>1. AtStep(2)
      BY <1>1, <1>4, <2>1 DEF AtStep
    <3> QED
      BY <1>1, <1>4, <3>1
  <2>2. CASE Len(queue) = 2 /\ queue[2].done
    <3>1. AtStep(3)
      BY <1>4, <2>2 DEF AtStep
    <3> QED
      BY <2>2, <3>1
  <2> QED
    BY <1>1, <1>4, <2>1, <2>2
<1> QED
  BY <1>1, <1>2, <1>3, <1>4

(* The next step's place in the queue, and what follows it.                *)
LEMMA StepAhead ==
  ASSUME Deployment, IInv, NEW i \in DOMAIN queue, AtStep(i), NEW r \in Requests,
         NEW s \in Steps, s = queue[i]
  PROVE  /\ i \in {1, 2} /\ i <= Len(queue) /\ Len(queue) \in {1, 2} /\ ~s.done
         /\ Ready(s, r)
         /\ StepNumber(i + 1) = s.step + 1 /\ Position(i + 1, r) = Pre(s, r) + Tokens(s, r)
<1>1. /\ Len(queue) \in {0, 1, 2} /\ DOMAIN queue = 1..Len(queue)
      /\ Types /\ QueueInOrder /\ EndedIdle /\ WorkerBook
  BY QueueFacts DEF IInv
<1>2. i \in {1, 2} /\ i <= Len(queue) /\ Len(queue) \in {1, 2} /\ ~s.done /\ i \in 1..3
  BY <1>1 DEF AtStep
<1>3. /\ StepShape(s, r) /\ s.step + 1 = StepNumber(i + 1)
      /\ Pre(s, r) + Tokens(s, r) = Position(i + 1, r)
  BY <1>1 DEF QueueInOrder
<1>4. Held(Pre(s, r), s.step, r) /\ Planned(s, Len(row[r]), r)
  BY <1>1, <1>2 DEF WorkerBook, WorkerAt, Position, StepNumber
<1>5. r \in s.ended => status[r] = "finished" /\ Tokens(s, r) = 0
  BY <1>1, <1>2 DEF EndedIdle
<1>6. ~Served(r) => /\ kv[r] = 0 /\ shift[r] = 0 /\ lastStep[r] = -1
                    /\ Tokens(s, r) = 0
  BY <1>1, <1>2 DEF EndedIdle
<1> QED
  BY <1>2, <1>3, <1>4, <1>5, <1>6 DEF Ready, AtHook

(* What two steps that differ in their execution only have in common.      *)
SameStep(s, t) ==
  /\ t.step = s.step /\ t.tokens = s.tokens /\ t.pre = s.pre /\ t.blocks = s.blocks
  /\ t.signals = s.signals /\ t.ended = s.ended

LEMMA SameFields ==
  ASSUME NEW s, NEW t, SameStep(s, t), NEW r
  PROVE  /\ t.step = s.step /\ t.ended = s.ended
         /\ Pre(t, r) = Pre(s, r) /\ Tokens(t, r) = Tokens(s, r) /\ Added(t, r) = Added(s, r)
         /\ Sent(t, r) = Sent(s, r) /\ Fires(t, r) = Fires(s, r)
         /\ Est(t, r) = Est(s, r) /\ Asked(t, r) = Asked(s, r)
BY DEF SameStep, Pre, Tokens, Added, Sent, Fires, Est, Asked

-----------------------------------------------------------------------------
(* Execute preserves the invariant.                                        *)

Executes(i, s) ==
  /\ s = queue[i] /\ AtStep(i)
  /\ \A r \in Requests : Ready(s, r) /\ Executed(s, r)
  /\ error' = IF Fatal(s) THEN "effective_len_regressed" ELSE None
  /\ row' = [r \in Requests |-> row'[r]]
  /\ seen' = [r \in Requests |-> seen'[r]]
  /\ curLen' = [r \in Requests |-> CurLenAfter(r, s)]
  /\ lastStep' = [r \in Requests |-> lastStep'[r]]
  /\ shift' = [r \in Requests |-> shift'[r]]
  /\ kv' = [r \in Requests |-> kv'[r]]
  /\ queue' = [queue EXCEPT ![i] = [s EXCEPT
       !.done = TRUE,
       !.events = {Event(r, s) : r \in {r \in Requests \ s.ended : Applies(r, s)}},
       !.barrier = @ \/ \E r \in Requests : SelfTriggers(r, s)]]
  /\ UNCHANGED <<prompt, schedulerVars>>

LEMMA ExecuteStep ==
  ASSUME Deployment, IInv, Execute
  PROVE  \E i \in DOMAIN queue : \E s \in Steps : Executes(i, s)
<1>1. Types /\ QueueInOrder
  BY DEF IInv
<1>2. DOMAIN queue = 1..Len(queue) /\ Len(queue) \in {0, 1, 2}
      /\ \A i \in DOMAIN queue : queue[i] \in Steps
  BY <1>1, QueueFacts
<1>3. PICK i \in DOMAIN queue :
         /\ ~queue[i].done /\ \A j \in 1..(i - 1) : queue[j].done
         /\ error' = IF Fatal(queue[i]) THEN "effective_len_regressed" ELSE None
         /\ row' = [r \in Requests |-> IF r \in queue[i].ended THEN <<>> ELSE Row(r, queue[i])]
         /\ seen' = [r \in Requests |-> IF queue[i].tokens[r] > 0 THEN queue[i].pre[r] ELSE seen[r]]
         /\ curLen' = [r \in Requests |-> CurLenAfter(r, queue[i])]
         /\ lastStep' = [r \in Requests |-> LastStepAfter(r, queue[i])]
         /\ shift' = [r \in Requests |-> ShiftAfter(r, queue[i])]
         /\ kv' = [r \in Requests |-> RowsHeld(r, queue[i])]
         /\ queue' = [queue EXCEPT ![i] = [queue[i] EXCEPT
              !.done = TRUE,
              !.events = {Event(r, queue[i]) :
                            r \in {r \in Requests \ queue[i].ended : Applies(r, queue[i])}},
              !.barrier = @ \/ \E r \in Requests : SelfTriggers(r, queue[i])]]
  BY DEF Execute
<1>4. PICK s \in Steps : s = queue[i]
  BY <1>2
<1>5. AtStep(i)
  BY <1>2, <1>3 DEF AtStep
<1>6. UNCHANGED <<prompt, schedulerVars>>
  BY DEF Execute
<1>7. ASSUME NEW r \in Requests
      PROVE  Ready(s, r) /\ Executed(s, r)
  <2>1. Ready(s, r)
    BY <1>4, <1>5, <1>7, StepAhead
  <2>2. Executed(s, r)
    BY <1>3, <1>4, <1>6, <1>7 DEF Executed, Tokens, Pre, schedulerVars
  <2> QED
    BY <2>1, <2>2
<1>8. Executes(i, s)
  <2>1. /\ row' = [r \in Requests |-> row'[r]] /\ seen' = [r \in Requests |-> seen'[r]]
        /\ lastStep' = [r \in Requests |-> lastStep'[r]]
        /\ shift' = [r \in Requests |-> shift'[r]] /\ kv' = [r \in Requests |-> kv'[r]]
    BY <1>3
  <2> QED
    BY <1>3, <1>4, <1>5, <1>6, <1>7, <2>1 DEF Executes
<1> QED
  BY <1>4, <1>8

(* The queue of the next state.                                            *)
LEMMA ExecuteQueue ==
  ASSUME Deployment, IInv, NEW i \in DOMAIN queue, NEW s \in Steps, Executes(i, s)
  PROVE  /\ Len(queue') = Len(queue) /\ DOMAIN queue' = DOMAIN queue
         /\ \A j \in DOMAIN queue : SameStep(queue[j], queue'[j])
         /\ \A j \in DOMAIN queue : j # i => queue'[j] = queue[j]
         /\ queue'[i].done
         /\ queue'[i].events = {Event(r, s) : r \in {r \in Requests \ s.ended : Applies(r, s)}}
         /\ queue'[i].barrier <=> s.barrier \/ \E r \in Requests : SelfTriggers(r, s)
         /\ queue' \in Seq(Steps)
<1>1. Types /\ QueueInOrder /\ queue \in Seq(Steps) /\ DOMAIN queue = 1..Len(queue)
  BY QueueFacts DEF IInv, Types
<1> DEFINE hits == {Event(r, s) : r \in {r \in Requests \ s.ended : Applies(r, s)}}
           bar == s.barrier \/ \E r \in Requests : SelfTriggers(r, s)
           t == [s EXCEPT !.done = TRUE, !.events = hits, !.barrier = bar]
<1>2. queue' = [queue EXCEPT ![i] = t] /\ s = queue[i]
  BY DEF Executes
<1>3. hits \subseteq Events
  BY <1>1, EventFacts DEF Executes, Ready
<1>4. t \in Steps /\ SameStep(s, t) /\ t.done /\ t.events = hits /\ t.barrier = bar
  BY <1>3 DEF Steps, SameStep
<1> HIDE DEF t
<1>5. queue' \in Seq(Steps) /\ Len(queue') = Len(queue)
  BY <1>1, <1>2, <1>4, ExceptSeq
<1>6. DOMAIN queue' = DOMAIN queue /\ queue'[i] = t
      /\ \A j \in DOMAIN queue : j # i => queue'[j] = queue[j]
  BY <1>2
<1>7. \A j \in DOMAIN queue : SameStep(queue[j], queue'[j])
  BY <1>2, <1>4, <1>6 DEF SameStep
<1> QED
  BY <1>4, <1>5, <1>6, <1>7

LEMMA ExecuteTypes ==
  ASSUME Deployment, IInv, NEW i \in DOMAIN queue, NEW s \in Steps, Executes(i, s)
  PROVE  Types'
<1>1. Types /\ queue' \in Seq(Steps)
  BY ExecuteQueue DEF IInv
<1>2. UNCHANGED <<prompt, status, nct, manager, free, offset, lag, step, ended>>
  BY DEF Executes, schedulerVars
<1>3. ASSUME NEW r \in Requests
      PROVE  /\ row'[r] \in Blocklists /\ seen'[r] \in 0..MaxLength /\ CurLenAfter(r, s) \in Int
             /\ lastStep'[r] \in Int /\ shift'[r] \in Int /\ kv'[r] \in Int
  <2>1. Ready(s, r) /\ Executed(s, r)
    BY DEF Executes
  <2>2. Tokens(s, r) \in Nat /\ Pre(s, r) \in 0..MaxLength /\ s.step \in Nat
    BY StepTypes, ConstantTypes
  <2>3. /\ seen[r] \in 0..MaxLength /\ shift[r] \in Int /\ kv[r] \in Int
        /\ lastStep[r] \in Int
    BY <1>1, RequestTypes, ConstantTypes
  <2>4. seen'[r] \in 0..MaxLength
    BY <2>1, <2>2, <2>3 DEF Executed
  <2>5. Applies(r, s) => Kept(r, s) = Top(r) /\ Top(r) \in Nat
    BY <1>1, <2>1, RoundFacts, TopFacts DEF Ready
  <2>6. CurLenAfter(r, s) \in Int
    <3>1. HeardOf(s, r) \in Int
      BY <1>1, HeardTypes
    <3> QED
      BY <2>2, <2>5, <3>1 DEF CurLenAfter, Tokens, HeardOf
  <2>7. CASE r \in s.ended
    <3>1. row'[r] = <<>> /\ lastStep'[r] = -1 /\ shift'[r] = 0 /\ kv'[r] = 0
      BY <2>1, <2>7 DEF Executed, LastStepAfter, ShiftAfter, RowsHeld
    <3> QED
      BY <2>4, <2>6, <3>1, EmptySeq DEF Blocklists
  <2>8. CASE r \notin s.ended
    <3>1. /\ row'[r] \in Blocklists
          /\ Applies(r, s) => /\ lastStep'[r] = s.step /\ shift'[r] = Top(r) - Pre(s, r)
                              /\ kv'[r] = Top(r) + Tokens(s, r)
          /\ ~Applies(r, s) => /\ lastStep'[r] = lastStep[r] /\ shift'[r] = shift[r]
                               /\ kv'[r] = kv[r] + Tokens(s, r)
      BY <1>1, <2>1, <2>8, ExecutedValues
    <3>2. lastStep'[r] \in Int /\ shift'[r] \in Int /\ kv'[r] \in Int
      BY <2>2, <2>3, <2>5, <3>1
    <3> QED
      BY <2>4, <2>6, <3>1, <3>2
  <2> QED
    BY <2>7, <2>8
<1>4. /\ row' \in [Requests -> Blocklists] /\ seen' \in [Requests -> 0..MaxLength]
      /\ curLen' \in [Requests -> Int] /\ lastStep' \in [Requests -> Int]
      /\ shift' \in [Requests -> Int] /\ kv' \in [Requests -> Int]
  BY <1>3 DEF Executes
<1> QED
  BY <1>1, <1>2, <1>4 DEF Types

LEMMA ExecutePlaces ==
  ASSUME Deployment, IInv, NEW i \in DOMAIN queue, NEW s \in Steps, Executes(i, s),
         NEW j \in 1..3
  PROVE  /\ StepNumber(j)' = StepNumber(j)
         /\ \A r \in Requests : Position(j, r)' = Position(j, r)
<1>1. /\ Len(queue') = Len(queue) /\ step' = step /\ nct' = nct
      /\ DOMAIN queue = 1..Len(queue) /\ Len(queue) \in {0, 1, 2}
  BY ExecuteQueue, QueueFacts DEF Executes, schedulerVars, IInv
<1>2. CASE j <= Len(queue)
  <2>1. j \in DOMAIN queue
    BY <1>1, <1>2
  <2>2. SameStep(queue[j], queue'[j])
    BY <2>1, ExecuteQueue
  <2>3. /\ queue'[j].step = queue[j].step
        /\ \A r \in Requests : Pre(queue'[j], r) = Pre(queue[j], r)
    BY <2>2, SameFields
  <2> QED
    BY <1>1, <1>2, <2>3 DEF StepNumber, Position
<1>3. CASE ~(j <= Len(queue))
  BY <1>1, <1>3 DEF StepNumber, Position
<1> QED
  BY <1>2, <1>3

LEMMA ExecuteOrder ==
  ASSUME Deployment, IInv, NEW i \in DOMAIN queue, NEW s \in Steps, Executes(i, s)
  PROVE  QueueInOrder'
<1>1. /\ Types /\ QueueInOrder /\ DOMAIN queue = 1..Len(queue) /\ Len(queue) \in {0, 1, 2}
      /\ Len(queue') = Len(queue) /\ DOMAIN queue' = DOMAIN queue /\ AtStep(i)
      /\ prompt' = prompt /\ status' = status
  BY ExecuteQueue, QueueFacts DEF Executes, schedulerVars, IInv
<1>2. ASSUME NEW j \in DOMAIN queue
      PROVE  /\ queue'[j].step + 1 = StepNumber(j + 1)'
             /\ queue'[j].done => \A k \in 1..(j - 1) : queue'[k].done
             /\ \A r \in Requests :
                  /\ StepShape(queue[j], r)'
                  /\ Pre(queue'[j], r) + Tokens(queue'[j], r) = Position(j + 1, r)'
  <2>1. SameStep(queue[j], queue'[j])
    BY ExecuteQueue
  <2>2. /\ queue[j].step + 1 = StepNumber(j + 1)
        /\ \A r \in Requests :
             StepShape(queue[j], r)
               /\ Pre(queue[j], r) + Tokens(queue[j], r) = Position(j + 1, r)
    BY <1>1 DEF QueueInOrder
  <2>3. j + 1 \in 1..3
    BY <1>1
  <2>4. /\ StepNumber(j + 1)' = StepNumber(j + 1)
        /\ \A r \in Requests : Position(j + 1, r)' = Position(j + 1, r)
    BY <2>3, ExecutePlaces
  <2>5. queue'[j].step + 1 = StepNumber(j + 1)'
    BY <2>1, <2>2, <2>4, SameFields
  <2>6. queue'[j].done => \A k \in 1..(j - 1) : queue'[k].done
    <3>1. \A k \in DOMAIN queue : queue[k].done => queue'[k].done
      BY ExecuteQueue
    <3>2. CASE j = i
      BY <1>1, <3>1, <3>2 DEF AtStep
    <3>3. CASE j # i
      <4>1. queue'[j].done => \A k \in 1..(j - 1) : queue[k].done
        BY <1>1, <3>3, ExecuteQueue DEF QueueInOrder
      <4> QED
        BY <1>1, <3>1, <4>1
    <3> QED
      BY <3>2, <3>3
  <2>7. ASSUME NEW r \in Requests
        PROVE  /\ StepShape(queue[j], r)'
               /\ Pre(queue'[j], r) + Tokens(queue'[j], r) = Position(j + 1, r)'
    <3>1. /\ Pre(queue'[j], r) = Pre(queue[j], r) /\ Tokens(queue'[j], r) = Tokens(queue[j], r)
          /\ Added(queue'[j], r) = Added(queue[j], r)
          /\ Fires(queue'[j], r) = Fires(queue[j], r) /\ Sent(queue'[j], r) = Sent(queue[j], r)
          /\ Asked(queue'[j], r) = Asked(queue[j], r)
      BY <2>1, SameFields
    <3>2. queue[j].barrier => queue'[j].barrier
      BY ExecuteQueue DEF Executes
    <3>3. StepShape(queue[j], r)'
      BY <1>1, <2>2, <3>1, <3>2 DEF StepShape
    <3> QED
      BY <2>2, <2>4, <3>1, <3>3
  <2> QED
    BY <2>5, <2>6, <2>7
<1>3. Len(queue') <= Lookahead
  BY <1>1 DEF QueueInOrder
<1> QED
  BY <1>1, <1>2, <1>3 DEF QueueInOrder

LEMMA ExecuteEnded ==
  ASSUME Deployment, IInv, NEW i \in DOMAIN queue, NEW s \in Steps, Executes(i, s)
  PROVE  EndedIdle'
<1>1. /\ Types /\ EndedIdle /\ DOMAIN queue = 1..Len(queue) /\ Len(queue) \in {0, 1, 2}
      /\ Len(queue') = Len(queue) /\ DOMAIN queue' = DOMAIN queue /\ AtStep(i)
      /\ prompt' = prompt /\ status' = status /\ nct' = nct /\ ended' = ended /\ s = queue[i]
  BY ExecuteQueue, QueueFacts DEF Executes, schedulerVars, IInv
<1>2. \A j \in DOMAIN queue : /\ queue'[j].ended = queue[j].ended
                              /\ queue'[j].done \/ (j # i /\ queue'[j] = queue[j])
                              /\ \A r : Tokens(queue'[j], r) = Tokens(queue[j], r)
  BY ExecuteQueue, SameFields
<1>3. \A j \in DOMAIN queue' : \A r \in queue'[j].ended :
        /\ status'[r] = "finished"
        /\ \A k \in j..Len(queue') : Tokens(queue'[k], r) = 0
  <2>1. ASSUME NEW j \in DOMAIN queue, NEW r \in queue'[j].ended, NEW k \in j..Len(queue)
        PROVE  status[r] = "finished" /\ Tokens(queue'[k], r) = 0
    <3>1. k \in DOMAIN queue /\ r \in queue[j].ended
      BY <1>1, <1>2, <2>1
    <3> QED
      BY <1>1, <1>2, <3>1 DEF EndedIdle
  <2>2. \A j \in DOMAIN queue : j \in j..Len(queue)
    BY <1>1
  <2> QED
    BY <1>1, <2>1, <2>2
<1>4. ASSUME NEW r \in Requests
      PROVE  /\ status'[r] = "waiting" => nct'[r] = 0 /\ shift'[r] = 0
             /\ ~Served(r)' =>
                  /\ kv'[r] = 0 /\ shift'[r] = 0 /\ lastStep'[r] = -1
                  /\ \A j \in DOMAIN queue' : ~queue'[j].done => Tokens(queue'[j], r) = 0
  <2>1. Ready(s, r) /\ Executed(s, r)
    BY DEF Executes
  <2>2. Applies(r, s) => Tokens(s, r) = 1 /\ Served(r)
    BY <1>1, <2>1, RoundFacts DEF Ready
  <2>3. Applies(r, s) /\ r \notin s.ended => row'[r] # <<>>
    <3>1. SUFFICES ASSUME Applies(r, s), r \notin s.ended PROVE row'[r] # <<>>
      OBVIOUS
    <3>2. /\ Len(row'[r]) = Len(Shrunk(r, s)) + Len(Added(s, r))
          /\ Len(Shrunk(r, s)) = BudgetBlocks /\ BudgetBlocks \in Nat /\ 1 <= BudgetBlocks
      <4>1. /\ Tokens(s, r) > 0 => Served(r)
            /\ AtHook(s, r)
        BY <2>1, <2>2, <3>1 DEF Ready
      <4>2. Len(row'[r]) = Len(Shrunk(r, s)) + Len(Added(s, r))
        BY <1>1, <2>1, <3>1, ExecutedValues
      <4>3. Len(Shrunk(r, s)) = BudgetBlocks
        BY <1>1, <3>1, <4>1, RowFacts
      <4>4. BudgetBlocks \in Nat /\ 1 <= BudgetBlocks
        BY <1>1, <3>1, <4>1, EventFacts
      <4> QED
        BY <4>2, <4>3, <4>4
    <3>3. Len(row'[r]) # 0
      BY <3>2, StepLists
    <3> QED
      BY <3>3, LongNotEmpty
  <2>4. status[r] = "waiting" => nct[r] = 0 /\ shift'[r] = 0
    <3>1. status[r] = "waiting" => nct[r] = 0 /\ shift[r] = 0 /\ Tokens(s, r) = 0
      BY <1>1, <2>1 DEF EndedIdle, Ready, AtHook, StepShape
    <3> QED
      BY <2>1, <2>2, <3>1 DEF Executed, ShiftAfter
  <2>5. ASSUME ~Served(r)', r \in s.ended
        PROVE  /\ kv'[r] = 0 /\ shift'[r] = 0 /\ lastStep'[r] = -1
               /\ \A j \in DOMAIN queue : ~queue'[j].done => Tokens(queue'[j], r) = 0
    <3>1. kv'[r] = 0 /\ shift'[r] = 0 /\ lastStep'[r] = -1
      BY <2>1, <2>5 DEF Executed, LastStepAfter, ShiftAfter, RowsHeld
    <3>2. \A j \in DOMAIN queue : ~queue'[j].done => j \in i..Len(queue)
      BY <1>1, <1>2 DEF AtStep
    <3> QED
      BY <1>1, <1>2, <2>5, <3>1, <3>2 DEF EndedIdle
  <2>6. ASSUME ~Served(r)', r \notin s.ended
        PROVE  /\ kv'[r] = 0 /\ shift'[r] = 0 /\ lastStep'[r] = -1
               /\ \A j \in DOMAIN queue : ~queue'[j].done => Tokens(queue'[j], r) = 0
    <3>1. status[r] = "finished" /\ row'[r] = <<>> /\ ~Applies(r, s)
      BY <1>1, <2>3, <2>6 DEF Served
    <3>2. Len(row[r]) = 0
      <4>1. Len(row'[r]) = Len(row[r]) + Len(Added(s, r))
        BY <1>1, <2>1, <2>6, <3>1, ExecutedValues DEF Shrunk
      <4>2. Len(row'[r]) = 0
        BY <3>1
      <4> QED
        BY <1>1, <4>1, <4>2, RequestLists, StepLists
    <3>3. ~Served(r)
      BY <1>1, <3>1, <3>2, RequestLists DEF Served
    <3>4. kv[r] = 0 /\ shift[r] = 0 /\ lastStep[r] = -1 /\ Tokens(s, r) = 0
      BY <2>1, <3>3 DEF Ready
    <3>5. kv'[r] = 0 /\ shift'[r] = 0 /\ lastStep'[r] = -1
      <4>1. /\ lastStep'[r] = lastStep[r] /\ shift'[r] = shift[r]
            /\ kv'[r] = kv[r] + Tokens(s, r)
        BY <1>1, <2>1, <2>6, <3>1, ExecutedValues
      <4> QED
        BY ONLY <3>4, <4>1
    <3> QED
      BY <1>1, <1>2, <3>3, <3>5 DEF EndedIdle
  <2> QED
    BY <1>1, <2>4, <2>5, <2>6
<1> QED
  BY <1>1, <1>3, <1>4 DEF EndedIdle

LEMMA ExecuteWorker ==
  ASSUME Deployment, IInv, NEW i \in DOMAIN queue, NEW s \in Steps, Executes(i, s)
  PROVE  WorkerBook'
<1>1. /\ Types /\ QueueInOrder /\ WorkerBook
      /\ DOMAIN queue = 1..Len(queue) /\ Len(queue) \in {0, 1, 2}
      /\ Len(queue') = Len(queue) /\ DOMAIN queue' = DOMAIN queue /\ AtStep(i) /\ s = queue[i]
      /\ \A j \in DOMAIN queue : j # i => queue'[j] = queue[j]
      /\ queue'[i].done /\ \A j \in DOMAIN queue : queue[j] \in Steps
  BY ExecuteQueue, QueueFacts DEF Executes, IInv
<1>2. ASSUME NEW j \in 1..3, AtStep(j)'
      PROVE  j = i + 1
  <2>1. /\ j <= Len(queue) + 1 /\ \A k \in 1..(j - 1) : queue'[k].done
        /\ j <= Len(queue) => ~queue'[j].done
    BY <1>1, <1>2 DEF AtStep
  <2>2. ~(j <= i)
    BY <1>1, <2>1 DEF AtStep
  <2>3. i + 1 <= Len(queue) => ~queue'[i + 1].done
    <3>1. i + 1 <= Len(queue) => ~queue[i + 1].done
      BY <1>1 DEF AtStep, QueueInOrder
    <3> QED
      BY <1>1, <3>1
  <2>4. ~(i + 1 < j)
    BY <1>1, <2>1, <2>3
  <2> QED
    BY <1>1, <2>2, <2>4
<1>3. i \in 1..3 /\ i + 1 \in 1..3 /\ ~(i + 2 <= Len(queue)) /\ i <= Len(queue)
  BY <1>1
<1>4. ASSUME NEW r \in Requests
      PROVE  WorkerAt(i + 1, r)'
  <2>1. Ready(s, r) /\ Executed(s, r)
    BY DEF Executes
  <2>2. /\ StepNumber(i + 1)' = s.step + 1
        /\ Position(i + 1, r)' = Pre(s, r) + Tokens(s, r)
    BY <1>1, <1>3, StepAhead, ExecutePlaces
  <2>3. Held(Position(i + 1, r), StepNumber(i + 1), r)'
    BY <1>1, <2>1, <2>2, ExecutedHeld
  <2>4. i + 1 <= Len(queue) => Planned(queue[i + 1], Len(row[r]), r)'
    <3>1. SUFFICES ASSUME i + 1 <= Len(queue)
                   PROVE  Planned(queue[i + 1], Len(row[r]), r)'
      OBVIOUS
    <3>2. i + 1 \in DOMAIN queue /\ i + 1 # i
      BY <1>1, <3>1
    <3>3. PICK s2 \in Steps : s2 = queue[i + 1]
      BY <1>1, <3>2
    <3>4. s2 = queue'[i + 1]
      BY <1>1, <3>2, <3>3
    <3>5. s2.step = s.step + 1 /\ Pre(s2, r) = Pre(s, r) + Tokens(s, r)
      <4>1. StepNumber(i + 1) = s.step + 1 /\ Position(i + 1, r) = Pre(s, r) + Tokens(s, r)
        BY <1>1, StepAhead
      <4> QED
        BY <3>1, <3>3, <4>1 DEF StepNumber, Position
    <3>6. StepShape(s2, r)
      BY <1>1, <3>2, <3>3 DEF QueueInOrder
    <3>7. Planned(s2, Len(row[r]) + Len(Added(s, r)), r)
      <4>1. WorkerAt(i, r)
        BY <1>1, <1>3 DEF WorkerBook
      <4> QED
        BY <1>1, <3>1, <3>3, <4>1 DEF WorkerAt
    <3>8. Planned(s2, Len(row[r]), r)'
      BY <1>1, <2>1, <3>5, <3>6, <3>7, ExecutedPlanned
    <3> QED
      BY <3>4, <3>8
  <2> QED
    <3>1. ~((i + 1) + 1 <= Len(queue'))
      BY <1>1, <1>3
    <3> QED
      BY <1>1, <2>3, <2>4, <3>1 DEF WorkerAt
<1> QED
  BY <1>2, <1>4 DEF WorkerBook

(* The blocks under way to the worker.                                     *)
LEMMA PendingTypes ==
  ASSUME Deployment, Types, QueueInOrder, NEW r \in Requests
  PROVE  /\ Outstanding(1, r) \in Blocklists /\ Outstanding(2, r) \in Blocklists
         /\ Pending(r) \in Blocklists
         /\ \A a, b, c \in Blocklists : (a \o b) \o c = a \o (b \o c)
         /\ \A a \in Blocklists : a \o <<>> = a /\ <<>> \o a = a
         /\ <<>> \in Blocklists
<1>1. \A i : Outstanding(i, r) \in Blocklists
  <2>1. \A i \in DOMAIN queue : Added(queue[i], r) \in Blocklists
    BY QueueFacts, StepLists
  <2>2. <<>> \in Blocklists
    BY EmptySeq DEF Blocklists
  <2> QED
    BY <2>1, <2>2 DEF Outstanding
<1>2. \A a, b \in Blocklists : a \o b \in Blocklists
  BY ConcatProperties DEF Blocklists
<1>3. \A a, b, c \in Blocklists : (a \o b) \o c = a \o (b \o c)
  BY ConcatAssociative DEF Blocklists
<1>4. \A a \in Blocklists : a \o <<>> = a /\ <<>> \o a = a
  BY ConcatEmptySeq DEF Blocklists
<1>5. Pending(r) \in Blocklists
  BY <1>1, <1>2 DEF Pending
<1> QED
  BY <1>1, <1>3, <1>4, <1>5, EmptySeq DEF Blocklists

LEMMA ExecutePending ==
  ASSUME Deployment, IInv, NEW i \in DOMAIN queue, NEW s \in Steps, Executes(i, s),
         NEW r \in Requests
  PROVE  Pending(r) = Added(s, r) \o Pending(r)' /\ Pending(r)' \in Blocklists
<1>1. /\ Types /\ QueueInOrder /\ i \in {1, 2}
      /\ DOMAIN queue' = DOMAIN queue /\ AtStep(i) /\ s = queue[i]
      /\ \A j \in DOMAIN queue : j # i => queue'[j] = queue[j]
      /\ queue'[i].done /\ Len(queue) \in {0, 1, 2} /\ DOMAIN queue = 1..Len(queue)
  <2>1. Types /\ QueueInOrder /\ AtStep(i) /\ s = queue[i]
    BY DEF Executes, IInv
  <2>2. i \in {1, 2}
    BY <2>1, StepAhead
  <2> QED
    BY <2>1, <2>2, ExecuteQueue, QueueFacts
<1>2. /\ Outstanding(1, r) \in Blocklists /\ Outstanding(2, r) \in Blocklists
      /\ \A a \in Blocklists : a \o <<>> = a /\ <<>> \o a = a
      /\ Added(s, r) \in Blocklists /\ <<>> \in Blocklists
  BY <1>1, PendingTypes, StepLists
<1>3. Outstanding(i, r) = Added(s, r) /\ Outstanding(i, r)' = <<>>
  BY <1>1, StepAhead DEF Outstanding, IInv
<1>4. CASE i = 1
  <2>1. Outstanding(2, r)' = Outstanding(2, r)
    BY <1>1, <1>4 DEF Outstanding
  <2> QED
    BY <1>2, <1>3, <1>4, <2>1 DEF Pending
<1>5. CASE i = 2
  <2>1. Outstanding(1, r) = <<>> /\ Outstanding(1, r)' = <<>>
    BY <1>1, <1>5 DEF Outstanding, AtStep
  <2> QED
    BY <1>2, <1>3, <1>5, <2>1 DEF Pending
<1> QED
  BY <1>1, <1>4, <1>5

(* Without a round the worker just gets its blocks.                        *)
LEMMA ExecutedQuietly ==
  ASSUME Deployment, IInv, NEW i \in DOMAIN queue, NEW s \in Steps, Executes(i, s),
         NEW r \in Requests, status[r] # "finished", ~Applies(r, s)
  PROVE  /\ shift'[r] = shift[r] /\ lastStep'[r] = lastStep[r]
         /\ row'[r] \o Pending(r)' = row[r] \o Pending(r)
<1>1. Types /\ QueueInOrder /\ Ready(s, r) /\ Executed(s, r) /\ r \notin s.ended
  BY DEF IInv, Executes, Ready
<1>2. /\ shift'[r] = shift[r] /\ lastStep'[r] = lastStep[r]
      /\ row'[r] = row[r] \o Added(s, r)
  BY <1>1, ExecutedValues DEF Shrunk
<1>3. Pending(r) = Added(s, r) \o Pending(r)' /\ Pending(r)' \in Blocklists
  BY ExecutePending
<1>4. row[r] \in Blocklists /\ Added(s, r) \in Blocklists
  BY <1>1, RequestLists, StepLists
<1>5. (row[r] \o Added(s, r)) \o Pending(r)' = row[r] \o (Added(s, r) \o Pending(r)')
  <2>1. PICK a, b, c : a = row[r] /\ b = Added(s, r) /\ c = Pending(r)'
    OBVIOUS
  <2>2. a \in Blocklists /\ b \in Blocklists /\ c \in Blocklists
    BY <1>3, <1>4, <2>1
  <2>3. (a \o b) \o c = a \o (b \o c)
    BY <2>2, PendingTypes
  <2> QED
    BY <2>1, <2>3
<1> QED
  BY <1>2, <1>3, <1>5

LEMMA ExecuteScheduler ==
  ASSUME Deployment, IInv, NEW i \in DOMAIN queue, NEW s \in Steps, Executes(i, s)
  PROVE  SchedulerBook'
<1>1. /\ Types /\ SchedulerBook /\ EventsTrue /\ AtStep(i) /\ s = queue[i]
      /\ status' = status /\ manager' = manager /\ offset' = offset /\ lag' = lag
  BY DEF Executes, IInv, schedulerVars
<1>2. ASSUME NEW r \in Requests, status[r] # "finished", NoEvent(r)'
      PROVE  SchedulerAt(r)'
  <2>1. ~Applies(r, s)
    <3>1. SUFFICES ASSUME Applies(r, s) PROVE FALSE
      OBVIOUS
    <3>2. r \notin s.ended
      BY <1>2 DEF Executes, Ready
    <3>3. Event(r, s) \in queue'[i].events /\ i \in DOMAIN queue'
      BY <3>1, <3>2, ExecuteQueue
    <3>4. Event(r, s).req = r
      BY DEF Event
    <3> QED
      BY <1>2, <3>3, <3>4 DEF NoEvent
  <2>2. NoEvent(r)
    <3>1. SUFFICES ASSUME NEW j \in DOMAIN queue, NEW e \in queue[j].events PROVE e.req # r
      BY DEF NoEvent
    <3>2. j # i
      BY <1>1, <3>1, StepAhead DEF EventsTrue, AtStep
    <3>3. j \in DOMAIN queue' /\ queue'[j] = queue[j]
      BY <3>1, <3>2, ExecuteQueue
    <3> QED
      BY <1>2, <3>1, <3>3 DEF NoEvent
  <2>3. SchedulerAt(r)
    BY <1>1, <1>2, <2>2 DEF SchedulerBook
  <2>4. shift'[r] = shift[r] /\ row'[r] \o Pending(r)' = row[r] \o Pending(r)
    BY <1>2, <2>1, ExecutedQuietly
  <2> QED
    BY <1>1, <2>3, <2>4 DEF SchedulerAt
<1> QED
  BY <1>1, <1>2 DEF SchedulerBook

(* What an event that leaves the first n of the row's blocks, a, says of a   *)
(* list that goes on behind the row.                                        *)
CutAt(n, a, w, new, m) ==
  /\ IsPrefix(a, m) /\ Len(a) = n /\ Len(w) <= Len(m)
  /\ SubSeq(m, 1, n) = a /\ SubSeq(m, Len(w) + 1, Len(m)) = new

LEMMA Payload ==
  ASSUME NEW S, NEW w \in Seq(S), NEW new \in Seq(S), NEW m, m = w \o new,
         NEW n \in Nat, n < Len(w), NEW a, a = SubSeq(w, 1, n)
  PROVE  CutAt(n, a, w, new, m) /\ a \in Seq(S)
<1>1. Len(w) \in Nat /\ n \in 0..Len(w)
  BY LenProperties
<1>2. a \in Seq(S) /\ Len(a) = n
  BY <1>1, Cut
<1>3. /\ SubSeq(m, 1, n) = a
      /\ SubSeq(m, Len(w) + 1, Len(m)) = new
      /\ Len(m) = Len(w) + Len(new)
  BY <1>1, Parts
<1>4. SubSeq(a, 1, Len(a)) = a
  BY <1>2, SubSeqFull
<1>5. Len(w) <= Len(m) /\ n <= Len(m)
  <2> DEFINE x == Len(w)
             y == Len(new)
             z == Len(m)
  <2>1. x \in Nat /\ y \in Nat /\ z = x + y /\ n < x
    BY <1>1, <1>3, LenProperties
  <2> HIDE DEF x, y, z
  <2>2. x <= z /\ n <= z
    BY ONLY <2>1, n \in Nat
  <2> QED
    BY <2>2 DEF x, z
<1> QED
  BY <1>2, <1>3, <1>4, <1>5 DEF IsPrefix, CutAt

(* A round of the step, reported.                                          *)
LEMMA ExecuteReported ==
  ASSUME Deployment, IInv, NEW i \in DOMAIN queue, NEW s \in Steps, Executes(i, s),
         NEW r \in Requests, r \notin s.ended, Applies(r, s), status[r] # "finished",
         NEW e, e = Event(r, s)
  PROVE  Reported(queue[i], e)'
<1>1. /\ Types /\ QueueInOrder /\ EventsTrue /\ SchedulerBook /\ Ready(s, r) /\ Executed(s, r)
      /\ AtStep(i) /\ s = queue[i] /\ manager' = manager /\ prompt' = prompt
  BY DEF Executes, IInv, schedulerVars
<1>2. AtHook(s, r)
  BY <1>1 DEF Ready
<1>3. /\ e.req = r /\ e.len = Top(r) /\ e.pre = Pre(s, r) /\ e.before = Len(row[r])
      /\ e.after = SubSeq(row[r], 1, BudgetBlocks) /\ BudgetBlocks \in Nat
      /\ BudgetBlocks < Len(row[r]) /\ e.after # <<>>
  BY <1>1, <1>2, EventFacts
<1>4. NoEvent(r)
  <2>1. SUFFICES ASSUME NEW j \in DOMAIN queue, NEW f \in queue[j].events, f.req = r PROVE FALSE
    BY DEF NoEvent
  <2>2. queue[j].done /\ Reported(queue[j], f)
    BY <1>1, <2>1 DEF EventsTrue
  <2>3. lastStep[r] = queue[j].step /\ shift[r] < 0
    BY <2>1, <2>2 DEF Reported
  <2>4. j = 1 /\ i = 2
    <3>1. i \in {1, 2} /\ ~s.done /\ Len(queue) \in {0, 1, 2} /\ DOMAIN queue = 1..Len(queue)
      BY <1>1, StepAhead, QueueFacts
    <3>2. i < j => ~queue[j].done
      BY <1>1, <3>1 DEF QueueInOrder
    <3> QED
      BY <1>1, <2>2, <3>1, <3>2
  <2>5. s.step = queue[j].step + 1
    BY <1>1, <2>4 DEF QueueInOrder, StepNumber
  <2>6. s.step > lastStep[r] + 1
    BY <1>1, <2>3, RoundFacts DEF Ready
  <2> QED
    BY <1>1, <2>3, <2>5, <2>6, RequestTypes, StepTypes
<1>5. /\ row[r] \in Seq(1..NumBlocks) /\ Added(s, r) \in Seq(1..NumBlocks)
      /\ Pending(r)' \in Seq(1..NumBlocks) /\ Pending(r) = Added(s, r) \o Pending(r)'
  BY <1>1, RequestLists, StepLists, ExecutePending DEF Blocklists
<1>6. manager[r] = row[r] \o Pending(r)
  BY <1>1, <1>4, <1>5 DEF SchedulerBook, SchedulerAt
<1>7. row'[r] = e.after \o Added(s, r)
  BY <1>1, <1>3, ExecutedValues DEF Shrunk
<1>8. /\ IsPrefix(e.after, manager[r]) /\ Len(e.after) = BudgetBlocks
      /\ Len(row[r]) <= Len(manager[r]) /\ e.after \in Blocklists
      /\ SubSeq(manager[r], 1, BudgetBlocks) = e.after
      /\ SubSeq(manager[r], Len(row[r]) + 1, Len(manager[r])) = Pending(r)
  <2> DEFINE S == 1..NumBlocks
             w == row[r]
             m == manager[r]
             new == Pending(r)
             a == e.after
  <2>1. w \in Seq(S) /\ new \in Seq(S) /\ m = w \o new
    BY <1>1, <1>5, <1>6, PendingTypes DEF Blocklists
  <2>2. BudgetBlocks \in Nat /\ BudgetBlocks < Len(w) /\ a = SubSeq(w, 1, BudgetBlocks)
    BY <1>3
  <2>4. Blocklists = Seq(S)
    BY DEF Blocklists
  <2> HIDE DEF S, w, m, new, a
  <2>3. CutAt(BudgetBlocks, a, w, new, m) /\ a \in Seq(S)
    BY ONLY <2>1, <2>2, Payload
  <2> QED
    BY <2>3, <2>4 DEF CutAt, w, m, new, a
<1>12. SubSeq(manager[r], 1, Len(e.after)) \o SubSeq(manager[r], e.before + 1, Len(manager[r]))
         = row'[r] \o Pending(r)'
  <2>1. (e.after \o Added(s, r)) \o Pending(r)' = e.after \o (Added(s, r) \o Pending(r)')
    <3>1. \A x, y, z \in Blocklists : (x \o y) \o z = x \o (y \o z)
      BY <1>1, PendingTypes
    <3>2. e.after \in Blocklists /\ Added(s, r) \in Blocklists /\ Pending(r)' \in Blocklists
      BY <1>5, <1>8 DEF Blocklists
    <3> QED
      BY ONLY <3>1, <3>2
  <2> QED
    BY <1>3, <1>5, <1>7, <1>8, <2>1
<1>9. /\ Pre(queue'[i], r) = Pre(s, r) /\ Tokens(queue'[i], r) = Tokens(s, r)
      /\ queue'[i].step = s.step
  BY <1>1, ExecuteQueue, SameFields
<1>10. /\ shift'[r] < 0 /\ shift'[r] = Top(r) - Pre(s, r) /\ lastStep'[r] = s.step
       /\ Tokens(s, r) = 1
  BY <1>1, ExecutedRound
<1>11. Top(r)' = Top(r)
  BY <1>1 DEF Top
<1> QED
  BY <1>1, <1>3, <1>8, <1>9, <1>10, <1>11, <1>12 DEF Reported

LEMMA ExecuteEvents ==
  ASSUME Deployment, IInv, NEW i \in DOMAIN queue, NEW s \in Steps, Executes(i, s)
  PROVE  EventsTrue'
<1>1. /\ Types /\ QueueInOrder /\ EventsTrue /\ AtStep(i) /\ s = queue[i]
      /\ status' = status /\ manager' = manager /\ prompt' = prompt
      /\ DOMAIN queue' = DOMAIN queue /\ queue'[i].done
      /\ \A j \in DOMAIN queue : j # i => queue'[j] = queue[j]
  BY ExecuteQueue DEF Executes, IInv, schedulerVars
<1>2. ASSUME NEW j \in DOMAIN queue, j # i
      PROVE  /\ queue'[j].events # {} => queue'[j].done /\ queue'[j].barrier
             /\ \A e \in queue'[j].events :
                  /\ status'[e.req] # "finished" => Reported(queue[j], e)'
                  /\ \A f \in queue'[j].events : e.req = f.req => e = f
  <2>1. queue'[j] = queue[j]
    BY <1>1, <1>2
  <2>2. /\ queue[j].events # {} => queue[j].done /\ queue[j].barrier
        /\ \A e \in queue[j].events : \A f \in queue[j].events : e.req = f.req => e = f
    BY <1>1 DEF EventsTrue
  <2>3. ASSUME NEW e \in queue[j].events, status[e.req] # "finished"
        PROVE  Reported(queue[j], e)'
    <3>1. Reported(queue[j], e) /\ e.req \in Requests
      <4>1. queue[j] \in Steps
        BY <1>1, QueueFacts
      <4>2. e \in Events
        BY <4>1 DEF Steps
      <4> QED
        BY <1>1, <2>3, <4>2 DEF EventsTrue, Events
    <3>2. ~Applies(e.req, s)
      <4>1. SUFFICES ASSUME Applies(e.req, s) PROVE FALSE
        OBVIOUS
      <4>2. lastStep[e.req] = queue[j].step /\ shift[e.req] < 0
        BY <3>1 DEF Reported
      <4>3. j = 1 /\ i = 2
        <5>1. i \in {1, 2} /\ ~s.done /\ Len(queue) \in {0, 1, 2} /\ DOMAIN queue = 1..Len(queue)
          BY <1>1, <3>1, StepAhead, QueueFacts
        <5>2. i < j => ~queue[j].done
          BY <1>1, <5>1 DEF QueueInOrder
        <5> QED
          BY <1>2, <2>2, <2>3, <5>1, <5>2
      <4>4. s.step = queue[j].step + 1
        BY <1>1, <4>3 DEF QueueInOrder, StepNumber
      <4>5. s.step > lastStep[e.req] + 1
        BY <1>1, <3>1, <4>1, <4>2, RoundFacts DEF Executes, Ready
      <4> QED
        BY <1>1, <3>1, <4>2, <4>4, <4>5, RequestTypes, StepTypes
    <3>3. /\ shift'[e.req] = shift[e.req] /\ lastStep'[e.req] = lastStep[e.req]
          /\ row'[e.req] \o Pending(e.req)' = row[e.req] \o Pending(e.req)
      BY <2>3, <3>1, <3>2, ExecutedQuietly
    <3>4. Top(e.req)' = Top(e.req)
      BY <1>1 DEF Top
    <3> QED
      BY <1>1, <2>1, <3>1, <3>3, <3>4 DEF Reported
  <2> QED
    BY <1>1, <2>1, <2>2, <2>3
<1>3. /\ queue'[i].events # {} => queue'[i].done /\ queue'[i].barrier
      /\ \A e \in queue'[i].events :
           /\ status'[e.req] # "finished" => Reported(queue[i], e)'
           /\ \A f \in queue'[i].events : e.req = f.req => e = f
  <2>1. queue'[i].events = {Event(r, s) : r \in {r \in Requests \ s.ended : Applies(r, s)}}
    BY ExecuteQueue
  <2>2. \A e \in queue'[i].events :
          /\ e.req \in Requests /\ e.req \notin s.ended /\ Applies(e.req, s)
          /\ e = Event(e.req, s)
    <3>1. \A r : Event(r, s).req = r
      BY DEF Event
    <3> QED
      BY <2>1, <3>1
  <2>3. ASSUME NEW e \in queue'[i].events
        PROVE  queue'[i].barrier
    <3>1. e.req \in Requests /\ Applies(e.req, s)
      BY <2>2
    <3>2. StepShape(s, e.req)
      BY <3>1 DEF Executes, Ready, AtHook
    <3>3. Supplemented(s)[e.req].fires
      BY <3>1 DEF Applies
    <3>4. SelfTriggers(e.req, s) \/ Fires(s, e.req)
      BY <1>1, <3>1, <3>2, <3>3, SignalFacts
    <3>5. SelfTriggers(e.req, s) \/ s.barrier
      BY <3>2, <3>4 DEF StepShape
    <3> QED
      BY <3>1, <3>5, ExecuteQueue
  <2>4. ASSUME NEW e \in queue'[i].events, status[e.req] # "finished"
        PROVE  Reported(queue[i], e)'
    <3>1. /\ e.req \in Requests /\ e.req \notin s.ended /\ Applies(e.req, s)
          /\ e = Event(e.req, s)
      BY <2>2
    <3> QED
      BY <2>4, <3>1, ExecuteReported
  <2>5. \A e, f \in queue'[i].events : e.req = f.req => e = f
    BY <2>2
  <2> QED
    BY <1>1, <2>3, <2>4, <2>5
<1> QED
  BY <1>1, <1>2, <1>3 DEF EventsTrue

LEMMA ExecuteKeeps ==
  ASSUME Deployment, IInv, Execute
  PROVE  IInv'
<1>1. PICK i \in DOMAIN queue : \E s \in Steps : Executes(i, s)
  BY ExecuteStep
<1>2. PICK s \in Steps : Executes(i, s)
  BY <1>1
<1>3. Types' /\ QueueInOrder' /\ EndedIdle'
  BY <1>2, ExecuteTypes, ExecuteOrder, ExecuteEnded
<1>4. WorkerBook' /\ SchedulerBook' /\ EventsTrue'
  BY <1>2, ExecuteWorker, ExecuteScheduler, ExecuteEvents
<1>5. BlocksConserved'
  <2>1. free' = free /\ manager' = manager
    BY <1>2 DEF Executes, schedulerVars
  <2> QED
    BY <2>1 DEF IInv, BlocksConserved
<1>6. NeverFatal'
  <2>1. ASSUME NEW r \in Requests, NEW sig, sig = Supplemented(s)[r],
               sig.fires, row[r] # <<>>, ~Deduplicated(r, s, sig)
        PROVE  ~Regressed(r, s, sig)
    <3>1. Served(r) /\ AtHook(s, r) /\ Types
      BY <1>2, <2>1 DEF Served, Executes, Ready, IInv
    <3> QED
      BY <2>1, <3>1, NotRegressed
  <2>2. ~Fatal(s)
    BY <2>1 DEF Fatal
  <2> QED
    BY <1>2, <2>2 DEF Executes, NeverFatal
<1> QED
  BY <1>3, <1>4, <1>5, <1>6 DEF IInv

-----------------------------------------------------------------------------
(* Schedule preserves the invariant.                                       *)

(* What the requests before r take of a supply, as a set of that many.     *)
Taken(f, r) == UNION {{q} \X (1..f[q]) : q \in 1..(r - 1)}

LEMMA BeforeFacts ==
  ASSUME NEW f \in [Requests -> Nat], NEW r \in Requests
  PROVE  /\ Before(f, r) \in Nat
         /\ \A q \in Requests : q < r => Before(f, q) + f[q] <= Before(f, r)
<1>1. NumRequests \in Nat
  BY ConstantTypes
<1>2. ASSUME NEW q \in Requests
      PROVE  /\ IsFiniteSet({q} \X (1..f[q])) /\ Cardinality({q} \X (1..f[q])) = f[q]
  <2>1. f[q] \in Nat
    OBVIOUS
  <2>2. IsFiniteSet(1..f[q]) /\ Cardinality(1..f[q]) = f[q]
    BY <2>1, FS_Interval
  <2>3. IsFiniteSet({q}) /\ Cardinality({q}) = 1
    BY FS_Singleton
  <2>4. /\ IsFiniteSet({q} \X (1..f[q]))
        /\ Cardinality({q} \X (1..f[q])) = Cardinality({q}) * Cardinality(1..f[q])
    BY <2>2, <2>3, FS_Product
  <2> QED
    BY <2>1, <2>2, <2>3, <2>4
<1>3. \A q \in Requests : IsFiniteSet(Taken(f, q))
  <2>1. SUFFICES ASSUME NEW q \in Requests PROVE IsFiniteSet(Taken(f, q))
    OBVIOUS
  <2>2. q - 1 \in Int /\ \A p \in 1..(q - 1) : p \in Requests
    BY <1>1 DEF Requests
  <2>3. IsFiniteSet(1..(q - 1))
    BY <2>2, FS_Interval
  <2>4. IsFiniteSet({{p} \X (1..f[p]) : p \in 1..(q - 1)})
    <3> DEFINE S == 1..(q - 1)
               T == {{p} \X (1..f[p]) : p \in S}
               h == [p \in S |-> {p} \X (1..f[p])]
    <3>1. h \in Surjection(S, T)
      BY DEF Surjection
    <3> HIDE DEF S, T, h
    <3>2. IsFiniteSet(S)
      BY <2>3 DEF S
    <3>3. IsFiniteSet(T)
      BY <3>1, <3>2, FS_Surjection
    <3> QED
      BY <3>3 DEF T, S
  <2>5. \A T \in {{p} \X (1..f[p]) : p \in 1..(q - 1)} : IsFiniteSet(T)
    BY <1>2, <2>2
  <2> QED
    BY <2>4, <2>5, FS_UNION DEF Taken
<1>4. \A q \in Requests : Before(f, q) = Cardinality(Taken(f, q)) /\ Before(f, q) \in Nat
  BY <1>3, FS_CardinalityType DEF Before, Taken
<1>5. ASSUME NEW q \in Requests, q < r
      PROVE  Before(f, q) + f[q] <= Before(f, r)
  <2>1. \A p \in 1..(q - 1) : p \in 1..(r - 1) /\ p # q
    BY <1>1, <1>5 DEF Requests
  <2>2. q \in 1..(r - 1)
    BY <1>1, <1>5 DEF Requests
  <2>3. Taken(f, q) \cup ({q} \X (1..f[q])) \subseteq Taken(f, r)
    BY <2>1, <2>2 DEF Taken
  <2>4. Taken(f, q) \cap ({q} \X (1..f[q])) = {}
    BY <2>1 DEF Taken
  <2>5. /\ IsFiniteSet(Taken(f, q) \cup ({q} \X (1..f[q])))
        /\ Cardinality(Taken(f, q) \cup ({q} \X (1..f[q])))
             = Cardinality(Taken(f, q)) + Cardinality({q} \X (1..f[q]))
    <3> DEFINE A == Taken(f, q)
               B == {q} \X (1..f[q])
    <3>1. IsFiniteSet(A) /\ IsFiniteSet(B) /\ A \cap B = {}
      BY <1>2, <1>3, <2>4
    <3> HIDE DEF A, B
    <3>2. /\ IsFiniteSet(A \cup B)
          /\ Cardinality(A \cup B) = Cardinality(A) + Cardinality(B) - Cardinality(A \cap B)
      BY <3>1, FS_Union
    <3>3. Cardinality(A) \in Nat /\ Cardinality(B) \in Nat /\ Cardinality(A \cap B) = 0
      BY <3>1, FS_CardinalityType, FS_EmptySet
    <3>4. Cardinality(A \cup B) = Cardinality(A) + Cardinality(B)
      BY <3>2, <3>3
    <3> QED
      BY <3>2, <3>4 DEF A, B
  <2>6. Cardinality(Taken(f, q) \cup ({q} \X (1..f[q]))) <= Cardinality(Taken(f, r))
    BY <1>3, <2>3, FS_Subset
  <2> QED
    BY <1>2, <1>4, <2>5, <2>6
<1> QED
  BY <1>4, <1>5

LEMMA EffectiveFacts ==
  ASSUME Types, NEW r \in Requests
  PROVE  /\ Effective(r) \in Nat /\ Effective(r) <= nct[r]
         /\ offset[r] = 0 => Effective(r) = nct[r]
BY RequestTypes DEF Effective, OffsetUsable

LEMMA MissingFacts ==
  ASSUME Types, NEW g \in [Requests -> Nat], NEW r \in Requests
  PROVE  /\ Missing(r, g) \in Nat
         /\ g[r] = 0 => Missing(r, g) = 0
         /\ g[r] # 0 => LET need == Blocks(Effective(r) + g[r])
                        IN  /\ need <= Len(manager[r]) + Missing(r, g)
                            /\ Missing(r, g) = 0 \/ Len(manager[r]) + Missing(r, g) = need
<1>1. Effective(r) + g[r] \in Nat /\ Len(manager[r]) \in Nat
  BY EffectiveFacts, RequestLists
<1>2. Blocks(Effective(r) + g[r]) \in Nat
  BY <1>1, BlocksLeast
<1>3. Missing(r, g) = IF g[r] = 0 THEN 0
                      ELSE Greater(0, Blocks(Effective(r) + g[r]) - Len(manager[r]))
  BY DEF Missing
<1> DEFINE need == Blocks(Effective(r) + g[r])
           have == Len(manager[r])
           miss == Missing(r, g)
<1>4. /\ need \in Nat /\ have \in Nat
      /\ miss = IF g[r] = 0 THEN 0 ELSE Greater(0, need - have)
  BY <1>1, <1>2, <1>3
<1> HIDE DEF need, have, miss
<1>5. /\ miss \in Nat /\ g[r] = 0 => miss = 0
      /\ g[r] # 0 => need <= have + miss /\ (miss = 0 \/ have + miss = need)
  BY ONLY <1>4 DEF Greater
<1> QED
  BY <1>1, <1>4, <1>5 DEF need, have, miss, Greater

(* The pool's blocks, handed out in turn.                                  *)
LEMMA AllocatedFacts ==
  ASSUME Types, NEW g \in [Requests -> Nat], Enough(g), NEW r \in Requests
  PROVE  /\ Allocated(g)[r] \in Blocklists /\ Len(Allocated(g)[r]) = Missing(r, g)
         /\ DOMAIN Allocated(g)[r] = 1..Missing(r, g)
         /\ \A k \in 1..Missing(r, g) : /\ Allocated(g)[r][k] \in free
                                        /\ Rank(Allocated(g)[r][k]) = Turn(g, r, k)
<1> DEFINE b(k) == CHOOSE c \in free : Rank(c) = Turn(g, r, k)
           n == Missing(r, g)
<1>1. n \in Nat
  BY MissingFacts
<1>2. Allocated(g)[r] = [k \in 1..n |-> b(k)]
  BY DEF Allocated
<1>3. \A k \in 1..n : b(k) \in free /\ Rank(b(k)) = Turn(g, r, k)
  BY DEF Enough
<1>4. free \subseteq 1..NumBlocks
  BY DEF Types
<1> HIDE DEF b, n
<1>5. Allocated(g)[r] \in [1..n -> 1..NumBlocks]
  BY <1>2, <1>3, <1>4
<1>6. Allocated(g)[r] \in Seq(1..NumBlocks) /\ Len(Allocated(g)[r]) = n
  <2> DEFINE a == Allocated(g)[r]
             S == 1..NumBlocks
  <2>1. a \in [1..n -> S]
    BY <1>5
  <2> HIDE DEF a, S
  <2>2. a \in Seq(S)
    BY <1>1, <2>1, SeqDef
  <2>3. DOMAIN a = 1..n /\ DOMAIN a = 1..Len(a) /\ Len(a) \in Nat
    BY <2>1, <2>2, LenProperties
  <2>4. Len(a) = n
    BY ONLY <1>1, <2>3
  <2> QED
    BY <2>2, <2>4 DEF a, S
<1> QED
  BY <1>2, <1>3, <1>5, <1>6 DEF n, Blocklists

(* No block is handed out twice.                                           *)
LEMMA AllocatedOnce ==
  ASSUME Types, NEW g \in [Requests -> Nat], Enough(g), NEW r \in Requests, NEW q \in Requests,
         NEW k \in 1..Missing(r, g), NEW l \in 1..Missing(q, g),
         Allocated(g)[r][k] = Allocated(g)[q][l]
  PROVE  r = q /\ k = l
<1> DEFINE f == [p \in Requests |-> Missing(p, g)]
<1>1. f \in [Requests -> Nat]
  BY MissingFacts
<1>2. Turn(g, r, k) = Turn(g, q, l)
  BY AllocatedFacts
<1>3. Turn(g, r, k) = Before(f, r) + k /\ Turn(g, q, l) = Before(f, q) + l
  BY DEF Turn
<1>4. f[r] = Missing(r, g) /\ f[q] = Missing(q, g)
  OBVIOUS
<1> HIDE DEF f
<1>5. /\ Before(f, r) \in Nat /\ Before(f, q) \in Nat
      /\ q < r => Before(f, q) + f[q] <= Before(f, r)
      /\ r < q => Before(f, r) + f[r] <= Before(f, q)
  BY <1>1, BeforeFacts
<1>6. r \in Int /\ q \in Int /\ k \in 1..f[r] /\ l \in 1..f[q] /\ f[r] \in Nat /\ f[q] \in Nat
  BY <1>1, <1>4, ConstantTypes DEF Requests
<1>7. Before(f, r) + k = Before(f, q) + l
  BY <1>2, <1>3
<1>8. k \in Nat /\ l \in Nat /\ 1 <= k /\ k <= f[r] /\ 1 <= l /\ l <= f[q]
  BY <1>6
<1>9. ~(q < r) /\ ~(r < q)
  BY ONLY <1>5, <1>6, <1>7, <1>8
<1> QED
  BY <1>5, <1>6, <1>7, <1>9

LEMMA GrantedFacts ==
  ASSUME Types, NEW S \in SUBSET Requests
  PROVE  /\ Granted(S) \in [Requests -> Nat]
         /\ \A r \in Requests :
              /\ r \notin S => Granted(S)[r] = 0
              /\ nct[r] < prompt[r] => nct[r] + Granted(S)[r] <= prompt[r]
              /\ nct[r] >= prompt[r] => Granted(S)[r] <= 1
              /\ nct[r] + Granted(S)[r] <= MaxLength
<1> DEFINE wanted == [r \in Requests |-> IF r \in S THEN Wanted(r) ELSE 0]
<1>1. \A r \in Requests : Wanted(r) \in Nat
  BY RequestTypes, ConstantTypes DEF Wanted
<1>2. wanted \in [Requests -> Nat]
  BY <1>1
<1>3. StepTokens \in Nat
  <2>1. NumBlocks * BlockSize - KvBudget \in Int
    BY ConstantTypes
  <2> DEFINE h == NumBlocks * BlockSize - KvBudget
  <2>2. StepTokens = IF h <= 0 THEN MaxScheduled
                     ELSE Lesser(MaxScheduled, Greater(1, h - BlockSize))
    BY DEF StepTokens
  <2> HIDE DEF h
  <2>3. h \in Int
    BY <2>1 DEF h
  <2> QED
    BY <2>2, <2>3, ConstantTypes DEF Lesser, Greater
<1>4. Granted(S) = [r \in Requests |-> Lesser(wanted[r], Greater(0, StepTokens - Before(wanted, r)))]
  BY DEF Granted
<1> HIDE DEF wanted
<1>5. \A r \in Requests : Before(wanted, r) \in Nat
  BY <1>2, BeforeFacts
<1>6. ASSUME NEW r \in Requests
      PROVE  Granted(S)[r] \in Nat /\ Granted(S)[r] <= wanted[r]
  <2>1. wanted[r] \in Nat /\ StepTokens - Before(wanted, r) \in Int
    BY <1>2, <1>3, <1>5
  <2> QED
    BY <1>4, <2>1 DEF Lesser, Greater
<1>7. \A r \in Requests : wanted[r] = IF r \in S THEN Wanted(r) ELSE 0
  BY DEF wanted
<1>8. ASSUME NEW r \in Requests
      PROVE  /\ r \notin S => Granted(S)[r] = 0
             /\ nct[r] < prompt[r] => nct[r] + Granted(S)[r] <= prompt[r]
             /\ nct[r] >= prompt[r] => Granted(S)[r] <= 1
             /\ nct[r] + Granted(S)[r] <= MaxLength
  <2>1. /\ nct[r] \in Nat /\ prompt[r] \in Nat /\ MaxLength \in Nat
        /\ nct[r] <= MaxLength /\ prompt[r] <= MaxLength
    BY RequestTypes, ConstantTypes
  <2>2. Granted(S)[r] \in Nat /\ Granted(S)[r] <= IF r \in S THEN Wanted(r) ELSE 0
    BY <1>6, <1>7
  <2> QED
    BY <2>1, <2>2 DEF Wanted
<1> QED
  BY <1>4, <1>6, <1>8

(* The estimate a step's signal carries for the request.                   *)
EstAt(s, r) ==
  (IF lag[r] = NoLag THEN nct[r] + Tokens(s, r) ELSE (nct[r] + Tokens(s, r)) - lag[r])
    + Tokens(s, r)

Informs(s, r) ==
  IF Tokens(s, r) > 0 /\ (EstAt(s, r) >= Threshold \/ lag[r] # NoLag)
  THEN /\ Sent(s, r) /\ Est(s, r) = EstAt(s, r) /\ Asked(s, r) = Tokens(s, r)
       /\ Fires(s, r) <=> EstAt(s, r) >= Threshold
  ELSE ~Sent(s, r) /\ ~Fires(s, r)

(* What Schedule does to request r, with s the step it plans.              *)
PlansFor(s, r) ==
  /\ Pre(s, r) = nct[r] /\ nct'[r] = nct[r] + Tokens(s, r)
  /\ nct[r] < prompt[r] => nct[r] + Tokens(s, r) <= prompt[r]
  /\ nct[r] >= prompt[r] => Tokens(s, r) <= 1
  /\ nct[r] + Tokens(s, r) <= MaxLength
  /\ status[r] = "finished" => Tokens(s, r) = 0
  /\ status'[r] = IF status[r] = "waiting" /\ Tokens(s, r) > 0 THEN "running" ELSE status[r]
  /\ Len(Added(s, r)) = Missing(r, s.tokens)
  /\ manager'[r] = manager[r] \o Added(s, r)
  /\ offset'[r] = IF status[r] = "running" /\ ~OffsetUsable(r) THEN 0 ELSE offset[r]
  /\ lag'[r] = lag[r] \/ (lag'[r] = NoLag /\ (status[r] = "waiting" \/ r \in ended))
  /\ Informs(s, r)

Plans(s) ==
  /\ error = None /\ Drained
  /\ \A r \in Requests : PlansFor(s, r)
  /\ s.step = step + 1 /\ s.ended = ended /\ ~s.done /\ s.events = {}
  /\ s.barrier <=> \E r \in Requests : Fires(s, r)
  /\ s.blocks = Allocated(s.tokens) /\ Enough(s.tokens)
  /\ status' = [r \in Requests |-> status'[r]] /\ nct' = [r \in Requests |-> nct'[r]]
  /\ manager' = [r \in Requests |-> manager'[r]] /\ offset' = [r \in Requests |-> offset'[r]]
  /\ lag' = [r \in Requests |-> lag'[r]]
  /\ free' = free \ UNION {Range(Added(s, r)) : r \in Requests}
  /\ step' = step + 1 /\ queue' = Append(queue, s) /\ ended' = {}
  /\ UNCHANGED <<prompt, workerVars, error>>

LEMMA SignalMade ==
  ASSUME Types, NEW s \in Steps, NEW r \in Requests,
         s.signals[r] = Signal(r, s.tokens, [q \in Requests |-> nct[q] + s.tokens[q]])
  PROVE  Informs(s, r)
<1>1. /\ Tokens(s, r) \in Nat /\ nct[r] \in Nat /\ lag[r] \in Int
  BY StepTypes, RequestTypes
<1>2. s.signals[r] = IF Tokens(s, r) > 0 /\ (EstAt(s, r) >= Threshold \/ lag[r] # NoLag)
                     THEN [sent |-> TRUE, fires |-> EstAt(s, r) >= Threshold,
                           est |-> EstAt(s, r), tokens |-> Tokens(s, r)]
                     ELSE NoSignal
  BY DEF Signal, EstAt, Tokens
<1> DEFINE e == EstAt(s, r)
           c == Tokens(s, r) > 0 /\ (e >= Threshold \/ lag[r] # NoLag)
<1>3. CASE c
  <2>1. s.signals[r] = [sent |-> TRUE, fires |-> e >= Threshold, est |-> e,
                        tokens |-> Tokens(s, r)]
    BY <1>2, <1>3
  <2>2. /\ s.signals[r].sent = TRUE /\ s.signals[r].fires = (e >= Threshold)
        /\ s.signals[r].est = e /\ s.signals[r].tokens = Tokens(s, r)
    BY ONLY <2>1
  <2> QED
    BY <1>3, <2>2 DEF Informs, Sent, Fires, Est, Asked
<1>4. CASE ~c
  <2>1. s.signals[r] = NoSignal
    BY <1>2, <1>4
  <2>2. s.signals[r].sent = FALSE /\ s.signals[r].fires = FALSE
    BY <2>1 DEF NoSignal
  <2> QED
    BY <1>4, <2>2 DEF Informs, Sent, Fires
<1> QED
  BY <1>3, <1>4

LEMMA ScheduleStep ==
  ASSUME Deployment, IInv, Schedule
  PROVE  \E s \in Steps : Plans(s)
<1>1. Types
  BY DEF IInv
<1>2. PICK new \in SUBSET {r \in Requests : status[r] = "waiting"} :
       LET S == new \cup {r \in Requests : status[r] = "running"}
           g == Granted(S)
           blocks == Allocated(g)
           now == [r \in Requests |-> nct[r] + g[r]]
           signals == [r \in Requests |-> Signal(r, g, now)]
           admitted == {r \in new : g[r] > 0}
       IN  /\ Enough(g)
           /\ status' = [r \in Requests |-> IF r \in admitted THEN "running" ELSE status[r]]
           /\ nct' = now
           /\ manager' = [r \in Requests |-> manager[r] \o blocks[r]]
           /\ free' = free \ UNION {Range(blocks[r]) : r \in Requests}
           /\ offset' = [r \in Requests |-> IF status[r] = "running" /\ ~OffsetUsable(r)
                                            THEN 0 ELSE offset[r]]
           /\ lag' = TrackerSynced(admitted)
           /\ step' = step + 1
           /\ queue' = Append(queue, [
                step |-> step + 1, tokens |-> g, pre |-> nct, blocks |-> blocks,
                signals |-> signals, ended |-> ended, done |-> FALSE, events |-> {},
                barrier |-> \E r \in Requests : signals[r].fires])
           /\ ended' = {}
  BY DEF Schedule
<1>3. error = None /\ Drained /\ UNCHANGED <<prompt, workerVars, error>>
  BY DEF Schedule
<1> DEFINE S == new \cup {r \in Requests : status[r] = "running"}
           g == Granted(S)
           now == [r \in Requests |-> nct[r] + g[r]]
           signals == [r \in Requests |-> Signal(r, g, now)]
           s == [step |-> step + 1, tokens |-> g, pre |-> nct, blocks |-> Allocated(g),
                 signals |-> signals, ended |-> ended, done |-> FALSE, events |-> {},
                 barrier |-> \E r \in Requests : signals[r].fires]
<1>4. S \in SUBSET Requests
  OBVIOUS
<1> HIDE DEF g
<1>5. /\ g \in [Requests -> Nat]
      /\ \A r \in Requests :
           /\ r \notin S => g[r] = 0
           /\ nct[r] < prompt[r] => nct[r] + g[r] <= prompt[r]
           /\ nct[r] >= prompt[r] => g[r] <= 1
           /\ nct[r] + g[r] <= MaxLength
  BY <1>1, <1>4, GrantedFacts DEF g
<1>6. Enough(g)
  BY <1>2 DEF g
<1>7. \A r \in Requests : Allocated(g)[r] \in Blocklists /\ Len(Allocated(g)[r]) = Missing(r, g)
  BY <1>1, <1>5, <1>6, AllocatedFacts
<1>8. s \in Steps
  <2>1. Allocated(g) \in [Requests -> Blocklists]
    BY <1>7 DEF Allocated
  <2>2. signals \in [Requests -> Signals]
    <3>1. SUFFICES ASSUME NEW r \in Requests PROVE Signal(r, g, now) \in Signals
      OBVIOUS
    <3>2. /\ g[r] \in Nat /\ nct[r] \in Nat /\ lag[r] \in Int /\ now[r] = nct[r] + g[r]
      BY <1>1, <1>5, RequestTypes
    <3>3. (IF lag[r] = NoLag THEN now[r] ELSE now[r] - lag[r]) + g[r] \in Int
      BY <3>2
    <3> HIDE DEF now
    <3> QED
      BY <3>2, <3>3 DEF Signal, Signals, NoSignal
  <2> HIDE DEF signals
  <2>3. step + 1 \in Nat /\ nct \in [Requests -> 0..MaxLength] /\ ended \in SUBSET Requests
    BY <1>1 DEF Types
  <2> QED
    BY <1>5, <2>1, <2>2, <2>3 DEF Steps
<1>9. /\ s.step = step + 1 /\ s.tokens = g /\ s.pre = nct /\ s.blocks = Allocated(g)
      /\ s.signals = signals /\ s.ended = ended /\ s.done = FALSE /\ s.events = {}
      /\ s.barrier = \E r \in Requests : signals[r].fires
  OBVIOUS
<1>10. /\ queue' = Append(queue, s)
       /\ status' = [r \in Requests |-> IF r \in {q \in new : g[q] > 0} THEN "running" ELSE status[r]]
       /\ nct' = now
       /\ manager' = [r \in Requests |-> manager[r] \o Allocated(g)[r]]
       /\ free' = free \ UNION {Range(Allocated(g)[r]) : r \in Requests}
       /\ offset' = [r \in Requests |-> IF status[r] = "running" /\ ~OffsetUsable(r)
                                        THEN 0 ELSE offset[r]]
       /\ lag' = TrackerSynced({q \in new : g[q] > 0})
       /\ step' = step + 1 /\ ended' = {}
  BY <1>2 DEF g
<1> HIDE DEF s
<1>11. ASSUME NEW r \in Requests
       PROVE  PlansFor(s, r)
  <2>1. /\ Pre(s, r) = nct[r] /\ Tokens(s, r) = g[r] /\ Added(s, r) = Allocated(g)[r]
    BY <1>9 DEF Pre, Tokens, Added
  <2>2. Informs(s, r)
    <3>1. s.signals[r] = Signal(r, s.tokens, [q \in Requests |-> nct[q] + s.tokens[q]])
      BY <1>9
    <3> QED
      BY <1>1, <1>8, <3>1, SignalMade
  <2>3. lag'[r] = lag[r] \/ (lag'[r] = NoLag /\ (status[r] = "waiting" \/ r \in ended))
    BY <1>10 DEF TrackerSynced
  <2>4. nct'[r] = nct[r] + g[r]
    BY <1>10
  <2>5. status[r] = "finished" => g[r] = 0
    BY <1>5
  <2>6. status'[r] = IF status[r] = "waiting" /\ g[r] > 0 THEN "running" ELSE status[r]
    <3>1. CASE r \in new
      BY <1>10, <3>1
    <3>2. CASE r \notin new
      <4>1. status'[r] = status[r]
        BY <1>10, <3>2
      <4>2. status[r] = "waiting" => g[r] = 0
        BY <1>5, <3>2
      <4> QED
        BY <1>5, <4>1, <4>2
    <3> QED
      BY <3>1, <3>2
  <2>7. Len(Added(s, r)) = Missing(r, s.tokens) /\ manager'[r] = manager[r] \o Added(s, r)
    BY <1>7, <1>9, <1>10, <2>1
  <2>8. offset'[r] = IF status[r] = "running" /\ ~OffsetUsable(r) THEN 0 ELSE offset[r]
    BY <1>10
  <2>9. /\ nct[r] < prompt[r] => nct[r] + Tokens(s, r) <= prompt[r]
        /\ nct[r] >= prompt[r] => Tokens(s, r) <= 1
        /\ nct[r] + Tokens(s, r) <= MaxLength
    BY <1>5, <2>1
  <2> QED
    BY <2>1, <2>2, <2>3, <2>4, <2>5, <2>6, <2>7, <2>8, <2>9 DEF PlansFor
<1>12. /\ s.barrier <=> \E r \in Requests : Fires(s, r)
       /\ free' = free \ UNION {Range(Added(s, r)) : r \in Requests}
  BY <1>9, <1>10 DEF Fires, Added
<1>13. Plans(s)
  <2>1. /\ status' = [r \in Requests |-> status'[r]] /\ nct' = [r \in Requests |-> nct'[r]]
        /\ manager' = [r \in Requests |-> manager'[r]]
        /\ offset' = [r \in Requests |-> offset'[r]] /\ lag' = [r \in Requests |-> lag'[r]]
    BY <1>10 DEF TrackerSynced
  <2> QED
    BY <1>3, <1>6, <1>9, <1>10, <1>11, <1>12, <2>1 DEF Plans
<1> QED
  BY <1>8, <1>13

(* Positions and step numbers grow along the queue.                        *)
LEMMA PositionsGrow ==
  ASSUME Deployment, Types, QueueInOrder, NEW i \in 1..3, i <= Len(queue) + 1,
         NEW r \in Requests
  PROVE  /\ Position(i, r) \in Nat /\ Position(i, r) <= nct[r]
         /\ StepNumber(i) \in Nat /\ StepNumber(i) <= step + 1
         /\ i = Len(queue) + 1 => Position(i, r) = nct[r] /\ StepNumber(i) = step + 1
<1>1. /\ Len(queue) \in {0, 1, 2} /\ DOMAIN queue = 1..Len(queue)
      /\ \A j \in DOMAIN queue : queue[j] \in Steps
      /\ nct[r] \in Nat /\ step \in Nat
  BY QueueFacts, RequestTypes
<1>2. ASSUME NEW j \in DOMAIN queue
      PROVE  /\ Position(j, r) \in Nat /\ StepNumber(j) \in Nat
             /\ Position(j, r) <= Position(j + 1, r) /\ StepNumber(j) + 1 = StepNumber(j + 1)
  <2>1. /\ queue[j] \in Steps /\ j <= Len(queue) /\ queue[j].step + 1 = StepNumber(j + 1)
        /\ Pre(queue[j], r) + Tokens(queue[j], r) = Position(j + 1, r)
    BY <1>1 DEF QueueInOrder
  <2>2. Position(j, r) = Pre(queue[j], r) /\ StepNumber(j) = queue[j].step
    BY <2>1 DEF Position, StepNumber
  <2>3. Pre(queue[j], r) \in Nat /\ Tokens(queue[j], r) \in Nat /\ queue[j].step \in Nat
    BY <2>1, StepTypes
  <2> QED
    BY <2>1, <2>2, <2>3
<1>3. ASSUME NEW j \in 1..3, j = Len(queue) + 1
      PROVE  Position(j, r) = nct[r] /\ StepNumber(j) = step + 1
  BY <1>1, <1>3 DEF Position, StepNumber
<1>4. CASE i = Len(queue) + 1
  BY <1>1, <1>3, <1>4
<1>5. CASE i = Len(queue)
  <2>1. i \in DOMAIN queue /\ i + 1 \in 1..3 /\ i + 1 = Len(queue) + 1
    <3>1. PICK l, d : l = Len(queue) /\ d = DOMAIN queue
      OBVIOUS
    <3>2. l \in {0, 1, 2} /\ d = 1..l /\ i = l /\ i \in 1..3
      BY <1>1, <1>5, <3>1
    <3>3. i \in d /\ i + 1 \in 1..3 /\ i + 1 = l + 1
      BY <3>2
    <3> QED
      BY <3>1, <3>3
  <2>2. Position(i + 1, r) = nct[r] /\ StepNumber(i + 1) = step + 1
    BY <1>3, <2>1
  <2>3. /\ Position(i, r) \in Nat /\ StepNumber(i) \in Nat
        /\ Position(i, r) <= Position(i + 1, r) /\ StepNumber(i) + 1 = StepNumber(i + 1)
    BY <1>2, <2>1
  <2>4. i # Len(queue) + 1
    <3>1. PICK n \in {0, 1, 2} : n = Len(queue)
      BY <1>1
    <3>2. i # n + 1
      BY ONLY <1>5, <3>1
    <3> QED
      BY <3>1, <3>2
  <2>5. Position(i, r) <= nct[r] /\ StepNumber(i) <= step + 1
    BY <1>1, <2>2, <2>3
  <2> QED
    BY <2>3, <2>4, <2>5
<1>6. CASE i = 1 /\ Len(queue) = 2
  <2>1. 1 \in DOMAIN queue /\ 2 \in DOMAIN queue /\ 3 \in 1..3 /\ 3 = Len(queue) + 1
    BY <1>1, <1>6
  <2>2. Position(3, r) = nct[r] /\ StepNumber(3) = step + 1
    BY <1>3, <2>1
  <2>3. /\ Position(2, r) <= Position(3, r) /\ StepNumber(2) + 1 = StepNumber(3)
        /\ Position(2, r) \in Nat /\ StepNumber(2) \in Nat
    BY <1>2, <2>1
  <2>4. /\ Position(1, r) <= Position(2, r) /\ StepNumber(1) + 1 = StepNumber(2)
        /\ Position(1, r) \in Nat /\ StepNumber(1) \in Nat
    BY <1>2, <2>1
  <2> QED
    BY <1>1, <1>6, <2>2, <2>3, <2>4
<1>7. i = Len(queue) + 1 \/ i = Len(queue) \/ (i = 1 /\ Len(queue) = 2)
  <2>1. PICK n \in {0, 1, 2} : n = Len(queue)
    BY <1>1
  <2>2. i <= n + 1 /\ i \in 1..3 /\ n \in {0, 1, 2}
    BY <2>1
  <2>3. i = n + 1 \/ i = n \/ (i = 1 /\ n = 2)
    BY ONLY <2>2
  <2> QED
    BY <2>1, <2>3
<1> QED
  BY <1>4, <1>5, <1>6, <1>7

(* The queue of the next state, and what is not in this one.               *)
LEMMA ScheduleQueue ==
  ASSUME Deployment, IInv, NEW s \in Steps, Plans(s)
  PROVE  /\ Len(queue) \in {0, 1} /\ DOMAIN queue = 1..Len(queue)
         /\ \A i \in DOMAIN queue : queue[i] \in Steps
         /\ queue' \in Seq(Steps) /\ Len(queue') = Len(queue) + 1 /\ Len(queue') <= Lookahead
         /\ DOMAIN queue' = 1..(Len(queue) + 1)
         /\ \A i \in DOMAIN queue : queue'[i] = queue[i]
         /\ queue'[Len(queue) + 1] = s /\ ~s.done /\ s.events = {}
         /\ \A i \in DOMAIN queue' : queue'[i].events = {}
         /\ \A r \in Requests : NoEvent(r)
<1>1. /\ Types /\ QueueInOrder /\ EventsTrue /\ queue \in Seq(Steps)
      /\ queue' = Append(queue, s) /\ Drained /\ ~s.done /\ s.events = {}
  BY DEF IInv, Types, Plans
<1>2. /\ Len(queue) \in {0, 1, 2} /\ DOMAIN queue = 1..Len(queue)
      /\ \A i \in DOMAIN queue : queue[i] \in Steps
  BY <1>1, QueueFacts
<1>3. Len(queue) \in {0, 1} /\ Len(queue) + 1 <= Lookahead
  BY <1>1, <1>2, ConstantTypes DEF Drained, Deployment
<1>4. /\ queue' \in Seq(Steps) /\ Len(queue') = Len(queue) + 1
      /\ \A i \in 1..Len(queue) : queue'[i] = queue[i]
      /\ queue'[Len(queue) + 1] = s
  BY <1>1, AppendProperties
<1>5. DOMAIN queue' = 1..(Len(queue) + 1)
  BY <1>4, LenProperties
<1>6. \A i \in DOMAIN queue : queue[i].events = {}
  BY <1>1 DEF Drained, EventsTrue
<1>7. \A i \in DOMAIN queue' : queue'[i].events = {}
  <2>1. SUFFICES ASSUME NEW i \in DOMAIN queue' PROVE queue'[i].events = {}
    OBVIOUS
  <2>2. i \in DOMAIN queue \/ i = Len(queue) + 1
    BY <1>2, <1>3, <1>5
  <2> QED
    BY <1>1, <1>2, <1>4, <1>6, <2>2
<1> QED
  BY <1>1, <1>2, <1>3, <1>4, <1>5, <1>6, <1>7 DEF NoEvent

LEMMA ScheduleTypes ==
  ASSUME Deployment, IInv, NEW s \in Steps, Plans(s)
  PROVE  Types'
<1>1. Types /\ queue' \in Seq(Steps)
  BY ScheduleQueue DEF IInv
<1>2. ASSUME NEW r \in Requests
      PROVE  /\ status'[r] \in {"waiting", "running", "finished"}
             /\ nct'[r] \in 0..MaxLength /\ manager'[r] \in Blocklists
             /\ offset'[r] \in Nat /\ lag'[r] \in Nat \cup {NoLag}
  <2>1. PlansFor(s, r)
    BY DEF Plans
  <2>2. status'[r] \in {"waiting", "running", "finished"}
    BY <1>1, <2>1 DEF PlansFor, Types
  <2>3. nct'[r] \in 0..MaxLength
    <3>1. /\ nct[r] \in Nat /\ Tokens(s, r) \in Nat /\ MaxLength \in Nat
          /\ nct'[r] = nct[r] + Tokens(s, r) /\ nct[r] + Tokens(s, r) <= MaxLength
      BY <1>1, <2>1, RequestTypes, StepTypes, ConstantTypes DEF PlansFor
    <3> QED
      BY <3>1
  <2>4. manager'[r] \in Blocklists
    <3>1. /\ manager[r] \in Blocklists /\ Added(s, r) \in Blocklists
          /\ manager'[r] = manager[r] \o Added(s, r)
      BY <1>1, <2>1, RequestLists, StepLists DEF PlansFor
    <3> QED
      BY <3>1, ConcatProperties DEF Blocklists
  <2>5. offset'[r] \in Nat /\ lag'[r] \in Nat \cup {NoLag}
    BY <1>1, <2>1 DEF PlansFor, Types
  <2> QED
    BY <2>2, <2>3, <2>4, <2>5
<1>3. /\ status' \in [Requests -> {"waiting", "running", "finished"}]
      /\ nct' \in [Requests -> 0..MaxLength] /\ manager' \in [Requests -> Blocklists]
      /\ offset' \in [Requests -> Nat] /\ lag' \in [Requests -> Nat \cup {NoLag}]
  BY <1>2 DEF Plans
<1>4. /\ free' \in SUBSET (1..NumBlocks) /\ step' \in Nat /\ ended' \in SUBSET Requests
  BY <1>1 DEF Types, Plans
<1>5. UNCHANGED <<prompt, row, seen, curLen, lastStep, shift, kv>>
  BY DEF Plans, workerVars
<1> QED
  BY <1>1, <1>3, <1>4, <1>5 DEF Types, Blocklists, Steps, Events, Signals

(* Places of the queue, before and after.                                  *)
LEMMA SchedulePlaces ==
  ASSUME Deployment, IInv, NEW s \in Steps, Plans(s), NEW r \in Requests
  PROVE  /\ \A i \in 1..(Len(queue) + 1) : /\ Position(i, r)' = Position(i, r)
                                           /\ StepNumber(i)' = StepNumber(i)
         /\ \A i \in 1..3 : i = Len(queue) + 2 =>
              Position(i, r)' = Pre(s, r) + Tokens(s, r) /\ StepNumber(i)' = s.step + 1
         /\ Pre(s, r) = nct[r] /\ s.step = step + 1
<1>1. /\ Len(queue) \in {0, 1} /\ DOMAIN queue = 1..Len(queue)
      /\ Len(queue') = Len(queue) + 1 /\ \A i \in DOMAIN queue : queue'[i] = queue[i]
      /\ queue'[Len(queue) + 1] = s
  BY ScheduleQueue
<1>2. /\ s.step = step + 1 /\ step' = step + 1
      /\ Pre(s, r) = nct[r] /\ nct'[r] = nct[r] + Tokens(s, r)
  BY DEF Plans, PlansFor
<1>3. ASSUME NEW i \in 1..(Len(queue) + 1)
      PROVE  Position(i, r)' = Position(i, r) /\ StepNumber(i)' = StepNumber(i)
  <2>1. CASE i <= Len(queue)
    <3>1. i \in DOMAIN queue /\ i <= Len(queue')
      BY <1>1, <2>1
    <3> QED
      BY <1>1, <2>1, <3>1 DEF Position, StepNumber
  <2>2. CASE ~(i <= Len(queue))
    <3>1. i = Len(queue) + 1 /\ i <= Len(queue')
      BY <1>1, <2>2
    <3> QED
      BY <1>1, <1>2, <2>2, <3>1 DEF Position, StepNumber
  <2> QED
    BY <2>1, <2>2
<1>4. ASSUME NEW i \in 1..3, i = Len(queue) + 2
      PROVE  Position(i, r)' = Pre(s, r) + Tokens(s, r) /\ StepNumber(i)' = s.step + 1
  <2>1. ~(i <= Len(queue'))
    BY <1>1, <1>4
  <2> QED
    BY <1>2, <2>1 DEF Position, StepNumber
<1> QED
  BY <1>2, <1>3, <1>4

LEMMA ScheduleOrder ==
  ASSUME Deployment, IInv, NEW s \in Steps, Plans(s)
  PROVE  QueueInOrder'
<1>1. /\ Types /\ QueueInOrder /\ prompt' = prompt /\ ~s.done
      /\ Len(queue) \in {0, 1} /\ DOMAIN queue = 1..Len(queue)
      /\ Len(queue') <= Lookahead /\ DOMAIN queue' = 1..(Len(queue) + 1)
      /\ \A i \in DOMAIN queue : queue'[i] = queue[i] /\ queue[i] \in Steps
      /\ queue'[Len(queue) + 1] = s
  BY ScheduleQueue DEF IInv, Plans
<1>2. ASSUME NEW i \in DOMAIN queue, NEW r \in Requests
      PROVE  StepShape(queue[i], r)'
  <2>1. StepShape(queue[i], r)
    BY <1>1 DEF QueueInOrder
  <2>2. status'[r] = "waiting" => status[r] = "waiting"
    BY DEF Plans, PlansFor
  <2>3. queue'[i] = queue[i]
    BY <1>1
  <2> QED
    BY <1>1, <2>1, <2>2, <2>3 DEF StepShape
<1>3. ASSUME NEW r \in Requests
      PROVE  /\ StepShape(s, r)'
             /\ \A i \in 1..3 : i = Len(queue) + 2 =>
                  Pre(s, r) + Tokens(s, r) = Position(i, r)'
  <2>1. /\ PlansFor(s, r)
        /\ Fires(s, r) => s.barrier
    BY DEF Plans
  <2>2. Tokens(s, r) = 0 => Added(s, r) = <<>> /\ ~Fires(s, r)
    <3>1. SUFFICES ASSUME Tokens(s, r) = 0 PROVE Added(s, r) = <<>> /\ ~Fires(s, r)
      OBVIOUS
    <3>2. Len(Added(s, r)) = 0
      BY <2>1, <3>1 DEF PlansFor, Missing, Tokens
    <3>3. ~Fires(s, r)
      BY <2>1, <3>1 DEF PlansFor, Informs
    <3> QED
      BY <3>2, <3>3, StepLists
  <2>3. /\ Fires(s, r) => Asked(s, r) = Tokens(s, r)
        /\ Sent(s, r) => Asked(s, r) = Tokens(s, r)
    BY <2>1 DEF PlansFor, Informs
  <2>4. status'[r] = "waiting" => Tokens(s, r) = 0
    BY <2>1, StepTypes DEF PlansFor
  <2>5. /\ Pre(s, r) < prompt[r] => Pre(s, r) + Tokens(s, r) <= prompt[r]
        /\ Pre(s, r) >= prompt[r] => Tokens(s, r) <= 1
    BY <2>1 DEF PlansFor
  <2> QED
    BY <1>1, <2>1, <2>2, <2>3, <2>4, <2>5, SchedulePlaces
       DEF StepShape, Pre, Tokens, Added, Fires, Sent, Asked
<1>4. ASSUME NEW i \in DOMAIN queue'
      PROVE  /\ queue'[i].step + 1 = StepNumber(i + 1)'
             /\ queue'[i].done => \A j \in 1..(i - 1) : queue'[j].done
             /\ \A r \in Requests :
                  /\ StepShape(queue[i], r)'
                  /\ Pre(queue'[i], r) + Tokens(queue'[i], r) = Position(i + 1, r)'
  <2>1. CASE i \in DOMAIN queue
    <3>1. i + 1 \in 1..(Len(queue) + 1) /\ i = 1
      BY <1>1, <2>1
    <3>2. /\ queue[i].step + 1 = StepNumber(i + 1)
          /\ \A r \in Requests :
               Pre(queue[i], r) + Tokens(queue[i], r) = Position(i + 1, r)
      BY <1>1, <2>1 DEF QueueInOrder
    <3>3. queue'[i].step + 1 = StepNumber(i + 1)'
      <4>1. CASE \E r \in Requests : TRUE
        BY <1>1, <2>1, <3>1, <3>2, <4>1, SchedulePlaces
      <4>2. CASE ~\E r \in Requests : TRUE
        BY <4>2, ConstantTypes, PipelineAssumption DEF Requests
      <4> QED
        BY <4>1, <4>2
    <3>4. \A r \in Requests :
            Pre(queue'[i], r) + Tokens(queue'[i], r) = Position(i + 1, r)'
      BY <1>1, <2>1, <3>1, <3>2, SchedulePlaces
    <3> QED
      BY <1>2, <2>1, <3>1, <3>3, <3>4
  <2>2. CASE i = Len(queue) + 1
    <3>1. queue'[i] = s /\ i + 1 = Len(queue) + 2 /\ i + 1 \in 1..3
      <4>1. CASE Len(queue) = 0
        BY <1>1, <2>2, <4>1
      <4>2. CASE Len(queue) = 1
        BY <1>1, <2>2, <4>2
      <4> QED
        BY <1>1, <4>1, <4>2
    <3>2. s.step + 1 = StepNumber(i + 1)'
      <4>1. PICK r \in Requests : TRUE
        BY ConstantTypes, PipelineAssumption DEF Requests
      <4> QED
        BY <3>1, SchedulePlaces
    <3> QED
      BY <1>1, <1>3, <3>1, <3>2 DEF StepShape
  <2> QED
    BY <1>1, <2>1, <2>2
<1> QED
  BY <1>1, <1>4 DEF QueueInOrder

LEMMA ScheduleEnded ==
  ASSUME Deployment, IInv, NEW s \in Steps, Plans(s)
  PROVE  EndedIdle'
<1>1. /\ Types /\ EndedIdle /\ ended' = {} /\ s.ended = ended
      /\ Len(queue) \in {0, 1} /\ DOMAIN queue = 1..Len(queue)
      /\ Len(queue') = Len(queue) + 1 /\ DOMAIN queue' = 1..(Len(queue) + 1)
      /\ \A i \in DOMAIN queue : queue'[i] = queue[i] /\ queue[i] \in Steps
      /\ queue'[Len(queue) + 1] = s
      /\ UNCHANGED <<row, kv, shift, lastStep>>
  BY ScheduleQueue DEF IInv, Plans, workerVars
<1>2. ASSUME NEW r \in Requests, status[r] = "finished"
      PROVE  status'[r] = "finished" /\ Tokens(s, r) = 0
  BY <1>2 DEF Plans, PlansFor
<1>3. ASSUME NEW i \in DOMAIN queue', NEW r \in queue'[i].ended
      PROVE  /\ status'[r] = "finished"
             /\ \A k \in i..Len(queue') : Tokens(queue'[k], r) = 0
  <2>1. r \in Requests /\ status[r] = "finished"
        /\ (i \in DOMAIN queue => \A k \in i..Len(queue) : Tokens(queue[k], r) = 0)
    <3>1. CASE i \in DOMAIN queue
      <4>1. r \in queue[i].ended /\ queue[i] \in Steps
        BY <1>1, <1>3, <3>1
      <4> QED
        BY <1>1, <3>1, <4>1, StepTypes DEF EndedIdle, Steps
    <3>2. CASE i = Len(queue) + 1
      <4>1. r \in ended
        BY <1>1, <1>3, <3>2
      <4>2. i \notin DOMAIN queue
        BY <1>1, <3>2
      <4> QED
        BY <1>1, <4>1, <4>2 DEF EndedIdle, Types
    <3> QED
      BY <1>1, <3>1, <3>2
  <2>2. ASSUME NEW k \in i..Len(queue')
        PROVE  Tokens(queue'[k], r) = 0
    <3>1. CASE k = Len(queue) + 1
      BY <1>1, <1>2, <2>1, <3>1
    <3>2. CASE k # Len(queue) + 1
      <4>1. k \in DOMAIN queue /\ i \in DOMAIN queue /\ k \in i..Len(queue)
        BY <1>1, <3>2
      <4> QED
        BY <1>1, <2>1, <4>1
    <3> QED
      BY <3>1, <3>2
  <2> QED
    BY <1>2, <2>1, <2>2
<1>4. ASSUME NEW r \in Requests
      PROVE  /\ status'[r] = "waiting" => nct'[r] = 0 /\ shift'[r] = 0
             /\ ~Served(r)' =>
                  /\ kv'[r] = 0 /\ shift'[r] = 0 /\ lastStep'[r] = -1
                  /\ \A i \in DOMAIN queue' : ~queue'[i].done => Tokens(queue'[i], r) = 0
  <2>1. PlansFor(s, r) /\ Tokens(s, r) \in Nat
    BY StepTypes DEF Plans
  <2>2. status'[r] = "waiting" => nct'[r] = 0 /\ shift'[r] = 0
    <3>1. status'[r] = "waiting" => status[r] = "waiting" /\ Tokens(s, r) = 0
      BY <2>1 DEF PlansFor
    <3> QED
      BY <1>1, <2>1, <3>1 DEF PlansFor, EndedIdle
  <2>3. ~Served(r)' => ~Served(r) /\ status[r] = "finished"
    BY <1>1, <2>1 DEF Served, PlansFor
  <2>4. ASSUME ~Served(r)', NEW i \in DOMAIN queue', ~queue'[i].done
        PROVE  Tokens(queue'[i], r) = 0
    <3>1. CASE i \in DOMAIN queue
      BY <1>1, <2>3, <2>4, <3>1 DEF EndedIdle
    <3>2. CASE i = Len(queue) + 1
      BY <1>1, <1>2, <2>3, <2>4, <3>2
    <3> QED
      BY <1>1, <3>1, <3>2
  <2> QED
    BY <1>1, <2>2, <2>3, <2>4 DEF EndedIdle
<1> QED
  BY <1>1, <1>3, <1>4 DEF EndedIdle

(* Two lists without a common block, one behind the other.                 *)
LEMMA JoinApart ==
  ASSUME NEW S, NEW u \in Seq(S), NEW v \in Seq(S), IsInjective(u), IsInjective(v),
         Range(u) \cap Range(v) = {}
  PROVE  IsInjective(u \o v) /\ Range(u \o v) = Range(u) \cup Range(v)
<1>1. /\ Len(u) \in Nat /\ Len(v) \in Nat /\ u \o v \in Seq(S)
      /\ Len(u \o v) = Len(u) + Len(v)
      /\ \A i \in 1 .. Len(u) + Len(v) :
           (u \o v)[i] = IF i <= Len(u) THEN u[i] ELSE v[i - Len(u)]
      /\ DOMAIN u = 1..Len(u) /\ DOMAIN v = 1..Len(v)
      /\ DOMAIN (u \o v) = 1..(Len(u) + Len(v))
  BY ConcatProperties, LenProperties
<1>2. Range(u \o v) = Range(u) \cup Range(v)
  <2>1. ASSUME NEW i \in DOMAIN (u \o v) PROVE (u \o v)[i] \in Range(u) \cup Range(v)
    <3>1. CASE i <= Len(u)
      <4>1. (u \o v)[i] = u[i] /\ i \in DOMAIN u
        BY <1>1, <2>1, <3>1
      <4> QED
        BY <4>1 DEF Range
    <3>2. CASE ~(i <= Len(u))
      <4>1. (u \o v)[i] = v[i - Len(u)] /\ i - Len(u) \in DOMAIN v
        BY <1>1, <2>1, <3>2
      <4> QED
        BY <4>1 DEF Range
    <3> QED
      BY <3>1, <3>2
  <2>2. ASSUME NEW i \in DOMAIN u PROVE u[i] \in Range(u \o v)
    <3>1. i \in DOMAIN (u \o v) /\ (u \o v)[i] = u[i]
      BY <1>1, <2>2
    <3> QED
      BY <3>1 DEF Range
  <2>3. ASSUME NEW i \in DOMAIN v PROVE v[i] \in Range(u \o v)
    <3>1. i + Len(u) \in DOMAIN (u \o v) /\ (u \o v)[i + Len(u)] = v[i]
      <4>1. /\ i \in Int /\ 1 <= i /\ i <= Len(v)
        BY <1>1, <2>3
      <4>2. i + Len(u) \in 1..(Len(u) + Len(v)) /\ ~(i + Len(u) <= Len(u)) /\ (i + Len(u)) - Len(u) = i
        BY <1>1, <4>1
      <4> QED
        BY <1>1, <4>2
    <3> QED
      BY <3>1 DEF Range
  <2> QED
    BY <2>1, <2>2, <2>3 DEF Range
<1>3. ASSUME NEW i \in DOMAIN (u \o v), NEW j \in DOMAIN (u \o v), (u \o v)[i] = (u \o v)[j]
      PROVE  i = j
  <2>1. CASE i <= Len(u) /\ j <= Len(u)
    <3>1. u[i] = u[j] /\ i \in DOMAIN u /\ j \in DOMAIN u
      BY <1>1, <1>3, <2>1
    <3> QED
      BY <3>1 DEF IsInjective
  <2>2. CASE ~(i <= Len(u)) /\ ~(j <= Len(u))
    <3>1. /\ v[i - Len(u)] = v[j - Len(u)]
          /\ i - Len(u) \in DOMAIN v /\ j - Len(u) \in DOMAIN v
      BY <1>1, <1>3, <2>2
    <3>2. i - Len(u) = j - Len(u)
      BY <3>1 DEF IsInjective
    <3> QED
      BY <1>1, <3>2
  <2>3. ASSUME NEW a \in DOMAIN (u \o v), NEW b \in DOMAIN (u \o v), a <= Len(u), ~(b <= Len(u)),
               (u \o v)[a] = (u \o v)[b]
        PROVE  FALSE
    <3>1. u[a] = v[b - Len(u)] /\ a \in DOMAIN u /\ b - Len(u) \in DOMAIN v
      BY <1>1, <2>3
    <3>2. u[a] \in Range(u) /\ u[a] \in Range(v)
      BY <3>1 DEF Range
    <3> QED
      BY <3>2
  <2> QED
    BY <1>3, <2>1, <2>2, <2>3
<1> QED
  BY <1>2, <1>3 DEF IsInjective

LEMMA ScheduleBlocks ==
  ASSUME Deployment, IInv, NEW s \in Steps, Plans(s)
  PROVE  BlocksConserved'
<1>1. /\ Types /\ BlocksConserved /\ Enough(s.tokens) /\ s.tokens \in [Requests -> Nat]
      /\ free' = free \ UNION {Range(Added(s, r)) : r \in Requests}
      /\ s.blocks = Allocated(s.tokens)
  BY DEF IInv, Plans, Steps
<1>2. ASSUME NEW r \in Requests
      PROVE  /\ IsInjective(Added(s, r)) /\ Range(Added(s, r)) \subseteq free
             /\ \A q \in Requests \ {r} : Range(Added(s, r)) \cap Range(Added(s, q)) = {}
  <2> DEFINE g == s.tokens
  <2>8. g \in [Requests -> Nat] /\ Enough(g) /\ Types
    BY <1>1
  <2>5. \A q \in Requests : Added(s, q) = Allocated(g)[q]
    BY <1>1 DEF Added
  <2> HIDE DEF g
  <2>1. \A q \in Requests :
          /\ DOMAIN Added(s, q) = 1..Missing(q, g)
          /\ \A k \in 1..Missing(q, g) : Added(s, q)[k] \in free
    BY <2>5, <2>8, AllocatedFacts
  <2>4. ASSUME NEW p \in Requests, NEW q \in Requests,
               NEW k \in DOMAIN Added(s, p), NEW l \in DOMAIN Added(s, q),
               Added(s, p)[k] = Added(s, q)[l]
        PROVE  p = q /\ k = l
    <3>1. k \in 1..Missing(p, g) /\ l \in 1..Missing(q, g)
      BY <2>1
    <3>2. Allocated(g)[p][k] = Allocated(g)[q][l]
      BY <2>4, <2>5
    <3> QED
      BY <2>8, <3>1, <3>2, AllocatedOnce
  <2>2. ASSUME NEW k \in DOMAIN Added(s, r), NEW l \in DOMAIN Added(s, r),
               Added(s, r)[k] = Added(s, r)[l]
        PROVE  k = l
    BY <2>2, <2>4
  <2>3. ASSUME NEW q \in Requests \ {r}, NEW k \in DOMAIN Added(s, r), NEW l \in DOMAIN Added(s, q)
        PROVE  Added(s, r)[k] # Added(s, q)[l]
    BY <2>3, <2>4
  <2>6. Range(Added(s, r)) \subseteq free
    BY <2>1 DEF Range
  <2>7. \A q \in Requests \ {r} : Range(Added(s, r)) \cap Range(Added(s, q)) = {}
    BY <2>3 DEF Range
  <2> QED
    BY <2>2, <2>6, <2>7 DEF IsInjective
<1>3. ASSUME NEW r \in Requests
      PROVE  /\ IsInjective(manager'[r])
             /\ Range(manager'[r]) = Range(manager[r]) \cup Range(Added(s, r))
  <2>1. /\ manager'[r] = manager[r] \o Added(s, r)
        /\ manager[r] \in Seq(1..NumBlocks) /\ Added(s, r) \in Seq(1..NumBlocks)
    BY <1>1, RequestLists, StepLists DEF Plans, PlansFor, Blocklists
  <2>2. /\ IsInjective(manager[r]) /\ IsInjective(Added(s, r))
        /\ Range(manager[r]) \cap Range(Added(s, r)) = {}
    BY <1>1, <1>2 DEF BlocksConserved
  <2> DEFINE u == manager[r]
             v == Added(s, r)
             S == 1..NumBlocks
  <2>3. /\ u \in Seq(S) /\ v \in Seq(S) /\ IsInjective(u) /\ IsInjective(v)
        /\ Range(u) \cap Range(v) = {}
    BY <2>1, <2>2
  <2> HIDE DEF u, v, S
  <2>4. IsInjective(u \o v) /\ Range(u \o v) = Range(u) \cup Range(v)
    BY <2>3, JoinApart
  <2> QED
    BY <2>1, <2>4 DEF u, v
<1>4. free' \cup UNION {Range(manager'[r]) : r \in Requests} = 1..NumBlocks
  <2>1. free \cup UNION {Range(manager[r]) : r \in Requests} = 1..NumBlocks
    BY <1>1 DEF BlocksConserved
  <2>2. \A r \in Requests : Range(Added(s, r)) \subseteq free
    BY <1>2
  <2> QED
    BY <1>1, <1>3, <2>1, <2>2
<1>5. ASSUME NEW r \in Requests
      PROVE  /\ Range(manager'[r]) \cap free' = {}
             /\ \A q \in Requests \ {r} : Range(manager'[r]) \cap Range(manager'[q]) = {}
  <2>1. /\ Range(manager[r]) \cap free = {}
        /\ \A q \in Requests \ {r} : /\ Range(manager[r]) \cap Range(manager[q]) = {}
                                     /\ Range(manager[q]) \cap free = {}
    BY <1>1 DEF BlocksConserved
  <2>2. Range(Added(s, r)) \cap free' = {}
    BY <1>1
  <2> QED
    BY <1>1, <1>2, <1>3, <2>1, <2>2
<1> QED
  BY <1>3, <1>4, <1>5 DEF BlocksConserved

(* A compacted request is behind its prompt and holds rows.                *)
LEMMA CompactedAhead ==
  ASSUME Deployment, IInv, NEW r \in Requests, shift[r] < 0
  PROVE  nct[r] > prompt[r] /\ nct[r] + shift[r] > 0 /\ prompt[r] <= Top(r)
<1>1. Types /\ QueueInOrder /\ WorkerBook
  BY DEF IInv
<1>2. PICK i \in 1..3 : i <= Len(queue) + 1 /\ AtStep(i)
  BY <1>1, WorkerStands
<1>3. HeldCompacted(Position(i, r), StepNumber(i), r)
  BY <1>1, <1>2 DEF WorkerBook, WorkerAt, Held
<1>4. /\ Position(i, r) > prompt[r] /\ kv[r] = Position(i, r) + shift[r] /\ kv[r] > Top(r)
      /\ prompt[r] <= Top(r)
  BY <1>3 DEF HeldCompacted
<1>5. Position(i, r) \in Nat /\ Position(i, r) <= nct[r]
  BY <1>1, <1>2, PositionsGrow
<1>6. nct[r] \in Nat /\ prompt[r] \in Nat /\ 1 <= prompt[r] /\ shift[r] \in Int
  BY <1>1, RequestTypes
<1>7. Top(r) \in Int
  BY <1>6, ConstantTypes DEF Top, Lesser
<1> QED
  BY <1>4, <1>5, <1>6, <1>7

LEMMA SchedulePending ==
  ASSUME Deployment, IInv, NEW s \in Steps, Plans(s), NEW r \in Requests
  PROVE  Pending(r)' = Pending(r) \o Added(s, r)
<1>1. /\ Types /\ QueueInOrder /\ ~s.done
      /\ Len(queue) \in {0, 1} /\ DOMAIN queue = 1..Len(queue)
      /\ DOMAIN queue' = 1..(Len(queue) + 1)
      /\ \A i \in DOMAIN queue : queue'[i] = queue[i]
      /\ queue'[Len(queue) + 1] = s
  BY ScheduleQueue DEF IInv
<1>2. /\ Outstanding(1, r) \in Blocklists /\ Outstanding(2, r) \in Blocklists
      /\ \A a \in Blocklists : a \o <<>> = a /\ <<>> \o a = a
      /\ Added(s, r) \in Blocklists /\ <<>> \in Blocklists
  BY <1>1, PendingTypes, StepLists
<1>3. CASE Len(queue) = 0
  <2>1. Outstanding(1, r) = <<>> /\ Outstanding(2, r) = <<>>
    BY <1>1, <1>3 DEF Outstanding
  <2>2. Outstanding(1, r)' = Added(s, r) /\ Outstanding(2, r)' = <<>>
    <3>1. 1 \in DOMAIN queue' /\ 2 \notin DOMAIN queue' /\ queue'[1] = s
      BY <1>1, <1>3
    <3> QED
      BY <1>1, <3>1 DEF Outstanding
  <2>3. Pending(r)' = Added(s, r)
    BY <1>2, <2>2 DEF Pending
  <2>4. Pending(r) = <<>>
    BY <1>2, <2>1 DEF Pending
  <2> QED
    BY <1>2, <2>3, <2>4
<1>4. CASE Len(queue) = 1
  <2>1. Outstanding(2, r) = <<>>
    BY <1>1, <1>4 DEF Outstanding
  <2>2. Outstanding(1, r)' = Outstanding(1, r) /\ Outstanding(2, r)' = Added(s, r)
    <3>1. DOMAIN queue' = 1..2 /\ queue'[2] = s /\ queue'[1] = queue[1] /\ DOMAIN queue = 1..1
      BY <1>1, <1>4
    <3> QED
      BY <1>1, <3>1 DEF Outstanding
  <2>3. Pending(r) = Outstanding(1, r)
    BY <1>2, <2>1 DEF Pending
  <2>4. Pending(r)' = Outstanding(1, r) \o Added(s, r)
    BY <2>2 DEF Pending
  <2> QED
    BY <2>3, <2>4
<1> QED
  BY <1>1, <1>3, <1>4

LEMMA ScheduleScheduler ==
  ASSUME Deployment, IInv, NEW s \in Steps, Plans(s)
  PROVE  SchedulerBook'
<1>1. /\ Types /\ QueueInOrder /\ EndedIdle /\ SchedulerBook
      /\ row' = row /\ shift' = shift /\ \A r \in Requests : NoEvent(r)
  BY ScheduleQueue DEF IInv, Plans, workerVars
<1>2. ASSUME NEW r \in Requests, status'[r] = "finished"
      PROVE  manager'[r] = <<>>
  <2>1. status[r] = "finished" /\ PlansFor(s, r)
    BY <1>2 DEF Plans, PlansFor
  <2>2. Tokens(s, r) = 0 /\ manager[r] = <<>>
    BY <1>1, <2>1 DEF SchedulerBook, PlansFor
  <2>3. Len(Added(s, r)) = 0
    BY <2>1, <2>2 DEF PlansFor, Missing, Tokens
  <2>4. manager'[r] = <<>> \o <<>>
    BY <2>1, <2>2, <2>3, StepLists DEF PlansFor
  <2>5. <<>> \o <<>> = <<>>
    OBVIOUS
  <2> QED
    BY <2>4, <2>5
<1>3. ASSUME NEW r \in Requests, status'[r] # "finished"
      PROVE  SchedulerAt(r)'
  <2>1. PlansFor(s, r) /\ status[r] # "finished"
    BY <1>3 DEF Plans, PlansFor
  <2>2. SchedulerAt(r)
    BY <1>1, <2>1 DEF SchedulerBook
  <2>3. manager'[r] = row'[r] \o Pending(r)'
    <3>1. (row[r] \o Pending(r)) \o Added(s, r) = row[r] \o (Pending(r) \o Added(s, r))
      <4>1. row[r] \in Blocklists /\ Pending(r) \in Blocklists /\ Added(s, r) \in Blocklists
        BY <1>1, PendingTypes, RequestLists, StepLists
      <4> QED
        BY <1>1, <4>1, PendingTypes
    <3>2. manager'[r] = (row[r] \o Pending(r)) \o Added(s, r)
      BY <2>1, <2>2 DEF PlansFor, SchedulerAt
    <3> QED
      BY <1>1, <3>1, <3>2, SchedulePending
  <2>4. shift[r] = 0 => offset'[r] = 0 /\ lag'[r] = NoLag
    BY <2>1, <2>2 DEF PlansFor, SchedulerAt
  <2>5. ASSUME shift[r] < 0
        PROVE  offset'[r] = -shift[r] /\ lag'[r] \in {1 - shift[r], 2 - shift[r]}
    <3>1. offset[r] = -shift[r] /\ lag[r] \in {1 - shift[r], 2 - shift[r]}
      BY <2>2, <2>5 DEF SchedulerAt
    <3>2. nct[r] + shift[r] > 0 /\ nct[r] \in Nat /\ shift[r] \in Int
      BY <1>1, <2>5, CompactedAhead, RequestTypes
    <3>3. OffsetUsable(r)
      BY <2>5, <3>1, <3>2 DEF OffsetUsable
    <3>4. status[r] # "waiting"
      BY <1>1, <2>5 DEF EndedIdle
    <3>5. r \notin ended
      BY <1>1, <2>1 DEF EndedIdle
    <3> QED
      BY <2>1, <3>1, <3>3, <3>4, <3>5 DEF PlansFor
  <2> QED
    BY <1>1, <2>3, <2>4, <2>5 DEF SchedulerAt
<1> QED
  BY <1>2, <1>3 DEF SchedulerBook

LEMMA ScheduleEvents ==
  ASSUME Deployment, IInv, NEW s \in Steps, Plans(s)
  PROVE  EventsTrue' /\ NeverFatal'
<1>1. \A i \in DOMAIN queue' : queue'[i].events = {}
  BY ScheduleQueue
<1>2. EventsTrue'
  BY <1>1 DEF EventsTrue
<1>3. NeverFatal'
  BY DEF IInv, Plans, NeverFatal
<1> QED
  BY <1>2, <1>3

(* The blocks the worker will hold of a request when it executes the step. *)
LEMMA ScheduleHave ==
  ASSUME Deployment, IInv, NEW s \in Steps, Plans(s), NEW r \in Requests, Tokens(s, r) > 0,
         NEW i \in 1..3, AtStep(i)
  PROVE  /\ status[r] # "finished" /\ SchedulerAt(r) /\ WorkerAt(i, r)
         /\ i = Len(queue) + 1 \/ (i = 1 /\ Len(queue) = 1)
         /\ i = Len(queue) + 1 => Len(manager[r]) = Len(row[r])
         /\ i <= Len(queue) => Len(manager[r]) = Len(row[r]) + Len(Added(queue[1], r))
<1>1. /\ Types /\ QueueInOrder /\ SchedulerBook /\ WorkerBook /\ NoEvent(r)
      /\ Len(queue) \in {0, 1} /\ DOMAIN queue = 1..Len(queue)
      /\ \A j \in DOMAIN queue : queue[j] \in Steps
  BY ScheduleQueue DEF IInv
<1>2. status[r] # "finished"
  BY DEF Plans, PlansFor
<1>3. SchedulerAt(r) /\ WorkerAt(i, r)
  BY <1>1, <1>2 DEF SchedulerBook, WorkerBook
<1>4. /\ row[r] \in Blocklists /\ Pending(r) \in Blocklists
      /\ \A a \in Blocklists : a \o <<>> = a /\ <<>> \o a = a
      /\ Outstanding(1, r) \in Blocklists /\ <<>> \in Blocklists
  BY <1>1, PendingTypes, RequestLists
<1>5. manager[r] = row[r] \o Pending(r)
  BY <1>3 DEF SchedulerAt
<1>6. Outstanding(2, r) = <<>>
  BY <1>1 DEF Outstanding
<1>7. Pending(r) = Outstanding(1, r)
  BY <1>4, <1>6 DEF Pending
<1>8. CASE i = 1 /\ Len(queue) = 1
  <2>1. Pending(r) = Added(queue[1], r)
    BY <1>1, <1>7, <1>8 DEF Outstanding, AtStep
  <2>2. Len(manager[r]) = Len(row[r]) + Len(Added(queue[1], r))
    BY <1>4, <1>5, <2>1, ConcatProperties DEF Blocklists
  <2> QED
    BY <1>2, <1>3, <1>8, <2>2
<1>9. CASE i = Len(queue) + 1
  <2>1. Outstanding(1, r) = <<>>
    <3>1. 1 \in DOMAIN queue => queue[1].done
      <4>1. CASE Len(queue) = 0
        BY <1>1, <4>1
      <4>2. CASE Len(queue) = 1
        BY <1>9, <4>2 DEF AtStep
      <4> QED
        BY <1>1, <4>1, <4>2
    <3> QED
      BY <3>1 DEF Outstanding
  <2>2. manager[r] = row[r]
    BY <1>4, <1>5, <1>7, <2>1
  <2>3. ~(i <= Len(queue))
    BY <1>1, <1>9
  <2> QED
    BY <1>2, <1>3, <1>9, <2>2, <2>3
<1>10. i = Len(queue) + 1 \/ (i = 1 /\ Len(queue) = 1)
  <2>1. CASE Len(queue) = 0
    BY <2>1 DEF AtStep
  <2>2. CASE Len(queue) = 1
    BY <2>2 DEF AtStep
  <2> QED
    BY <1>1, <2>1, <2>2
<1> QED
  BY <1>8, <1>9, <1>10

(* The step is planned on the whole cache.                                 *)
LEMMA PlannedOnWhole ==
  ASSUME Deployment, IInv, NEW s \in Steps, Plans(s), NEW r \in Requests, Tokens(s, r) > 0,
         SchedulerAt(r), shift[r] = 0, Len(manager[r]) = Blocks(nct[r])
  PROVE  /\ Len(manager[r]) + Len(Added(s, r)) <= Blocks(MaxLength)
         /\ PlannedWhole(s, Len(manager[r]), r)
<1>1. Types /\ PlansFor(s, r) /\ s.tokens \in [Requests -> Nat]
  BY DEF IInv, Plans, Steps
<1>2. offset[r] = 0 /\ lag[r] = NoLag /\ Effective(r) = nct[r]
  BY <1>1, EffectiveFacts DEF SchedulerAt
<1>3. /\ nct[r] \in Nat /\ Tokens(s, r) \in Nat /\ nct[r] + Tokens(s, r) <= MaxLength
      /\ Pre(s, r) = nct[r] /\ Len(Added(s, r)) = Missing(r, s.tokens) /\ MaxLength \in Nat
  BY <1>1, RequestTypes, StepTypes, ConstantTypes DEF PlansFor
<1> DEFINE have == Len(manager[r])
           more == Len(Added(s, r))
           need == Blocks(nct[r] + Tokens(s, r))
           old == Blocks(nct[r])
           most == Blocks(MaxLength)
<1>4. /\ have \in Nat /\ more \in Nat /\ old \in Nat /\ need \in Nat /\ most \in Nat
      /\ old <= need /\ need <= most /\ have = old
  <2>1. nct[r] + Tokens(s, r) \in Nat /\ nct[r] <= nct[r] + Tokens(s, r)
    BY <1>3
  <2> QED
    BY <1>1, <1>3, <2>1, RequestLists, StepLists, BlocksLeast, BlocksGrow
<1>5. need <= have + more /\ (more = 0 \/ have + more = need)
  <2>1. s.tokens[r] = Tokens(s, r) /\ s.tokens[r] # 0
    BY <1>3 DEF Tokens
  <2> QED
    BY <1>1, <1>2, <1>3, <2>1, MissingFacts
<1> HIDE DEF have, more, need, old, most
<1>6. have + more = need /\ have + more <= most
  BY ONLY <1>4, <1>5
<1>7. /\ Fires(s, r) <=> Pre(s, r) + 2 * Tokens(s, r) >= Threshold
      /\ Fires(s, r) => Sent(s, r) /\ Est(s, r) = Pre(s, r) + 2 * Tokens(s, r)
  <2>1. EstAt(s, r) = Pre(s, r) + 2 * Tokens(s, r)
    BY <1>2, <1>3 DEF EstAt
  <2>2. Informs(s, r)
    BY <1>1 DEF PlansFor
  <2> QED
    BY <1>2, <2>1, <2>2 DEF Informs
<1> QED
  BY <1>3, <1>6, <1>7 DEF PlannedWhole, have, more, need, most

(* The step is planned on a compacted cache.                               *)
LEMMA PlannedOnCompacted ==
  ASSUME Deployment, IInv, NEW s \in Steps, Plans(s), NEW r \in Requests, Tokens(s, r) > 0,
         SchedulerAt(r), shift[r] < 0, Len(manager[r]) <= Blocks(MaxLength)
  PROVE  /\ Len(manager[r]) + Len(Added(s, r)) <= Blocks(MaxLength)
         /\ PlannedCompacted(s, Len(manager[r]), r)
<1>1. Types /\ PlansFor(s, r) /\ s.tokens \in [Requests -> Nat]
  BY DEF IInv, Plans, Steps
<1>2. /\ nct[r] > prompt[r] /\ nct[r] + shift[r] > 0 /\ nct[r] \in Nat /\ shift[r] \in Int
      /\ prompt[r] \in Nat /\ lag[r] \in Int
  BY <1>1, CompactedAhead, RequestTypes
<1>3. offset[r] = -shift[r] /\ lag[r] \in {1 - shift[r], 2 - shift[r]}
  BY DEF SchedulerAt
<1>4. OffsetUsable(r) /\ Effective(r) = nct[r] + shift[r] /\ lag[r] # NoLag
  <2>1. PICK n, move : n = nct[r] /\ move = shift[r]
    OBVIOUS
  <2>2. /\ n \in Nat /\ move \in Int /\ move < 0 /\ n + move > 0
        /\ offset[r] = -move /\ lag[r] \in {1 - move, 2 - move}
    BY <1>2, <1>3, <2>1
  <2>3. offset[r] > 0 /\ n >= offset[r] /\ n - offset[r] = n + move /\ lag[r] # -1
    BY <2>2
  <2> QED
    BY <2>1, <2>3 DEF OffsetUsable, Effective, NoLag
<1>5. /\ Tokens(s, r) = 1 /\ Pre(s, r) = nct[r] /\ nct[r] + 1 <= MaxLength
      /\ Len(Added(s, r)) = Missing(r, s.tokens) /\ MaxLength \in Nat
  <2>1. Tokens(s, r) \in Nat /\ Tokens(s, r) <= 1 /\ nct[r] + Tokens(s, r) <= MaxLength
    BY <1>1, <1>2, StepTypes DEF PlansFor
  <2> QED
    BY <1>1, <2>1, ConstantTypes DEF PlansFor
<1> DEFINE have == Len(manager[r])
           more == Len(Added(s, r))
           rows == Pre(s, r) + 1 + shift[r]
           need == Blocks(rows)
           most == Blocks(MaxLength)
<1>6. rows \in Nat /\ rows <= MaxLength /\ rows = Effective(r) + s.tokens[r]
  BY <1>2, <1>4, <1>5 DEF Tokens
<1>7. /\ have \in Nat /\ more \in Nat /\ need \in Nat /\ most \in Nat
      /\ need <= most /\ have <= most
  BY <1>1, <1>5, <1>6, RequestLists, StepLists, BlocksLeast, BlocksGrow
<1>8. need <= have + more /\ (more = 0 \/ have + more = need)
  <2>1. s.tokens[r] # 0
    BY <1>5 DEF Tokens
  <2> QED
    BY <1>1, <1>5, <1>6, <2>1, MissingFacts
<1> HIDE DEF have, more, need, most
<1>9. have + more \in Nat /\ have + more <= most
  BY ONLY <1>7, <1>8
<1>10. rows <= (have + more) * BlockSize
  BY <1>6, <1>8, <1>9, BlocksLeast DEF need
<1>11. Informed(s, rows, r)
  <2>1. EstAt(s, r) = rows \/ EstAt(s, r) = rows - 1
    <3>1. EstAt(s, r) = ((nct[r] + 1) - lag[r]) + 1 /\ rows = nct[r] + 1 + shift[r]
      BY <1>4, <1>5 DEF EstAt
    <3> HIDE DEF rows
    <3>2. CASE lag[r] = 1 - shift[r]
      BY ONLY <1>2, <3>1, <3>2
    <3>3. CASE lag[r] = 2 - shift[r]
      BY ONLY <1>2, <3>1, <3>3
    <3> QED
      BY <1>3, <3>2, <3>3
  <2>2. Informs(s, r)
    BY <1>1 DEF PlansFor
  <2>3. Tokens(s, r) > 0 /\ (EstAt(s, r) >= Threshold \/ lag[r] # NoLag)
    BY <1>4, <1>5
  <2>4. /\ Sent(s, r) /\ Est(s, r) = EstAt(s, r)
        /\ Fires(s, r) <=> EstAt(s, r) >= Threshold
    BY <2>2, <2>3 DEF Informs
  <2> HIDE DEF rows
  <2> QED
    BY <2>1, <2>4 DEF Informed
<1> QED
  BY <1>9, <1>10, <1>11 DEF PlannedCompacted, RowsFit, have, more, most

LEMMA SchedulePlanned ==
  ASSUME Deployment, IInv, NEW s \in Steps, Plans(s), NEW r \in Requests, Tokens(s, r) > 0,
         NEW i \in 1..3, AtStep(i)
  PROVE  Planned(s, Len(manager[r]), r)
<1>1. /\ Types /\ QueueInOrder /\ status[r] # "finished" /\ SchedulerAt(r) /\ WorkerAt(i, r)
      /\ i = Len(queue) + 1 \/ (i = 1 /\ Len(queue) = 1)
      /\ i = Len(queue) + 1 => Len(manager[r]) = Len(row[r])
      /\ i <= Len(queue) => Len(manager[r]) = Len(row[r]) + Len(Added(queue[1], r))
  BY ScheduleHave DEF IInv
<1>2. Held(Position(i, r), StepNumber(i), r) /\ Served(r)
  BY <1>1 DEF WorkerAt, Served
<1>3. shift[r] \in Int /\ shift[r] <= 0
  BY <1>1, <1>2, RequestTypes DEF Held
<1>4. CASE i = Len(queue) + 1
  <2>1. Position(i, r) = nct[r]
    BY <1>1, <1>4, PositionsGrow, AtStep(i) DEF AtStep
  <2>2. CASE shift[r] = 0
    <3>1. Len(manager[r]) = Blocks(nct[r])
      BY <1>1, <1>2, <1>4, <2>1, <2>2 DEF Held, HeldWhole
    <3> QED
      BY <1>1, <2>2, <3>1, PlannedOnWhole DEF Planned
  <2>3. CASE shift[r] < 0
    <3>1. Len(manager[r]) <= Blocks(MaxLength)
      BY <1>1, <1>2, <1>4, <2>3 DEF Held, HeldCompacted
    <3> QED
      BY <1>1, <2>3, <3>1, PlannedOnCompacted DEF Planned
  <2> QED
    BY <1>3, <2>2, <2>3
<1>5. CASE i = 1 /\ Len(queue) = 1
  <2> DEFINE t == queue[1]
  <2>1. /\ t \in Steps /\ 1 \in DOMAIN queue /\ StepShape(t, r)
        /\ Pre(t, r) + Tokens(t, r) = nct[r] /\ Position(1, r) = Pre(t, r)
    <3>1. 1 \in DOMAIN queue /\ \A j \in DOMAIN queue : queue[j] \in Steps
      BY <1>1, <1>5, QueueFacts
    <3>2. StepShape(t, r) /\ Pre(t, r) + Tokens(t, r) = Position(2, r)
      BY <1>1, <3>1 DEF QueueInOrder
    <3>3. Position(1, r) = Pre(t, r) /\ Position(2, r) = nct[r]
      BY <1>5 DEF Position
    <3> QED
      BY <3>1, <3>2, <3>3
  <2>2. Planned(t, Len(row[r]), r) /\ Len(manager[r]) = Len(row[r]) + Len(Added(t, r))
    BY <1>1, <1>5 DEF WorkerAt
  <2> HIDE DEF t
  <2>3. /\ Tokens(t, r) \in Nat /\ Len(row[r]) \in Nat /\ Pre(t, r) \in Nat
        /\ Tokens(t, r) = 0 => Len(Added(t, r)) = 0
    BY <1>1, <2>1, StepTypes, StepLists, RequestLists DEF StepShape
  <2>4. Tokens(t, r) = 0 => Len(manager[r]) = Len(row[r]) /\ Pre(t, r) = nct[r]
    BY <2>1, <2>2, <2>3
  <2>5. CASE shift[r] = 0
    <3>1. Len(manager[r]) = Blocks(nct[r])
      <4>1. CASE Tokens(t, r) = 0
        BY <1>2, <1>5, <2>1, <2>4, <2>5, <4>1 DEF Held, HeldWhole
      <4>2. CASE Tokens(t, r) > 0
        BY <1>2, <2>1, <2>2, <2>5, <4>2 DEF Planned, PlannedWhole
      <4> QED
        BY <2>3, <4>1, <4>2
    <3> QED
      BY <1>1, <2>5, <3>1, PlannedOnWhole DEF Planned
  <2>6. CASE shift[r] < 0
    <3>1. Len(manager[r]) <= Blocks(MaxLength)
      <4>1. CASE Tokens(t, r) = 0
        BY <1>2, <2>4, <2>6, <4>1 DEF Held, HeldCompacted
      <4>2. CASE Tokens(t, r) > 0
        BY <1>2, <2>1, <2>2, <4>2 DEF Planned
      <4> QED
        BY <2>3, <4>1, <4>2
    <3> QED
      BY <1>1, <2>6, <3>1, PlannedOnCompacted DEF Planned
  <2> QED
    BY <1>3, <2>5, <2>6
<1> QED
  BY <1>1, <1>4, <1>5

LEMMA ScheduleWorker ==
  ASSUME Deployment, IInv, NEW s \in Steps, Plans(s)
  PROVE  WorkerBook'
<1>1. /\ Types /\ QueueInOrder /\ WorkerBook /\ ~s.done
      /\ Len(queue) \in {0, 1} /\ DOMAIN queue = 1..Len(queue)
      /\ Len(queue') = Len(queue) + 1
      /\ \A i \in DOMAIN queue : queue'[i] = queue[i]
      /\ queue'[Len(queue) + 1] = s
      /\ UNCHANGED <<prompt, row, seen, curLen, lastStep, shift, kv>>
  BY ScheduleQueue DEF IInv, Plans, workerVars
<1>2. ASSUME NEW i \in 1..3, AtStep(i)'
      PROVE  AtStep(i) /\ i \in 1..(Len(queue) + 1)
  <2>1. /\ i \in 1..(Len(queue) + 2) /\ \A j \in 1..(i - 1) : queue'[j].done
        /\ i <= Len(queue) + 1 => ~queue'[i].done
    <3>1. Len(queue') + 1 = Len(queue) + 2
      BY <1>1
    <3> QED
      BY <1>1, <1>2, <3>1 DEF AtStep
  <2>2. CASE Len(queue) = 0
    <3>1. i = 1
      <4>1. i # 2
        BY <1>1, <2>1, <2>2
      <4> QED
        BY <2>1, <2>2, <4>1
    <3> QED
      BY <2>2, <3>1 DEF AtStep
  <2>3. CASE Len(queue) = 1
    <3>1. i \in {1, 2} /\ queue'[1] = queue[1]
      <4>1. i # 3
        BY <1>1, <2>1, <2>3
      <4> QED
        BY <1>1, <2>1, <2>3, <4>1
    <3> QED
      BY <2>1, <2>3, <3>1 DEF AtStep
  <2> QED
    BY <1>1, <2>2, <2>3
<1>3. ASSUME NEW r \in Requests
      PROVE  Served(r)' => Served(r)
  BY <1>1 DEF Served, Plans, PlansFor
<1>4. ASSUME NEW i \in 1..(Len(queue) + 1), i \in 1..3, AtStep(i), NEW r \in Requests
      PROVE  WorkerAt(i, r)'
  <2>1. WorkerAt(i, r)
    BY <1>1, <1>4 DEF WorkerBook
  <2>2. Position(i, r)' = Position(i, r) /\ StepNumber(i)' = StepNumber(i)
    BY <1>4, SchedulePlaces
  <2>3. Held(Position(i, r), StepNumber(i), r)'
    <3> DEFINE x == Position(i, r)
               now == StepNumber(i)
    <3>1. Held(x, now, r)
      BY <2>1 DEF WorkerAt
    <3>2. PICK y, n : y = x /\ n = now
      OBVIOUS
    <3>3. x' = y /\ now' = n
      BY <2>2, <3>2
    <3> HIDE DEF x, now
    <3>4. Held(y, n, r)
      BY <3>1, <3>2
    <3>5. Held(y, n, r)'
      BY <1>1, <1>3, <3>4 DEF Held, HeldWhole, HeldCompacted, Top, Capacity, Blocks, Threshold
    <3>6. Held(x, now, r)'
      BY <3>3, <3>5
    <3> QED
      BY <3>6 DEF x, now
  <2>4. ASSUME NEW t \in Steps, NEW have, Planned(t, have, r)
        PROVE  Planned(t, have, r)'
    BY <1>1, <1>3, <2>4 DEF Planned, PlannedWhole, PlannedCompacted, RowsFit, Informed,
         Top, Blocks, Threshold, Tokens, Pre, Added, Fires, Sent, Est
  <2>5. Planned(s, Len(manager[r]), r)
    BY <1>4, SchedulePlanned, StepTypes DEF Planned
  <2>6. Tokens(s, r) > 0 =>
          /\ i = Len(queue) + 1 => Len(manager[r]) = Len(row[r])
          /\ i <= Len(queue) => Len(manager[r]) = Len(row[r]) + Len(Added(queue[1], r))
    BY <1>4, ScheduleHave
  <2>7. ASSUME i <= Len(queue')
        PROVE  Planned(queue[i], Len(row[r]), r)'
    <3>1. CASE i \in DOMAIN queue
      <4>1. Planned(queue[i], Len(row[r]), r) /\ queue'[i] = queue[i] /\ i <= Len(queue)
            /\ queue[i] \in Steps
        BY <1>1, <2>1, <3>1, QueueFacts DEF WorkerAt
      <4>2. PICK t \in Steps : t = queue[i]
        BY <4>1
      <4>3. PICK have : have = Len(row[r])
        OBVIOUS
      <4>4. Planned(t, have, r)'
        BY <2>4, <4>1, <4>2, <4>3
      <4> QED
        BY <1>1, <4>1, <4>2, <4>3, <4>4
    <3>2. CASE i = Len(queue) + 1
      <4>1. PICK have : have = Len(row[r])
        OBVIOUS
      <4>2. Planned(s, have, r)
        BY <2>5, <2>6, <3>2, <4>1 DEF Planned
      <4>3. Planned(s, have, r)'
        BY <2>4, <4>2
      <4> QED
        BY <1>1, <3>2, <4>1, <4>3
    <3> QED
      BY <1>1, <1>4, <3>1, <3>2
  <2>8. ASSUME i + 1 <= Len(queue')
        PROVE  Planned(queue[i + 1], Len(row[r]) + Len(Added(queue[i], r)), r)'
    <3>1. Len(queue) = 1 /\ i = 1
      BY <1>1, <1>4, <2>8
    <3>2. queue'[i + 1] = s /\ queue'[i] = queue[1]
      BY <1>1, <3>1
    <3>3. PICK have : have = Len(row[r]) + Len(Added(queue[1], r))
      OBVIOUS
    <3>4. Planned(s, have, r)
      BY <2>5, <2>6, <3>1, <3>3 DEF Planned
    <3>5. Planned(s, have, r)'
      BY <2>4, <3>4
    <3>6. (Len(row[r]) + Len(Added(queue[i], r)))' = have
      BY <1>1, <3>2, <3>3 DEF Added
    <3> QED
      BY <3>2, <3>5, <3>6
  <2> QED
    BY <2>3, <2>7, <2>8 DEF WorkerAt
<1> QED
  BY <1>2, <1>4 DEF WorkerBook

LEMMA ScheduleKeeps ==
  ASSUME Deployment, IInv, Schedule
  PROVE  IInv'
<1>1. PICK s \in Steps : Plans(s)
  BY ScheduleStep
<1>2. Types' /\ QueueInOrder' /\ EndedIdle' /\ WorkerBook' /\ SchedulerBook'
  BY <1>1, ScheduleTypes, ScheduleOrder, ScheduleEnded, ScheduleWorker, ScheduleScheduler
<1>3. EventsTrue' /\ NeverFatal' /\ BlocksConserved'
  BY <1>1, ScheduleEvents, ScheduleBlocks
<1> QED
  BY <1>2, <1>3 DEF IInv

-----------------------------------------------------------------------------
(* Update preserves the invariant.                                         *)

(* What Update does to request r, with s the step it takes back and over    *)
(* the requests that end.                                                   *)
UpdatesFor(s, over, r) ==
  /\ r \in over => status[r] = "running" /\ Tokens(s, r) > 0 /\ manager'[r] = <<>>
  /\ status'[r] = IF r \in over THEN "finished" ELSE status[r]
  /\ \A e \in AppliedEvents(s, over) :
       e.req = r => /\ manager'[r] = Reassembled(e)
                    /\ offset'[r] = Anchored(e) /\ lag'[r] = TrackedLag(e)
  /\ (\A e \in AppliedEvents(s, over) : e.req # r) =>
       /\ offset'[r] = offset[r] /\ lag'[r] = lag[r]
       /\ r \notin over => manager'[r] = manager[r]

Updates(s, over) ==
  /\ Len(queue) > 0 /\ s = queue[1] /\ s.done
  /\ \A r \in Requests : UpdatesFor(s, over, r)
  /\ error' = IF \E e \in AppliedEvents(s, over) : Mismatched(e) THEN "block_reclaim" ELSE None
  /\ status' = [r \in Requests |-> status'[r]] /\ manager' = [r \in Requests |-> manager'[r]]
  /\ offset' = [r \in Requests |-> offset'[r]] /\ lag' = [r \in Requests |-> lag'[r]]
  /\ free' = Returned(over, AppliedEvents(s, over))
  /\ ended' = ended \cup over /\ queue' = Tail(queue)
  /\ UNCHANGED <<prompt, nct, step, workerVars>>

LEMMA UpdateStep ==
  ASSUME Deployment, IInv, Update
  PROVE  \E s \in Steps : \E over \in SUBSET Requests : Updates(s, over)
<1>1. /\ Types /\ QueueInOrder /\ EventsTrue /\ queue \in Seq(Steps)
      /\ Len(queue) \in {0, 1, 2} /\ DOMAIN queue = 1..Len(queue)
      /\ \A i \in DOMAIN queue : queue[i] \in Steps
  BY QueueFacts DEF IInv, Types
<1>2. queue # <<>> /\ Head(queue).done /\ queue' = Tail(queue)
      /\ UNCHANGED <<prompt, nct, step, workerVars>>
  BY DEF Update
<1>3. Len(queue) > 0 /\ Head(queue) = queue[1] /\ 1 \in DOMAIN queue
  <2>1. Len(queue) # 0
    BY <1>1, <1>2, EmptySeq
  <2>2. 1 \in DOMAIN queue
    BY <1>1, <2>1
  <2> QED
    BY <1>1, <2>1, <2>2, HeadTailProperties
<1>4. PICK s \in Steps : s = queue[1]
  BY <1>1, <1>3
<1>5. PICK over \in SUBSET Requests :
           LET applied == AppliedEvents(s, over)
               event(r) == CHOOSE e \in applied : e.req = r
               hit == {e.req : e \in applied}
           IN  /\ \A r \in over : status[r] = "running" /\ s.tokens[r] > 0
               /\ error' = IF \E e \in applied : Mismatched(e) THEN "block_reclaim" ELSE None
               /\ status' = [r \in Requests |-> IF r \in over THEN "finished" ELSE status[r]]
               /\ manager' = [r \in Requests |->
                    IF r \in over THEN <<>>
                    ELSE IF r \in hit THEN Reassembled(event(r)) ELSE manager[r]]
               /\ free' = Returned(over, applied)
               /\ offset' = [r \in Requests |->
                    IF r \in hit THEN Anchored(event(r)) ELSE offset[r]]
               /\ lag' = [r \in Requests |->
                    IF r \in hit THEN TrackedLag(event(r)) ELSE lag[r]]
               /\ ended' = ended \cup over
  BY <1>3, <1>4 DEF Update
<1>6. ASSUME NEW r \in Requests
      PROVE  UpdatesFor(s, over, r)
  <2> DEFINE applied == AppliedEvents(s, over)
             event == CHOOSE e \in applied : e.req = r
  <2>1. r \in over => status[r] = "running" /\ Tokens(s, r) > 0 /\ manager'[r] = <<>>
    BY <1>5 DEF Tokens
  <2>2. status'[r] = IF r \in over THEN "finished" ELSE status[r]
    BY <1>5
  <2>3. ASSUME NEW e \in applied, e.req = r
        PROVE  /\ manager'[r] = Reassembled(e)
               /\ offset'[r] = Anchored(e) /\ lag'[r] = TrackedLag(e)
    <3>1. r \in {f.req : f \in applied} /\ r \notin over
      BY <2>3 DEF AppliedEvents
    <3>2. event \in applied /\ event.req = r
      BY <2>3
    <3>3. e \in s.events /\ event \in s.events
      BY <2>3, <3>2 DEF AppliedEvents
    <3>4. \A f, h \in s.events : f.req = h.req => f = h
      BY <1>1, <1>3, <1>4 DEF EventsTrue
    <3>5. event = e
      BY <2>3, <3>2, <3>3, <3>4
    <3>6. /\ manager'[r] = Reassembled(event) /\ offset'[r] = Anchored(event)
          /\ lag'[r] = TrackedLag(event)
      BY <1>5, <3>1
    <3> QED
      BY <3>5, <3>6
  <2>4. ASSUME \A e \in applied : e.req # r
        PROVE  /\ offset'[r] = offset[r] /\ lag'[r] = lag[r]
               /\ r \notin over => manager'[r] = manager[r]
    <3>1. r \notin {f.req : f \in applied}
      BY <2>4
    <3> QED
      BY <1>5, <3>1
  <2> QED
    BY <2>1, <2>2, <2>3, <2>4 DEF UpdatesFor
<1>7. /\ status' = [r \in Requests |-> status'[r]] /\ manager' = [r \in Requests |-> manager'[r]]
      /\ offset' = [r \in Requests |-> offset'[r]] /\ lag' = [r \in Requests |-> lag'[r]]
  BY <1>5
<1>8. Updates(s, over)
  BY <1>2, <1>3, <1>4, <1>5, <1>6, <1>7 DEF Updates
<1> QED
  BY <1>8

(* The queue of the next state is this one's, one place on.                *)
LEMMA UpdateQueue ==
  ASSUME Deployment, IInv, NEW s \in Steps, NEW over \in SUBSET Requests, Updates(s, over)
  PROVE  /\ Len(queue) \in {1, 2} /\ DOMAIN queue = 1..Len(queue)
         /\ \A i \in DOMAIN queue : queue[i] \in Steps
         /\ queue' \in Seq(Steps) /\ Len(queue') = Len(queue) - 1
         /\ DOMAIN queue' = 1..(Len(queue) - 1)
         /\ \A i \in DOMAIN queue' : i + 1 \in DOMAIN queue /\ queue'[i] = queue[i + 1]
<1>1. /\ queue \in Seq(Steps) /\ queue' = Tail(queue) /\ Len(queue) > 0
      /\ Len(queue) \in {0, 1, 2} /\ DOMAIN queue = 1..Len(queue)
      /\ \A i \in DOMAIN queue : queue[i] \in Steps
  BY QueueFacts DEF IInv, Types, Updates
<1>2. /\ queue' \in Seq(Steps) /\ Len(queue') = Len(queue) - 1
      /\ \A i \in 1..Len(queue') : queue'[i] = queue[i + 1]
  <2>1. queue # <<>>
    BY <1>1
  <2> QED
    BY <1>1, <2>1, HeadTailProperties
<1>3. DOMAIN queue' = 1..Len(queue')
  BY <1>2, LenProperties
<1>4. ASSUME NEW i \in DOMAIN queue'
      PROVE  i + 1 \in DOMAIN queue /\ queue'[i] = queue[i + 1]
  BY <1>1, <1>2, <1>3
<1> QED
  BY <1>1, <1>2, <1>3, <1>4

LEMMA UpdatePlaces ==
  ASSUME Deployment, IInv, NEW s \in Steps, NEW over \in SUBSET Requests, Updates(s, over),
         NEW i \in 1..2, i <= Len(queue)
  PROVE  /\ StepNumber(i)' = StepNumber(i + 1)
         /\ \A r \in Requests : Position(i, r)' = Position(i + 1, r)
<1>1. /\ Len(queue) \in {1, 2} /\ Len(queue') = Len(queue) - 1
      /\ DOMAIN queue' = 1..(Len(queue) - 1)
      /\ \A j \in DOMAIN queue' : queue'[j] = queue[j + 1]
      /\ nct' = nct /\ step' = step
  BY UpdateQueue DEF Updates
<1>2. CASE i <= Len(queue')
  <2>1. queue'[i] = queue[i + 1] /\ i + 1 <= Len(queue)
    BY <1>1, <1>2
  <2> QED
    BY <1>2, <2>1 DEF StepNumber, Position
<1>3. CASE ~(i <= Len(queue'))
  <2>1. ~(i + 1 <= Len(queue))
    BY <1>1, <1>3
  <2> QED
    BY <1>1, <1>3, <2>1 DEF StepNumber, Position
<1> QED
  BY <1>2, <1>3

LEMMA UpdatePending ==
  ASSUME Deployment, IInv, NEW s \in Steps, NEW over \in SUBSET Requests, Updates(s, over),
         NEW r \in Requests
  PROVE  Pending(r)' = Pending(r)
<1>1. /\ Types /\ QueueInOrder /\ s = queue[1] /\ s.done
      /\ Len(queue) \in {1, 2} /\ DOMAIN queue = 1..Len(queue)
      /\ DOMAIN queue' = 1..(Len(queue) - 1)
      /\ \A i \in DOMAIN queue' : queue'[i] = queue[i + 1]
  BY UpdateQueue DEF IInv, Updates
<1>2. /\ Outstanding(2, r) \in Blocklists /\ <<>> \in Blocklists
      /\ \A a \in Blocklists : a \o <<>> = a /\ <<>> \o a = a
  BY <1>1, PendingTypes
<1>3. Outstanding(1, r) = <<>>
  BY <1>1 DEF Outstanding
<1>4. Outstanding(2, r)' = <<>>
  <2>1. 2 \notin DOMAIN queue'
    BY <1>1
  <2> QED
    BY <2>1 DEF Outstanding
<1>5. Outstanding(1, r)' = Outstanding(2, r)
  <2>1. CASE Len(queue) = 2
    <3>1. 2 \in DOMAIN queue /\ 1 \in DOMAIN queue' /\ queue'[1] = queue[2]
      BY <1>1, <2>1
    <3> QED
      BY <3>1 DEF Outstanding
  <2>2. CASE Len(queue) = 1
    <3>1. 2 \notin DOMAIN queue /\ 1 \notin DOMAIN queue'
      BY <1>1, <2>2
    <3> QED
      BY <3>1 DEF Outstanding
  <2> QED
    BY <1>1, <2>1, <2>2
<1>6. Pending(r)' = Outstanding(2, r)
  BY <1>2, <1>4, <1>5 DEF Pending
<1>7. Pending(r) = Outstanding(2, r)
  BY <1>2, <1>3 DEF Pending
<1> QED
  BY <1>6, <1>7


(* The blocks the worker has and will have of the request.                  *)
WorkerList(r) == row[r] \o Pending(r)

(* An event that is applied takes the scheduler's list to the worker's.     *)
LEMMA EventApplied ==
  ASSUME Deployment, IInv, NEW s \in Steps, NEW over \in SUBSET Requests, Updates(s, over),
         NEW e \in AppliedEvents(s, over), NEW r, r = e.req
  PROVE  /\ r \in Requests /\ r \notin over /\ status[r] = "running" /\ ~Mismatched(e)
         /\ Reassembled(e) = WorkerList(r) /\ Reassembled(e) \in Blocklists
         /\ IsInjective(Reassembled(e)) /\ Range(Reassembled(e)) \subseteq Range(manager[r])
         /\ shift[r] < 0 /\ Anchored(e) = -shift[r]
         /\ TrackedLag(e) \in {1 - shift[r], 2 - shift[r]}
<1>1. /\ Types /\ QueueInOrder /\ EventsTrue /\ BlocksConserved /\ WorkerBook
      /\ s = queue[1] /\ 1 \in DOMAIN queue
      /\ Len(queue) \in {1, 2} /\ DOMAIN queue = 1..Len(queue)
      /\ \A i \in DOMAIN queue : queue[i] \in Steps
  <2>1. Len(queue) \in {1, 2} /\ DOMAIN queue = 1..Len(queue)
        /\ \A i \in DOMAIN queue : queue[i] \in Steps
    BY UpdateQueue
  <2> QED
    BY <2>1 DEF IInv, Updates
<1>2. e \in s.events /\ status[r] = "running" /\ r \notin over
  BY DEF AppliedEvents
<1>3. e \in Events /\ r \in Requests
  <2>1. e \in Events
    BY <1>2 DEF Steps
  <2> QED
    BY <2>1 DEF Events
<1>4. Reported(s, e)
  BY <1>1, <1>2 DEF EventsTrue
<1> DEFINE m == manager[r]
           a == Len(e.after)
           b == e.before
           cut == SubSeq(m, 1, a) \o SubSeq(m, b + 1, Len(m))
<1>5. /\ e.pre = Pre(s, r) /\ Tokens(s, r) = 1
      /\ shift[r] = e.len - e.pre /\ shift[r] < 0
      /\ e.after # <<>> /\ a < b /\ b <= Len(m) /\ IsPrefix(e.after, m)
      /\ cut = row[r] \o Pending(r)
  BY <1>4 DEF Reported
<1>6. /\ m \in Seq(1..NumBlocks) /\ Len(m) \in Nat /\ a \in Nat /\ b \in Nat
      /\ e.len \in Int /\ e.pre \in Nat
  <2>1. m \in Seq(1..NumBlocks) /\ Len(m) \in Nat
    BY <1>1, <1>3, RequestLists DEF Blocklists
  <2>2. e.after \in Seq(1..NumBlocks) /\ b \in Nat /\ e.len \in Int /\ e.pre \in Nat
    BY <1>3 DEF Events, Blocklists
  <2> QED
    BY <2>1, <2>2, LenProperties
<1>7. Reassembled(e) = cut
  BY <1>5 DEF Reassembled
<1>8. IsInjective(m)
  BY <1>1, <1>3 DEF BlocksConserved
<1> HIDE DEF m, a, b
<1>9. /\ cut \in Seq(1..NumBlocks) /\ IsInjective(cut) /\ Range(cut) \subseteq Range(m)
      /\ Range(m) \ Range(cut) # {}
  <2> DEFINE S == 1..NumBlocks
  <2>1. m \in Seq(S) /\ IsInjective(m) /\ a \in Nat /\ b \in Nat /\ a < b /\ b <= Len(m)
    BY <1>5, <1>6, <1>8
  <2> HIDE DEF S
  <2>2. /\ cut \in Seq(S) /\ IsInjective(cut) /\ Range(cut) \subseteq Range(m)
        /\ Range(m) \ Range(cut) # {}
    BY <2>1, CutOut
  <2> QED
    BY <2>2 DEF S
<1>10. ~Mismatched(e)
  <2>1. ~(a > Len(m))
    BY <1>5, <1>6
  <2> QED
    BY <1>5, <2>1 DEF Mismatched, a, m
<1>11. Anchored(e) = -shift[r]
  <2>1. Removed(e) # {}
    BY <1>7, <1>9 DEF Removed, m
  <2>2. Anchored(e) = Greater(0, e.pre - e.len)
    BY <2>1 DEF Anchored, AnchoredOffset
  <2>3. 0 < e.pre - e.len /\ e.pre - e.len = -shift[r]
    BY <1>5, <1>6
  <2> QED
    BY <2>2, <2>3 DEF Greater
<1>12. nct[r] = Pre(s, r) + 1 \/ nct[r] = Pre(s, r) + 2
  <2>1. Pre(s, r) + 1 = Position(2, r) /\ Pre(s, r) \in Nat
    BY <1>1, <1>3, <1>5, StepTypes DEF QueueInOrder
  <2>2. CASE Len(queue) = 1
    <3>1. Position(2, r) = nct[r]
      BY <2>2 DEF Position
    <3> QED
      BY <2>1, <3>1
  <2>3. CASE Len(queue) = 2
    <3>1. /\ 2 \in DOMAIN queue /\ queue[2] \in Steps /\ StepShape(queue[2], r)
          /\ Pre(queue[2], r) + Tokens(queue[2], r) = Position(3, r)
      <4>1. 2 \in DOMAIN queue
        BY <1>1, <2>3
      <4> QED
        BY <1>1, <1>3, <4>1 DEF QueueInOrder
    <3>2. /\ Position(2, r) = Pre(queue[2], r) /\ Position(3, r) = nct[r]
          /\ Pre(queue[2], r) \in Nat /\ Tokens(queue[2], r) \in Nat
          /\ prompt[r] \in Nat /\ nct[r] \in Nat
      BY <1>1, <1>3, <2>3, <3>1, StepTypes, RequestTypes DEF Position
    <3>3. nct[r] > prompt[r]
      BY <1>3, <1>5, CompactedAhead
    <3>4. Tokens(queue[2], r) <= 1
      BY <3>1, <3>2, <3>3 DEF StepShape
    <3> QED
      BY <2>1, <3>1, <3>2, <3>4
  <2> QED
    BY <1>1, <2>2, <2>3
<1>13. TrackedLag(e) \in {1 - shift[r], 2 - shift[r]}
  <2>1. TrackedLag(e) = nct[r] - e.len /\ shift[r] = e.len - Pre(s, r)
    BY <1>5 DEF TrackedLag
  <2>2. nct[r] \in Nat /\ Pre(s, r) \in Nat /\ e.len \in Int
    BY <1>1, <1>3, <1>6, RequestTypes, StepTypes
  <2>3. CASE nct[r] = Pre(s, r) + 1
    BY <2>1, <2>2, <2>3
  <2>4. CASE nct[r] = Pre(s, r) + 2
    BY <2>1, <2>2, <2>4
  <2> QED
    BY <1>12, <2>3, <2>4
<1> QED
  BY <1>2, <1>3, <1>5, <1>7, <1>9, <1>10, <1>11, <1>13 DEF Blocklists, WorkerList, m

(* What becomes of a request's list: none, the worker's, or the same.       *)
LEMMA UpdateCases ==
  ASSUME Deployment, IInv, NEW s \in Steps, NEW over \in SUBSET Requests, Updates(s, over),
         NEW r \in Requests
  PROVE  \/ r \in over /\ manager'[r] = <<>> /\ offset'[r] = offset[r] /\ lag'[r] = lag[r]
         \/ \E e \in AppliedEvents(s, over) :
              /\ e.req = r /\ manager'[r] = Reassembled(e)
              /\ offset'[r] = Anchored(e) /\ lag'[r] = TrackedLag(e)
         \/ /\ r \notin over /\ \A e \in AppliedEvents(s, over) : e.req # r
            /\ manager'[r] = manager[r] /\ offset'[r] = offset[r] /\ lag'[r] = lag[r]
<1>1. UpdatesFor(s, over, r)
  BY DEF Updates
<1>2. \A e \in AppliedEvents(s, over) : e.req \notin over
  BY DEF AppliedEvents
<1> QED
  BY <1>1, <1>2 DEF UpdatesFor

LEMMA UpdateLists ==
  ASSUME Deployment, IInv, NEW s \in Steps, NEW over \in SUBSET Requests, Updates(s, over),
         NEW r \in Requests
  PROVE  /\ manager'[r] \in Blocklists /\ IsInjective(manager'[r])
         /\ Range(manager'[r]) \subseteq Range(manager[r])
<1>1. Types /\ BlocksConserved /\ manager[r] \in Blocklists /\ IsInjective(manager[r])
  BY RequestLists DEF IInv, BlocksConserved
<1>2. CASE manager'[r] = <<>>
  BY <1>2, EmptySeq DEF Blocklists, IsInjective, Range
<1>3. CASE manager'[r] = manager[r]
  BY <1>1, <1>3
<1>4. CASE \E e \in AppliedEvents(s, over) : e.req = r /\ manager'[r] = Reassembled(e)
  BY <1>4, EventApplied
<1> QED
  BY <1>2, <1>3, <1>4, UpdateCases

LEMMA UpdateTypes ==
  ASSUME Deployment, IInv, NEW s \in Steps, NEW over \in SUBSET Requests, Updates(s, over)
  PROVE  Types'
<1>1. Types /\ queue' \in Seq(Steps)
  BY UpdateQueue DEF IInv
<1>2. ASSUME NEW r \in Requests
      PROVE  /\ status'[r] \in {"waiting", "running", "finished"}
             /\ manager'[r] \in Blocklists
             /\ offset'[r] \in Nat /\ lag'[r] \in Nat \cup {NoLag}
  <2>1. status'[r] \in {"waiting", "running", "finished"}
    BY <1>1 DEF Updates, UpdatesFor, Types
  <2>2. offset[r] \in Nat /\ lag[r] \in Nat \cup {NoLag} /\ shift[r] \in Int
    BY <1>1 DEF Types
  <2>3. ASSUME NEW e \in AppliedEvents(s, over), e.req = r
        PROVE  Anchored(e) \in Nat /\ TrackedLag(e) \in Nat
    <3>1. /\ shift[r] < 0 /\ Anchored(e) = -shift[r]
          /\ TrackedLag(e) \in {1 - shift[r], 2 - shift[r]}
      BY <2>3, EventApplied
    <3> QED
      BY <2>2, <3>1
  <2>4. offset'[r] \in Nat /\ lag'[r] \in Nat \cup {NoLag}
    BY <2>2, <2>3, UpdateCases
  <2> QED
    BY <2>1, <2>4, UpdateLists
<1>3. /\ status' \in [Requests -> {"waiting", "running", "finished"}]
      /\ manager' \in [Requests -> Blocklists]
      /\ offset' \in [Requests -> Nat] /\ lag' \in [Requests -> Nat \cup {NoLag}]
  BY <1>2 DEF Updates
<1>4. free' \in SUBSET (1..NumBlocks)
  <2>1. \A r \in Requests : Range(manager[r]) \subseteq 1..NumBlocks
    BY <1>1 DEF IInv, BlocksConserved
  <2>2. \A e \in AppliedEvents(s, over) : Removed(e) \subseteq 1..NumBlocks
    <3>1. SUFFICES ASSUME NEW e \in AppliedEvents(s, over) PROVE Removed(e) \subseteq 1..NumBlocks
      OBVIOUS
    <3>2. e.req \in Requests
      BY EventApplied
    <3> QED
      BY <2>1, <3>2 DEF Removed
  <2>3. free' = free \cup (UNION {Range(manager[r]) : r \in over})
                     \cup (UNION {Removed(e) : e \in AppliedEvents(s, over)})
    BY DEF Updates, Returned
  <2>4. free \subseteq 1..NumBlocks
    BY <1>1 DEF Types
  <2>5. ASSUME NEW b \in free'
        PROVE  b \in 1..NumBlocks
    <3>1. CASE b \in free
      BY <2>4, <3>1
    <3>2. CASE \E r \in over : b \in Range(manager[r])
      BY <2>1, <3>2
    <3>3. CASE \E e \in AppliedEvents(s, over) : b \in Removed(e)
      BY <2>2, <3>3
    <3> QED
      BY <2>3, <2>5, <3>1, <3>2, <3>3
  <2> QED
    BY <2>5
<1>5. ended' \in SUBSET Requests
  BY <1>1 DEF Types, Updates
<1>6. UNCHANGED <<prompt, nct, step, row, seen, curLen, lastStep, shift, kv>>
  BY DEF Updates, workerVars
<1> QED
  BY <1>1, <1>3, <1>4, <1>5, <1>6 DEF Types, Blocklists, Steps, Events, Signals

LEMMA UpdateOrder ==
  ASSUME Deployment, IInv, NEW s \in Steps, NEW over \in SUBSET Requests, Updates(s, over)
  PROVE  QueueInOrder'
<1>1. /\ QueueInOrder /\ prompt' = prompt
      /\ Len(queue) \in {1, 2} /\ DOMAIN queue = 1..Len(queue) /\ Len(queue') = Len(queue) - 1
      /\ DOMAIN queue' = 1..(Len(queue) - 1)
      /\ \A i \in DOMAIN queue' : i + 1 \in DOMAIN queue /\ queue'[i] = queue[i + 1]
  BY UpdateQueue DEF IInv, Updates
<1>2. Len(queue') <= Lookahead
  BY <1>1, ConstantTypes DEF QueueInOrder
<1>3. ASSUME NEW i \in DOMAIN queue'
      PROVE  /\ queue'[i].step + 1 = StepNumber(i + 1)'
             /\ queue'[i].done => \A j \in 1..(i - 1) : queue'[j].done
             /\ \A r \in Requests :
                  /\ StepShape(queue[i], r)'
                  /\ Pre(queue'[i], r) + Tokens(queue'[i], r) = Position(i + 1, r)'
  <2>1. i = 1 /\ Len(queue) = 2 /\ queue'[1] = queue[2] /\ 2 \in DOMAIN queue
    BY <1>1
  <2>2. /\ queue[2].step + 1 = StepNumber(3)
        /\ \A r \in Requests : /\ StepShape(queue[2], r)
                               /\ Pre(queue[2], r) + Tokens(queue[2], r) = Position(3, r)
    BY <1>1, <2>1 DEF QueueInOrder
  <2>3. StepNumber(2)' = StepNumber(3) /\ \A r \in Requests : Position(2, r)' = Position(3, r)
    BY <2>1, UpdatePlaces
  <2>4. ASSUME NEW r \in Requests
        PROVE  StepShape(queue[1], r)'
    <3>1. status'[r] = "waiting" => status[r] = "waiting"
      BY DEF Updates, UpdatesFor
    <3> QED
      BY <1>1, <2>1, <2>2, <3>1 DEF StepShape
  <2>5. \A r \in Requests : StepShape(queue[i], r)'
    BY <2>1, <2>4
  <2>6. StepNumber(i + 1)' = StepNumber(2)' /\ \A r \in Requests : Position(i + 1, r)' = Position(2, r)'
    BY <2>1
  <2> QED
    BY <2>1, <2>2, <2>3, <2>5, <2>6
<1> QED
  BY <1>2, <1>3 DEF QueueInOrder

LEMMA UpdateWorker ==
  ASSUME Deployment, IInv, NEW s \in Steps, NEW over \in SUBSET Requests, Updates(s, over)
  PROVE  WorkerBook'
<1>1. /\ Types /\ QueueInOrder /\ WorkerBook /\ s = queue[1] /\ s.done
      /\ Len(queue) \in {1, 2} /\ DOMAIN queue = 1..Len(queue) /\ Len(queue') = Len(queue) - 1
      /\ DOMAIN queue' = 1..(Len(queue) - 1)
      /\ \A i \in DOMAIN queue' : i + 1 \in DOMAIN queue /\ queue'[i] = queue[i + 1]
      /\ \A i \in DOMAIN queue : queue[i] \in Steps
      /\ UNCHANGED <<prompt, row, seen, curLen, lastStep, shift, kv>>
  BY UpdateQueue DEF IInv, Updates, workerVars
<1>2. ASSUME NEW i \in 1..3, AtStep(i)'
      PROVE  i \in 1..2 /\ i <= Len(queue) /\ i + 1 \in 1..3 /\ AtStep(i + 1)
  <2>1. /\ i \in 1..Len(queue) /\ \A j \in 1..(i - 1) : queue'[j].done
        /\ i <= Len(queue) - 1 => ~queue'[i].done
    <3>1. Len(queue') + 1 = Len(queue)
      BY <1>1
    <3> QED
      BY <1>1, <1>2, <3>1 DEF AtStep
  <2>2. CASE i = 1
    <3>1. i + 1 <= Len(queue) => ~queue[2].done
      <4>1. CASE Len(queue) = 1
        BY <2>2, <4>1
      <4>2. CASE Len(queue) = 2
        <5>1. queue'[1] = queue[2] /\ ~queue'[1].done
          <6>1. 1 \in DOMAIN queue' /\ i <= Len(queue) - 1
            BY <1>1, <2>2, <4>2
          <6>2. queue'[1] = queue[1 + 1] /\ 1 + 1 = 2
            BY <1>1, <6>1
          <6>3. ~queue'[1].done
            BY <2>1, <2>2, <6>1
          <6> QED
            BY <6>2, <6>3
        <5> QED
          BY <5>1
      <4> QED
        BY <1>1, <4>1, <4>2
    <3>2. AtStep(2)
      BY <1>1, <2>2, <3>1 DEF AtStep
    <3> QED
      BY <1>1, <2>1, <2>2, <3>2
  <2>3. CASE i = 2 /\ Len(queue) = 2
    <3>1. queue[2].done
      BY <1>1, <2>1, <2>3
    <3>2. AtStep(3)
      BY <1>1, <2>3, <3>1 DEF AtStep
    <3> QED
      BY <2>3, <3>2
  <2> QED
    BY <1>1, <2>1, <2>2, <2>3
<1>3. ASSUME NEW r \in Requests
      PROVE  Served(r)' => Served(r)
  BY <1>1 DEF Served, Updates, UpdatesFor
<1>4. ASSUME NEW i \in 1..2, i <= Len(queue), i + 1 \in 1..3, AtStep(i + 1), NEW r \in Requests
      PROVE  WorkerAt(i, r)'
  <2>1. WorkerAt(i + 1, r)
    BY <1>1, <1>4 DEF WorkerBook
  <2>2. Position(i, r)' = Position(i + 1, r) /\ StepNumber(i)' = StepNumber(i + 1)
    BY <1>4, UpdatePlaces
  <2>3. Held(Position(i, r), StepNumber(i), r)'
    <3> DEFINE x == Position(i, r)
               now == StepNumber(i)
    <3>1. Held(Position(i + 1, r), StepNumber(i + 1), r)
      BY <2>1 DEF WorkerAt
    <3>2. PICK y, n : y = Position(i + 1, r) /\ n = StepNumber(i + 1)
      OBVIOUS
    <3>3. x' = y /\ now' = n
      BY <2>2, <3>2
    <3> HIDE DEF x, now
    <3>4. Held(y, n, r)
      BY <3>1, <3>2
    <3>5. Held(y, n, r)'
      BY <1>1, <1>3, <3>4 DEF Held, HeldWhole, HeldCompacted, Top, Capacity, Blocks, Threshold
    <3>6. Held(x, now, r)'
      BY <3>3, <3>5
    <3> QED
      BY <3>6 DEF x, now
  <2>4. ASSUME NEW t \in Steps, NEW have, Planned(t, have, r)
        PROVE  Planned(t, have, r)'
    BY <1>1, <1>3, <2>4 DEF Planned, PlannedWhole, PlannedCompacted, RowsFit, Informed,
         Top, Blocks, Threshold, Tokens, Pre, Added, Fires, Sent, Est
  <2>5. ASSUME i <= Len(queue')
        PROVE  Planned(queue[i], Len(row[r]), r)'
    <3>1. i = 1 /\ Len(queue) = 2 /\ queue'[1] = queue[2] /\ queue[2] \in Steps
      BY <1>1, <1>4, <2>5
    <3>2. PICK t \in Steps : t = queue[2]
      BY <3>1
    <3>3. PICK have : have = Len(row[r])
      OBVIOUS
    <3>4. Planned(t, have, r)
      BY <2>1, <3>1, <3>2, <3>3 DEF WorkerAt
    <3>5. Planned(t, have, r)'
      BY <2>4, <3>4
    <3> QED
      BY <1>1, <3>1, <3>2, <3>3, <3>5
  <2>6. ~(i + 1 <= Len(queue'))
    BY <1>1, <1>4
  <2> QED
    BY <2>3, <2>5, <2>6 DEF WorkerAt
<1> QED
  BY <1>2, <1>4 DEF WorkerBook

LEMMA UpdateScheduler ==
  ASSUME Deployment, IInv, NEW s \in Steps, NEW over \in SUBSET Requests, Updates(s, over)
  PROVE  SchedulerBook'
<1>1. /\ Types /\ QueueInOrder /\ EventsTrue /\ SchedulerBook
      /\ s = queue[1] /\ row' = row /\ shift' = shift
      /\ Len(queue) \in {1, 2} /\ DOMAIN queue = 1..Len(queue)
      /\ DOMAIN queue' = 1..(Len(queue) - 1)
      /\ \A i \in DOMAIN queue' : i + 1 \in DOMAIN queue /\ queue'[i] = queue[i + 1]
  BY UpdateQueue DEF IInv, Updates, workerVars
<1>2. ASSUME NEW r \in Requests, status'[r] = "finished"
      PROVE  manager'[r] = <<>>
  <2>1. UpdatesFor(s, over, r)
    BY DEF Updates
  <2>2. CASE r \in over
    BY <2>1, <2>2 DEF UpdatesFor
  <2>3. CASE r \notin over
    <3>1. status[r] = "finished"
      BY <1>2, <2>1, <2>3 DEF UpdatesFor
    <3>2. \A e \in AppliedEvents(s, over) : e.req # r
      BY <3>1 DEF AppliedEvents
    <3> QED
      BY <1>1, <2>1, <2>3, <3>1, <3>2 DEF UpdatesFor, SchedulerBook
  <2> QED
    BY <2>2, <2>3
<1>3. ASSUME NEW r \in Requests, status'[r] # "finished", NoEvent(r)'
      PROVE  SchedulerAt(r)'
  <2>1. UpdatesFor(s, over, r) /\ r \notin over /\ status[r] # "finished"
    BY <1>3 DEF Updates, UpdatesFor
  <2>2. Pending(r)' = Pending(r)
    BY UpdatePending
  <2>3. ASSUME NEW e \in AppliedEvents(s, over), e.req = r
        PROVE  SchedulerAt(r)'
    <3>1. /\ manager'[r] = Reassembled(e) /\ offset'[r] = Anchored(e) /\ lag'[r] = TrackedLag(e)
      BY <2>1, <2>3 DEF UpdatesFor
    <3>2. /\ Reassembled(e) = row[r] \o Pending(r)
          /\ shift[r] < 0 /\ Anchored(e) = -shift[r]
          /\ TrackedLag(e) \in {1 - shift[r], 2 - shift[r]}
      <4>1. r = e.req
        BY <2>3
      <4>2. /\ Reassembled(e) = WorkerList(r)
            /\ shift[r] < 0 /\ Anchored(e) = -shift[r]
            /\ TrackedLag(e) \in {1 - shift[r], 2 - shift[r]}
        BY <4>1, EventApplied
      <4> QED
        BY <4>2 DEF WorkerList
    <3>3. shift[r] # 0
      BY <3>2
    <3> QED
      BY <1>1, <2>2, <3>1, <3>2, <3>3 DEF SchedulerAt
  <2>4. ASSUME \A e \in AppliedEvents(s, over) : e.req # r
        PROVE  SchedulerAt(r)'
    <3>1. /\ manager'[r] = manager[r] /\ offset'[r] = offset[r] /\ lag'[r] = lag[r]
      BY <2>1, <2>4 DEF UpdatesFor
    <3>2. NoEvent(r)
      <4>1. SUFFICES ASSUME NEW i \in DOMAIN queue, NEW e \in queue[i].events, e.req = r
                     PROVE  FALSE
        BY DEF NoEvent
      <4>2. CASE i = 1
        <5>1. e \in s.events
          BY <1>1, <4>1, <4>2
        <5>2. status[r] # "running"
          BY <2>1, <2>4, <4>1, <5>1 DEF AppliedEvents
        <5>3. status[r] = "waiting"
          BY <1>1, <2>1, <5>2 DEF Types
        <5>4. Tokens(s, r) = 1
          BY <1>1, <2>1, <4>1, <4>2, <5>1 DEF EventsTrue, Reported
        <5>5. Tokens(s, r) = 0
          BY <1>1, <4>1, <4>2, <5>3 DEF QueueInOrder, StepShape
        <5> QED
          BY <5>4, <5>5
      <4>3. CASE i = 2
        <5>1. 1 \in DOMAIN queue' /\ queue'[1] = queue[1 + 1]
          BY <1>1, <4>1, <4>3
        <5>2. e \in queue'[1].events
          BY <4>1, <4>3, <5>1
        <5> QED
          BY <1>3, <4>1, <5>1, <5>2 DEF NoEvent
      <4> QED
        BY <1>1, <4>1, <4>2, <4>3
    <3>3. SchedulerAt(r)
      BY <1>1, <2>1, <3>2 DEF SchedulerBook
    <3> QED
      BY <1>1, <2>2, <3>1, <3>3 DEF SchedulerAt
  <2> QED
    BY <2>3, <2>4
<1> QED
  BY <1>2, <1>3 DEF SchedulerBook

LEMMA UpdateEvents ==
  ASSUME Deployment, IInv, NEW s \in Steps, NEW over \in SUBSET Requests, Updates(s, over)
  PROVE  EventsTrue' /\ NeverFatal'
<1>1. /\ Types /\ QueueInOrder /\ EventsTrue /\ s = queue[1] /\ prompt' = prompt
      /\ row' = row /\ shift' = shift /\ lastStep' = lastStep
      /\ Len(queue) \in {1, 2} /\ DOMAIN queue = 1..Len(queue)
      /\ DOMAIN queue' = 1..(Len(queue) - 1)
      /\ \A i \in DOMAIN queue' : i + 1 \in DOMAIN queue /\ queue'[i] = queue[i + 1]
      /\ \A i \in DOMAIN queue : queue[i] \in Steps
  BY UpdateQueue DEF IInv, Updates, workerVars
<1>2. ASSUME NEW i \in DOMAIN queue'
      PROVE  /\ queue'[i].events # {} => queue'[i].done /\ queue'[i].barrier
             /\ \A e \in queue'[i].events :
                  /\ status'[e.req] # "finished" => Reported(queue[i], e)'
                  /\ \A f \in queue'[i].events : e.req = f.req => e = f
  <2>1. i = 1 /\ 1 \in DOMAIN queue /\ 2 \in DOMAIN queue /\ queue'[1] = queue[2] /\ Len(queue) = 2
    BY <1>1
  <2>2. /\ queue[2].events # {} => queue[2].done /\ queue[2].barrier
        /\ \A e \in queue[2].events : \A f \in queue[2].events : e.req = f.req => e = f
    BY <1>1, <2>1 DEF EventsTrue
  <2>3. ASSUME NEW e \in queue[2].events, status'[e.req] # "finished"
        PROVE  Reported(queue[1], e)'
    <3>1. e.req \in Requests
      <4>1. e \in Events
        BY <1>1, <2>1 DEF Steps
      <4> QED
        BY <4>1 DEF Events
    <3>2. status[e.req] # "finished" /\ e.req \notin over /\ UpdatesFor(s, over, e.req)
      BY <2>3, <3>1 DEF Updates, UpdatesFor
    <3>3. Reported(queue[2], e)
      BY <1>1, <2>1, <3>2 DEF EventsTrue
    <3>4. \A f \in AppliedEvents(s, over) : f.req # e.req
      <4>1. SUFFICES ASSUME NEW f \in AppliedEvents(s, over), f.req = e.req PROVE FALSE
        OBVIOUS
      <4>2. f \in s.events
        BY DEF AppliedEvents
      <4>3. Reported(s, f)
        BY <1>1, <2>1, <3>2, <4>1, <4>2 DEF EventsTrue
      <4>4. lastStep[e.req] = s.step /\ lastStep[e.req] = queue[2].step
        BY <3>3, <4>1, <4>3 DEF Reported
      <4>5. s.step + 1 = queue[2].step
        <5>1. s.step + 1 = StepNumber(2)
          BY <1>1, <2>1 DEF QueueInOrder
        <5> QED
          BY <2>1, <5>1 DEF StepNumber
      <4>6. s.step \in Nat
        BY <3>1, StepTypes
      <4> QED
        BY <4>4, <4>5, <4>6
    <3>5. manager'[e.req] = manager[e.req]
      BY <3>2, <3>4 DEF UpdatesFor
    <3>6. Pending(e.req)' = Pending(e.req) /\ Top(e.req)' = Top(e.req)
      BY <1>1, <3>1, UpdatePending DEF Top
    <3> QED
      BY <1>1, <2>1, <3>3, <3>5, <3>6 DEF Reported
  <2>4. \A e \in queue'[1].events : status'[e.req] # "finished" => Reported(queue[1], e)'
    BY <2>1, <2>3
  <2>5. \A e \in queue'[i].events : status'[e.req] # "finished" => Reported(queue[i], e)'
    BY <2>1, <2>4
  <2> QED
    BY <2>1, <2>2, <2>5
<1>3. EventsTrue'
  BY <1>2 DEF EventsTrue
<1>4. NeverFatal'
  <2>1. \A e \in AppliedEvents(s, over) : ~Mismatched(e)
    BY EventApplied
  <2> QED
    BY <2>1 DEF Updates, NeverFatal
<1> QED
  BY <1>3, <1>4

LEMMA UpdateBlocks ==
  ASSUME Deployment, IInv, NEW s \in Steps, NEW over \in SUBSET Requests, Updates(s, over)
  PROVE  BlocksConserved'
<1> DEFINE gone(r) == Range(manager[r]) \ Range(manager'[r])
<1>1. /\ BlocksConserved
      /\ free' = free \cup (UNION {Range(manager[r]) : r \in over})
                      \cup (UNION {Removed(e) : e \in AppliedEvents(s, over)})
  BY DEF IInv, Updates, Returned
<1>2. ASSUME NEW r \in Requests
      PROVE  /\ IsInjective(manager'[r]) /\ Range(manager'[r]) \subseteq Range(manager[r])
             /\ r \in over => gone(r) = Range(manager[r])
             /\ \A e \in AppliedEvents(s, over) : e.req = r => gone(r) = Removed(e)
             /\ r \notin over /\ (\A e \in AppliedEvents(s, over) : e.req # r) => gone(r) = {}
  <2>1. IsInjective(manager'[r]) /\ Range(manager'[r]) \subseteq Range(manager[r])
    BY UpdateLists
  <2>2. UpdatesFor(s, over, r)
    BY DEF Updates
  <2>3. r \in over => gone(r) = Range(manager[r])
    BY <2>2 DEF UpdatesFor, Range
  <2>4. \A e \in AppliedEvents(s, over) : e.req = r => gone(r) = Removed(e)
    BY <2>2 DEF UpdatesFor, Removed
  <2>5. r \notin over /\ (\A e \in AppliedEvents(s, over) : e.req # r) => gone(r) = {}
    BY <2>2 DEF UpdatesFor
  <2> QED
    BY <2>1, <2>3, <2>4, <2>5
<1>3. \A e \in AppliedEvents(s, over) : e.req \in Requests
  BY EventApplied
<1>4. \A b : b \in free' <=> b \in free \/ \E r \in Requests : b \in gone(r)
  <2>1. ASSUME NEW b, b \in free'
        PROVE  b \in free \/ \E r \in Requests : b \in gone(r)
    <3>1. CASE \E r \in over : b \in Range(manager[r])
      BY <1>2, <3>1
    <3>2. CASE \E e \in AppliedEvents(s, over) : b \in Removed(e)
      BY <1>2, <1>3, <3>2
    <3> QED
      BY <1>1, <2>1, <3>1, <3>2
  <2>2. ASSUME NEW b, b \in free PROVE b \in free'
    BY <1>1, <2>2
  <2>3. ASSUME NEW b, NEW r \in Requests, b \in gone(r) PROVE b \in free'
    <3>1. CASE r \in over
      <4>1. b \in Range(manager[r])
        BY <2>3
      <4> QED
        BY <1>1, <3>1, <4>1
    <3>2. CASE \E e \in AppliedEvents(s, over) : e.req = r
      <4>1. PICK e \in AppliedEvents(s, over) : e.req = r
        BY <3>2
      <4>2. b \in Removed(e)
        BY <1>2, <2>3, <4>1
      <4> QED
        BY <1>1, <4>2
    <3>3. CASE r \notin over /\ \A e \in AppliedEvents(s, over) : e.req # r
      BY <1>2, <2>3, <3>3
    <3> QED
      BY <3>1, <3>2, <3>3
  <2> QED
    BY <2>1, <2>2, <2>3
<1>5. \A r \in Requests : Range(manager'[r]) \subseteq Range(manager[r])
  BY <1>2
<1>6. /\ free \cup UNION {Range(manager[r]) : r \in Requests} = 1..NumBlocks
      /\ \A r \in Requests : Range(manager[r]) \cap free = {}
      /\ \A r \in Requests : \A q \in Requests \ {r} : Range(manager[r]) \cap Range(manager[q]) = {}
  BY <1>1 DEF BlocksConserved
<1>7. free' \cup UNION {Range(manager'[r]) : r \in Requests} = 1..NumBlocks
  <2>1. ASSUME NEW b \in free' \cup UNION {Range(manager'[r]) : r \in Requests}
        PROVE  b \in 1..NumBlocks
    <3>1. b \in free \/ \E r \in Requests : b \in Range(manager[r])
      BY <1>4, <1>5, <2>1
    <3> QED
      BY <1>6, <3>1
  <2>2. ASSUME NEW b \in 1..NumBlocks
        PROVE  b \in free' \/ \E r \in Requests : b \in Range(manager'[r])
    <3>1. b \in free \/ \E r \in Requests : b \in Range(manager[r])
      BY <1>6, <2>2
    <3> QED
      BY <1>4, <3>1
  <2> QED
    BY <2>1, <2>2
<1>8. ASSUME NEW r \in Requests
      PROVE  /\ Range(manager'[r]) \cap free' = {}
             /\ \A q \in Requests \ {r} : Range(manager'[r]) \cap Range(manager'[q]) = {}
  <2>1. \A q \in Requests \ {r} : Range(manager'[r]) \cap Range(manager'[q]) = {}
    BY <1>5, <1>6
  <2>2. ASSUME NEW b \in Range(manager'[r]), b \in free'
        PROVE  FALSE
    <3>1. b \in Range(manager[r]) /\ b \notin free
      BY <1>5, <1>6
    <3>2. PICK q \in Requests : b \in gone(q)
      BY <1>4, <2>2, <3>1
    <3>3. q = r
      BY <1>6, <3>1, <3>2
    <3> QED
      BY <2>2, <3>2, <3>3
  <2> QED
    BY <2>1, <2>2
<1> QED
  BY <1>2, <1>7, <1>8 DEF BlocksConserved

(* A request whose step is done holds blocks.                              *)
LEMMA UpdateHolds ==
  ASSUME Deployment, IInv, NEW s \in Steps, NEW over \in SUBSET Requests, Updates(s, over),
         NEW r \in Requests, Tokens(s, r) > 0, status[r] # "finished"
  PROVE  row[r] # <<>>
<1>1. /\ Types /\ QueueInOrder /\ WorkerBook /\ s = queue[1] /\ s.done
      /\ Len(queue) \in {1, 2} /\ DOMAIN queue = 1..Len(queue)
      /\ \A i \in DOMAIN queue : queue[i] \in Steps
  BY UpdateQueue DEF IInv, Updates
<1>2. PICK i \in 1..3 : i <= Len(queue) + 1 /\ AtStep(i)
  BY <1>1, WorkerStands
<1>3. Held(Position(i, r), StepNumber(i), r) /\ Served(r)
  BY <1>1, <1>2 DEF WorkerBook, WorkerAt, Served
<1>4. Position(i, r) \in Nat /\ Position(i, r) > 0
  <2>1. 1 \in DOMAIN queue /\ Pre(s, r) + Tokens(s, r) = Position(2, r)
    BY <1>1 DEF QueueInOrder
  <2>2. Position(2, r) > 0 /\ Position(2, r) \in Nat
    BY <2>1, StepTypes
  <2>3. CASE i = 1
    BY <1>1, <1>2, <2>3 DEF AtStep
  <2>4. CASE i = 2
    BY <2>2, <2>4
  <2>5. CASE i = 3
    <3>1. Len(queue) = 2 /\ 2 \in DOMAIN queue
      BY <1>1, <1>2, <2>5
    <3>2. /\ Pre(queue[2], r) + Tokens(queue[2], r) = Position(3, r)
          /\ Pre(queue[2], r) = Position(2, r)
      BY <1>1, <3>1 DEF QueueInOrder, Position
    <3>3. queue[2] \in Steps
      BY <1>1, <3>1
    <3>4. Pre(queue[2], r) \in Nat /\ Tokens(queue[2], r) \in Nat
      BY <3>3, StepTypes
    <3> QED
      BY <2>2, <2>5, <3>2, <3>4
  <2> QED
    BY <1>2, <2>3, <2>4, <2>5
<1>5. /\ Len(row[r]) \in Nat /\ Capacity(r) = Len(row[r]) * BlockSize
      /\ shift[r] \in Int /\ shift[r] <= 0
  BY <1>1, <1>3, RequestLists, RequestTypes DEF Capacity, Held
<1>6. CASE shift[r] = 0
  <2>1. Len(row[r]) = Blocks(Position(i, r))
    BY <1>3, <1>6 DEF Held, HeldWhole
  <2>2. Len(row[r]) # 0
    BY <1>4, <2>1, BlocksGrow
  <2> QED
    BY <2>2, LongNotEmpty
<1>7. CASE shift[r] < 0
  <2>1. KvBudget <= Capacity(r) /\ prompt[r] <= Top(r)
    BY <1>3, <1>7 DEF Held, HeldCompacted
  <2>2. prompt[r] \in Nat /\ 1 <= prompt[r]
    BY <1>1, RequestTypes
  <2>3. Top(r) <= KvBudget /\ Top(r) \in Int
    BY <2>2, ConstantTypes DEF Top, Lesser
  <2>4. KvBudget > 0
    BY <2>1, <2>2, <2>3, ConstantTypes
  <2>5. Len(row[r]) # 0
    <3>1. 0 * BlockSize = 0
      BY ConstantTypes
    <3> QED
      BY <1>5, <2>1, <2>4, <3>1, ConstantTypes
  <2> QED
    BY <2>5, LongNotEmpty
<1> QED
  BY <1>5, <1>6, <1>7

LEMMA UpdateEnded ==
  ASSUME Deployment, IInv, NEW s \in Steps, NEW over \in SUBSET Requests, Updates(s, over)
  PROVE  EndedIdle'
<1>1. /\ Types /\ EndedIdle /\ ended' = ended \cup over
      /\ Len(queue) \in {1, 2} /\ DOMAIN queue = 1..Len(queue) /\ Len(queue') = Len(queue) - 1
      /\ DOMAIN queue' = 1..(Len(queue) - 1)
      /\ \A i \in DOMAIN queue' : i + 1 \in DOMAIN queue /\ queue'[i] = queue[i + 1]
      /\ \A i \in DOMAIN queue : queue[i] \in Steps
      /\ UNCHANGED <<nct, row, kv, shift, lastStep>>
  BY UpdateQueue DEF IInv, Updates, workerVars
<1>2. ASSUME NEW r \in Requests
      PROVE  /\ status[r] = "finished" \/ r \in over => status'[r] = "finished"
             /\ status'[r] = "waiting" => status[r] = "waiting"
             /\ status'[r] = "finished" => status[r] = "finished" \/ r \in over
  BY DEF Updates, UpdatesFor
<1>3. \A r \in ended' : status'[r] = "finished"
  BY <1>1, <1>2 DEF EndedIdle, Types
<1>4. ASSUME NEW i \in DOMAIN queue', NEW r \in queue'[i].ended
      PROVE  /\ status'[r] = "finished"
             /\ \A k \in i..Len(queue') : Tokens(queue'[k], r) = 0
  <2>1. /\ i = 1 /\ Len(queue) = 2 /\ Len(queue') = 1
        /\ 2 \in DOMAIN queue /\ queue'[1] = queue[2]
    BY <1>1
  <2>2. r \in queue[2].ended /\ r \in Requests
    <3>1. queue[2].ended \subseteq Requests
      BY <1>1, <2>1 DEF Steps
    <3> QED
      BY <1>4, <2>1, <3>1
  <2>3. status[r] = "finished" /\ Tokens(queue[2], r) = 0
    <3>1. 2 \in 2..Len(queue)
      BY <2>1
    <3> QED
      BY <1>1, <2>1, <2>2, <3>1 DEF EndedIdle
  <2>4. \A k \in i..Len(queue') : k = 1
    BY <2>1
  <2> QED
    BY <1>2, <2>1, <2>2, <2>3, <2>4
<1>5. ASSUME NEW r \in Requests
      PROVE  /\ status'[r] = "waiting" => nct'[r] = 0 /\ shift'[r] = 0
             /\ ~Served(r)' =>
                  /\ kv'[r] = 0 /\ shift'[r] = 0 /\ lastStep'[r] = -1
                  /\ \A i \in DOMAIN queue' : ~queue'[i].done => Tokens(queue'[i], r) = 0
  <2>1. status'[r] = "waiting" => nct'[r] = 0 /\ shift'[r] = 0
    BY <1>1, <1>2 DEF EndedIdle
  <2>2. ASSUME ~Served(r)'
        PROVE  ~Served(r)
    <3>1. row[r] = <<>> /\ (status[r] = "finished" \/ r \in over)
      BY <1>1, <1>2, <2>2 DEF Served
    <3>2. r \notin over
      <4>1. r \in over => status[r] = "running" /\ Tokens(s, r) > 0
        BY DEF Updates, UpdatesFor
      <4> QED
        BY <3>1, <4>1, UpdateHolds
    <3> QED
      BY <3>1, <3>2 DEF Served
  <2>3. ~Served(r)' =>
          /\ kv'[r] = 0 /\ shift'[r] = 0 /\ lastStep'[r] = -1
          /\ \A i \in DOMAIN queue' : ~queue'[i].done => Tokens(queue'[i], r) = 0
    BY <1>1, <2>2 DEF EndedIdle
  <2> QED
    BY <2>1, <2>3
<1> QED
  BY <1>3, <1>4, <1>5 DEF EndedIdle

LEMMA UpdateKeeps ==
  ASSUME Deployment, IInv, Update
  PROVE  IInv'
<1>1. PICK s \in Steps : \E over \in SUBSET Requests : Updates(s, over)
  BY UpdateStep
<1>2. PICK over \in SUBSET Requests : Updates(s, over)
  BY <1>1
<1>3. Types' /\ QueueInOrder' /\ EndedIdle'
  BY <1>2, UpdateTypes, UpdateOrder, UpdateEnded
<1>4. WorkerBook' /\ SchedulerBook' /\ EventsTrue' /\ NeverFatal' /\ BlocksConserved'
  BY <1>2, UpdateWorker, UpdateScheduler, UpdateEvents, UpdateBlocks
<1> QED
  BY <1>3, <1>4 DEF IInv

-----------------------------------------------------------------------------
(* The invariant holds from the start, in every state.                      *)

LEMMA InitHolds ==
  ASSUME Deployment, Init
  PROVE  IInv
<1>1. /\ queue = <<>> /\ Len(queue) = 0 /\ DOMAIN queue = {} /\ ended = {} /\ step = 0
      /\ \A r \in Requests :
           /\ prompt[r] \in PromptLengths /\ status[r] = "waiting" /\ nct[r] = 0
           /\ manager[r] = <<>> /\ offset[r] = 0 /\ lag[r] = NoLag /\ row[r] = <<>>
           /\ seen[r] = 0 /\ lastStep[r] = -1 /\ shift[r] = 0 /\ kv[r] = 0
  BY DEF Init
<1>2. Types
  <2>1. queue \in Seq(Steps) /\ <<>> \in Blocklists
    BY <1>1, EmptySeq DEF Blocklists
  <2>2. 0 \in 0..MaxLength
    BY ConstantTypes
  <2> HIDE DEF Blocklists, Steps
  <2> QED
    BY <2>1, <2>2 DEF Init, Types
<1>3. QueueInOrder
  BY <1>1, ConstantTypes DEF QueueInOrder
<1>4. EndedIdle
  BY <1>1 DEF EndedIdle, Served
<1>5. WorkerBook
  <2>1. ASSUME NEW i \in 1..3, AtStep(i)
        PROVE  i = 1 /\ ~(i <= Len(queue)) /\ ~(i + 1 <= Len(queue))
    BY <1>1, <2>1 DEF AtStep
  <2>2. ASSUME NEW r \in Requests
        PROVE  Held(0, 1, r)
    <3>1. prompt[r] \in Nat /\ 1 <= prompt[r]
      BY <1>2, RequestTypes
    <3>2. Len(row[r]) = Blocks(0)
      <4>1. Len(row[r]) = 0 /\ 0 \in Nat
        BY <1>1
      <4>2. Blocks(0) = 0
        BY <4>1, BlocksGrow
      <4> QED
        BY <4>1, <4>2
    <3>3. 0 <= Threshold - 2
      BY ConstantBounds, ConstantTypes
    <3> QED
      BY <1>1, <3>1, <3>2, <3>3 DEF Held, HeldWhole
  <2>3. \A r \in Requests : Position(1, r) = 0 /\ StepNumber(1) = 1
    BY <1>1 DEF Position, StepNumber
  <2> QED
    BY <2>1, <2>2, <2>3 DEF WorkerBook, WorkerAt
<1>6. SchedulerBook
  <2>1. ASSUME NEW r \in Requests
        PROVE  manager[r] = row[r] \o Pending(r)
    <3>1. Outstanding(1, r) = <<>> /\ Outstanding(2, r) = <<>>
      BY <1>1 DEF Outstanding
    <3>2. <<>> \o <<>> = <<>>
      OBVIOUS
    <3> QED
      BY <1>1, <3>1, <3>2 DEF Pending
  <2> QED
    BY <1>1, <2>1 DEF SchedulerBook, SchedulerAt
<1>7. EventsTrue
  BY <1>1 DEF EventsTrue
<1>8. BlocksConserved
  <2>1. \A r \in Requests : Range(manager[r]) = {} /\ IsInjective(manager[r])
    BY <1>1 DEF Range, IsInjective
  <2>2. free = 1..NumBlocks
    BY DEF Init
  <2> QED
    BY <2>1, <2>2 DEF BlocksConserved
<1>9. NeverFatal
  BY DEF Init, NeverFatal
<1> QED
  BY <1>2, <1>3, <1>4, <1>5, <1>6, <1>7, <1>8, <1>9 DEF IInv

LEMMA NothingHappens ==
  ASSUME IInv, UNCHANGED vars
  PROVE  IInv'
<1>1. /\ UNCHANGED <<prompt, status, nct, manager, free, offset, lag, step, ended, queue>>
      /\ UNCHANGED <<row, seen, curLen, lastStep, shift, kv, error>>
  BY DEF vars, schedulerVars, workerVars
<1>2. Types' /\ QueueInOrder'
  BY <1>1 DEF IInv, Types, QueueInOrder, StepShape, Position, StepNumber, Blocklists, Steps,
     Events, Signals, Pre, Tokens, Added, Sent, Fires, Est, Asked
<1>3. EndedIdle'
  BY <1>1 DEF IInv, EndedIdle, Served, Tokens
<1>4. BlocksConserved' /\ NeverFatal'
  BY <1>1 DEF IInv, BlocksConserved, NeverFatal
<1>5. \A r : Pending(r)' = Pending(r)
  BY <1>1 DEF Pending, Outstanding, Added
<1>6. SchedulerBook'
  BY <1>1, <1>5 DEF IInv, SchedulerBook, SchedulerAt, NoEvent
<1>7. EventsTrue'
  <2>1. ASSUME NEW i \in DOMAIN queue, NEW e \in queue[i].events, status[e.req] # "finished"
        PROVE  Reported(queue[i], e)'
    <3>1. Reported(queue[i], e)
      BY <2>1 DEF IInv, EventsTrue
    <3>2. PICK s : s = queue[i]
      OBVIOUS
    <3>3. PICK r : r = e.req
      OBVIOUS
    <3>4. /\ queue[i]' = s /\ Pending(r)' = Pending(r) /\ Top(r)' = Top(r)
          /\ manager[r]' = manager[r] /\ row[r]' = row[r] /\ shift[r]' = shift[r]
          /\ lastStep[r]' = lastStep[r]
      BY <1>1, <1>5, <3>2 DEF Top
    <3>5. Reported(s, e)
      BY <3>1, <3>2
    <3>6. Reported(s, e)'
      BY <3>3, <3>4, <3>5, Zenon DEF Reported, Pre, Tokens
    <3> QED
      BY <3>2, <3>4, <3>6, Zenon DEF Reported
  <2> QED
    BY <1>1, <2>1 DEF IInv, EventsTrue
<1>8. WorkerBook'
  <2>1. ASSUME NEW i \in 1..3, AtStep(i)', NEW r \in Requests
        PROVE  WorkerAt(i, r)'
    <3>1. WorkerAt(i, r)
      BY <1>1, <2>1 DEF IInv, WorkerBook, AtStep
    <3>2. /\ Served(r)' = Served(r) /\ Top(r)' = Top(r) /\ Capacity(r)' = Capacity(r)
          /\ Position(i, r)' = Position(i, r) /\ StepNumber(i)' = StepNumber(i)
      BY <1>1 DEF Served, Top, Capacity, Position, StepNumber, Pre
    <3>3. ASSUME NEW x, NEW now, Held(x, now, r)
          PROVE  Held(x, now, r)'
      BY <1>1, <3>2, <3>3 DEF Held, HeldWhole, HeldCompacted
    <3>4. Held(Position(i, r), StepNumber(i), r)'
      <4>1. PICK y, n : y = Position(i, r) /\ n = StepNumber(i)
        OBVIOUS
      <4>2. y = Position(i, r)' /\ n = StepNumber(i)'
        BY <3>2, <4>1
      <4>3. Held(y, n, r)
        BY <3>1, <4>1 DEF WorkerAt
      <4>4. Held(y, n, r)'
        BY <3>3, <4>3
      <4> QED
        BY <4>2, <4>4
    <3>5. ASSUME NEW s, NEW have, Planned(s, have, r)
          PROVE  Planned(s, have, r)'
      BY <1>1, <3>2, <3>5 DEF Planned, PlannedWhole, PlannedCompacted, RowsFit, Informed,
         Pre, Tokens, Added, Sent, Fires, Est
    <3>6. PICK s, t, n : s = queue[i] /\ t = queue[i + 1] /\ n = Len(row[r])
      OBVIOUS
    <3>7. PICK l, m : l = Len(queue) /\ m = n + Len(Added(s, r))
      OBVIOUS
    <3>8. /\ s = queue[i]' /\ t = queue[i + 1]' /\ n = Len(row[r])' /\ l = Len(queue)'
          /\ m = n + Len(Added(s, r))'
      BY <1>1, <3>6, <3>7 DEF Added
    <3>9. (i <= l => Planned(s, n, r)) /\ (i + 1 <= l => Planned(t, m, r))
      BY <3>1, <3>6, <3>7 DEF WorkerAt
    <3>10. (i <= l => Planned(s, n, r)') /\ (i + 1 <= l => Planned(t, m, r)')
      BY <3>5, <3>9
    <3> QED
      BY <3>4, <3>6, <3>7, <3>8, <3>10 DEF WorkerAt
  <2> QED
    BY <2>1 DEF WorkerBook
<1> QED
  BY <1>2, <1>3, <1>4, <1>6, <1>7, <1>8 DEF IInv

LEMMA NextKeeps ==
  ASSUME Deployment, IInv, [Next]_vars
  PROVE  IInv'
BY ScheduleKeeps, ExecuteKeeps, UpdateKeeps, NothingHappens DEF Next

-----------------------------------------------------------------------------
(* What the invariant says of the two books.                                *)

(* What the worker holds, where it stands.                                  *)
LEMMA WorkerHolds ==
  ASSUME Deployment, IInv, NEW r \in Requests
  PROVE  \E x, now \in Nat : /\ Held(x, now, r) /\ x <= nct[r] /\ now <= step + 1
                             /\ queue = <<>> => x = nct[r]
<1>1. Types /\ QueueInOrder /\ WorkerBook
  BY DEF IInv
<1>2. PICK i \in 1..3 : i <= Len(queue) + 1 /\ AtStep(i)
  BY <1>1, WorkerStands
<1>3. /\ Position(i, r) \in Nat /\ Position(i, r) <= nct[r]
      /\ StepNumber(i) \in Nat /\ StepNumber(i) <= step + 1
  BY <1>1, <1>2, PositionsGrow
<1>4. Held(Position(i, r), StepNumber(i), r)
  BY <1>1, <1>2 DEF WorkerBook, WorkerAt
<1>5. queue = <<>> => Position(i, r) = nct[r]
  BY <1>2 DEF Position
<1> QED
  BY <1>3, <1>4, <1>5

(* The worker's blocks are the scheduler's.                                 *)
LEMMA RowOwned ==
  ASSUME Deployment, IInv, NEW r \in Requests, status[r] # "finished"
  PROVE  Range(row[r]) \subseteq Range(manager[r])
<1>1. /\ Types /\ QueueInOrder /\ SchedulerBook /\ EventsTrue /\ BlocksConserved
      /\ \A i \in DOMAIN queue : queue[i] \in Steps
  BY QueueFacts DEF IInv
<1>2. /\ row[r] \in Seq(1..NumBlocks) /\ Pending(r) \in Seq(1..NumBlocks)
      /\ manager[r] \in Seq(1..NumBlocks) /\ IsInjective(manager[r])
  BY <1>1, RequestLists, PendingTypes DEF Blocklists, BlocksConserved
<1>3. Range(row[r]) \subseteq Range(WorkerList(r))
  <2> DEFINE u == row[r]
             v == Pending(r)
             S == 1..NumBlocks
  <2>1. u \in Seq(S) /\ v \in Seq(S)
    BY <1>2
  <2> HIDE DEF u, v, S
  <2>2. Range(u \o v) = Range(u) \cup Range(v)
    BY <2>1, RangeConcatenation
  <2> QED
    BY <2>2 DEF WorkerList, u, v
<1>4. CASE NoEvent(r)
  <2>1. manager[r] = WorkerList(r)
    BY <1>1, <1>4 DEF SchedulerBook, SchedulerAt, WorkerList
  <2> QED
    BY <1>3, <2>1
<1>5. CASE ~NoEvent(r)
  <2>1. PICK i \in DOMAIN queue : \E e \in queue[i].events : e.req = r
    BY <1>5 DEF NoEvent
  <2>2. PICK e \in queue[i].events : e.req = r
    BY <2>1
  <2>3. Reported(queue[i], e) /\ e \in Events
    BY <1>1, <2>2 DEF EventsTrue, Steps
  <2> DEFINE m == manager[r]
             a == Len(e.after)
             b == e.before
             cut == SubSeq(m, 1, a) \o SubSeq(m, b + 1, Len(m))
  <2>4. cut = WorkerList(r) /\ a < b /\ b <= Len(m)
    BY <2>2, <2>3 DEF Reported, WorkerList
  <2>5. a \in Nat /\ b \in Nat
    <3>1. e.after \in Seq(1..NumBlocks) /\ b \in Nat
      BY <2>3 DEF Events, Blocklists
    <3> QED
      BY <3>1, LenProperties
  <2>6. Range(cut) \subseteq Range(m)
    <3> DEFINE S == 1..NumBlocks
    <3>1. m \in Seq(S) /\ IsInjective(m) /\ a \in Nat /\ b \in Nat /\ a < b /\ b <= Len(m)
      BY <1>2, <2>4, <2>5
    <3> HIDE DEF S, m, a, b
    <3> QED
      BY <3>1, CutOut
  <2> QED
    BY <1>3, <2>4, <2>6
<1> QED
  BY <1>4, <1>5

LEMMA TypesSafe ==
  ASSUME Deployment, IInv
  PROVE  TypeOK
<1>1. Types /\ EndedIdle /\ QueueInOrder
  BY DEF IInv
<1>2. ASSUME NEW r \in Requests
      PROVE  kv[r] \in 0..MaxLength /\ lastStep[r] \in -1..step
  <2>1. PICK x, now \in Nat : Held(x, now, r) /\ x <= nct[r] /\ now <= step + 1
    BY WorkerHolds
  <2>2. /\ nct[r] \in Nat /\ nct[r] <= MaxLength /\ kv[r] \in Int /\ lastStep[r] \in Int
        /\ shift[r] \in Int /\ step \in Nat /\ prompt[r] \in Nat /\ MaxLength \in Nat
    BY <1>1, RequestTypes, ConstantTypes
  <2>3. ~Served(r) => kv[r] = 0 /\ lastStep[r] = -1
    BY <1>1 DEF EndedIdle
  <2>4. shift[r] <= 0
    BY <2>1 DEF Held
  <2>5. CASE shift[r] = 0
    <3>1. HeldWhole(x, r)
      BY <2>1, <2>5 DEF Held
    <3>2. lastStep[r] = -1 /\ (Served(r) => kv[r] = x)
      BY <3>1 DEF HeldWhole
    <3> QED
      BY <2>1, <2>2, <2>3, <3>2
  <2>6. CASE shift[r] < 0
    <3>1. HeldCompacted(x, now, r)
      BY <2>1, <2>6 DEF Held
    <3>2. /\ kv[r] = x + shift[r] /\ kv[r] > Top(r) /\ prompt[r] <= Top(r)
          /\ lastStep[r] >= 0 /\ lastStep[r] < now
      BY <3>1 DEF HeldCompacted
    <3>3. Top(r) \in Int
      BY <2>2, ConstantTypes DEF Top, Lesser
    <3> QED
      BY <2>1, <2>2, <2>6, <3>2, <3>3
  <2> QED
    BY <2>2, <2>4, <2>5, <2>6
<1>3. ASSUME NEW r \in Requests
      PROVE  /\ prompt[r] \in PromptLengths
             /\ nct[r] \in 0..MaxLength /\ seen[r] \in 0..MaxLength
             /\ offset[r] \in Nat /\ lag[r] \in Nat \cup {NoLag}
             /\ Range(manager[r]) \subseteq 1..NumBlocks /\ Range(row[r]) \subseteq 1..NumBlocks
  <2>1. manager[r] \in Seq(1..NumBlocks) /\ row[r] \in Seq(1..NumBlocks)
    BY <1>1, RequestLists DEF Blocklists
  <2>2. Range(manager[r]) \subseteq 1..NumBlocks /\ Range(row[r]) \subseteq 1..NumBlocks
    <3> DEFINE S == 1..NumBlocks
    <3>1. manager[r] \in Seq(S) /\ row[r] \in Seq(S)
      BY <2>1
    <3> HIDE DEF S
    <3>2. Range(manager[r]) \in SUBSET S /\ Range(row[r]) \in SUBSET S
      BY <3>1, RangeOfSeq
    <3> QED
      BY <3>2 DEF S
  <2> QED
    BY <1>1, <2>2 DEF Types
<1>4. free \subseteq 1..NumBlocks /\ ended \subseteq Requests /\ Len(queue) <= Lookahead
  BY <1>1 DEF Types, QueueInOrder
<1> QED
  BY <1>2, <1>3, <1>4 DEF TypeOK

LEMMA BlocksAreSafe ==
  ASSUME Deployment, IInv
  PROVE  BlocksSafe
<1>1. BlocksConserved
  BY DEF IInv
<1>2. \A r \in Requests : Live(r) => Range(row[r]) \subseteq Range(manager[r])
  BY RowOwned DEF Live
<1>3. NoUseAfterFree
  BY <1>1, <1>2 DEF NoUseAfterFree, BlocksConserved
<1> QED
  BY <1>1, <1>3, TypesSafe DEF BlocksSafe

LEMMA BooksDoAgree ==
  ASSUME Deployment, IInv
  PROVE  BooksAgree
<1>1. Types /\ QueueInOrder /\ SchedulerBook /\ NeverFatal
  BY DEF IInv
<1>2. ASSUME NEW r \in Requests, Live(r), queue = <<>>
      PROVE  manager[r] = row[r] /\ SchedulerAt(r)
  <2>1. DOMAIN queue = {}
    BY <1>2
  <2>2. NoEvent(r)
    BY <2>1 DEF NoEvent
  <2>3. SchedulerAt(r)
    BY <1>1, <1>2, <2>2 DEF SchedulerBook, Live
  <2>4. Outstanding(1, r) = <<>> /\ Outstanding(2, r) = <<>>
    BY <2>1 DEF Outstanding
  <2>5. row[r] \in Blocklists /\ <<>> \in Blocklists
        /\ \A a \in Blocklists : a \o <<>> = a /\ <<>> \o a = a
    BY <1>1, RequestLists, PendingTypes
  <2>6. Pending(r) = <<>>
    BY <2>4, <2>5 DEF Pending
  <2> QED
    BY <2>3, <2>5, <2>6 DEF SchedulerAt
<1>3. ASSUME NEW r \in Requests, Compressed(r)
      PROVE  /\ kv[r] = SequenceLength(r)
             /\ queue = <<>> => kv[r] = nct[r] + shift[r]
  <2>1. PICK x, now \in Nat : Held(x, now, r) /\ (queue = <<>> => x = nct[r])
    BY WorkerHolds
  <2>2. HeldCompacted(x, now, r) /\ x > prompt[r] /\ seen[r] = x - 1
    BY <1>3, <2>1 DEF Held, HeldCompacted, Compressed
  <2>3. kv[r] = x + shift[r]
    BY <2>2 DEF HeldCompacted
  <2>4. shift[r] \in Int
    BY <1>1, RequestTypes
  <2> QED
    BY <2>1, <2>2, <2>3, <2>4 DEF SequenceLength, SlotPosition
<1>4. ASSUME NEW r \in Requests, Live(r), Compressed(r), queue = <<>>
      PROVE  Effective(r) = kv[r]
  <2>1. offset[r] = -shift[r] /\ shift[r] < 0
    BY <1>2, <1>4 DEF SchedulerAt, Compressed
  <2>2. nct[r] + shift[r] > 0 /\ nct[r] \in Nat /\ shift[r] \in Int
    BY <1>1, <2>1, CompactedAhead, RequestTypes
  <2>3. OffsetUsable(r)
    BY <2>1, <2>2 DEF OffsetUsable
  <2> QED
    BY <1>3, <1>4, <2>1, <2>2, <2>3 DEF Effective
<1>5. DrainedBooksAgree /\ OffsetExact /\ SlotsExact
  BY <1>2, <1>3, <1>4 DEF DrainedBooksAgree, OffsetExact, SlotsExact
<1> QED
  BY <1>1, <1>5 DEF BooksAgree

LEMMA CacheIsBounded ==
  ASSUME Deployment, IInv
  PROVE  CacheBounded
<1>1. Types
  BY DEF IInv
<1>2. ASSUME NEW r \in Requests, Live(r), prompt[r] <= KvBudget
      PROVE  kv[r] <= Threshold + Lookahead
  <2>1. PICK x, now \in Nat : Held(x, now, r)
    BY WorkerHolds
  <2>2. kv[r] \in Int /\ shift[r] \in Int /\ Threshold \in Nat /\ Lookahead \in Nat
    BY <1>1, RequestTypes, ConstantTypes, ConstantBounds
  <2>3. kv[r] <= Threshold
    <3>1. CASE shift[r] = 0
      <4>1. kv[r] = x /\ x <= Threshold - 2
        BY <1>2, <2>1, <3>1 DEF Held, HeldWhole, Served, Live
      <4> QED
        BY <2>2, <4>1
    <3>2. CASE shift[r] < 0
      BY <2>1, <3>2 DEF Held, HeldCompacted
    <3> QED
      BY <2>1, <2>2, <3>1, <3>2 DEF Held
  <2> QED
    BY <2>2, <2>3
<1> QED
  BY <1>2 DEF CacheBounded

LEMMA RowsAreReached ==
  ASSUME Deployment, Grace >= 1, ReserveCap >= 2, IInv
  PROVE  NoOrphanWithReserve
<1>1. Types
  BY DEF IInv
<1>2. ASSUME NEW r \in Requests, KeepsReserve(r), Compressed(r)
      PROVE  SlotPosition(r) \div BlockSize < Len(row[r])
  <2>1. PICK x, now \in Nat : Held(x, now, r)
    BY WorkerHolds
  <2>2. HeldCompacted(x, now, r) /\ x > prompt[r] /\ seen[r] = x - 1
    BY <1>2, <2>1 DEF Held, HeldCompacted, Compressed
  <2>3. /\ kv[r] = x + shift[r] /\ kv[r] > Top(r) /\ prompt[r] <= Top(r)
        /\ KvBudget <= Capacity(r) /\ (kv[r] <= Capacity(r) \/ kv[r] <= Top(r) + 2)
    BY <2>2 DEF HeldCompacted
  <2>4. /\ prompt[r] \in Nat /\ 1 <= prompt[r] /\ shift[r] \in Int /\ kv[r] \in Int
        /\ Capacity(r) \in Nat
        /\ KvBudget \in Nat /\ Len(row[r]) \in Nat /\ Capacity(r) = Len(row[r]) * BlockSize
    BY <1>1, RequestTypes, RequestLists, ConstantTypes DEF Capacity
  <2>5. Top(r) \in Int /\ Top(r) + 2 <= KvBudget
    <3> DEFINE wish == Lesser(1 + Grace, ReserveCap)
    <3>1. wish \in Nat /\ wish >= 2
      BY ConstantTypes DEF Lesser
    <3>2. Top(r) = IF KvBudget - wish < prompt[r] THEN KvBudget ELSE KvBudget - wish
      BY DEF Top
    <3>3. prompt[r] \notin (KvBudget - wish + 1)..KvBudget
      BY <1>2 DEF KeepsReserve
    <3> HIDE DEF wish
    <3>4. Top(r) = KvBudget - wish
      BY <2>3, <2>4, <3>1, <3>2, <3>3
    <3> QED
      BY <2>4, <3>1, <3>4
  <2>6. kv[r] <= Capacity(r)
    BY <2>3, <2>4, <2>5
  <2> DEFINE slot == SlotPosition(r)
             n == Len(row[r])
             q == slot \div BlockSize
  <2>7. slot \in Nat /\ slot < n * BlockSize
    <3>1. slot = kv[r] - 1
      BY <2>1, <2>2, <2>3, <2>4 DEF SlotPosition
    <3>2. PICK k, c, top : k = kv[r] /\ c = Capacity(r) /\ top = Top(r)
      OBVIOUS
    <3>3. /\ k \in Int /\ c \in Nat /\ top \in Int /\ prompt[r] \in Nat /\ 1 <= prompt[r]
          /\ k > top /\ prompt[r] <= top /\ k <= c
      BY <2>3, <2>4, <2>5, <2>6, <3>2
    <3>4. k - 1 \in Nat /\ k - 1 < c
      BY <3>3
    <3>5. c = n * BlockSize
      BY <2>4, <3>2
    <3>6. slot = k - 1
      BY <3>1, <3>2
    <3> HIDE DEF slot, n
    <3> QED
      BY <3>4, <3>5, <3>6
  <2> HIDE DEF slot
  <2>8. q \in Nat /\ q * BlockSize <= slot
    BY <2>7, Division, ConstantTypes
  <2> HIDE DEF q, n
  <2>9. n \in Nat
    BY <2>4 DEF n
  <2>10. /\ q * BlockSize \in Nat /\ n * BlockSize \in Nat
         /\ n <= q => n * BlockSize <= q * BlockSize
    BY <2>8, <2>9, Products
  <2>11. q < n
    BY <2>7, <2>8, <2>9, <2>10
  <2> QED
    BY <2>11 DEF q, n, slot
<1> QED
  BY <1>2 DEF NoOrphanWithReserve, Reachable

-----------------------------------------------------------------------------
(* The theorems.                                                           *)

LEMMA IsInvariant ==
  ASSUME Deployment
  PROVE  Spec => []IInv
<1>1. Init => IInv
  BY InitHolds
<1>2. IInv /\ [Next]_vars => IInv'
  BY NextKeeps
<1> QED
  BY <1>1, <1>2, PTL DEF Spec

(* _apply_compression_events frees only blocks the worker has let go: no    *)
(* block that a live row names is free or another live row's, and the pool  *)
(* and the scheduler's lists partition the blocks, with two steps in flight. *)
THEOREM BlocksStaySafe ==
  ASSUME Deployment
  PROVE  Spec => []BlocksSafe
<1>1. IInv => BlocksSafe
  BY BlocksAreSafe
<1> QED
  BY <1>1, IsInvariant, PTL

(* Whenever nothing is in flight, the scheduler's list is the worker's row  *)
(* and its anchored offset gives the worker's compacted length; every       *)
(* decoded token gets the next free row; neither the reclaim checks nor the *)
(* regression guard ever raises.                                            *)
THEOREM BooksStayAgree ==
  ASSUME Deployment
  PROVE  Spec => []BooksAgree
<1>1. IInv => BooksAgree
  BY BooksDoAgree
<1> QED
  BY <1>1, IsInvariant, PTL

(* The cache of a request whose prompt fits the budget stays within the     *)
(* budget, one cadence and the lookahead: no deferred, deduplicated or late *)
(* round lets it grow.                                                      *)
THEOREM CacheStaysBounded ==
  ASSUME Deployment
  PROVE  Spec => []CacheBounded
<1>1. IInv => CacheBounded
  BY CacheIsBounded
<1> QED
  BY <1>1, IsInvariant, PTL

(* With a grace of at least one token and blocks of at least three (three   *)
(* and sixteen as shipped), every token of a request that keeps its         *)
(* boundary reserve is written inside the request's own row: the async      *)
(* boundary orphan of hook_runtime_context.py cannot happen.                *)
THEOREM RowsStayReached ==
  ASSUME Deployment, Grace >= 1, ReserveCap >= 2
  PROVE  Spec => []NoOrphanWithReserve
<1>1. IInv => NoOrphanWithReserve
  BY RowsAreReached
<1> QED
  BY <1>1, IsInvariant, PTL
=============================================================================
