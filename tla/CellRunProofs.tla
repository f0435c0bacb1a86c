--------------------------- MODULE CellRunProofs ---------------------------
(***************************************************************************)
(* Theorems about CellRun with more than one GPU rank, for every number of *)
(* problems, shards, workers, member runs and crashes, torn writes         *)
(* included: how far the lines of a shard's files can drift apart, and why *)
(* a file that counts as full is aligned.                                  *)
(***************************************************************************)
EXTENDS CellRun, TLAPS

WorkPlaces == {"generate", "open", "close", "append"}

(* Past its start-up.                                                      *)
Working(s) == proc[s].pc \in WorkPlaces

(* The leader's line of the current problem is written and member m's is   *)
(* not.                                                                    *)
Due(f, m) ==
  \E s \in Shards : Working(s) /\ File(s) = f /\ proc[s].j # Leader /\ m >= proc[s].j

Lag(f, m) == Held(f, m) + (IF Due(f, m) THEN 1 ELSE 0)

-----------------------------------------------------------------------------
(* The inductive invariant, part by part.                                  *)

Lengths == Seq(Int)
InfoStates == {Missing, Torn} \cup {Whole(e) : e \in Lengths}
Processes ==
  {Stopped} \cup [pc : {"load"}] \cup
  [pc : WorkPlaces, i : Nat, j : Members, lens : [Members -> Lengths]]

CellType ==
  /\ lines \in [Files -> [Members -> Seq(0..(NumProblems - 1))]]
  /\ info \in [Files -> [Members -> InfoStates]]
  /\ queue \in Seq(Shards)
  /\ proc \in [Shards -> Processes]

(* A process works on a problem of its shard, the next one of its leader's *)
(* file.                                                                   *)
AtWork ==
  \A s \in Shards : Working(s) =>
    /\ proc[s].i < Count(s)
    /\ Held(File(s), Leader) = proc[s].i + (IF proc[s].j = Leader THEN 0 ELSE 1)
    /\ proc[s].pc = "generate" => proc[s].j = Leader

(* No member is ahead of the leader, and one that is level is aligned: a   *)
(* line that a crash lost is never made up for.                            *)
Drift ==
  \A f \in Files, m \in Members :
    /\ Lag(f, m) <= Held(f, Leader)
    /\ Lag(f, m) = Held(f, Leader) => Aligned(f, m)

LeaderBounded == \A f \in Files : Held(f, Leader) <= Count(Owner(f))

IInv == CellType /\ AtWork /\ Drift /\ LeaderBounded

-----------------------------------------------------------------------------
(* The shards cut the problems into consecutive ranges, some of them empty *)
(* when there are more shards than problems.                               *)

LEMMA ProductGrows ==
  ASSUME NEW a \in Nat, NEW b \in Nat, NEW c \in Nat, a <= b
  PROVE  a * c <= b * c
OBVIOUS

LEMMA ProductCancels ==
  ASSUME NEW a \in Nat, NEW b \in Nat, NEW c \in Nat, c > 0, a * c = b * c
  PROVE  a = b
OBVIOUS

LEMMA ShardSizeFact ==
  /\ NumProblems \in Nat /\ NumProblems > 0 /\ NumShards \in Nat /\ NumShards > 0
  /\ BatchSize \in Nat /\ BatchSize > 0
  /\ ShardSize \in Nat
  /\ NumShards * ShardSize <= NumProblems
  /\ NumShards - 1 \in Shards /\ Leader \in Members
<1>1. /\ NumProblems \in Nat /\ NumProblems > 0 /\ NumShards \in Nat /\ NumShards > 0
      /\ BatchSize \in Nat /\ BatchSize > 0
  BY CellAssumption
<1>2. ShardSize \in Nat /\ NumShards * ShardSize <= NumProblems
  BY <1>1 DEF ShardSize
<1> QED BY <1>1, <1>2 DEF Shards, Members, Leader

(* The range of a shard lies within the problems.                          *)
LEMMA RangeFact ==
  ASSUME NEW s \in Shards
  PROVE  /\ Start(s) \in Nat /\ Stop(s) \in Nat
         /\ Start(s) <= Stop(s) /\ Stop(s) <= NumProblems
         /\ s < NumShards - 1 => Stop(s) = Start(s) + ShardSize
         /\ s = NumShards - 1 => Stop(s) >= Start(s) + ShardSize
<1> DEFINE z == ShardSize
<1>1. /\ NumProblems \in Nat /\ NumShards \in Nat \ {0} /\ z \in Nat
      /\ NumShards * z <= NumProblems /\ s \in Nat /\ s + 1 <= NumShards
  BY ShardSizeFact DEF Shards
<1>2. (s + 1) * z <= NumShards * z
  BY <1>1, ProductGrows
<1>3. s * z \in Nat /\ (s + 1) * z = s * z + z
  BY <1>1
<1>4. (s + 1) * z <= NumProblems
  BY <1>1, <1>2, <1>3
<1> HIDE DEF z
<1> QED BY <1>1, <1>3, <1>4 DEF Start, Stop, z

(* Of the shards that share the name of their files at most one has        *)
(* problems, and one has.                                                  *)
LEMMA OnlyOneOwns ==
  ASSUME NEW s \in Shards, NEW t \in Shards, Start(s) = Start(t),
         Stop(s) - Start(s) > 0, Stop(t) - Start(t) > 0
  PROVE  s = t
<1>1. /\ s \in Nat /\ t \in Nat /\ ShardSize \in Nat
      /\ s < NumShards - 1 \/ s = NumShards - 1
      /\ t < NumShards - 1 \/ t = NumShards - 1
  BY ShardSizeFact DEF Shards
<1>2. CASE ShardSize > 0
  BY <1>1, <1>2, ProductCancels DEF Start
<1>3. CASE ShardSize = 0
  BY <1>1, <1>3, RangeFact
<1> QED BY <1>1, <1>2, <1>3

LEMMA OwnerFact ==
  ASSUME Sharded, NEW f \in Files
  PROVE  /\ Owner(f) \in Shards /\ File(Owner(f)) = f
         /\ First(Owner(f)) = f /\ f \in Nat
         /\ Count(Owner(f)) \in Nat /\ Count(Owner(f)) > 0
         /\ \A s \in Shards : File(s) = f /\ Count(s) > 0 => s = Owner(f)
<1>1. PICK s \in Shards : f = Start(s)
  BY DEF Files, File
<1>2. \E t \in Shards : Start(t) = f /\ Stop(t) - Start(t) > 0
  <2>1. /\ s \in Nat /\ ShardSize \in Nat /\ NumProblems > 0 /\ NumProblems \in Nat
        /\ s < NumShards - 1 \/ s = NumShards - 1
        /\ NumShards - 1 \in Shards /\ NumShards \in Nat
    BY ShardSizeFact DEF Shards
  <2>2. CASE ShardSize > 0
    BY <1>1, <2>1, <2>2, RangeFact
  <2>3. CASE ShardSize = 0
    <3>1. Start(s) = 0 /\ Start(NumShards - 1) = 0
      BY <2>1, <2>3 DEF Start
    <3>2. Stop(NumShards - 1) = NumProblems
      BY <2>1 DEF Stop
    <3> QED BY <1>1, <2>1, <3>1, <3>2
  <2> QED BY <2>1, <2>2, <2>3
<1>3. \E t \in Shards : File(t) = f /\ (Sharded => Count(t) > 0)
  BY <1>2 DEF File, Count
<1>4. Owner(f) \in Shards /\ File(Owner(f)) = f /\ Count(Owner(f)) > 0
  BY <1>3 DEF Owner
<1>5. First(Owner(f)) = f /\ f \in Nat /\ Count(Owner(f)) \in Nat
  BY <1>4, RangeFact DEF First, File, Count
<1>6. \A t \in Shards : File(t) = f /\ Count(t) > 0 => t = Owner(f)
  BY <1>4, OnlyOneOwns DEF File, Count
<1> QED BY <1>4, <1>5, <1>6

LEMMA ShardFact ==
  ASSUME Sharded, NEW s \in Shards
  PROVE  /\ File(s) \in Files /\ File(s) = First(s) /\ First(s) \in Nat
         /\ Count(s) \in Nat /\ First(s) + Count(s) <= NumProblems
BY RangeFact, ShardSizeFact DEF File, First, Files, Count

-----------------------------------------------------------------------------
(* What a state of the invariant says of the processes.                    *)

LEMMA ProcessFact ==
  ASSUME CellType, NEW s \in Shards
  PROVE  /\ proc[s] = Stopped <=> proc[s].pc = "stopped"
         /\ proc[s].pc \in {"stopped", "load"} \cup WorkPlaces
         /\ Working(s) =>
              proc[s] \in [pc : WorkPlaces, i : Nat, j : Members, lens : [Members -> Lengths]]
BY DEF CellType, Processes, Working, WorkPlaces, Stopped

LEMMA HeldFact ==
  ASSUME CellType, NEW f \in Files, NEW m \in Members
  PROVE  lines[f][m] \in Seq(0..(NumProblems - 1)) /\ Held(f, m) \in Nat
BY DEF CellType, Held

(* The only process at work on the files of a name is the one of the shard *)
(* that owns them.                                                         *)
LEMMA WriterFact ==
  ASSUME Sharded, CellType, AtWork, NEW s \in Shards, Working(s)
  PROVE  /\ s = Owner(File(s)) /\ File(s) \in Files
         /\ \A t \in Shards : Working(t) /\ File(t) = File(s) => t = s
<1>1. \A t \in Shards : Working(t) => Count(t) > 0
  BY ProcessFact, ShardFact DEF AtWork
<1>2. File(s) \in Files
  BY ShardFact
<1> QED BY <1>1, <1>2, OwnerFact

LEMMA LeaderNeverDue ==
  ASSUME CellType, NEW f
  PROVE  ~Due(f, Leader)
BY ProcessFact DEF Due, Members, Leader

(* A step that writes no line and makes no member due keeps the drift.     *)
LEMMA DriftKept ==
  ASSUME CellType, Drift, lines' = lines,
         \A s \in Shards : Working(s)' =>
           (Working(s) /\ proc'[s].j = proc[s].j) \/ proc'[s].j = Leader
  PROVE  Drift'
<1> SUFFICES ASSUME NEW f \in Files, NEW m \in Members
             PROVE  /\ Lag(f, m)' <= Held(f, Leader)'
                    /\ Lag(f, m)' = Held(f, Leader)' => Aligned(f, m)'
  BY DEF Drift
<1>1. Held(f, m)' = Held(f, m) /\ Held(f, Leader)' = Held(f, Leader)
  BY DEF Held
<1>2. Aligned(f, m)' <=> Aligned(f, m)
  BY DEF Aligned, Held
<1>3. Due(f, m)' => Due(f, m)
  BY DEF Due
<1>4. Held(f, m) \in Nat /\ Held(f, Leader) \in Nat
  BY HeldFact, ShardSizeFact
<1>5. Lag(f, m)' <= Lag(f, m)
  BY <1>1, <1>3, <1>4 DEF Lag
<1>6. Lag(f, m) <= Held(f, Leader) /\ (Lag(f, m) = Held(f, Leader) => Aligned(f, m))
  BY DEF Drift
<1>7. Lag(f, m) \in Nat /\ Lag(f, m)' \in Nat
  BY <1>1, <1>4 DEF Lag
<1> QED BY <1>1, <1>2, <1>4, <1>5, <1>6, <1>7

LEMMA BoundKept ==
  ASSUME LeaderBounded, lines' = lines
  PROVE  LeaderBounded'
BY DEF LeaderBounded, Held

-----------------------------------------------------------------------------
(* Every step keeps the invariant.                                         *)

LEMMA InitHolds ==
  ASSUME Sharded, Init
  PROVE  IInv
<1>1. \A s \in Shards : ~Working(s)
  BY DEF Init, Working, WorkPlaces, Stopped
<1>2. \A f \in Files, m \in Members : lines[f][m] = << >> /\ Held(f, m) = 0
  BY DEF Init, Held
<1>3. CellType
  BY DEF Init, CellType, InfoStates, Processes
<1>4. AtWork
  BY <1>1 DEF AtWork
<1>5. Drift
  BY <1>1, <1>2, ShardSizeFact DEF Drift, Lag, Due, Aligned
<1>6. LeaderBounded
  BY <1>2, OwnerFact, ShardSizeFact DEF LeaderBounded
<1> QED BY <1>3, <1>4, <1>5, <1>6 DEF IInv

LEMMA LaunchKeeps ==
  ASSUME Sharded, IInv, Launch
  PROVE  IInv'
<1>1. CellType'
  <2>1. NumShards \in Nat
    BY ShardSizeFact
  <2>2. \A k \in 1..NumShards : k - 1 \in Shards
    BY <2>1 DEF Shards
  <2>3. queue' \in Seq(Shards)
    BY <2>1, <2>2 DEF Launch
  <2> QED BY <2>3 DEF IInv, CellType, Launch
<1>2. AtWork'
  BY DEF IInv, AtWork, Launch, Working, Held
<1>3. Drift'
  BY DriftKept DEF IInv, Launch, Working
<1>4. LeaderBounded'
  BY BoundKept DEF IInv, Launch
<1> QED BY <1>1, <1>2, <1>3, <1>4 DEF IInv

LEMMA SpawnKeeps ==
  ASSUME Sharded, IInv, Spawn
  PROVE  IInv'
<1>1. Head(queue) \in Shards /\ Tail(queue) \in Seq(Shards)
  BY DEF IInv, CellType, Spawn
<1>2. \A s \in Shards : Working(s)' => Working(s) /\ proc'[s] = proc[s]
  BY <1>1 DEF IInv, CellType, Spawn, Working, WorkPlaces
<1>3. CellType'
  BY <1>1 DEF IInv, CellType, Spawn, Processes
<1>4. AtWork'
  BY <1>2 DEF IInv, AtWork, Spawn, Held
<1>5. Drift'
  BY <1>2, DriftKept DEF IInv, Spawn
<1>6. LeaderBounded'
  BY BoundKept DEF IInv, Spawn
<1> QED BY <1>3, <1>4, <1>5, <1>6 DEF IInv

LEMMA LoadKeeps ==
  ASSUME Sharded, IInv, NEW s \in Shards, Load(s)
  PROVE  IInv'
<1> DEFINE f == File(s)
           w == [pc |-> "generate", i |-> ResumeAt(f), j |-> Leader, lens |-> Loaded(f)]
           go == ResumeAt(f) < Count(s) /\ Resumable(f)
<1>1. f \in Files /\ Leader \in Members /\ ResumeAt(f) \in Nat /\ ResumeAt(f) = Held(f, Leader)
  BY ShardFact, ShardSizeFact, HeldFact DEF ResumeAt, Held, IInv
<1>2. proc' = [proc EXCEPT ![s] = IF go THEN w ELSE Stopped] /\ lines' = lines
      /\ info' = info /\ queue' = queue
  BY DEF Load
<1>3. go => Loaded(f) \in [Members -> Lengths]
  <2> SUFFICES ASSUME go, NEW m \in Members
               PROVE  (IF ResumeAt(f) = 0 THEN << >> ELSE info[f][m].entries) \in Lengths
    BY DEF Loaded
  <2>1. ResumeAt(f) # 0 => info[f][m].state = "whole"
    BY <1>1 DEF Resumable
  <2>2. info[f][m] \in InfoStates
    BY <1>1 DEF IInv, CellType
  <2>3. info[f][m].state = "whole" => info[f][m].entries \in Lengths
    BY <2>2 DEF InfoStates, Missing, Torn, Whole
  <2> QED BY <2>1, <2>3 DEF Lengths
<1>4. go => w \in [pc : WorkPlaces, i : Nat, j : Members, lens : [Members -> Lengths]]
  BY <1>1, <1>3 DEF WorkPlaces
<1>5. \A t \in Shards : Working(t)' =>
        (proc'[t] = proc[t] /\ Working(t)) \/ (t = s /\ go /\ proc'[t] = w)
  BY <1>2 DEF IInv, CellType, Working, WorkPlaces, Stopped
<1>6. CellType'
  BY <1>2, <1>4 DEF IInv, CellType, Processes
<1>7. AtWork'
  BY <1>1, <1>2, <1>5 DEF IInv, AtWork, Held
<1>8. Drift'
  BY <1>2, <1>5, DriftKept DEF IInv
<1>9. LeaderBounded'
  BY <1>2, BoundKept DEF IInv
<1> QED BY <1>6, <1>7, <1>8, <1>9 DEF IInv

LEMMA GenerateKeeps ==
  ASSUME Sharded, IInv, NEW s \in Shards, Generate(s)
  PROVE  IInv'
<1>1. Working(s) /\ proc[s].pc = "generate"
  BY DEF Generate, At, Working, WorkPlaces
<1>2. proc[s] \in [pc : WorkPlaces, i : Nat, j : Members, lens : [Members -> Lengths]]
  BY <1>1, ProcessFact DEF IInv
<1>3. First(s) + proc[s].i \in Int
  BY <1>2, ShardFact
<1> DEFINE l == [m \in Members |-> Append(proc[s].lens[m], First(s) + proc[s].i)]
<1>4. l \in [Members -> Lengths]
  BY <1>2, <1>3 DEF Lengths
<1>5. proc'[s] = [proc[s] EXCEPT !.pc = "open", !.lens = l]
  BY <1>2 DEF Generate, IInv, CellType
<1>6. proc' = [proc EXCEPT ![s] = [proc[s] EXCEPT !.pc = "open", !.lens = l]]
  BY <1>2 DEF Generate, IInv, CellType
<1>7. proc'[s] \in [pc : WorkPlaces, i : Nat, j : Members, lens : [Members -> Lengths]]
      /\ proc'[s].i = proc[s].i /\ proc'[s].j = proc[s].j /\ proc'[s].pc = "open"
  BY <1>2, <1>4, <1>5 DEF WorkPlaces
<1>8. \A t \in Shards \ {s} : proc'[t] = proc[t]
  BY <1>6 DEF IInv, CellType
<1>9. lines' = lines /\ info' = info /\ queue' = queue
  BY DEF Generate
<1>10. CellType'
  BY <1>6, <1>7, <1>9 DEF IInv, CellType, Processes
<1>11. AtWork'
  BY <1>1, <1>7, <1>8, <1>9 DEF IInv, AtWork, Working, Held
<1>12. Drift'
  BY <1>1, <1>7, <1>8, <1>9, DriftKept DEF IInv, Working
<1>13. LeaderBounded'
  BY <1>9, BoundKept DEF IInv
<1> QED BY <1>10, <1>11, <1>12, <1>13 DEF IInv

LEMMA OpenInfoKeeps ==
  ASSUME Sharded, IInv, NEW s \in Shards, OpenInfo(s)
  PROVE  IInv'
<1>1. Working(s) /\ proc[s].pc = "open"
  BY DEF OpenInfo, At, Working, WorkPlaces
<1>2. proc[s] \in [pc : WorkPlaces, i : Nat, j : Members, lens : [Members -> Lengths]]
  BY <1>1, ProcessFact DEF IInv
<1>3. proc' = [proc EXCEPT ![s] = [proc[s] EXCEPT !.pc = "close"]]
  BY DEF OpenInfo, IInv, CellType
<1>4. /\ proc'[s] \in [pc : WorkPlaces, i : Nat, j : Members, lens : [Members -> Lengths]]
      /\ proc'[s].i = proc[s].i /\ proc'[s].j = proc[s].j /\ proc'[s].pc = "close"
  BY <1>2, <1>3 DEF WorkPlaces, IInv, CellType
<1>5. \A t \in Shards \ {s} : proc'[t] = proc[t]
  BY <1>3 DEF IInv, CellType
<1>6. lines' = lines /\ queue' = queue /\ info' \in [Files -> [Members -> InfoStates]]
  BY <1>2, ShardFact DEF OpenInfo, IInv, CellType, InfoStates
<1>7. CellType'
  BY <1>3, <1>4, <1>6 DEF IInv, CellType, Processes
<1>8. AtWork'
  BY <1>1, <1>4, <1>5, <1>6 DEF IInv, AtWork, Working, Held
<1>9. Drift'
  BY <1>1, <1>4, <1>5, <1>6, DriftKept DEF IInv, Working
<1>10. LeaderBounded'
  BY <1>6, BoundKept DEF IInv
<1> QED BY <1>7, <1>8, <1>9, <1>10 DEF IInv

LEMMA CloseInfoKeeps ==
  ASSUME Sharded, IInv, NEW s \in Shards, CloseInfo(s)
  PROVE  IInv'
<1>1. Working(s) /\ proc[s].pc = "close"
  BY DEF CloseInfo, At, Working, WorkPlaces
<1>2. proc[s] \in [pc : WorkPlaces, i : Nat, j : Members, lens : [Members -> Lengths]]
  BY <1>1, ProcessFact DEF IInv
<1>3. proc' = [proc EXCEPT ![s] = [proc[s] EXCEPT !.pc = "append"]]
  BY DEF CloseInfo, IInv, CellType
<1>4. /\ proc'[s] \in [pc : WorkPlaces, i : Nat, j : Members, lens : [Members -> Lengths]]
      /\ proc'[s].i = proc[s].i /\ proc'[s].j = proc[s].j /\ proc'[s].pc = "append"
  BY <1>2, <1>3 DEF WorkPlaces, IInv, CellType
<1>5. \A t \in Shards \ {s} : proc'[t] = proc[t]
  BY <1>3 DEF IInv, CellType
<1>6. Whole(proc[s].lens[proc[s].j]) \in InfoStates
  BY <1>2 DEF InfoStates
<1>7. lines' = lines /\ queue' = queue /\ info' \in [Files -> [Members -> InfoStates]]
  BY <1>2, <1>6, ShardFact DEF CloseInfo, IInv, CellType
<1>8. CellType'
  BY <1>3, <1>4, <1>7 DEF IInv, CellType, Processes
<1>9. AtWork'
  BY <1>1, <1>4, <1>5, <1>7 DEF IInv, AtWork, Working, Held
<1>10. Drift'
  BY <1>1, <1>4, <1>5, <1>7, DriftKept DEF IInv, Working
<1>11. LeaderBounded'
  BY <1>7, BoundKept DEF IInv
<1> QED BY <1>8, <1>9, <1>10, <1>11 DEF IInv

(* A process that dies leaves its member lines as they are: the members    *)
(* whose line was due stay one behind.                                     *)
LEMMA DeathKeeps ==
  ASSUME Sharded, IInv, lines' = lines, info' = info, queue' \in Seq(Shards),
         proc' \in [Shards -> Processes],
         \A s \in Shards : proc'[s] \in {proc[s], Stopped}
  PROVE  IInv'
<1>1. \A s \in Shards : Working(s)' => Working(s) /\ proc'[s] = proc[s]
  BY DEF Working, WorkPlaces, Stopped
<1>2. CellType'
  BY DEF IInv, CellType
<1>3. AtWork'
  BY <1>1 DEF IInv, AtWork, Held
<1>4. Drift'
  BY <1>1, DriftKept DEF IInv
<1>5. LeaderBounded'
  BY BoundKept DEF IInv
<1> QED BY <1>2, <1>3, <1>4, <1>5 DEF IInv

LEMMA CrashKeeps ==
  ASSUME Sharded, IInv, NEW s \in Shards, Crash(s)
  PROVE  IInv'
BY DeathKeeps DEF Crash, IInv, CellType, Processes

LEMMA NodeLostKeeps ==
  ASSUME Sharded, IInv, NodeLost
  PROVE  IInv'
BY DeathKeeps DEF NodeLost, IInv, CellType, Processes

(* The repair tool runs when no process does, and empties whole files.     *)
LEMMA RepairKeeps ==
  ASSUME Sharded, IInv, Repair
  PROVE  IInv'
<1> DEFINE Q == Quarantined
<1>1. /\ lines' = [f \in Files |-> IF f \in Q THEN [m \in Members |-> << >>] ELSE lines[f]]
      /\ info' = [f \in Files |-> IF f \in Q THEN [m \in Members |-> Missing] ELSE info[f]]
      /\ queue' = queue /\ proc' = proc /\ Idle
  BY DEF Repair
<1> HIDE DEF Q
<1>2. \A s \in Shards : ~Working(s) /\ ~Working(s)'
  BY <1>1 DEF Idle, Running, Working, Stopped, WorkPlaces
<1>3. CellType'
  BY <1>1 DEF IInv, CellType, InfoStates
<1>4. AtWork'
  BY <1>2 DEF AtWork
<1>5. \A f \in Files, m \in Members :
        \/ f \in Q /\ lines'[f][m] = << >>
        \/ f \notin Q /\ lines'[f] = lines[f]
  BY <1>1
<1>6. Drift'
  <2> SUFFICES ASSUME NEW f \in Files, NEW m \in Members
               PROVE  /\ Lag(f, m)' <= Held(f, Leader)'
                      /\ Lag(f, m)' = Held(f, Leader)' => Aligned(f, m)'
    BY DEF Drift
  <2>1. Lag(f, m) = Held(f, m) /\ Lag(f, m)' = Held(f, m)'
    <3>1. Held(f, m) \in Nat /\ Held(f, m)' \in Nat
      BY <1>3, HeldFact DEF IInv, Held, CellType
    <3> QED BY <1>2, <3>1 DEF Lag, Due
  <2>2. CASE f \in Q
    BY <1>5, <2>1, <2>2, ShardSizeFact DEF Held, Aligned
  <2>3. CASE f \notin Q
    BY <1>5, <2>1, <2>3 DEF Held, Aligned, IInv, Drift
  <2> QED BY <2>2, <2>3
<1>7. LeaderBounded'
  BY <1>5, ShardSizeFact, OwnerFact DEF IInv, LeaderBounded, Held
<1> QED BY <1>3, <1>4, <1>6, <1>7 DEF IInv

-----------------------------------------------------------------------------
(* The step that writes a line.                                            *)

(* The process after its line: at the next member, at the next problem, or *)
(* ended.                                                                  *)
LEMMA AfterLineFact ==
  ASSUME Sharded, CellType, AtWork, NEW s \in Shards, At(s, "append"),
         NEW w, w = AfterLine(s, proc[s])
  PROVE  /\ w \in Processes
         /\ \/ /\ proc[s].j < BatchSize - 1
               /\ w.pc = "open" /\ w.i = proc[s].i /\ w.j = proc[s].j + 1
            \/ /\ proc[s].j = BatchSize - 1 /\ proc[s].i + 1 < Count(s)
               /\ w.pc = "generate" /\ w.i = proc[s].i + 1 /\ w.j = Leader
            \/ proc[s].j = BatchSize - 1 /\ w = Stopped
<1>1. proc[s] \in [pc : WorkPlaces, i : Nat, j : Members, lens : [Members -> Lengths]]
  BY ProcessFact DEF At, Working, WorkPlaces
<1>2. Count(s) \in Nat /\ BatchSize \in Nat /\ Leader \in Members
  BY ShardFact, ShardSizeFact
<1>3. proc[s].j \in Nat /\ proc[s].j <= BatchSize - 1 /\ proc[s].i \in Nat
  BY <1>1, <1>2 DEF Members
<1>4. CASE proc[s].j < BatchSize - 1
  <2>1. w = [proc[s] EXCEPT !.pc = "open", !.j = proc[s].j + 1]
    BY <1>4 DEF AfterLine
  <2>2. proc[s].j + 1 \in Members
    BY <1>2, <1>3, <1>4 DEF Members
  <2> QED BY <1>1, <1>4, <2>1, <2>2 DEF Processes, WorkPlaces
<1>5. CASE proc[s].j = BatchSize - 1 /\ proc[s].i < Count(s) - 1
  <2>1. w = [proc[s] EXCEPT !.pc = "generate", !.i = proc[s].i + 1, !.j = Leader]
    BY <1>2, <1>5 DEF AfterLine
  <2>2. proc[s].i + 1 \in Nat /\ proc[s].i + 1 < Count(s)
    BY <1>2, <1>3, <1>5
  <2>3. w.pc = "generate" /\ w.i = proc[s].i + 1 /\ w.j = Leader
    BY <1>1, <2>1
  <2>4. w \in [pc : WorkPlaces, i : Nat, j : Members, lens : [Members -> Lengths]]
    BY <1>1, <1>2, <2>1, <2>2 DEF WorkPlaces
  <2> QED BY <1>5, <2>2, <2>3, <2>4 DEF Processes
<1>6. CASE proc[s].j = BatchSize - 1 /\ ~(proc[s].i < Count(s) - 1)
  BY <1>2, <1>6 DEF AfterLine, Processes
<1> QED BY <1>2, <1>3, <1>4, <1>5, <1>6

LEMMA AppendKeeps ==
  ASSUME Sharded, IInv, NEW s \in Shards, AppendLine(s)
  PROVE  IInv'
<1> DEFINE f == File(s)
           w == AfterLine(s, proc[s])
<1>1. Working(s) /\ At(s, "append")
  BY DEF AppendLine, At, Working, WorkPlaces
<1>2. proc[s] \in [pc : WorkPlaces, i : Nat, j : Members, lens : [Members -> Lengths]]
  BY <1>1, ProcessFact DEF IInv
<1>at. PICK n \in Nat, j \in Members : n = proc[s].i /\ j = proc[s].j
  BY <1>2
<1>3. /\ BatchSize \in Nat /\ BatchSize > 0 /\ Leader \in Members /\ Leader = 0
      /\ Members \subseteq Nat /\ \A m \in Members : m <= BatchSize - 1
      /\ j \in Members /\ n \in Nat
  BY <1>at, ShardSizeFact DEF Members, Leader
<1>4. /\ s = Owner(f) /\ f \in Files
      /\ \A t \in Shards : Working(t) /\ File(t) = f => t = s
  BY <1>1, WriterFact DEF IInv
<1>5. n < Count(s) /\ Held(f, Leader) = n + (IF j = Leader THEN 0 ELSE 1)
  BY <1>1, <1>at DEF IInv, AtWork
<1>6. /\ lines' = [lines EXCEPT ![f][j] = Append(lines[f][j], First(s) + n)]
      /\ proc' = [proc EXCEPT ![s] = w] /\ info' = info /\ queue' = queue
  BY <1>at DEF AppendLine, IInv, CellType
<1>7. /\ w \in Processes
      /\ \/ j < BatchSize - 1 /\ w.pc = "open" /\ w.i = n /\ w.j = j + 1
         \/ /\ j = BatchSize - 1 /\ n + 1 < Count(s)
            /\ w.pc = "generate" /\ w.i = n + 1 /\ w.j = Leader
         \/ j = BatchSize - 1 /\ w = Stopped
  BY <1>1, <1>at, AfterLineFact DEF IInv
<1>8. proc'[s] = w /\ \A t \in Shards \ {s} : proc'[t] = proc[t]
  BY <1>6 DEF IInv, CellType
<1> HIDE DEF w, f
<1>9. First(s) + n \in 0..(NumProblems - 1)
  BY <1>3, <1>5, ShardFact, ShardSizeFact
<1>10. CellType'
  <2>1. lines' \in [Files -> [Members -> Seq(0..(NumProblems - 1))]]
    BY <1>3, <1>4, <1>6, <1>9 DEF IInv, CellType
  <2>2. proc' \in [Shards -> Processes]
    BY <1>6, <1>7 DEF IInv, CellType
  <2> QED BY <1>6, <2>1, <2>2 DEF IInv, CellType
(* The lines: member j of file f has one more, all others are as before.   *)
<1>11. \A g \in Files, m \in Members : ~(g = f /\ m = j) => lines'[g][m] = lines[g][m]
  BY <1>3, <1>4, <1>6 DEF IInv, CellType
<1>12. lines'[f][j] = Append(lines[f][j], First(s) + n)
  BY <1>3, <1>4, <1>6 DEF IInv, CellType
<1>13. \A g \in Files, m \in Members : Held(g, m) \in Nat
  BY HeldFact DEF IInv
<1>14. \A g \in Files, m \in Members :
         Held(g, m)' = Held(g, m) + (IF g = f /\ m = j THEN 1 ELSE 0)
  <2> SUFFICES ASSUME NEW g \in Files, NEW m \in Members
               PROVE  Held(g, m)' = Held(g, m) + (IF g = f /\ m = j THEN 1 ELSE 0)
    OBVIOUS
  <2>1. CASE g = f /\ m = j
    <3>1. lines[f][j] \in Seq(0..(NumProblems - 1))
      BY <1>3, <1>4, HeldFact DEF IInv
    <3> QED BY <1>9, <1>12, <2>1, <3>1 DEF Held
  <2>2. CASE ~(g = f /\ m = j)
    <3>1. Held(g, m)' = Held(g, m)
      BY <1>11, <2>2 DEF Held
    <3>2. Held(g, m) \in Nat
      BY <1>13
    <3> QED BY <2>2, <3>1, <3>2
  <2> QED BY <2>1, <2>2
<1>15. \A g \in Files, m \in Members : ~(g = f /\ m = j) => (Aligned(g, m)' <=> Aligned(g, m))
  BY <1>11 DEF Aligned, Held
<1>16. Aligned(f, j) /\ Held(f, j) = n => Aligned(f, j)'
  <2> SUFFICES ASSUME Aligned(f, j), Held(f, j) = n, NEW k \in 1..(n + 1)
               PROVE  lines'[f][j][k] = First(Owner(f)) + k - 1
    BY <1>3, <1>4, <1>14 DEF Aligned
  <2>1. lines[f][j] \in Seq(0..(NumProblems - 1)) /\ Len(lines[f][j]) = n
    BY <1>3, <1>4, HeldFact DEF IInv, Held
  <2>2. CASE k = n + 1
    BY <1>3, <1>4, <1>9, <1>12, <2>1, <2>2, ShardFact
  <2>3. CASE k # n + 1
    BY <1>3, <1>12, <2>1, <2>3 DEF Aligned, Held
  <2> QED BY <2>2, <2>3
(* What is due: before, the members from j on; after, those past j.        *)
<1>17. \A m \in Members : Due(f, m) <=> j # Leader /\ m >= j
  BY <1>1, <1>4, <1>at DEF Due, f
<1>18. Working(s)' <=> w # Stopped
  BY <1>7, <1>8 DEF Working, WorkPlaces, Stopped
<1>19. \A t \in Shards : Working(t)' /\ File(t) = f => t = s
  BY <1>4, <1>8 DEF Working
<1>20. \A m \in Members : Due(f, m)' <=> m > j
  <2>1. \A m \in Members : Due(f, m)' <=> Working(s)' /\ w.j # Leader /\ m >= w.j
    BY <1>8, <1>19 DEF Due, f
  <2>2. CASE j < BatchSize - 1 /\ w.pc = "open" /\ w.j = j + 1
    BY <1>3, <1>18, <2>1, <2>2 DEF Stopped
  <2>3. CASE j = BatchSize - 1 /\ w.j = Leader
    BY <1>3, <2>1, <2>3
  <2>4. CASE j = BatchSize - 1 /\ w = Stopped
    BY <1>3, <1>18, <2>1, <2>4
  <2> QED BY <1>7, <2>2, <2>3, <2>4
<1>21. \A g \in Files \ {f}, m \in Members : Due(g, m)' <=> Due(g, m)
  BY <1>8, <1>1 DEF Due, Working, f
<1>22. \A g \in Files, m \in Members :
         /\ Lag(g, m) <= Held(g, Leader)
         /\ Lag(g, m) = Held(g, Leader) => Aligned(g, m)
  BY DEF IInv, Drift
<1>23. AtWork'
  <2> SUFFICES ASSUME NEW t \in Shards, Working(t)'
               PROVE  /\ proc'[t].i < Count(t)
                      /\ Held(File(t), Leader)' = proc'[t].i + (IF proc'[t].j = Leader THEN 0 ELSE 1)
                      /\ proc'[t].pc = "generate" => proc'[t].j = Leader
    BY DEF AtWork
  <2>1. CASE t # s
    <3>1. Working(t) /\ proc'[t] = proc[t]
      BY <1>8, <2>1 DEF Working
    <3>2. File(t) # f /\ File(t) \in Files
      BY <1>4, <2>1, <3>1, ShardFact
    <3>3. Held(File(t), Leader)' = Held(File(t), Leader)
      BY <1>3, <1>13, <1>14, <3>2
    <3> QED BY <3>1, <3>3 DEF IInv, AtWork
  <2>2. CASE t = s
    <3>1. Held(f, Leader)' = n + 1
      BY <1>3, <1>4, <1>5, <1>13, <1>14
    <3>2. w.i < Count(s) /\ n + 1 = w.i + (IF w.j = Leader THEN 0 ELSE 1)
          /\ (w.pc = "generate" => w.j = Leader)
      <4>1. CASE j < BatchSize - 1 /\ w.pc = "open" /\ w.i = n /\ w.j = j + 1
        BY <1>3, <1>5, <4>1
      <4>2. CASE n + 1 < Count(s) /\ w.i = n + 1 /\ w.j = Leader
        BY <1>3, <4>2
      <4> QED BY <1>7, <1>18, <2>2, <4>1, <4>2
    <3> QED BY <1>8, <2>2, <3>1, <3>2 DEF f
  <2> QED BY <2>1, <2>2
<1>24. Drift'
  <2> SUFFICES ASSUME NEW g \in Files, NEW m \in Members
               PROVE  /\ Lag(g, m)' <= Held(g, Leader)'
                      /\ Lag(g, m)' = Held(g, Leader)' => Aligned(g, m)'
    BY DEF Drift
  <2>1. /\ Lag(g, m) = Held(g, m) + (IF Due(g, m) THEN 1 ELSE 0)
        /\ Lag(g, m)' = Held(g, m)' + (IF Due(g, m)' THEN 1 ELSE 0)
    BY DEF Lag
  <2>2. CASE g # f
    <3>1. Lag(g, m)' = Lag(g, m) /\ Held(g, Leader)' = Held(g, Leader)
      BY <1>3, <1>13, <1>14, <1>21, <2>1, <2>2
    <3> QED BY <1>15, <1>22, <2>2, <3>1
  <2>3. CASE g = f /\ j = Leader
    <3>1. Lag(g, m) = Held(g, m) /\ Held(g, Leader) = n
      BY <1>3, <1>5, <1>13, <1>17, <2>1, <2>3
    <3>2. Held(g, m) <= n /\ (Held(g, m) = n => Aligned(g, m))
      BY <1>22, <3>1
    <3>3. Held(g, Leader)' = n + 1 /\ Lag(g, m)' = Held(g, m) + 1
      BY <1>3, <1>13, <1>14, <1>20, <2>1, <2>3, <3>1
    <3>4. Held(g, m) = n => Aligned(g, m)'
      BY <1>15, <1>16, <2>3, <3>2
    <3> QED BY <1>3, <1>13, <3>2, <3>3, <3>4
  <2>4. CASE g = f /\ j # Leader /\ m = j
    <3>1. Lag(g, m) = Held(g, m) + 1 /\ Held(g, Leader) = n + 1
      BY <1>3, <1>5, <1>17, <2>1, <2>4
    <3>2. Lag(g, m)' = Held(g, m) + 1 /\ Held(g, Leader)' = n + 1
      BY <1>3, <1>13, <1>14, <1>20, <2>1, <2>4, <3>1
    <3> QED BY <1>3, <1>13, <1>16, <1>22, <2>4, <3>1, <3>2
  <2>5. CASE g = f /\ j # Leader /\ m # j
    <3>1. Lag(g, m)' = Lag(g, m) /\ Held(g, Leader)' = Held(g, Leader)
      BY <1>3, <1>13, <1>14, <1>17, <1>20, <2>1, <2>5
    <3> QED BY <1>15, <1>22, <2>5, <3>1
  <2> QED BY <2>2, <2>3, <2>4, <2>5
<1>25. LeaderBounded'
  <2> SUFFICES ASSUME NEW g \in Files
               PROVE  Held(g, Leader)' <= Count(Owner(g))
    BY DEF LeaderBounded
  <2>1. Held(g, Leader) <= Count(Owner(g)) /\ Count(Owner(g)) \in Nat
    BY OwnerFact DEF IInv, LeaderBounded
  <2>2. CASE g = f /\ j = Leader
    BY <1>3, <1>4, <1>5, <1>14, <2>1, <2>2
  <2>3. CASE ~(g = f /\ j = Leader)
    BY <1>3, <1>13, <1>14, <2>1, <2>3
  <2> QED BY <2>2, <2>3
<1> QED BY <1>10, <1>23, <1>24, <1>25 DEF IInv

LEMMA NextKeeps ==
  ASSUME Sharded, IInv, [Next]_vars
  PROVE  IInv'
<1>1. CASE UNCHANGED vars
  <2>1. CellType'
    BY <1>1 DEF vars, IInv, CellType
  <2>2. AtWork'
    BY <1>1 DEF vars, IInv, AtWork, Working, Held
  <2>3. Drift'
    BY <1>1, DriftKept DEF vars, IInv, Working
  <2>4. LeaderBounded'
    BY <1>1, BoundKept DEF vars, IInv
  <2> QED BY <2>1, <2>2, <2>3, <2>4 DEF IInv
<1>2. ASSUME NEW s \in Shards, Worker(s) PROVE IInv'
  BY <1>2, LoadKeeps, GenerateKeeps, OpenInfoKeeps, CloseInfoKeeps, AppendKeeps DEF Worker
<1> QED BY <1>1, <1>2, LaunchKeeps, SpawnKeeps, RepairKeeps, NodeLostKeeps, CrashKeeps DEF Next

-----------------------------------------------------------------------------
(* The theorems.                                                           *)

(* The inductive invariant holds whatever crashes, resumes and repairs.    *)
THEOREM DriftStaysSound == ASSUME Sharded PROVE Spec => []IInv
<1>1. Init => IInv
  BY InitHolds
<1>2. IInv /\ [Next]_vars => IInv'
  BY NextKeeps
<1> QED BY <1>1, <1>2, PTL DEF Spec

LEMMA IInvAligns ==
  ASSUME Sharded, IInv
  PROVE  CompletionsAligned
<1>1. \A s \in Running : ~At(s, "load") => Working(s)
  BY ProcessFact DEF Running, At, Working, IInv, Stopped
<1>2. TypeOK
  <2>1. \A f \in Files, m \in Members : info[f][m].state \in {"missing", "torn", "whole"}
    <3> SUFFICES ASSUME NEW f \in Files, NEW m \in Members
                 PROVE  info[f][m].state \in {"missing", "torn", "whole"}
      OBVIOUS
    <3>1. info[f][m] \in InfoStates
      BY DEF IInv, CellType
    <3> QED BY <3>1 DEF InfoStates, Missing, Torn, Whole
  <2>2. \A s \in Running : ~At(s, "load") => proc[s].i < Count(s)
    BY <1>1 DEF IInv, AtWork, Running
  <2> QED BY <2>1, <2>2 DEF TypeOK, IInv, CellType
<1>3. OneWriterPerFile
  BY <1>1, WriterFact DEF OneWriterPerFile, IInv, Running
<1>4. ASSUME NEW f \in Files, NEW m \in Members, Held(f, m) >= Held(f, Leader)
      PROVE  Aligned(f, m)
  <2>1. Held(f, m) \in Nat /\ Held(f, Leader) \in Nat
    BY HeldFact, ShardSizeFact DEF IInv
  <2>2. Lag(f, m) >= Held(f, m) /\ Lag(f, m) \in Nat
    BY <2>1 DEF Lag
  <2>3. Lag(f, m) <= Held(f, Leader) /\ (Lag(f, m) = Held(f, Leader) => Aligned(f, m))
    BY DEF IInv, Drift
  <2> QED BY <1>4, <2>1, <2>2, <2>3
<1>5. ASSUME NEW f \in Files
      PROVE  /\ Held(f, Leader) \in Nat /\ Held(f, Leader) <= Count(Owner(f))
             /\ Count(Owner(f)) \in Nat /\ Leader \in Members
  BY HeldFact, OwnerFact, ShardSizeFact DEF IInv, LeaderBounded
<1>6. LeaderAligned
  BY <1>4, <1>5 DEF LeaderAligned
<1>7. FullMeansAligned
  <2> SUFFICES ASSUME NEW f \in Files, Full(f), NEW m \in Members
               PROVE  Aligned(f, m)
    BY DEF FullMeansAligned
  <2>1. Held(f, m) \in Nat /\ Held(f, m) >= Count(Owner(f))
    BY HeldFact DEF IInv, Full
  <2> QED BY <1>4, <1>5, <2>1
<1> QED BY <1>2, <1>3, <1>6, <1>7 DEF CompletionsAligned

(* With more than one GPU rank, a shard file has at most one writer, the   *)
(* leader's lines are the shard's problems in order, and a slot in which   *)
(* every member has all its lines pairs every line with its problem:       *)
(* whatever the number of problems, shards and members, and wherever a     *)
(* process died.                                                           *)
THEOREM CompletionsStayAligned == ASSUME Sharded PROVE Spec => []CompletionsAligned
<1>1. IInv => CompletionsAligned
  BY IInvAligns
<1> QED BY <1>1, DriftStaysSound, PTL

(* The repair tool, which knows a shard's length only from the files it    *)
(* finds, throws away no finished slot: the members of a finished slot     *)
(* hold the same number of lines.                                          *)
THEOREM FinishedIsSpared == ASSUME Sharded PROVE Spec => RepairSparesFinished
<1>1. IInv /\ Repair => \A f \in Files : Full(f) => lines'[f] = lines[f]
  <2> SUFFICES ASSUME IInv, Repair, NEW f \in Files, Full(f), f \in Quarantined
               PROVE  FALSE
    BY DEF Repair
  <2>1. \A s \in Shards : ~Working(s)
    BY DEF Repair, Idle, Running, Working, Stopped, WorkPlaces
  <2>2. Leader \in Members /\ Count(Owner(f)) \in Nat
    BY OwnerFact, ShardSizeFact
  <2>3. \A m \in Members : Held(f, m) = Held(f, Leader)
    <3> SUFFICES ASSUME NEW m \in Members
                 PROVE  Held(f, m) = Held(f, Leader)
      OBVIOUS
    <3>1. Held(f, m) \in Nat /\ Held(f, Leader) \in Nat
      BY <2>2, HeldFact DEF IInv
    <3>2. Held(f, m) >= Count(Owner(f)) /\ Held(f, Leader) <= Count(Owner(f))
      BY DEF Full, IInv, LeaderBounded
    <3>3. Held(f, m) <= Held(f, Leader)
      BY <2>1, <3>1 DEF IInv, Drift, Lag, Due
    <3> QED BY <2>2, <3>1, <3>2, <3>3
  <2>4. Class(f) \in {"FULL", "RESUMABLE"}
    BY <2>2, <2>3 DEF Class
  <2> QED BY <2>4 DEF Quarantined
<1>2. IInv /\ [Next]_vars =>
        [Repair => \A f \in Files : Full(f) => lines'[f] = lines[f]]_vars
  BY <1>1
<1> QED BY <1>2, DriftStaysSound, PTL DEF Spec, RepairSparesFinished
=============================================================================
