---------------------------- MODULE StudyProofs ----------------------------
(***************************************************************************)
(* Theorems about the studies around the runs: the masked review of        *)
(* gradings (GradingReview), the files of the synthetic suite (SynthRuns)  *)
(* and the instance it forces through the decode path (SynthTasks), for    *)
(* any number of answers, directories, cells, slices, replaced records and *)
(* tokens.                                                                 *)
(***************************************************************************)
EXTENDS GradingReview, SynthRuns, SynthTasks, FiniteSetTheorems, SequenceTheorems, TLAPS

-----------------------------------------------------------------------------
(* The masked review.                                                      *)

(* A selection has every doubtful answer of the records it was made from.  *)
SelectionsComplete ==
  \A v \in Reviews : review[v] # Unset =>
    \A x \in AnswerFiles \ DOMAIN review[v].refs : ~Doubtful(review[v].from[x])

(* A file of decisions has one judgment for each packet.                   *)
DecisionsFitPackets ==
  \A v \in Reviews : decided[v] # Unset => DOMAIN decided[v].choice = DOMAIN decided[v].for

(* A report lays over the records it scored, the published ones in the     *)
(* frontier study, and its selection is there.                             *)
ReportOfRecord ==
  sensitivity # Unset =>
    /\ sensitivity.directory \in Reviews /\ review[sensitivity.directory] # Unset
    /\ study = "frontier" => sensitivity.scored = published

ReviewShape ==
  /\ review = [v \in Reviews |-> review[v]] /\ decided = [v \in Reviews |-> decided[v]]

ReviewInv ==
  /\ ReviewShape /\ SelectionsComplete /\ DecisionsFitPackets /\ ReportOfRecord /\ ReviewSound

LEMMA ReviewStarts == ReviewInit => ReviewInv
BY DEF ReviewInit, ReviewInv, ReviewShape, SelectionsComplete, DecisionsFitPackets, ReportOfRecord,
       ReviewSound, ChangeHasEvidence, NothingDoubtfulEscapes

(* A report stays sound while what it was made from is only added to.      *)
LEMMA ReportStays ==
  ASSUME ReportOfRecord, ReviewSound,
         sensitivity' = sensitivity, study' = study, published' = published,
         \A v \in Reviews : review[v] # Unset => review'[v] = review[v],
         \A v \in Reviews : decided[v] # Unset => decided'[v] = decided[v]
  PROVE  ReportOfRecord' /\ ReviewSound'
<1>1. CASE sensitivity = Unset
  BY <1>1 DEF ReportOfRecord, ReviewSound, ChangeHasEvidence, NothingDoubtfulEscapes
<1>2. CASE sensitivity # Unset
  <2>1. review'[sensitivity.directory] = review[sensitivity.directory]
    BY <1>2 DEF ReportOfRecord
  <2>2. ReportOfRecord'
    BY <1>2, <2>1 DEF ReportOfRecord
  <2>3. NothingDoubtfulEscapes'
    BY <1>2, <2>1 DEF ReviewSound, NothingDoubtfulEscapes
  <2>4. ChangeHasEvidence'
    <3> SUFFICES ASSUME NEW x \in AnswerFiles, sensitivity.new[x] # sensitivity.scored[x].final
                 PROVE  LET r == sensitivity.scored[x]
                            c == Case(x, r)
                            selected == review'[sensitivity.directory].refs
                        IN  /\ x \in DOMAIN selected /\ selected[x] = r
                            /\ r.boxed = "none" => sensitivity.new[x] # TRUE
                            /\ \E v \in Reviews :
                                 /\ decided'[v] # Unset /\ c \in DOMAIN decided'[v].for
                                 /\ r.text \in decided'[v].for[c]
                                 /\ decided'[v].choice[c].new = sensitivity.new[x]
                                 /\ decided'[v].choice[c].texts # Unset =>
                                      r.text \in decided'[v].choice[c].texts
      BY DEF ChangeHasEvidence, Case
    <3> DEFINE r == sensitivity.scored[x]
               c == Case(x, r)
    <3>1. /\ x \in DOMAIN review[sensitivity.directory].refs
          /\ review[sensitivity.directory].refs[x] = r
          /\ r.boxed = "none" => sensitivity.new[x] # TRUE
      BY <1>2 DEF ReviewSound, ChangeHasEvidence
    <3>2. PICK v \in Reviews :
                 /\ decided[v] # Unset /\ c \in DOMAIN decided[v].for
                 /\ r.text \in decided[v].for[c]
                 /\ decided[v].choice[c].new = sensitivity.new[x]
                 /\ decided[v].choice[c].texts # Unset => r.text \in decided[v].choice[c].texts
      BY <1>2 DEF ReviewSound, ChangeHasEvidence
    <3>3. decided'[v] = decided[v]
      BY <3>2
    <3> HIDE DEF r, c
    <3> QED BY <2>1, <3>1, <3>2, <3>3 DEF r, c
  <2> QED BY <2>2, <2>3, <2>4 DEF ReviewSound
<1> QED BY <1>1, <1>2

LEMMA PrepareKeeps ==
  ASSUME ReviewInv, NEW v \in Reviews, Prepare(v)
  PROVE  ReviewInv'
<1>1. /\ review[v] = Unset /\ decided' = decided /\ sensitivity' = sensitivity
      /\ study' = study /\ published' = published
  BY DEF Prepare
<1>2. PICK sample \in SUBSET Accepted :
        review' = [review EXCEPT ![v] =
          [refs |-> [x \in {y \in AnswerFiles : Doubtful(record[y])} \cup sample |-> record[x]],
           sample |-> sample, from |-> record]]
  BY DEF Prepare
<1>3. /\ \A u \in Reviews : u # v => review'[u] = review[u]
      /\ review'[v].from = record
      /\ DOMAIN review'[v].refs = {y \in AnswerFiles : Doubtful(record[y])} \cup sample
      /\ ReviewShape'
  BY <1>1, <1>2 DEF ReviewInv, ReviewShape
<1>4. SelectionsComplete'
  BY <1>3 DEF ReviewInv, SelectionsComplete, Doubtful
<1>5. ReportOfRecord' /\ ReviewSound'
  BY <1>1, <1>3, ReportStays DEF ReviewInv
<1> QED BY <1>1, <1>3, <1>4, <1>5 DEF ReviewInv, DecisionsFitPackets

LEMMA DecideKeeps ==
  ASSUME ReviewInv, NEW v \in Reviews, Decide(v)
  PROVE  ReviewInv'
<1>1. /\ decided[v] = Unset /\ review' = review /\ sensitivity' = sensitivity
      /\ study' = study /\ published' = published
  BY DEF Decide
<1>2. PICK choice \in [Packets(v) -> UNION {Judgments(v, c) : c \in Packets(v)}] :
        decided' = [decided EXCEPT ![v] = [for |-> PacketFile(v), choice |-> choice]]
  BY DEF Decide
<1>3. /\ \A u \in Reviews : u # v => decided'[u] = decided[u]
      /\ DOMAIN decided'[v].choice = DOMAIN decided'[v].for
      /\ ReviewShape'
  BY <1>1, <1>2 DEF ReviewInv, ReviewShape, PacketFile
<1>4. ReportOfRecord' /\ ReviewSound'
  BY <1>1, <1>3, ReportStays DEF ReviewInv
<1> QED BY <1>1, <1>3, <1>4 DEF ReviewInv, DecisionsFitPackets, SelectionsComplete

(* The command that writes a report holds every reference against the      *)
(* record, its packet and its judgment.                                    *)
LEMMA AnalyzeKeeps ==
  ASSUME ReviewInv, NEW v \in Reviews, NEW w \in Reviews, Analyze(v, w)
  PROVE  ReviewInv'
<1> DEFINE refs == review[v].refs
           Judged(x) == decided[w].choice[Case(x, refs[x])].new
<1>1. /\ review[v] # Unset /\ decided[w] # Unset
      /\ DataFrozen /\ FilesBelong(v, decided[w])
      /\ \A x \in DOMAIN refs : RefHolds(v, decided[w], x)
      /\ sensitivity' = [directory |-> v, scored |-> record,
           new |-> [x \in AnswerFiles |->
             IF x \in DOMAIN refs /\ Judged(x) # Unset THEN Judged(x) ELSE record[x].final]]
      /\ study' = study /\ published' = published /\ record' = record
      /\ review' = review /\ decided' = decided
  BY DEF Analyze
<1>2. /\ sensitivity'.directory = v /\ sensitivity'.scored = record
      /\ \A x \in AnswerFiles : sensitivity'.new[x] # record[x].final =>
           x \in DOMAIN refs /\ sensitivity'.new[x] = Judged(x)
  BY <1>1
<1>3. ASSUME NEW x \in AnswerFiles, sensitivity'.new[x] # record[x].final
      PROVE  LET c == Case(x, record[x]) IN
             /\ x \in DOMAIN refs /\ refs[x] = record[x]
             /\ record[x].boxed = "none" => sensitivity'.new[x] # TRUE
             /\ c \in DOMAIN decided[w].for /\ record[x].text \in decided[w].for[c]
             /\ decided[w].choice[c].new = sensitivity'.new[x]
             /\ decided[w].choice[c].texts # Unset => record[x].text \in decided[w].choice[c].texts
  <2>1. x \in DOMAIN refs /\ sensitivity'.new[x] = Judged(x)
    BY <1>2, <1>3
  <2>2. RefHolds(v, decided[w], x)
    BY <1>1, <2>1
  <2>3. refs[x] = record[x]
    BY <2>2 DEF RefHolds
  <2>4. /\ Case(x, record[x]) \in Packets(v)
        /\ record[x].text \in Texts(v, Case(x, record[x]))
    BY <2>1, <2>3 DEF Packets, Texts
  <2>5. decided[w].for = [c \in Packets(v) |-> Texts(v, c)]
    BY <1>1 DEF FilesBelong, PacketFile
  <2> QED BY <2>1, <2>2, <2>3, <2>4, <2>5 DEF RefHolds
<1>4. ChangeHasEvidence'
  BY <1>1, <1>2, <1>3 DEF ChangeHasEvidence, Case
<1>5. ReportOfRecord'
  BY <1>1, <1>2 DEF ReportOfRecord, DataFrozen
<1>6. NothingDoubtfulEscapes'
  <2> SUFFICES ASSUME study = "frontier", review[v].from = published,
                      NEW x \in AnswerFiles \ DOMAIN refs
               PROVE  IF record[x].final THEN record[x].ended
                      ELSE record[x].boxed = "none" /\ ~record[x].ended
    BY <1>1, <1>2 DEF NothingDoubtfulEscapes
  <2>1. record[x] = review[v].from[x]
    BY <1>1 DEF DataFrozen
  <2>2. ~Doubtful(record[x])
    BY <1>1, <2>1 DEF ReviewInv, SelectionsComplete
  <2> QED BY <2>2 DEF Doubtful
<1> QED
  BY <1>1, <1>4, <1>5, <1>6
  DEF ReviewInv, ReviewShape, SelectionsComplete, DecisionsFitPackets, ReviewSound

LEMMA ReviewStep == ReviewInv /\ [ReviewNext]_reviewVars => ReviewInv'
<1> SUFFICES ASSUME ReviewInv, [ReviewNext]_reviewVars PROVE ReviewInv'
  OBVIOUS
<1>1. CASE \E v \in Reviews : Prepare(v) \/ Decide(v)
  BY <1>1, PrepareKeeps, DecideKeeps
<1>2. CASE \E v, w \in Reviews : Analyze(v, w)
  BY <1>2, AnalyzeKeeps
<1>3. CASE (\E x \in AnswerFiles : Rewrite(x)) \/ UNCHANGED reviewVars
  <2>1. /\ review' = review /\ decided' = decided /\ sensitivity' = sensitivity
        /\ study' = study /\ published' = published
    BY <1>3 DEF Rewrite, reviewVars
  <2>2. ReportOfRecord' /\ ReviewSound'
    BY <2>1, ReportStays DEF ReviewInv
  <2> QED BY <2>1, <2>2 DEF ReviewInv, ReviewShape, SelectionsComplete, DecisionsFitPackets
<1> QED BY <1>1, <1>2, <1>3 DEF ReviewNext

(* A review changes a grade on evidence only, whichever directory's        *)
(* decisions a command is given and whatever records were replaced in      *)
(* between, and a frontier report on a selection from the published        *)
(* records passes over no doubtful answer.                                 *)
THEOREM ReviewStaysSound == ReviewSpec => []ReviewSound
<1>1. ReviewInv => ReviewSound
  BY DEF ReviewInv
<1> QED BY ReviewStarts, ReviewStep, <1>1, PTL DEF ReviewSpec

-----------------------------------------------------------------------------
(* The synthetic suite: what the files hold.                               *)

(* What a run that has come from one instance to another has written.      *)
RowsOf(from, to, t) == [k \in 1..(to - from) |-> [i |-> from + k - 1, tasks |-> t]]

Rows == Seq([i : Nat, tasks : Nat])
Builders == [model : Models, force : BOOLEAN, id : Nat, at : DOMAIN Cells, half : BOOLEAN]
Runners == [cell : CellSet, arm : Arms, n0 : Nat, n : Nat, tasks : Nat, at : Nat]

SuiteTypes ==
  /\ events \in Nat
  /\ instances \in [CellSet -> Nat \cup {Missing}]
  /\ file \in [CellSet -> [Arms -> Rows \cup {Missing}]]
  /\ done \in [CellSet -> [Arms -> Nat \cup {Missing}]]
  /\ builder \in Builders \cup {Missing}
  /\ runner \in Runners \cup {Missing}

(* A file holds the first rows of one run over a slice, on the instances   *)
(* of one build, the present one unless the cell was rebuilt under it.     *)
FilesRun ==
  \A c \in CellSet, a \in Arms : file[c][a] # Missing =>
    \E s \in Slices, to \in Nat, t \in Nat :
      /\ s[1] <= to /\ to <= s[2] /\ file[c][a] = RowsOf(s[1], to, t)
      /\ c \notin rebuilt => instances[c] = t

(* The running arm is where its file ends.                                 *)
RunnerWrites ==
  runner # Missing =>
    /\ <<runner.n0, runner.n>> \in {<<s[1], s[2]>> : s \in Slices}
    /\ runner.n0 <= runner.at /\ runner.at <= runner.n
    /\ file[runner.cell][runner.arm] = RowsOf(runner.n0, runner.at, runner.tasks)
    /\ runner.cell \notin rebuilt => instances[runner.cell] = runner.tasks
    /\ done[runner.cell][runner.arm] # Missing => <<runner.cell, runner.arm>> \in reopened

(* A marker that no later start stepped over stands beside a whole file.   *)
MarkedWhole ==
  \A c \in CellSet, a \in Arms : Loadable(c, a) /\ <<c, a>> \notin reopened =>
    \E s \in Slices, t \in Nat :
      file[c][a] = RowsOf(s[1], s[2], t) /\ done[c][a] = s[2] - s[1]

(* A build of another model that was not forced has nothing before it.     *)
ForeignAhead ==
  builder # Missing /\ builder.model # "qwen" /\ ~builder.force =>
    \A k \in DOMAIN Cells :
      builder.at < k \/ (builder.at = k /\ ~builder.half) => instances[Cells[k]] = Missing

FilesInv == SuiteTypes /\ FilesRun /\ RunnerWrites /\ MarkedWhole
SuiteInv == FilesInv /\ ForeignAhead

LEMMA CellFacts ==
  /\ DOMAIN Cells = 1..Len(Cells) /\ Len(Cells) \in Nat \ {0}
  /\ \A k \in DOMAIN Cells : Cells[k] \in CellSet
  /\ \A s \in Slices : s[1] \in Nat /\ s[2] \in Nat /\ s[1] < s[2]
<1>1. Cells \in Seq(CellSet) /\ Cells # << >>
  BY SuiteAssumption
<1>2. DOMAIN Cells = 1..Len(Cells) /\ Len(Cells) \in Nat \ {0}
  BY <1>1
<1> QED BY <1>1, <1>2, SuiteAssumption DEF CellSet

LEMMA RowsOfType ==
  ASSUME NEW from \in Nat, NEW to \in Nat, from <= to, NEW t \in Nat
  PROVE  /\ RowsOf(from, to, t) \in Rows
         /\ Len(RowsOf(from, to, t)) = to - from
         /\ RowsOf(from, to, t) # Missing
<1> DEFINE n == to - from
           R == [i : Nat, tasks : Nat]
           f == RowsOf(from, to, t)
<1>1. n \in Nat
  OBVIOUS
<1>2. \A k \in 1..n : [i |-> from + k - 1, tasks |-> t] \in R
  OBVIOUS
<1>3. f \in [1..n -> R]
  BY <1>2 DEF RowsOf
<1>4. DOMAIN f = 1..n
  BY <1>3
<1> HIDE DEF n, R, f
<1>5. f \in Seq(R)
  BY <1>1, <1>3, SeqDef
<1>6. Len(f) = n
  BY <1>1, <1>4, <1>5, LenProperties
<1>7. f \in Rows
  BY <1>5 DEF R, Rows
<1>8. f # Missing
  BY <1>7, SuiteAssumption DEF Rows
<1> QED BY <1>6, <1>7, <1>8 DEF f, n

LEMMA RowsOfAppend ==
  ASSUME NEW from \in Nat, NEW at \in Nat, NEW to \in Nat, from <= at, at <= to, NEW t \in Nat
  PROVE  RowsOf(from, at, t) \o RowsOf(at, to, t) = RowsOf(from, to, t)
<1> DEFINE f == RowsOf(from, at, t)
           g == RowsOf(at, to, t)
           m == at - from
           n == to - at
           R == [i : Nat, tasks : Nat]
<1>1. f \in Seq(R) /\ Len(f) = m
  BY RowsOfType DEF Rows
<1>2. g \in Seq(R) /\ Len(g) = n
  BY RowsOfType DEF Rows
<1>3. m \in Nat /\ n \in Nat
  OBVIOUS
<1>4. /\ \A k \in 1..m : f[k] = [i |-> from + k - 1, tasks |-> t]
      /\ \A k \in 1..n : g[k] = [i |-> at + k - 1, tasks |-> t]
  BY DEF RowsOf
<1>5. m + n = to - from /\ from + m = at
  OBVIOUS
<1> HIDE DEF f, g, m, n, R
<1>6. f \o g = [k \in 1..(m + n) |-> IF k <= m THEN f[k] ELSE g[k - m]]
  <2> DEFINE h == f \o g
  <2>1. h \in Seq(R) /\ Len(h) = m + n
    BY <1>1, <1>2, ConcatProperties
  <2>2. \A k \in 1..(m + n) : h[k] = IF k <= m THEN f[k] ELSE g[k - m]
    BY <1>1, <1>2, ConcatProperties
  <2>3. h \in [1..(m + n) -> R]
    BY <2>1, LenProperties
  <2> HIDE DEF h
  <2>4. h = [k \in 1..(m + n) |-> h[k]]
    BY <2>3
  <2>5. h = [k \in 1..(m + n) |-> IF k <= m THEN f[k] ELSE g[k - m]]
    BY <2>2, <2>4
  <2> QED BY <2>5 DEF h
<1>7. \A k \in 1..(m + n) :
        (IF k <= m THEN f[k] ELSE g[k - m]) = [i |-> from + k - 1, tasks |-> t]
  <2> SUFFICES ASSUME NEW k \in 1..(m + n)
               PROVE  (IF k <= m THEN f[k] ELSE g[k - m]) = [i |-> from + k - 1, tasks |-> t]
    OBVIOUS
  <2>1. CASE k <= m
    BY <1>3, <1>4, <2>1
  <2>2. CASE ~(k <= m)
    <3>1. k - m \in 1..n /\ at + (k - m) - 1 = from + k - 1
      BY <1>3, <1>5, <2>2
    <3> QED BY <1>4, <2>2, <3>1
  <2> QED BY <2>1, <2>2
<1>8. f \o g = [k \in 1..(m + n) |-> [i |-> from + k - 1, tasks |-> t]]
  BY <1>6, <1>7
<1> QED BY <1>5, <1>8 DEF RowsOf, f, g

LEMMA BatchEndFact ==
  ASSUME runner \in Runners, runner.at <= runner.n
  PROVE  BatchEnd \in Nat /\ runner.at <= BatchEnd /\ BatchEnd <= runner.n
<1> DEFINE p == runner.at + BatchSize
           q == runner.n
<1>1. p \in Nat /\ q \in Nat /\ runner.at <= p /\ runner.at <= q
  BY SuiteAssumption DEF Runners
<1> HIDE DEF p, q
<1>2. \E x \in {p, q} : \A y \in {p, q} : x <= y
  BY <1>1
<1>3. Min({p, q}) \in {p, q} /\ \A y \in {p, q} : Min({p, q}) <= y
  BY <1>2 DEF Min
<1>4. BatchEnd = Min({p, q})
  BY DEF BatchEnd, p, q
<1> QED BY <1>1, <1>3, <1>4 DEF q

(* The rows that a batch appends continue those of the file.               *)
LEMMA WrittenRows ==
  ASSUME SuiteTypes, RunnerWrites, runner # Missing,
         NEW to \in Nat, runner.at <= to, Written(to)
  PROVE  /\ runner.cell \in CellSet /\ runner.arm \in Arms
         /\ file' = [file EXCEPT ![runner.cell][runner.arm] = RowsOf(runner.n0, to, runner.tasks)]
<1>1. runner \in Runners
  BY DEF SuiteTypes
<1>2. /\ runner.cell \in CellSet /\ runner.arm \in Arms /\ runner.n0 \in Nat
      /\ runner.at \in Nat /\ runner.tasks \in Nat /\ runner.n0 <= runner.at
  BY <1>1 DEF Runners, RunnerWrites
<1>3. Records(runner.at, to) = RowsOf(runner.at, to, runner.tasks)
  BY DEF Records, RowsOf
<1>4. file[runner.cell][runner.arm] \o Records(runner.at, to)
        = RowsOf(runner.n0, to, runner.tasks)
  <2>1. file[runner.cell][runner.arm] = RowsOf(runner.n0, runner.at, runner.tasks)
    BY DEF RunnerWrites
  <2>2. RowsOf(runner.n0, runner.at, runner.tasks) \o RowsOf(runner.at, to, runner.tasks)
          = RowsOf(runner.n0, to, runner.tasks)
    BY <1>2, RowsOfAppend
  <2> QED BY <1>3, <2>1, <2>2
<1>5. file' = [file EXCEPT ![runner.cell][runner.arm]
                 = file[runner.cell][runner.arm] \o Records(runner.at, to)]
  BY DEF Written
<1> QED BY <1>2, <1>4, <1>5

(* A longer file of the running arm keeps all that is said of files.       *)
LEMMA FilesGrow ==
  ASSUME FilesInv, runner # Missing, NEW to \in Nat, runner.at <= to, to <= runner.n,
         Written(to), UNCHANGED <<instances, done, reopened, rebuilt>>
  PROVE  /\ file' \in [CellSet -> [Arms -> Rows \cup {Missing}]]
         /\ file'[runner.cell][runner.arm] = RowsOf(runner.n0, to, runner.tasks)
         /\ FilesRun' /\ MarkedWhole'
<1> DEFINE c0 == runner.cell
           a0 == runner.arm
           n0 == runner.n0
           t0 == runner.tasks
           r0 == RowsOf(n0, to, t0)
<1>1. /\ c0 \in CellSet /\ a0 \in Arms /\ n0 \in Nat /\ runner.at \in Nat /\ t0 \in Nat
      /\ n0 <= to /\ file \in [CellSet -> [Arms -> Rows \cup {Missing}]]
  BY DEF FilesInv, SuiteTypes, Runners, RunnerWrites
<1>2. file' = [file EXCEPT ![c0][a0] = r0]
  BY WrittenRows DEF FilesInv
<1>3. r0 \in Rows
  BY <1>1, RowsOfType
<1>4. PICK s \in Slices : s[1] = n0 /\ s[2] = runner.n
  BY DEF FilesInv, RunnerWrites
<1>5. c0 \notin rebuilt => instances[c0] = t0
  BY DEF FilesInv, RunnerWrites
<1>6. done[c0][a0] # Missing => <<c0, a0>> \in reopened
  BY DEF FilesInv, RunnerWrites
<1>7. \A c \in CellSet, a \in Arms :
        /\ c = c0 /\ a = a0 => file'[c][a] = r0
        /\ ~(c = c0 /\ a = a0) => file'[c][a] = file[c][a]
  <2> HIDE DEF c0, a0, r0
  <2> QED BY <1>1, <1>2
<1>8. file' \in [CellSet -> [Arms -> Rows \cup {Missing}]]
  <2> HIDE DEF c0, a0, r0
  <2> QED BY <1>1, <1>2, <1>3
<1>9. FilesRun'
  <2> SUFFICES ASSUME NEW c \in CellSet, NEW a \in Arms, file'[c][a] # Missing
               PROVE  \E s1 \in Slices, k \in Nat, t \in Nat :
                        /\ s1[1] <= k /\ k <= s1[2] /\ file'[c][a] = RowsOf(s1[1], k, t)
                        /\ c \notin rebuilt => instances[c] = t
    BY DEF FilesRun
  <2>1. CASE c = c0 /\ a = a0
    <3>1. s[1] <= to /\ to <= s[2] /\ file'[c][a] = RowsOf(s[1], to, t0)
      BY <1>1, <1>4, <1>7, <2>1
    <3> QED BY <1>1, <1>5, <2>1, <3>1
  <2>2. CASE ~(c = c0 /\ a = a0)
    BY <1>7, <2>2 DEF FilesInv, FilesRun
  <2> QED BY <2>1, <2>2
<1>10. MarkedWhole'
  <2> SUFFICES ASSUME NEW c \in CellSet, NEW a \in Arms,
                      file'[c][a] # Missing, done[c][a] # Missing, <<c, a>> \notin reopened
               PROVE  \E s1 \in Slices, t \in Nat :
                        file'[c][a] = RowsOf(s1[1], s1[2], t) /\ done[c][a] = s1[2] - s1[1]
    BY DEF MarkedWhole, Loadable
  <2>1. ~(c = c0 /\ a = a0)
    BY <1>6
  <2> QED BY <1>7, <2>1 DEF FilesInv, MarkedWhole, Loadable
<1> QED BY <1>1, <1>7, <1>8, <1>9, <1>10

LEMMA SuiteStarts == SuiteInit => SuiteInv
<1> SUFFICES ASSUME SuiteInit PROVE SuiteInv
  OBVIOUS
<1>1. SuiteTypes
  BY DEF SuiteInit, SuiteTypes, PerArm
<1>2. \A c \in CellSet, a \in Arms : file[c][a] = Missing
  BY DEF SuiteInit, PerArm
<1> QED BY <1>1, <1>2
  DEF SuiteInit, SuiteInv, FilesInv, FilesRun, RunnerWrites, MarkedWhole, Loadable, ForeignAhead

(* A build that is not refused has nothing of others before it.            *)
LEMMA BuildStarts ==
  ASSUME SuiteInv, NEW m \in Models, NEW f \in BOOLEAN, StartBuild(m, f)
  PROVE  SuiteInv'
<1>1. /\ UNCHANGED <<instances, meta, file, done, runner, reopened, rebuilt>>
      /\ events' = events + 1
      /\ builder' = [model |-> m, force |-> f, id |-> events + 1, at |-> 1, half |-> FALSE]
  BY DEF StartBuild, synthDisk
<1>2. events \in Nat /\ events + 1 \in Nat
  BY DEF SuiteInv, FilesInv, SuiteTypes
<1>3. 1 \in DOMAIN Cells
  BY CellFacts
<1>4. builder' \in Builders
  BY <1>1, <1>2, <1>3 DEF Builders
<1>5. SuiteTypes'
  BY <1>1, <1>2, <1>4 DEF SuiteInv, FilesInv, SuiteTypes
<1>6. FilesRun' /\ RunnerWrites' /\ MarkedWhole'
  BY <1>1 DEF SuiteInv, FilesInv, FilesRun, RunnerWrites, MarkedWhole, Loadable
<1>7. ForeignAhead'
  <2>1. m # "qwen" /\ ~f => \A c \in CellSet : instances[c] = Missing
    BY DEF StartBuild, BuildRefused
  <2> QED BY <1>1, <2>1, CellFacts DEF ForeignAhead
<1> QED BY <1>5, <1>6, <1>7 DEF SuiteInv, FilesInv

LEMMA BuilderAt ==
  ASSUME SuiteTypes, builder # Missing
  PROVE  /\ builder \in Builders /\ Cells[builder.at] \in CellSet
         /\ builder.at \in Nat /\ builder.id \in Nat /\ builder.half \in BOOLEAN
<1>1. builder \in Builders
  BY DEF SuiteTypes
<1>2. builder.at \in DOMAIN Cells /\ builder.id \in Nat /\ builder.half \in BOOLEAN
  BY <1>1 DEF Builders
<1> QED BY <1>1, <1>2, CellFacts

LEMMA InstancesWritten ==
  ASSUME SuiteInv, WriteInstances
  PROVE  SuiteInv'
<1> DEFINE c0 == Cells[builder.at]
           id == builder.id
<1>1. /\ UNCHANGED <<meta, file, done, runner, reopened, events>>
      /\ builder # Missing /\ ~builder.half
      /\ instances' = [instances EXCEPT ![c0] = id]
      /\ rebuilt' = IF \E a \in Arms : file[c0][a] # Missing THEN rebuilt \cup {c0} ELSE rebuilt
      /\ builder' = [builder EXCEPT !.half = TRUE]
  BY DEF WriteInstances
<1>2. SuiteTypes /\ builder \in Builders /\ c0 \in CellSet /\ id \in Nat /\ builder.at \in Nat
  BY <1>1, BuilderAt DEF SuiteInv, FilesInv
<1>3. builder' \in Builders
  BY <1>1, <1>2 DEF Builders
<1>4. instances \in [CellSet -> Nat \cup {Missing}]
  BY <1>2 DEF SuiteTypes
<1> HIDE DEF c0, id
<1>5. /\ instances' \in [CellSet -> Nat \cup {Missing}]
      /\ \A c \in CellSet : c # c0 => instances'[c] = instances[c]
  BY <1>1, <1>2, <1>4
<1>6. SuiteTypes'
  BY <1>1, <1>2, <1>3, <1>5 DEF SuiteTypes
<1>7. \A c \in CellSet, a \in Arms : file[c][a] # Missing /\ c \notin rebuilt' =>
        c \notin rebuilt /\ instances'[c] = instances[c]
  BY <1>1, <1>5
<1>8. FilesRun'
  <2> SUFFICES ASSUME NEW c \in CellSet, NEW a \in Arms, file[c][a] # Missing
               PROVE  \E s \in Slices, to \in Nat, t \in Nat :
                        /\ s[1] <= to /\ to <= s[2] /\ file[c][a] = RowsOf(s[1], to, t)
                        /\ c \notin rebuilt' => instances'[c] = t
    BY <1>1 DEF FilesRun
  <2>1. PICK s \in Slices, to \in Nat, t \in Nat :
          /\ s[1] <= to /\ to <= s[2] /\ file[c][a] = RowsOf(s[1], to, t)
          /\ c \notin rebuilt => instances[c] = t
    BY DEF SuiteInv, FilesInv, FilesRun
  <2> QED BY <1>7, <2>1
<1>9. RunnerWrites'
  <2> SUFFICES ASSUME runner # Missing
               PROVE  RunnerWrites'
    BY <1>1 DEF RunnerWrites
  <2>1. runner \in Runners
    BY <1>2 DEF SuiteTypes
  <2>2. /\ runner.cell \in CellSet /\ runner.arm \in Arms /\ runner.n0 \in Nat /\ runner.at \in Nat
        /\ runner.tasks \in Nat /\ runner.n0 <= runner.at
    BY <2>1 DEF SuiteInv, FilesInv, RunnerWrites, Runners
  <2>3. file[runner.cell][runner.arm] # Missing
    BY <2>2, RowsOfType DEF SuiteInv, FilesInv, RunnerWrites
  <2> QED BY <1>1, <1>7, <2>2, <2>3 DEF SuiteInv, FilesInv, RunnerWrites
<1>10. MarkedWhole'
  BY <1>1 DEF SuiteInv, FilesInv, MarkedWhole, Loadable
<1>11. ForeignAhead'
  <2> SUFFICES ASSUME builder.model # "qwen", ~builder.force, NEW k \in DOMAIN Cells, builder.at < k
               PROVE  instances'[Cells[k]] = Missing
    <3>1. /\ builder'.model = builder.model /\ builder'.force = builder.force
          /\ builder'.at = builder.at /\ builder'.half
      BY <1>1, <1>2 DEF Builders
    <3> QED BY <3>1 DEF ForeignAhead
  <2>1. Cells[k] # c0
    <3>1. builder.at \in DOMAIN Cells
      BY <1>2 DEF Builders
    <3>2. k # builder.at
      BY <1>2, CellFacts
    <3> QED BY <3>1, <3>2, SuiteAssumption DEF c0
  <2>2. instances[Cells[k]] = Missing
    BY <1>1 DEF SuiteInv, ForeignAhead
  <2> QED BY <1>5, <2>1, <2>2, CellFacts
<1> QED BY <1>6, <1>8, <1>9, <1>10, <1>11 DEF SuiteInv, FilesInv

LEMMA MetaWritten ==
  ASSUME SuiteInv, WriteMeta
  PROVE  SuiteInv'
<1>1. /\ UNCHANGED <<instances, file, done, runner, reopened, rebuilt, events>>
      /\ builder # Missing /\ builder.half
      /\ builder' = IF builder.at = Len(Cells) THEN Missing
                    ELSE [builder EXCEPT !.at = @ + 1, !.half = FALSE]
  BY DEF WriteMeta
<1>2. SuiteTypes /\ builder \in Builders /\ builder.at \in DOMAIN Cells
  <2>1. SuiteTypes /\ builder \in Builders
    BY <1>1, BuilderAt DEF SuiteInv, FilesInv
  <2> QED BY <2>1 DEF Builders
<1>3. /\ builder.at \in Nat
      /\ builder.at # Len(Cells) => builder.at + 1 \in DOMAIN Cells
  BY <1>2, CellFacts
<1>4. builder' \in Builders \cup {Missing}
  <2>1. CASE builder.at = Len(Cells)
    BY <1>1, <2>1
  <2>2. CASE builder.at # Len(Cells)
    BY <1>1, <1>2, <1>3, <2>2 DEF Builders
  <2> QED BY <2>1, <2>2
<1>5. SuiteTypes'
  BY <1>1, <1>2, <1>4 DEF SuiteTypes
<1>6. FilesRun' /\ RunnerWrites' /\ MarkedWhole'
  BY <1>1 DEF SuiteInv, FilesInv, FilesRun, RunnerWrites, MarkedWhole, Loadable
<1>7. ForeignAhead'
  <2> SUFFICES ASSUME builder' # Missing, builder'.model # "qwen", ~builder'.force,
                      NEW k \in DOMAIN Cells,
                      builder'.at < k \/ (builder'.at = k /\ ~builder'.half)
               PROVE  instances[Cells[k]] = Missing
    BY <1>1 DEF ForeignAhead
  <2>1. builder.at # Len(Cells)
    BY <1>1
  <2>2. /\ builder'.model = builder.model /\ builder'.force = builder.force
        /\ builder'.at = builder.at + 1
    BY <1>1, <1>2, <2>1 DEF Builders
  <2>3. builder.at < k
    BY <1>3, <2>2, CellFacts
  <2> QED BY <1>1, <2>2, <2>3 DEF SuiteInv, ForeignAhead
<1> QED BY <1>5, <1>6, <1>7 DEF SuiteInv, FilesInv

LEMMA RunStarts ==
  ASSUME SuiteInv, NEW c0 \in CellSet, NEW a0 \in Arms, NEW slice \in Slices,
         StartRun(c0, a0, slice)
  PROVE  SuiteInv'
<1> DEFINE t0 == instances[c0]
<1>1. /\ UNCHANGED <<instances, meta, done, builder, rebuilt>>
      /\ events' = events + 1 /\ instances[c0] # Missing
      /\ runner' = [cell |-> c0, arm |-> a0, n0 |-> slice[1], n |-> slice[2],
                    tasks |-> t0, at |-> slice[1]]
      /\ file' = [file EXCEPT ![c0][a0] = << >>]
      /\ reopened' = IF done[c0][a0] # Missing THEN reopened \cup {<<c0, a0>>} ELSE reopened
  BY DEF StartRun
<1>2. /\ events \in Nat /\ instances \in [CellSet -> Nat \cup {Missing}]
      /\ file \in [CellSet -> [Arms -> Rows \cup {Missing}]]
      /\ done \in [CellSet -> [Arms -> Nat \cup {Missing}]]
      /\ builder \in Builders \cup {Missing}
  BY DEF SuiteInv, FilesInv, SuiteTypes
<1>3. t0 \in Nat
  BY <1>1, <1>2
<1>4. slice[1] \in Nat /\ slice[2] \in Nat /\ slice[1] < slice[2]
  BY CellFacts
<1>5. runner' \in Runners
  BY <1>1, <1>3, <1>4 DEF Runners
<1>6. << >> \in Rows /\ << >> # Missing
  <2>1. << >> \in Rows
    BY DEF Rows
  <2> QED BY <2>1, SuiteAssumption DEF Rows
<1>7. << >> = RowsOf(slice[1], slice[1], t0)
  <2>1. 1..(slice[1] - slice[1]) = {}
    BY <1>4
  <2>2. RowsOf(slice[1], slice[1], t0) = [k \in {} |-> [i |-> slice[1] + k - 1, tasks |-> t0]]
    BY <2>1 DEF RowsOf
  <2> QED BY <2>2
<1>8. /\ file' \in [CellSet -> [Arms -> Rows \cup {Missing}]]
      /\ \A c \in CellSet, a \in Arms :
           /\ c = c0 /\ a = a0 => file'[c][a] = << >>
           /\ ~(c = c0 /\ a = a0) => file'[c][a] = file[c][a]
  <2> DEFINE e == << >>
  <2>1. file' = [file EXCEPT ![c0][a0] = e] /\ e \in Rows
    BY <1>1, <1>6
  <2> HIDE DEF e
  <2>2. file' \in [CellSet -> [Arms -> Rows \cup {Missing}]]
    BY <1>2, <2>1
  <2>3. \A c \in CellSet, a \in Arms :
           /\ c = c0 /\ a = a0 => file'[c][a] = e
           /\ ~(c = c0 /\ a = a0) => file'[c][a] = file[c][a]
    BY <1>2, <2>1
  <2> QED BY <2>2, <2>3 DEF e
<1> HIDE DEF t0
<1>9. SuiteTypes'
  <2>1. events' \in Nat
    BY <1>1, <1>2
  <2> QED BY <1>1, <1>2, <1>5, <1>8, <2>1 DEF SuiteTypes
<1>10. FilesRun'
  <2> SUFFICES ASSUME NEW c \in CellSet, NEW a \in Arms, file'[c][a] # Missing
               PROVE  \E s \in Slices, to \in Nat, t \in Nat :
                        /\ s[1] <= to /\ to <= s[2] /\ file'[c][a] = RowsOf(s[1], to, t)
                        /\ c \notin rebuilt => instances[c] = t
    BY <1>1 DEF FilesRun
  <2>1. CASE c = c0 /\ a = a0
    <3>1. file'[c][a] = RowsOf(slice[1], slice[1], t0)
      BY <1>7, <1>8, <2>1
    <3>2. instances[c] = t0
      BY <2>1 DEF t0
    <3>3. slice[1] <= slice[1] /\ slice[1] <= slice[2]
      BY <1>4
    <3> QED BY <1>3, <1>4, <3>1, <3>2, <3>3
  <2>2. CASE ~(c = c0 /\ a = a0)
    <3>1. file'[c][a] = file[c][a]
      BY <1>8, <2>2
    <3>2. PICK s \in Slices, to \in Nat, t \in Nat :
            /\ s[1] <= to /\ to <= s[2] /\ file[c][a] = RowsOf(s[1], to, t)
            /\ c \notin rebuilt => instances[c] = t
      BY <3>1 DEF SuiteInv, FilesInv, FilesRun
    <3> QED BY <3>1, <3>2
  <2> QED BY <2>1, <2>2
<1>11. RunnerWrites'
  <2>1. /\ runner'.cell = c0 /\ runner'.arm = a0 /\ runner'.n0 = slice[1] /\ runner'.n = slice[2]
        /\ runner'.tasks = t0 /\ runner'.at = slice[1]
    BY <1>1
  <2>2. file'[c0][a0] = RowsOf(slice[1], slice[1], t0)
    BY <1>7, <1>8
  <2>3. done'[c0][a0] # Missing => <<c0, a0>> \in reopened'
    BY <1>1
  <2>4. instances'[c0] = t0
    BY <1>1 DEF t0
  <2>5. slice[1] <= slice[1] /\ slice[1] <= slice[2]
    BY <1>4
  <2> QED BY <2>1, <2>2, <2>3, <2>4, <2>5 DEF RunnerWrites
<1>12. MarkedWhole'
  <2> SUFFICES ASSUME NEW c \in CellSet, NEW a \in Arms,
                      file'[c][a] # Missing, done[c][a] # Missing, <<c, a>> \notin reopened'
               PROVE  \E s \in Slices, t \in Nat :
                        file'[c][a] = RowsOf(s[1], s[2], t) /\ done[c][a] = s[2] - s[1]
    BY <1>1 DEF MarkedWhole, Loadable
  <2>1. ~(c = c0 /\ a = a0) /\ <<c, a>> \notin reopened
    BY <1>1
  <2> QED BY <1>8, <2>1 DEF SuiteInv, FilesInv, MarkedWhole, Loadable
<1>13. ForeignAhead'
  BY <1>1 DEF SuiteInv, ForeignAhead
<1> QED BY <1>9, <1>10, <1>11, <1>12, <1>13 DEF SuiteInv, FilesInv

LEMMA BatchWritten ==
  ASSUME SuiteInv, Batch
  PROVE  SuiteInv'
<1>1. /\ runner # Missing /\ Written(BatchEnd) /\ runner' = [runner EXCEPT !.at = BatchEnd]
      /\ UNCHANGED <<instances, meta, done, builder, reopened, rebuilt, events>>
  BY DEF Batch
<1>2. runner \in Runners /\ runner.at <= runner.n /\ FilesInv /\ SuiteTypes /\ RunnerWrites
  BY <1>1 DEF SuiteInv, FilesInv, SuiteTypes, RunnerWrites
<1>3. BatchEnd \in Nat /\ runner.at <= BatchEnd /\ BatchEnd <= runner.n
  BY <1>2, BatchEndFact
<1> DEFINE to == BatchEnd
<1> HIDE DEF to
<1>4. /\ to \in Nat /\ runner.at <= to /\ to <= runner.n /\ Written(to)
      /\ runner' = [runner EXCEPT !.at = to]
  BY <1>1, <1>3 DEF to
<1>5. /\ file' \in [CellSet -> [Arms -> Rows \cup {Missing}]]
      /\ file'[runner.cell][runner.arm] = RowsOf(runner.n0, to, runner.tasks)
      /\ FilesRun' /\ MarkedWhole'
  BY <1>1, <1>2, <1>4, FilesGrow
<1>6. /\ runner' \in Runners /\ runner'.at = to
      /\ runner'.cell = runner.cell /\ runner'.arm = runner.arm /\ runner'.n0 = runner.n0
      /\ runner'.n = runner.n /\ runner'.tasks = runner.tasks
  BY <1>2, <1>4 DEF Runners
<1>7. SuiteTypes'
  BY <1>1, <1>2, <1>5, <1>6 DEF SuiteTypes
<1>8. runner.n0 <= to
  <2>1. runner.n0 \in Nat /\ runner.at \in Nat /\ runner.n0 <= runner.at
    BY <1>1, <1>2 DEF RunnerWrites, Runners
  <2> QED BY <1>4, <2>1
<1>9. RunnerWrites'
  BY <1>1, <1>2, <1>4, <1>5, <1>6, <1>8 DEF RunnerWrites
<1>10. ForeignAhead'
  BY <1>1 DEF SuiteInv, ForeignAhead
<1> QED BY <1>5, <1>7, <1>9, <1>10 DEF SuiteInv, FilesInv

LEMMA RunFinishes ==
  ASSUME SuiteInv, Finish
  PROVE  SuiteInv'
<1> DEFINE c0 == runner.cell
           a0 == runner.arm
           size == runner.n - runner.n0
<1>1. /\ runner # Missing /\ runner.at = runner.n /\ runner' = Missing
      /\ done' = [done EXCEPT ![c0][a0] = size]
      /\ reopened' = reopened \ {<<c0, a0>>}
      /\ UNCHANGED <<instances, meta, file, builder, rebuilt, events>>
  BY DEF Finish
<1>2. runner \in Runners /\ SuiteTypes /\ RunnerWrites
  BY <1>1 DEF SuiteInv, FilesInv, SuiteTypes
<1>3. /\ c0 \in CellSet /\ a0 \in Arms /\ runner.n \in Nat /\ runner.n0 \in Nat
      /\ runner.n0 <= runner.n /\ runner.tasks \in Nat
      /\ file[c0][a0] = RowsOf(runner.n0, runner.n, runner.tasks)
  BY <1>1, <1>2 DEF Runners, RunnerWrites
<1>4. PICK s \in Slices : s[1] = runner.n0 /\ s[2] = runner.n
  BY <1>1, <1>2 DEF RunnerWrites
<1>5. size \in Nat /\ size = s[2] - s[1]
  BY <1>3, <1>4
<1>6. done \in [CellSet -> [Arms -> Nat \cup {Missing}]]
  BY <1>2 DEF SuiteTypes
<1>7. file[c0][a0] = RowsOf(s[1], s[2], runner.tasks) /\ runner.tasks \in Nat
  BY <1>3, <1>4
<1> HIDE DEF c0, a0, size
<1>8. /\ done' \in [CellSet -> [Arms -> Nat \cup {Missing}]]
      /\ \A c \in CellSet, a \in Arms :
           /\ c = c0 /\ a = a0 => done'[c][a] = size
           /\ ~(c = c0 /\ a = a0) => done'[c][a] = done[c][a]
  BY <1>1, <1>3, <1>5, <1>6
<1>9. SuiteTypes'
  BY <1>1, <1>2, <1>8 DEF SuiteTypes
<1>10. FilesRun' /\ RunnerWrites' /\ ForeignAhead'
  BY <1>1 DEF SuiteInv, FilesInv, FilesRun, RunnerWrites, ForeignAhead
<1>11. MarkedWhole'
  <2> SUFFICES ASSUME NEW c \in CellSet, NEW a \in Arms,
                      file[c][a] # Missing, done'[c][a] # Missing, <<c, a>> \notin reopened'
               PROVE  \E s1 \in Slices, t \in Nat :
                        file[c][a] = RowsOf(s1[1], s1[2], t) /\ done'[c][a] = s1[2] - s1[1]
    BY <1>1 DEF MarkedWhole, Loadable
  <2>1. CASE c = c0 /\ a = a0
    BY <1>5, <1>7, <1>8, <2>1
  <2>2. CASE ~(c = c0 /\ a = a0)
    <3>1. <<c, a>> # <<c0, a0>>
      BY <2>2
    <3>2. <<c, a>> \notin reopened
      BY <1>1, <3>1
    <3> QED BY <1>8, <2>2, <3>2 DEF SuiteInv, FilesInv, MarkedWhole, Loadable
  <2> QED BY <2>1, <2>2
<1> QED BY <1>9, <1>10, <1>11 DEF SuiteInv, FilesInv

LEMMA ProcessDies ==
  ASSUME SuiteInv, Die
  PROVE  SuiteInv'
<1>1. UNCHANGED <<instances, meta, done, reopened, rebuilt>> /\ events' = events + 1
  BY DEF Die
<1>2. events' \in Nat
  BY <1>1 DEF SuiteInv, FilesInv, SuiteTypes
<1>3. CASE /\ runner # Missing
           /\ \E to \in runner.at..BatchEnd : Written(to)
           /\ runner' = Missing /\ UNCHANGED builder
  <2>1. runner \in Runners /\ runner.at <= runner.n /\ FilesInv
    BY <1>3 DEF SuiteInv, FilesInv, SuiteTypes, RunnerWrites
  <2>2. BatchEnd \in Nat /\ BatchEnd <= runner.n /\ runner.at \in Nat /\ runner.n \in Nat
    BY <2>1, BatchEndFact DEF Runners
  <2>3. PICK to \in runner.at..BatchEnd : Written(to)
    BY <1>3
  <2>4. to \in Nat /\ runner.at <= to /\ to <= runner.n
    BY <2>2
  <2>5. /\ file' \in [CellSet -> [Arms -> Rows \cup {Missing}]]
        /\ FilesRun' /\ MarkedWhole'
    BY <1>1, <1>3, <2>1, <2>3, <2>4, FilesGrow
  <2>6. SuiteTypes'
    BY <1>1, <1>2, <1>3, <2>5 DEF SuiteInv, FilesInv, SuiteTypes
  <2>7. RunnerWrites' /\ ForeignAhead'
    BY <1>1, <1>3 DEF SuiteInv, RunnerWrites, ForeignAhead
  <2> QED BY <2>5, <2>6, <2>7 DEF SuiteInv, FilesInv
<1>4. CASE builder # Missing /\ builder' = Missing /\ UNCHANGED <<runner, file>>
  <2>1. SuiteTypes'
    BY <1>1, <1>2, <1>4 DEF SuiteInv, FilesInv, SuiteTypes
  <2>2. FilesRun' /\ RunnerWrites' /\ MarkedWhole' /\ ForeignAhead'
    BY <1>1, <1>4 DEF SuiteInv, FilesInv, FilesRun, RunnerWrites, MarkedWhole, Loadable, ForeignAhead
  <2> QED BY <2>1, <2>2 DEF SuiteInv, FilesInv
<1> QED BY <1>3, <1>4 DEF Die

LEMMA SuiteStep == SuiteInv /\ [SuiteNext]_suiteVars => SuiteInv'
<1> SUFFICES ASSUME SuiteInv, [SuiteNext]_suiteVars PROVE SuiteInv'
  OBVIOUS
<1>1. CASE \E m \in Models, f \in BOOLEAN : StartBuild(m, f)
  BY <1>1, BuildStarts
<1>2. CASE WriteInstances
  BY <1>2, InstancesWritten
<1>3. CASE WriteMeta
  BY <1>3, MetaWritten
<1>4. CASE \E c \in CellSet, a \in Arms, s \in Slices : StartRun(c, a, s)
  BY <1>4, RunStarts
<1>5. CASE Batch
  BY <1>5, BatchWritten
<1>6. CASE Finish
  BY <1>6, RunFinishes
<1>7. CASE Die
  BY <1>7, ProcessDies
<1>8. CASE UNCHANGED suiteVars
  BY <1>8 DEF suiteVars, synthDisk, SuiteInv, FilesInv, SuiteTypes, FilesRun, RunnerWrites,
              MarkedWhole, Loadable, ForeignAhead
<1> QED BY <1>1, <1>2, <1>3, <1>4, <1>5, <1>6, <1>7, <1>8 DEF SuiteNext

(* No build of another model replaces instances without --force_out,       *)
(* however many cells it has to go and whoever built them before.          *)
THEOREM ForeignSparesInstances == SuiteSpec => ForeignBuildSpares
<1>1. SuiteInv /\ [SuiteNext]_suiteVars =>
        [\A c \in CellSet :
           instances'[c] # instances[c] /\ builder.model # "qwen" /\ ~builder.force
             => instances[c] = Missing]_suiteVars
  <2> SUFFICES ASSUME SuiteInv, SuiteNext, NEW c \in CellSet,
                      instances'[c] # instances[c], builder.model # "qwen", ~builder.force
               PROVE  instances[c] = Missing
    OBVIOUS
  <2>1. WriteInstances
    BY DEF SuiteNext, StartBuild, WriteMeta, StartRun, Batch, Finish, Die, synthDisk
  <2>2. builder # Missing /\ ~builder.half
        /\ instances' = [instances EXCEPT ![Cells[builder.at]] = builder.id]
    BY <2>1 DEF WriteInstances
  <2>3. builder.at \in DOMAIN Cells /\ instances \in [CellSet -> Nat \cup {Missing}]
    BY <2>2 DEF SuiteInv, FilesInv, SuiteTypes, Builders
  <2>4. c = Cells[builder.at]
    BY <2>2, <2>3
  <2> QED BY <2>2, <2>3, <2>4 DEF SuiteInv, ForeignAhead
<1> QED BY SuiteStarts, SuiteStep, <1>1, PTL DEF SuiteSpec, ForeignBuildSpares

-----------------------------------------------------------------------------
(* The synthetic suite: what the analyses make of the files.               *)

(* Any set of natural numbers that is not empty has a least one.           *)
LEMMA Least ==
  ASSUME NEW T, T \subseteq Nat, T # {}
  PROVE  \E n \in T : \A m \in T : n <= m
<1> DEFINE R == OpToRel(<, Nat)
<1>1. IsWellFoundedOn(R, Nat)
  BY NatLessThanWellFounded
<1>2. \A m \in Nat, k \in Nat : m < k => <<m, k>> \in R
  BY DEF R, OpToRel
<1> HIDE DEF R
<1>3. PICK n \in T : \A m \in T : <<m, n>> \notin R
  BY <1>1, WFMin
<1>4. ASSUME NEW m \in T PROVE n <= m
  <2>1. m \in Nat /\ n \in Nat
    OBVIOUS
  <2>2. ~(m < n)
    BY <1>2, <1>3, <2>1, Zenon
  <2> QED BY <2>1, <2>2, SMT
<1> QED BY <1>4

(* A bounded set of them that is convex is an interval.                    *)
LEMMA Interval ==
  ASSUME NEW C, C \subseteq Nat, C # {}, NEW top \in Nat, \A i \in C : i <= top,
         \A i \in C, j \in C : \A x \in Nat : i <= x /\ x <= j => x \in C
  PROVE  \E lo \in Nat, hi \in Nat : lo <= hi /\ C = lo..hi
<1>1. PICK lo \in C : \A i \in C : lo <= i
  BY Least
<1> DEFINE D == {x \in Nat : \A i \in C : i <= x}
<1>2. D \subseteq Nat /\ top \in D
  OBVIOUS
<1>3. PICK hi \in D : \A x \in D : hi <= x
  BY <1>2, Least
<1>4. hi \in Nat /\ \A i \in C : i <= hi
  OBVIOUS
<1>5. hi \in C
  <2> SUFFICES ASSUME hi \notin C PROVE FALSE
    OBVIOUS
  <2>1. \A i \in C : i \in Nat /\ i # hi /\ i <= hi
    BY <1>4
  <2>2. \A i \in C : i <= hi - 1
    BY <1>4, <2>1
  <2>3. hi - 1 \in Nat
    BY <1>1, <1>4, <2>2
  <2>4. hi - 1 \in D
    BY <2>2, <2>3
  <2> HIDE DEF D
  <2>5. hi <= hi - 1
    BY <1>3, <2>4
  <2> QED BY <1>4, <2>5
<1>6. C = lo..hi
  <2>1. lo \in Nat
    OBVIOUS
  <2>2. \A x \in C : x \in lo..hi
    BY <1>1, <1>4, <2>1
  <2>3. \A x \in lo..hi : x \in C
    <3> SUFFICES ASSUME NEW x \in lo..hi PROVE x \in C
      OBVIOUS
    <3>1. x \in Nat /\ lo <= x /\ x <= hi
      BY <1>4, <2>1
    <3> QED BY <1>1, <1>5, <3>1
  <2> QED BY <2>2, <2>3
<1> QED BY <1>1, <1>4, <1>5, <1>6

(* In an interval as many numbers are below the n-th as there should be.   *)
LEMMA Below ==
  ASSUME NEW p \in Int, NEW q \in Int, NEW k \in p..q
  PROVE  Cardinality({j \in p..q : j < k}) = k - p
<1>1. {j \in p..q : j < k} = p..(k - 1)
  OBVIOUS
<1>2. Cardinality(p..(k - 1)) = IF p > k - 1 THEN 0 ELSE (k - 1) - p + 1
  BY FS_Interval
<1>3. (IF p > k - 1 THEN 0 ELSE (k - 1) - p + 1) = k - p
  OBVIOUS
<1> QED BY <1>1, <1>2, <1>3, Zenon

LEMMA NthOfInterval ==
  ASSUME NEW p \in Int, NEW q \in Int, NEW n \in Nat, 1 <= n, p + n - 1 <= q
  PROVE  Nth(p..q, <, n) = p + n - 1
<1> DEFINE P(k) == Cardinality({j \in p..q : j < k}) = n - 1
<1>1. Nth(p..q, <, n) = CHOOSE k \in p..q : P(k)
  BY DEF Nth
<1>2. \A k \in p..q : P(k) <=> k - p = n - 1
  BY Below
<1>3. \A k \in p..q : P(k) <=> k = p + n - 1
  <2> HIDE DEF P
  <2> QED BY <1>2
<1>4. p + n - 1 \in p..q
  OBVIOUS
<1> HIDE DEF P
<1> QED BY <1>1, <1>3, <1>4

LEMMA IndexOfRows ==
  ASSUME NEW from \in Nat, NEW to \in Nat, from <= to, NEW t \in Nat
  PROVE  Index(RowsOf(from, to, t)) = from..(to - 1)
<1> DEFINE f == RowsOf(from, to, t)
<1>1. DOMAIN f = 1..(to - from) /\ \A k \in DOMAIN f : f[k].i = from + k - 1
  BY DEF RowsOf
<1> HIDE DEF f
<1>2. \A k \in DOMAIN f : f[k].i \in from..(to - 1)
  BY <1>1
<1>3. \A i \in from..(to - 1) : \E k \in DOMAIN f : f[k].i = i
  <2> SUFFICES ASSUME NEW i \in from..(to - 1) PROVE \E k \in DOMAIN f : f[k].i = i
    OBVIOUS
  <2>1. i - from + 1 \in 1..(to - from) /\ from + (i - from + 1) - 1 = i
    OBVIOUS
  <2> QED BY <1>1, <2>1
<1> QED BY <1>2, <1>3 DEF Index, f

(* Sorting the rows of a file changes nothing.                             *)
LEMMA LoadOfRows ==
  ASSUME NEW c, NEW a, NEW from \in Nat, NEW to \in Nat, from <= to, NEW t \in Nat,
         file[c][a] = RowsOf(from, to, t)
  PROVE  Load(c, a) = RowsOf(from, to, t)
<1> DEFINE rows == file[c][a]
           m == to - from
           before(j, k) == rows[j].i < rows[k].i \/ (rows[j].i = rows[k].i /\ j < k)
           P(k, n) == Cardinality({j \in 1..m : before(j, k)}) = n - 1
<1>1. DOMAIN rows = 1..m /\ m \in Nat /\ \A k \in 1..m : rows[k].i = from + k - 1
  BY DEF RowsOf
<1>2. Load(c, a) = [n \in 1..m |-> rows[CHOOSE k \in 1..m : P(k, n)]]
  BY <1>1 DEF Load, Nth
<1> HIDE DEF rows
<1>3. \A k \in 1..m : {j \in 1..m : before(j, k)} = {j \in 1..m : j < k}
  BY <1>1
<1>4. \A k \in 1..m, n \in 1..m : P(k, n) <=> k = n
  <2> SUFFICES ASSUME NEW k \in 1..m, NEW n \in 1..m PROVE P(k, n) <=> k = n
    OBVIOUS
  <2>1. Cardinality({j \in 1..m : j < k}) = k - 1
    BY <1>1, Below
  <2>2. Cardinality({j \in 1..m : before(j, k)}) = k - 1
    BY <1>3, <2>1
  <2> QED BY <1>1, <2>2
<1> HIDE DEF P, m
<1>5. \A n \in 1..m : (CHOOSE k \in 1..m : P(k, n)) = n
  BY <1>4
<1>6. Load(c, a) = [n \in 1..m |-> rows[n]]
  BY <1>2, <1>5
<1>7. RowsOf(from, to, t) = [n \in 1..m |-> RowsOf(from, to, t)[n]]
  BY DEF RowsOf, m
<1> QED BY <1>6, <1>7 DEF rows

(* Some arms of a cell, each a run over one slice.                         *)
RunsOf(c, arms) ==
  \A k \in DOMAIN arms : \E lo \in Nat, hi \in Nat, t \in Nat :
    lo <= hi /\ arms[k] = RowsOf(lo, hi, t) /\ (c \notin rebuilt => instances[c] = t)

(* The instances that all of them have.                                    *)
Common(arms) == {i \in Nat : \A k \in DOMAIN arms : i \in Index(arms[k])}

(* What one arm keeps when the instances of all arms are an interval.      *)
LEMMA AlignedRows ==
  ASSUME NEW arms, NEW lo \in Nat, NEW hi \in Nat, lo <= hi, NEW t \in Nat,
         NEW from \in Nat, NEW to \in Nat, from <= to,
         Common(arms) = from..(to - 1),
         from = to \/ (lo <= from /\ to <= hi)
  PROVE  Aligned(arms, RowsOf(lo, hi, t)) = RowsOf(from, to, t)
<1> DEFINE rows == RowsOf(lo, hi, t)
           C == Common(arms)
           common == {x \in DOMAIN rows : \A k \in DOMAIN arms : rows[x].i \in Index(arms[k])}
           N == to - from
           p == from - lo + 1
           q == to - lo
<1>1. Aligned(arms, rows) = [n \in 1..Cardinality(common) |-> rows[Nth(common, <, n)]]
  BY DEF Aligned
<1>2. /\ DOMAIN rows = 1..(hi - lo)
      /\ \A x \in DOMAIN rows : rows[x] = [i |-> lo + x - 1, tasks |-> t]
      /\ \A x \in DOMAIN rows : rows[x].i = lo + x - 1 /\ rows[x].i \in Nat
  BY DEF RowsOf
<1> HIDE DEF rows
<1>3. common = {x \in DOMAIN rows : rows[x].i \in C}
  BY <1>2 DEF Common
<1>4. common = {x \in 1..(hi - lo) : lo + x - 1 \in from..(to - 1)}
  BY <1>2, <1>3
<1> HIDE DEF common, C
<1>5. N \in Nat /\ p \in Int /\ q \in Int
  OBVIOUS
<1>6. common = p..q
  <2>1. \A x \in 1..(hi - lo) : lo + x - 1 \in from..(to - 1) => x \in p..q
    OBVIOUS
  <2>2. \A x \in p..q : x \in 1..(hi - lo) /\ lo + x - 1 \in from..(to - 1)
    OBVIOUS
  <2> QED BY <1>4, <2>1, <2>2
<1>7. Cardinality(common) = N
  <2>1. Cardinality(p..q) = IF p > q THEN 0 ELSE q - p + 1
    BY <1>5, FS_Interval
  <2>2. (IF p > q THEN 0 ELSE q - p + 1) = N
    OBVIOUS
  <2> QED BY <1>6, <2>1, <2>2, Zenon
<1>8. \A n \in 1..N : rows[Nth(common, <, n)] = [i |-> from + n - 1, tasks |-> t]
  <2> SUFFICES ASSUME NEW n \in 1..N
               PROVE  rows[Nth(common, <, n)] = [i |-> from + n - 1, tasks |-> t]
    OBVIOUS
  <2>1. n \in Nat /\ 1 <= n /\ p + n - 1 <= q
    OBVIOUS
  <2>2. Nth(p..q, <, n) = p + n - 1
    BY <1>5, <2>1, NthOfInterval
  <2>3. p + n - 1 \in 1..(hi - lo) /\ lo + (p + n - 1) - 1 = from + n - 1
    OBVIOUS
  <2>4. rows[p + n - 1] = [i |-> from + n - 1, tasks |-> t]
    BY <1>2, <2>3
  <2> QED BY <1>6, <2>2, <2>4
<1>9. Aligned(arms, rows) = [n \in 1..N |-> [i |-> from + n - 1, tasks |-> t]]
  BY <1>1, <1>7, <1>8
<1> QED BY <1>9 DEF RowsOf, rows

(* The instances that all of some arms have are an interval, and every arm *)
(* keeps a row for each.                                                   *)
LEMMA AllAligned ==
  ASSUME NEW c, NEW arms, DOMAIN arms # {}, RunsOf(c, arms)
  PROVE  \E from \in Nat, to \in Nat : from <= to /\ \A k \in DOMAIN arms :
           \E t \in Nat : /\ Aligned(arms, arms[k]) = RowsOf(from, to, t)
                          /\ c \notin rebuilt => instances[c] = t
<1> DEFINE C == {i \in Nat : \A k \in DOMAIN arms : i \in Index(arms[k])}
<1>1. \A k \in DOMAIN arms : \E lo \in Nat, hi \in Nat, t \in Nat :
        /\ lo <= hi /\ arms[k] = RowsOf(lo, hi, t) /\ (c \notin rebuilt => instances[c] = t)
        /\ Index(arms[k]) = lo..(hi - 1)
  BY IndexOfRows DEF RunsOf
<1>2. \E from \in Nat, to \in Nat :
        /\ from <= to /\ C = from..(to - 1)
        /\ from = to \/ (from \in C /\ to - 1 \in C)
  <2>1. CASE C = {}
    <3>1. 0..(0 - 1) = {}
      OBVIOUS
    <3> QED BY <2>1, <3>1
  <2>2. CASE C # {}
    <3>1. PICK k0 \in DOMAIN arms : TRUE
      OBVIOUS
    <3>2. PICK lo \in Nat, hi \in Nat : Index(arms[k0]) = lo..(hi - 1)
      BY <1>1
    <3>3. \A i \in C : i <= hi
      BY <3>2
    <3>4. \A i \in C, j \in C : \A x \in Nat : i <= x /\ x <= j => x \in C
      <4> SUFFICES ASSUME NEW i \in C, NEW j \in C, NEW x \in Nat, i <= x, x <= j,
                          NEW k \in DOMAIN arms
                   PROVE  x \in Index(arms[k])
        OBVIOUS
      <4>1. PICK l \in Nat, h \in Nat : Index(arms[k]) = l..(h - 1)
        BY <1>1
      <4> QED BY <4>1
    <3>5. C \subseteq Nat
      OBVIOUS
    <3> HIDE DEF C
    <3>6. PICK m \in Nat, n \in Nat : m <= n /\ C = m..n
      BY <2>2, <3>3, <3>4, <3>5, Interval
    <3>7. n + 1 \in Nat /\ m <= n + 1 /\ (n + 1) - 1 = n /\ m \in m..n /\ n \in m..n
      BY <3>6
    <3> QED BY <3>6, <3>7
  <2> QED BY <2>1, <2>2
<1>3. PICK from \in Nat, to \in Nat :
        /\ from <= to /\ C = from..(to - 1)
        /\ from = to \/ (from \in C /\ to - 1 \in C)
  BY <1>2
<1>4. ASSUME NEW k \in DOMAIN arms
      PROVE  \E t \in Nat : /\ Aligned(arms, arms[k]) = RowsOf(from, to, t)
                            /\ c \notin rebuilt => instances[c] = t
  <2>1. PICK lo \in Nat, hi \in Nat, t \in Nat :
          /\ lo <= hi /\ arms[k] = RowsOf(lo, hi, t) /\ (c \notin rebuilt => instances[c] = t)
          /\ Index(arms[k]) = lo..(hi - 1)
    BY <1>1
  <2>2. \A i \in C : i \in lo..(hi - 1)
    BY <2>1
  <2>3. from = to \/ (lo <= from /\ to <= hi)
    <3>1. CASE from \in C /\ to - 1 \in C
      <4>1. from \in lo..(hi - 1) /\ to - 1 \in lo..(hi - 1)
        BY <2>2, <3>1
      <4> QED BY <4>1
    <3> QED BY <1>3, <3>1
  <2>4. from <= to /\ Common(arms) = from..(to - 1)
    BY <1>3 DEF Common
  <2>5. Aligned(arms, RowsOf(lo, hi, t)) = RowsOf(from, to, t)
    BY <2>1, <2>3, <2>4, AlignedRows
  <2> QED BY <2>1, <2>5
<1> QED BY <1>3, <1>4

(* A sheet numbers the loads of some arms.                                 *)
LEMMA SheetOfLoads ==
  ASSUME NEW c, NEW A, A \subseteq Arms, A # {}
  PROVE  /\ DOMAIN Sheet(c, A) # {}
         /\ \A k \in DOMAIN Sheet(c, A) : \E a \in A : Sheet(c, A)[k] = Load(c, a)
<1> DEFINE S == {Load(c, a) : a \in A}
           N == Cardinality(S)
<1>1. S \subseteq {Load(c, "h0"), Load(c, "h8"), Load(c, "x"), Load(c, "x_r0"), Load(c, "x_r1")}
  BY DEF Arms
<1>2. \A p, q, r, s, t : IsFiniteSet({p, q, r, s, t})
  <2> TAKE p, q, r, s, t
  <2>1. IsFiniteSet({p} \cup {q})
    BY FS_Singleton, FS_Union
  <2>2. IsFiniteSet(({p} \cup {q}) \cup {r})
    BY <2>1, FS_Singleton, FS_Union
  <2>3. IsFiniteSet((({p} \cup {q}) \cup {r}) \cup {s})
    BY <2>2, FS_Singleton, FS_Union
  <2>4. IsFiniteSet(((({p} \cup {q}) \cup {r}) \cup {s}) \cup {t})
    BY <2>3, FS_Singleton, FS_Union
  <2>5. ((({p} \cup {q}) \cup {r}) \cup {s}) \cup {t} = {p, q, r, s, t}
    OBVIOUS
  <2> QED BY <2>4, <2>5
<1>3. IsFiniteSet(S)
  BY <1>1, <1>2, FS_Subset
<1>4. S # {}
  OBVIOUS
<1> HIDE DEF S
<1>5. N \in Nat /\ ExistsBijection(1..N, S)
  BY <1>3, FS_CardinalityType
<1>6. N # 0
  BY <1>3, <1>4, FS_EmptySet
<1>7. \E f \in [1..N -> S] : IsInjective(f)
  BY <1>5 DEF ExistsBijection, Bijection, Injection, IsInjective
<1>8. SetToSeq(S) \in [1..N -> S]
  BY <1>7 DEF SetToSeq
<1>9. Sheet(c, A) = SetToSeq(S)
  BY DEF Sheet, S
<1>10. 1 \in 1..N
  BY <1>5, <1>6
<1>11. DOMAIN Sheet(c, A) = 1..N /\ \A k \in 1..N : Sheet(c, A)[k] \in S
  BY <1>8, <1>9
<1>12. DOMAIN Sheet(c, A) # {}
  BY <1>10, <1>11
<1> QED BY <1>11, <1>12 DEF S

(* Whatever is contrasted is made of arms that are there.                  *)
LEMMA ContrastsLoaded ==
  ASSUME NEW c, NEW arms \in Contrasts(c)
  PROVE  \E A \in SUBSET Loaded(c) : A # {} /\ arms = Sheet(c, A)
<1> DEFINE ends == {"h0", "h8"}
<1>1. CASE arms \in Gate(c)
  <2> DEFINE G(a, b) == Sheet(c, {a, b})
             L == Loaded(c)
  <2>1. Gate(c) = {G(a, b) : a, b \in L}
    BY DEF Gate
  <2> HIDE DEF G, L
  <2>2. arms \in {G(a, b) : a, b \in L}
    BY <1>1, <2>1
  <2>3. PICK a \in L, b \in L : arms = G(a, b)
    BY <2>2
  <2>4. {a, b} \subseteq Loaded(c) /\ {a, b} # {}
    BY DEF L
  <2> QED BY <2>3, <2>4 DEF G
<1>2. CASE StrictPool(c) # {} /\ arms = pool(c)
  <2>1. StrictPool(c) \subseteq Loaded(c)
    BY DEF StrictPool, Loaded, Arms
  <2> QED BY <1>2, <2>1 DEF pool
<1>3. CASE ends \subseteq Loaded(c) /\ arms \in Scoreboard(c)
  <2>1. PICK a \in Loaded(c) : arms = Sheet(c, {a} \cup ends)
    BY <1>3 DEF Scoreboard, R_of
  <2>2. {a} \cup ends \subseteq Loaded(c) /\ {a} \cup ends # {}
    BY <1>3
  <2> QED BY <2>1, <2>2
<1>4. CASE ends \subseteq Loaded(c) /\ arms \in Conditions(c)
  <2> DEFINE G(a, b) == R_of(c, {a, b})
  <2>1. arms \in {G(a, b) : a, b \in Loaded(c) \ ends}
    BY <1>4 DEF Conditions
  <2> HIDE DEF G
  <2>2. PICK a \in Loaded(c) \ ends, b \in Loaded(c) \ ends : arms = G(a, b)
    BY <2>1
  <2>3. {a, b} \cup ends \subseteq Loaded(c) /\ {a, b} \cup ends # {}
    BY <1>4
  <2> QED BY <2>2, <2>3 DEF G, R_of
<1>5. CASE ends \subseteq Loaded(c) /\ arms = crow(c)
  <2>1. TablePool(c) \subseteq Loaded(c)
    BY DEF TablePool, StrictPool, Loaded, Arms
  <2>2. arms = Sheet(c, TablePool(c) \cup ends)
    BY <1>5 DEF crow, R_of
  <2>3. TablePool(c) \cup ends \subseteq Loaded(c) /\ TablePool(c) \cup ends # {}
    BY <1>5, <2>1
  <2> QED BY <2>2, <2>3
<1> QED BY <1>1, <1>2, <1>3, <1>4, <1>5 DEF Contrasts

LEMMA LoadedRuns ==
  ASSUME SuiteInv, NEW c \in CellSet, NEW A \in SUBSET Loaded(c), A # {}
  PROVE  DOMAIN Sheet(c, A) # {} /\ RunsOf(c, Sheet(c, A))
<1>1. A \subseteq Arms
  BY DEF Loaded
<1>2. ASSUME NEW a \in A
      PROVE  \E lo \in Nat, hi \in Nat, t \in Nat :
               lo <= hi /\ Load(c, a) = RowsOf(lo, hi, t) /\ (c \notin rebuilt => instances[c] = t)
  <2>1. a \in Arms /\ file[c][a] # Missing
    BY DEF Loaded, Loadable
  <2>2. PICK s \in Slices, to \in Nat, t \in Nat :
          /\ s[1] <= to /\ to <= s[2] /\ file[c][a] = RowsOf(s[1], to, t)
          /\ c \notin rebuilt => instances[c] = t
    BY <2>1 DEF SuiteInv, FilesInv, FilesRun
  <2>3. s[1] \in Nat
    BY CellFacts
  <2>4. Load(c, a) = RowsOf(s[1], to, t)
    BY <2>2, <2>3, LoadOfRows
  <2> QED BY <2>2, <2>3, <2>4
<1> QED BY <1>1, <1>2, SheetOfLoads DEF RunsOf

(* Rows that a contrast pairs belong to one instance, of one build unless  *)
(* the cell was rebuilt, whatever slices the arms were run over.           *)
LEMMA SuiteContrasts == SuiteInv => ContrastsPaired
<1> SUFFICES ASSUME SuiteInv, NEW c \in CellSet, NEW arms \in Contrasts(c),
                    NEW j \in DOMAIN arms, NEW k \in DOMAIN arms
             PROVE  LET r == Aligned(arms, arms[j])
                        s == Aligned(arms, arms[k])
                    IN  /\ Len(r) = Len(s)
                        /\ \A x \in DOMAIN r :
                             r[x].i = s[x].i /\ (c \notin rebuilt => r[x] = s[x])
  BY DEF ContrastsPaired
<1>1. DOMAIN arms # {} /\ RunsOf(c, arms)
  <2>1. PICK A \in SUBSET Loaded(c) : A # {} /\ arms = Sheet(c, A)
    BY ContrastsLoaded
  <2> QED BY <2>1, LoadedRuns
<1>2. PICK from \in Nat, to \in Nat : from <= to /\ \A h \in DOMAIN arms :
        \E t \in Nat : /\ Aligned(arms, arms[h]) = RowsOf(from, to, t)
                       /\ c \notin rebuilt => instances[c] = t
  BY <1>1, AllAligned
<1>3. PICK t \in Nat : /\ Aligned(arms, arms[j]) = RowsOf(from, to, t)
                       /\ c \notin rebuilt => instances[c] = t
  BY <1>2
<1>4. PICK u \in Nat : /\ Aligned(arms, arms[k]) = RowsOf(from, to, u)
                       /\ c \notin rebuilt => instances[c] = u
  BY <1>2
<1>5. Len(RowsOf(from, to, t)) = Len(RowsOf(from, to, u))
  <2>1. Len(RowsOf(from, to, t)) = to - from
    BY <1>2, RowsOfType
  <2>2. Len(RowsOf(from, to, u)) = to - from
    BY <1>2, RowsOfType
  <2> QED BY <2>1, <2>2
<1>6. \A x \in DOMAIN RowsOf(from, to, t) :
        /\ RowsOf(from, to, t)[x] = [i |-> from + x - 1, tasks |-> t]
        /\ RowsOf(from, to, u)[x] = [i |-> from + x - 1, tasks |-> u]
  BY DEF RowsOf
<1>7. \A x \in DOMAIN RowsOf(from, to, t) :
        RowsOf(from, to, t)[x].i = RowsOf(from, to, u)[x].i
  <2> DEFINE f == RowsOf(from, to, t)
             g == RowsOf(from, to, u)
  <2> HIDE DEF f, g
  <2> SUFFICES ASSUME NEW x \in DOMAIN f PROVE f[x].i = g[x].i
    BY DEF f, g
  <2>1. f[x] = [i |-> from + x - 1, tasks |-> t] /\ g[x] = [i |-> from + x - 1, tasks |-> u]
    BY <1>6 DEF f, g
  <2> QED BY <2>1
<1>8. c \notin rebuilt => RowsOf(from, to, t) = RowsOf(from, to, u)
  BY <1>3, <1>4
<1> QED BY <1>3, <1>4, <1>5, <1>7, <1>8, Zenon

(* A whole run under its own marker.                                       *)
LEMMA SuiteWhole == SuiteInv => LoadedArmsWhole
<1> SUFFICES ASSUME SuiteInv, NEW c \in CellSet, NEW a \in Arms,
                    Loadable(c, a), <<c, a>> \notin reopened
             PROVE  /\ Len(file[c][a]) = done[c][a]
                    /\ \E s \in Slices : Index(file[c][a]) = s[1]..(s[2] - 1)
                    /\ Cardinality({file[c][a][k].tasks : k \in DOMAIN file[c][a]}) = 1
  BY DEF LoadedArmsWhole
<1>1. PICK s \in Slices, t \in Nat :
        file[c][a] = RowsOf(s[1], s[2], t) /\ done[c][a] = s[2] - s[1]
  BY DEF SuiteInv, FilesInv, MarkedWhole
<1>2. s[1] \in Nat /\ s[2] \in Nat /\ s[1] < s[2] /\ s[1] <= s[2]
  BY CellFacts
<1>3. Len(file[c][a]) = done[c][a]
  BY <1>1, <1>2, RowsOfType
<1>4. Index(file[c][a]) = s[1]..(s[2] - 1)
  BY <1>1, <1>2, IndexOfRows
<1>5. {file[c][a][k].tasks : k \in DOMAIN file[c][a]} = {t}
  <2>1. /\ DOMAIN file[c][a] = 1..(s[2] - s[1])
        /\ \A k \in DOMAIN file[c][a] : file[c][a][k].tasks = t
    BY <1>1 DEF RowsOf
  <2>2. 1 \in DOMAIN file[c][a]
    BY <1>2, <2>1
  <2> QED BY <2>1, <2>2
<1> QED BY <1>3, <1>4, <1>5, FS_Singleton

(* The numbers of the synthetic suite stand on whole arms, paired rows and *)
(* complete pools, however many cells, slices, builds and deaths there     *)
(* were and in whatever order the arms were run.                           *)
THEOREM SuiteStaysSound == SuiteSpec => []SuiteSound
<1>1. PoolsComplete
  BY DEF PoolsComplete, TablePool, StrictPool
<1>2. SuiteInv => SuiteSound
  BY <1>1, SuiteContrasts, SuiteWhole DEF SuiteSound
<1> QED BY SuiteStarts, SuiteStep, <1>2, PTL DEF SuiteSpec

-----------------------------------------------------------------------------
(* The instance of the synthetic suite.                                    *)

LEMMA Division ==
  ASSUME NEW a \in Nat, NEW b \in Nat \ {0}
  PROVE  a = b * (a \div b) + (a % b) /\ a \div b \in Nat /\ a % b \in 0..(b - 1)
OBVIOUS

(* Multiples of a number are that number apart.                            *)
LEMMA Multiples ==
  ASSUME NEW a \in Nat, NEW q \in Nat, NEW r \in Nat, q < r
  PROVE  a * q + a <= a * r
<1> DEFINE e == r - q - 1
<1>1. e \in Nat /\ r = q + 1 + e
  OBVIOUS
<1> HIDE DEF e
<1>2. a * (q + 1 + e) = a * q + a + a * e /\ a * e \in Nat /\ a * q \in Nat
  BY <1>1
<1> QED BY <1>1, <1>2

(* The next multiple of the residual behind a budget is one residual away. *)
LEMMA NextMultiple ==
  ASSUME NEW b \in Nat, b % RES = 0, NEW j \in 1..RES
  PROVE  (b + j) % RES = 0 <=> j = RES
<1>1. RES \in Nat \ {0}
  BY TaskAssumption
<1> DEFINE q == b \div RES
           n == b + j
           k == n \div RES
           m == n % RES
           x == RES * q
           y == RES * k
           z == RES * (q + 1)
<1>2. b = x + 0 /\ q \in Nat
  BY <1>1, Division
<1>3. n \in Nat
  BY <1>1
<1>4. n = y + m /\ k \in Nat /\ m \in 0..(RES - 1)
  <2> HIDE DEF n
  <2> QED BY <1>1, <1>3, Division
<1>5. z = x + RES
  <2> HIDE DEF q
  <2> QED BY <1>1, <1>2
<1> HIDE DEF q, k, m
<1>6. x \in Nat /\ y \in Nat /\ z \in Nat /\ q + 1 \in Nat
  BY <1>1, <1>2, <1>4
<1>7. k <= q => y <= x
  <2>1. CASE k < q
    <3>1. y + RES <= x
      BY <1>1, <1>2, <1>4, <2>1, Multiples
    <3> QED BY <1>1, <1>6, <3>1
  <2>2. ASSUME k = q PROVE y <= x
    <3>1. y = x
      BY <2>2
    <3> QED BY <1>6, <3>1
  <2> QED BY <1>2, <1>4, <2>1, <2>2
<1>8. k > q => z <= y
  <2>1. CASE k > q + 1
    <3>1. z + RES <= y
      BY <1>1, <1>4, <1>6, <2>1, Multiples
    <3> QED BY <1>1, <1>6, <3>1
  <2>2. ASSUME k = q + 1 PROVE z <= y
    <3>1. y = z
      BY <2>2
    <3> QED BY <1>6, <3>1
  <2> QED BY <1>2, <1>4, <2>1, <2>2
<1> HIDE DEF x, y, z, n
<1>10. b + j = y + m
  BY <1>4 DEF n
<1>11. k <= q \/ k > q
  BY <1>2, <1>4
<1>12. m = 0 <=> j = RES
  <2>1. CASE k <= q
    BY <1>1, <1>2, <1>4, <1>6, <1>7, <1>10, <2>1
  <2>2. CASE k > q
    BY <1>1, <1>2, <1>4, <1>5, <1>6, <1>8, <1>10, <2>2
  <2> QED BY <1>11, <2>1, <2>2
<1>13. (b + j) % RES = m
  BY DEF m, n
<1> HIDE DEF m
<1> QED BY <1>12, <1>13

(* What the builder asserts of an instance that can be.                    *)
LEMMA InstanceFits ==
  ASSUME age \in Ages, stub \in Stubs, query \in Queries, nv \in Values, budget \in {TB, Inert}
  PROVE  /\ stub \in Nat \ {0} /\ age \in Nat /\ nv \in Nat \ {0} /\ query \in Nat \ {0}
         /\ Pre \in Nat /\ Mid \in Nat /\ NB \in Nat /\ FreeTokens \in Nat /\ QBUDGET \in Nat
         /\ RES \in Nat \ {0} /\ TB \in Nat \ {0} /\ Inert \in Nat \ {0}
         /\ stub < RES /\ query <= QBUDGET /\ QBUDGET + nv <= RES
         /\ stub + Pre + NB + Mid + NB <= TB /\ age >= NB + Mid + NB + QBUDGET
         /\ budget \in Nat \ {0} /\ budget % RES = 0
         /\ TB <= stub + Pre + age + nv /\ stub + Pre + age + nv + FreeTokens <= Inert
<1>1. /\ RES \in Nat \ {0} /\ TB \in Nat \ {0} /\ Inert \in Nat \ {0} /\ QBUDGET \in Nat
      /\ Pre \in Nat /\ Mid \in Nat /\ NB \in Nat /\ FreeTokens \in Nat
      /\ TB % RES = 0 /\ Inert % RES = 0
  BY TaskAssumption
<1>2. stub \in 1..(RES - 1) /\ stub + Pre + NB + Mid + NB <= TB
  BY TaskAssumption
<1>3. query \in 1..QBUDGET
  BY TaskAssumption
<1>4. nv \in Nat \ {0} /\ QBUDGET + nv <= RES
  BY TaskAssumption
<1>5. age \in Nat /\ age >= NB + Mid + NB + QBUDGET
  BY TaskAssumption
<1>6. TB <= stub + Pre + age + nv /\ stub + Pre + age + nv + FreeTokens <= Inert
  BY TaskAssumption
<1>7. budget \in Nat \ {0} /\ budget % RES = 0
  BY <1>1
<1> QED BY <1>1, <1>2, <1>3, <1>4, <1>5, <1>6, <1>7

(* An instance that can be, and the length of its sequence.                *)
LEMMA LengthOf ==
  ASSUME age \in Ages, stub \in Stubs, query \in Queries, nv \in Values
  PROVE  /\ TotalTokens = stub + Pre + age + nv
         /\ \A nx, ny \in Needles, q \in Queries :
              stub + Length(age, nx, ny, q, nv) = stub + Pre + age + nv
<1>1. SomeNeedle \in Needles
  BY TaskAssumption DEF SomeNeedle
<1>2. ASSUME NEW nx \in Needles, NEW ny \in Needles, NEW q \in Queries
      PROVE  stub + Length(age, nx, ny, q, nv) = stub + Pre + age + nv
  <2>1. /\ age \in Nat /\ stub \in Nat /\ q \in Nat /\ nv \in Nat /\ nx \in Nat /\ ny \in Nat
        /\ Pre \in Nat /\ Mid \in Nat /\ NB \in Nat /\ QBUDGET \in Nat
    BY TaskAssumption
  <2> QED BY <2>1 DEF Length, Boxed, Post
<1> QED BY <1>1, <1>2 DEF TotalTokens

(* Between rounds the cache is a residual short of what was fed for each round, and a
   round comes with the first full residual behind the budget.             *)
PassesInStep ==
  /\ age \in Ages /\ stub \in Stubs /\ query \in Queries /\ nv \in Values
  /\ budget \in {TB, Inert} /\ fed \in Nat /\ cur \in Nat /\ rounds \in Nat /\ horizon \in Nat
  /\ fed = 0 => cur = 0
  /\ fed <= TotalTokens + FreeTokens - 1
  /\ fed = cur + RES * rounds /\ cur < budget + RES
  /\ rounds = 0 => horizon = 0
  /\ rounds > 0 => cur >= budget /\ horizon = budget + RES * rounds - RES

LEMMA PassesStart == TaskInit => PassesInStep
<1> SUFFICES ASSUME TaskInit PROVE PassesInStep
  OBVIOUS
<1>1. /\ stub \in Nat /\ age \in Nat /\ nv \in Nat /\ Pre \in Nat /\ RES \in Nat \ {0} /\ FreeTokens \in Nat
      /\ stub > 0 /\ TotalTokens = stub + Pre + age + nv /\ budget \in Nat /\ nv > 0
  BY LengthOf, TaskAssumption DEF TaskInit
<1>2. RES * 0 = 0
  BY <1>1
<1> QED BY <1>1, <1>2 DEF TaskInit, PassesInStep

LEMMA PassesKeep == PassesInStep /\ [TaskNext]_taskVars => PassesInStep'
<1> SUFFICES ASSUME PassesInStep, [TaskNext]_taskVars PROVE PassesInStep'
  OBVIOUS
<1>1. /\ stub \in Nat /\ age \in Nat /\ nv \in Nat /\ Pre \in Nat /\ RES \in Nat \ {0} /\ FreeTokens \in Nat
      /\ stub \in 1..(RES - 1) /\ TotalTokens = stub + Pre + age + nv /\ nv > 0
      /\ budget \in Nat \ {0} /\ budget % RES = 0
  <2>1. /\ age \in Ages /\ stub \in Stubs /\ query \in Queries /\ nv \in Values
        /\ budget \in {TB, Inert}
    BY DEF PassesInStep
  <2>2. TotalTokens = stub + Pre + age + nv
    BY <2>1, LengthOf
  <2> QED BY <2>1, <2>2, InstanceFits
<1>2. budget >= RES
  BY <1>1
<1>3. RES * 0 = 0
  BY <1>1
<1>4. ASSUME StubPass PROVE PassesInStep'
  <2>1. /\ fed = 0 /\ fed' = stub /\ cur' = stub
        /\ UNCHANGED <<age, stub, query, nv, budget, rounds, horizon>>
    BY <1>4 DEF StubPass, instance
  <2>2. cur = 0 /\ RES * rounds = 0
    <3> DEFINE p == RES * rounds
    <3>1. p \in Nat /\ 0 = 0 + p /\ cur = 0
      BY <1>1, <2>1 DEF PassesInStep
    <3> HIDE DEF p
    <3> QED BY <3>1 DEF p
  <2>3. rounds = 0
    BY <1>1, <2>2 DEF PassesInStep
  <2>4. TotalTokens' = TotalTokens
    BY <2>1 DEF TotalTokens
  <2> QED BY <1>1, <1>2, <1>3, <2>1, <2>2, <2>3, <2>4 DEF PassesInStep
<1>5. ASSUME ForcedPass PROVE PassesInStep'
  <2>1. /\ fed > 0 /\ fed < TotalTokens + FreeTokens - 1 /\ fed' = fed + 1
        /\ UNCHANGED <<age, stub, query, nv, budget>>
    BY <1>5 DEF ForcedPass, instance
  <2>2. TotalTokens' = TotalTokens
    BY <2>1 DEF TotalTokens
  <2>3. /\ fed \in Nat /\ cur \in Nat /\ rounds \in Nat /\ horizon \in Nat
        /\ fed = cur + RES * rounds /\ cur < budget + RES
    BY DEF PassesInStep
  <2>4. RoundFalls(cur + 1) <=> cur + 1 = budget + RES
    <3>1. CASE cur + 1 > budget
      <4> DEFINE j == cur + 1 - budget
      <4>1. j \in 1..RES /\ cur + 1 = budget + j
        BY <1>1, <2>3, <3>1
      <4> HIDE DEF j
      <4>2. (budget + j) % RES = 0 <=> j = RES
        BY <1>1, <4>1, NextMultiple
      <4> QED BY <1>1, <3>1, <4>1, <4>2 DEF RoundFalls
    <3>2. CASE ~(cur + 1 > budget)
      BY <1>1, <2>3, <3>2 DEF RoundFalls
    <3> QED BY <3>1, <3>2
  <2> DEFINE p == RES * rounds
  <2>5. p \in Nat /\ RES * (rounds + 1) = p + RES /\ fed = cur + p
    BY <1>1, <2>3
  <2>6. CASE RoundFalls(cur + 1)
    <3>1. cur' = budget /\ rounds' = rounds + 1 /\ horizon' = fed + 1 - RES
      BY <1>5, <2>6 DEF ForcedPass, Undroppable
    <3> HIDE DEF p
    <3>2. fed + 1 = budget + RES + p
      BY <1>1, <2>3, <2>4, <2>5, <2>6
    <3>3. /\ fed' = cur' + RES * rounds' /\ horizon' = budget' + RES * rounds' - RES
          /\ horizon' \in Nat /\ cur' < budget' + RES
      BY <1>1, <2>1, <2>3, <2>5, <3>1, <3>2
    <3> QED BY <1>1, <2>1, <2>2, <2>3, <3>1, <3>3 DEF PassesInStep
  <2>7. CASE ~RoundFalls(cur + 1)
    <3>1. cur' = cur + 1 /\ rounds' = rounds /\ horizon' = horizon
      BY <1>5, <2>7 DEF ForcedPass
    <3>2. fed' = cur' + RES * rounds' /\ cur' < budget' + RES
      <4> HIDE DEF p
      <4>1. fed + 1 = (cur + 1) + p /\ cur + 1 < budget + RES
        BY <1>1, <2>3, <2>4, <2>5, <2>7
      <4> QED BY <2>1, <3>1, <4>1 DEF p
    <3> QED BY <1>1, <2>1, <2>2, <2>3, <3>1, <3>2 DEF PassesInStep
  <2> QED BY <2>6, <2>7
<1>6. ASSUME UNCHANGED taskVars PROVE PassesInStep'
  BY <1>6 DEF taskVars, PassesInStep, TotalTokens
<1> QED BY <1>4, <1>5, <1>6 DEF TaskNext

(* What the passes make of the published layout.                           *)
LEMMA PassesLayOut == PassesInStep => LayoutExact
<1> SUFFICES ASSUME PassesInStep PROVE LayoutExact
  OBVIOUS
<1> DEFINE T == TotalTokens
           p == RES * rounds
<1>1. /\ stub \in Nat /\ age \in Nat /\ nv \in Nat \ {0} /\ query \in Nat \ {0}
      /\ Pre \in Nat /\ Mid \in Nat /\ NB \in Nat /\ FreeTokens \in Nat /\ QBUDGET \in Nat
      /\ RES \in Nat \ {0} /\ TB \in Nat \ {0} /\ Inert \in Nat \ {0} /\ query <= QBUDGET
      /\ stub + Pre + NB + Mid + NB <= TB /\ QBUDGET + nv <= RES /\ age >= NB + Mid + NB + QBUDGET
      /\ T = stub + Pre + age + nv /\ TB <= T /\ T + FreeTokens <= Inert
  <2>1. /\ age \in Ages /\ stub \in Stubs /\ query \in Queries /\ nv \in Values
        /\ budget \in {TB, Inert}
    BY DEF PassesInStep
  <2>2. T = stub + Pre + age + nv
    BY <2>1, LengthOf
  <2> HIDE DEF T
  <2> QED BY <2>1, <2>2, InstanceFits
<1>2. /\ fed \in Nat /\ cur \in Nat /\ rounds \in Nat /\ horizon \in Nat /\ p \in Nat
      /\ fed <= T + FreeTokens - 1 /\ fed = cur + p /\ cur < budget + RES
      /\ rounds = 0 => horizon = 0 /\ p = 0
      /\ rounds > 0 => cur >= budget /\ horizon = budget + p - RES /\ p >= RES
  <2>1. p \in Nat /\ (rounds = 0 => p = 0)
    BY <1>1 DEF PassesInStep
  <2>2. ASSUME rounds > 0 PROVE p >= RES
    <3> DEFINE k == rounds - 1
    <3>1. k \in Nat /\ rounds = k + 1
      BY <2>2 DEF PassesInStep
    <3> HIDE DEF k
    <3>2. p = RES * k + RES /\ RES * k \in Nat
      BY <1>1, <3>1
    <3> DEFINE x == RES * k
    <3> HIDE DEF x
    <3>3. p = x + RES /\ x \in Nat
      BY <3>2 DEF x
    <3> HIDE DEF p
    <3> QED BY <1>1, <3>3
  <2> QED BY <2>1, <2>2 DEF PassesInStep
<1>3. budget \in {TB, Inert}
  BY DEF PassesInStep
<1>4. BoxesCellConstant
  <2>1. \A n \in Needles : n \in Nat /\ Boxed(n) = NB
    BY <1>1, TaskAssumption DEF Boxed
  <2>2. \A nx, ny \in Needles, q \in Queries : stub + Length(age, nx, ny, q, nv) = T
    BY LengthOf DEF PassesInStep
  <2> QED BY <2>1, <2>2 DEF BoxesCellConstant, BoxX, BoxY, SpanX, SpanY
<1> HIDE DEF T, p
<1>5. QueryInWindow
  <2> SUFFICES ASSUME fed + 1 \in (T - nv)..(T - 1) PROVE horizon <= T - nv - query
    BY DEF QueryInWindow, MeasuredNext, T
  <2> QED BY <1>1, <1>2, <1>3
<1>6. ParityInert
  BY <1>1, <1>2, <1>3 DEF ParityInert
<1>7. NeedlesFaceEveryRound
  <2> SUFFICES ASSUME rounds > 0 PROVE horizon >= stub + Pre + NB + Mid + NB
    BY DEF NeedlesFaceEveryRound, SpanY
  <2>1. budget = TB
    BY <1>3, <1>6 DEF ParityInert
  <2> QED BY <1>1, <1>2, <2>1
<1>8. RoundsTrackAge
  <2> SUFFICES ASSUME fed + 1 \in (T - nv)..(T - 1), budget = TB PROVE E - rounds \in {1, 2}
    BY DEF RoundsTrackAge, MeasuredNext, T
  <2> DEFINE d == T - TB
             q == d \div RES
             m == d % RES
             x == RES * q
  <2>1. d \in Nat /\ E = q + 1
    BY <1>1 DEF E, T
  <2>2. q \in Nat /\ m \in 0..(RES - 1) /\ d = x + m /\ x \in Nat
    <3> HIDE DEF d
    <3> QED BY <1>1, <2>1
  <2> HIDE DEF q, m, x
  <2>3. d + TB <= fed + nv + 1 /\ fed + 2 <= d + TB
    BY <1>1, <1>2
  <2> HIDE DEF d
  (* The quotient is the number of rounds, or one more.                    *)
  <2>4. x < p + RES + RES
    BY <1>1, <1>2, <2>1, <2>2, <2>3
  <2>5. p < x + RES
    <3>1. CASE rounds = 0
      BY <1>1, <1>2, <2>2, <3>1
    <3>2. CASE rounds > 0
      BY <1>1, <1>2, <2>1, <2>2, <2>3, <3>2
    <3> QED BY <1>2, <3>1, <3>2
  <2>6. q < rounds + 2
    <3> SUFFICES ASSUME q >= rounds + 2 PROVE FALSE
      BY <1>2, <2>2
    <3> DEFINE k == q - rounds - 2
               y == RES * k
    <3>1. k \in Nat /\ q = rounds + 2 + k
      BY <1>2, <2>2
    <3> HIDE DEF k
    <3>2. RES * (rounds + 2 + k) = RES * rounds + RES + RES + RES * k /\ RES * k \in Nat
      BY <1>1, <1>2, <3>1
    <3>3. x = p + RES + RES + y /\ y \in Nat
      BY <3>1, <3>2 DEF x, p
    <3> HIDE DEF y
    <3> QED BY <1>1, <1>2, <2>2, <2>4, <3>3
  <2>7. rounds < q + 1
    <3> SUFFICES ASSUME rounds >= q + 1 PROVE FALSE
      BY <1>2, <2>2
    <3> DEFINE k == rounds - q - 1
               y == RES * k
    <3>1. k \in Nat /\ rounds = q + 1 + k
      BY <1>2, <2>2
    <3> HIDE DEF k
    <3>2. RES * (q + 1 + k) = RES * q + RES + RES * k /\ RES * k \in Nat
      BY <1>1, <2>2, <3>1
    <3>3. p = x + RES + y /\ y \in Nat
      BY <3>1, <3>2 DEF x, p
    <3> HIDE DEF y
    <3> QED BY <1>1, <1>2, <2>2, <2>5, <3>3
  <2> QED BY <1>2, <2>1, <2>2, <2>6, <2>7
<1> QED BY <1>4, <1>5, <1>6, <1>7, <1>8 DEF LayoutExact

(* Whatever the tokenizer makes of an instance, its needles and its length are where the
   metadata of its cell has them, each needle faces every round, the query and the values
   none before they are read, a parity run has no round, and the rounds behind which a
   value is read trail the published number by one or two.                 *)
THEOREM LayoutStaysExact == TaskSpec => []LayoutExact
BY PassesStart, PassesKeep, PassesLayOut, PTL DEF TaskSpec
=============================================================================
