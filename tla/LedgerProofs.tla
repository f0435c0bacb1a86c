---------------------------- MODULE LedgerProofs ----------------------------
(***************************************************************************)
(* Theorems about the ledgers the experiments keep.  RunLedger, for every  *)
(* number of groups, launches, source versions and crashes, and for the    *)
(* three runners: what a directory of answers is worth after any           *)
(* interleaving of launches, deaths and edits.  BenchmarkLedger and        *)
(* ProbeLedger, for every schedule and every trace: what their reports and *)
(* records may be compared with.  StudyAudits, for every length of the     *)
(* answers: what a report on two directories is worth.                     *)
(***************************************************************************)
EXTENDS
  RunLedger, Comparisons, FiniteSetTheorems, SequenceTheorems, WellFoundedInduction, TLAPS

(* A process between its start and its exit.                               *)
Active(p) == pc[p] \notin {"idle", "finished"}

Places ==
  {"idle", "visit", "generate", "grade", "unlink", "summarize", "last", "finished"}

(* A group the loops will pass over from now on.                           *)
Done(g) ==
  Answered(g) = Rows /\ ~Flawed(g) /\ (kind # "single" => journal[g] = None)

(* A group some process has begun.                                         *)
Touched(g) == Answered(g) # {} \/ journal[g] # None \/ rollouts[g] # 0

(* A group whose last rollout has not been lost.                           *)
Started(g) ==
  \/ \E p \in Procs : pc[p] = "generate" /\ at[p] = g
  \/ journal[g] # None \/ Answered(g) # {}

-----------------------------------------------------------------------------
(* The inductive invariant, part by part.                                  *)

LedgerType ==
  /\ kind \in Kinds /\ source \in Sources /\ manifest \in Sources \cup {None}
  /\ answer \in [Groups -> [{0, 1} -> Answers \cup {Ineligible, None}]]
  /\ journal \in [Groups -> Rollouts \cup {None}]
  /\ rollouts \in [Groups -> Nat]
  /\ pc \in [Procs -> Places]
  /\ at \in [Procs -> 1..(LastGroup + 1)]
  /\ mem \in [Procs -> Rollouts \cup {None}]
  /\ crashes \in 0..MaxCrashes

(* A process in the loops is at a group; behind them it is past the last.  *)
AtGroup ==
  \A p \in Procs :
    /\ pc[p] \in {"visit", "generate", "grade", "unlink", "summarize"} => at[p] \in Groups
    /\ pc[p] = "last" => at[p] = LastGroup + 1

(* The lock, or the operator's word, admits one process.                   *)
OneProcess ==
  /\ \A p, q \in Procs : Active(p) /\ Active(q) => p = q
  /\ \A p \in Procs : Active(p) /\ kind # "single" => lock = p

(* While a process runs, the sources are those of the manifest.            *)
SourcesHeld == \A p \in Procs : Active(p) => manifest = source

(* What memory and journals hold was generated under the manifest.         *)
OneOrigin ==
  /\ \A p \in Procs : pc[p] \in {"generate", "grade"} =>
       mem[p] # None /\ mem[p].source = manifest
  /\ \A g \in Groups : journal[g] # None => journal[g].source = manifest

(* What the place of a process says of the group it is at.                 *)
InHand ==
  \A p \in Procs, g \in Groups : at[p] = g =>
    /\ pc[p] = "generate" =>
         /\ Answered(g) = {} /\ journal[g] = None
         /\ mem[p] # None /\ mem[p].rollout = rollouts[g]
    /\ pc[p] = "grade" =>
         /\ journal[g] = mem[p] /\ mem[p] # None
         /\ kind = "single" => Answered(g) = {}
    /\ pc[p] = "unlink" => kind = "single" /\ Answered(g) = Rows
    /\ pc[p] = "summarize" => Done(g)

(* Nothing was begun behind a group that is not done.                      *)
Frontier ==
  /\ \A p \in Procs : Active(p) => \A g \in Groups : g < at[p] => Done(g)
  /\ \A g, h \in Groups : g < h /\ Touched(h) => Done(g)
  /\ (\E p \in Procs : pc[p] = "finished") => \A g \in Groups : Done(g)

(* A rollout that is lost costs a crash.                                   *)
Counting ==
  \A g \in Groups :
    /\ rollouts[g] <= crashes + IF Started(g) THEN 1 ELSE 0
    /\ \A p \in Procs : pc[p] = "generate" /\ at[p] = g => rollouts[g] >= 1
    /\ journal[g] # None => journal[g].rollout \in 1..rollouts[g]

(* Only run_math.py records that a prompt does not fit.                    *)
NoneIneligible == kind # "single" => \A g \in Groups : Answered(g) = Complete(g)

(* The summary never runs ahead, and a finished one is exact.              *)
SummaryInv ==
  /\ summary \in 0..Counted
  /\ (\E p \in Procs : pc[p] = "finished") => summary = Counted

(* The parts that speak of groups, rollouts and processes.                 *)
LedgerInv ==
  /\ LedgerType /\ AtGroup /\ OneProcess /\ SourcesHeld /\ InHand /\ Frontier
  /\ NoneIneligible /\ JournalOutlivesGrading

IInv ==
  LedgerInv /\ OneOrigin /\ OneProtocol /\ PairFromOneBatch /\ Counting /\ SummaryInv
-----------------------------------------------------------------------------
(* Facts about the operators.                                              *)

(* A runner answers for one row or for two.                                *)
LEMMA RowsType ==
  /\ Rows \subseteq {0, 1} /\ Rows # {}
  /\ kind = "single" => Rows = {0}
BY DEF Rows

(* Where the answers of a group stay, so does all that is read off them.   *)
LEMMA AnswersStay ==
  ASSUME NEW g, kind' = kind, answer'[g] = answer[g]
  PROVE  /\ Rows' = Rows
         /\ Answered(g)' = Answered(g) /\ Complete(g)' = Complete(g)
         /\ Flawed(g)' <=> Flawed(g)
         /\ journal'[g] = journal[g] => (Done(g)' <=> Done(g))
BY DEF Rows, Answered, Complete, Flawed, Done

(* A group is done in full: nothing of it is left to answer.               *)
LEMMA DoneFacts ==
  ASSUME NEW g, Done(g)
  PROVE  /\ Answered(g) = Rows /\ Answered(g) # {} /\ ~Flawed(g)
         /\ kind # "single" => journal[g] = None
BY RowsType DEF Done

-----------------------------------------------------------------------------
(* The parts hold initially.                                               *)
LEMMA InvInit == Init => LedgerInv
<1> SUFFICES ASSUME Init PROVE LedgerInv
  OBVIOUS
<1>1. \A g \in Groups : Answered(g) = {} /\ Complete(g) = {}
  BY DEF Init, Answered, Complete, Rows
<1>2. LedgerType
  BY LedgerAssumption DEF Init, LedgerType, Places, Groups
<1>3. \A p \in Procs : pc[p] = "idle"
  BY DEF Init
<1>4. AtGroup /\ OneProcess /\ SourcesHeld /\ InHand
  BY <1>3 DEF AtGroup, OneProcess, SourcesHeld, InHand, Active
<1>5. \A g \in Groups : ~Touched(g)
  BY <1>1 DEF Touched, Init
<1>6. Frontier
  BY <1>3, <1>5 DEF Frontier, Active
<1>7. NoneIneligible /\ JournalOutlivesGrading
  BY <1>1 DEF NoneIneligible, JournalOutlivesGrading
<1> QED BY <1>2, <1>4, <1>6, <1>7 DEF LedgerInv

(* A launch finds no other process, and begins in front of every group.    *)
LEMMA InvStart ==
  ASSUME LedgerInv, NEW p \in Procs, Start(p)
  PROVE  LedgerInv'
<1> USE DEF LedgerInv
<1>1. /\ pc' = [pc EXCEPT ![p] = "visit"] /\ at' = [at EXCEPT ![p] = 1]
      /\ UNCHANGED <<kind, source, answer, journal, rollouts, mem, crashes>>
      /\ manifest' = source
      /\ kind # "single" => lock' = p
  BY DEF Start, Goto
<1>2. LedgerType'
  BY <1>1, LedgerAssumption DEF LedgerType, Places
<1>3. pc \in [Procs -> Places] /\ at \in [Procs -> 1..(LastGroup + 1)] /\ 1 \in Groups
  BY LedgerAssumption DEF LedgerType, Groups
<1>4. \A q \in Procs : ~Active(q)
  BY LedgerAssumption DEF Start, MayRun, OneProcess, Active
<1>5. pc'[p] = "visit" /\ at'[p] = 1 /\ \A q \in Procs \ {p} : pc'[q] = pc[q] /\ at'[q] = at[q]
  BY <1>1, <1>3
<1>6. AtGroup'
  BY <1>3, <1>5 DEF AtGroup
<1>7. OneProcess' /\ SourcesHeld'
  BY <1>1, <1>4, <1>5 DEF OneProcess, SourcesHeld, Active
<1>8. \A g \in Groups :
        /\ Rows' = Rows /\ Answered(g)' = Answered(g) /\ Complete(g)' = Complete(g)
        /\ Done(g)' <=> Done(g)
        /\ Touched(g)' <=> Touched(g)
  BY <1>1, AnswersStay DEF Touched
<1>9. InHand'
  BY <1>4, <1>5 DEF InHand, Active
<1>10. Frontier'
  BY <1>4, <1>5, <1>8 DEF Frontier, Active, Groups
<1>11. NoneIneligible' /\ JournalOutlivesGrading'
  BY <1>1, <1>8 DEF NoneIneligible, JournalOutlivesGrading
<1> QED BY <1>2, <1>6, <1>7, <1>9, <1>10, <1>11

(* What the invariant says of a process that runs: it is alone.            *)
LEMMA RunsAlone ==
  ASSUME LedgerInv, NEW p \in Procs, Active(p)
  PROVE  /\ \A q \in Procs \ {p} : pc[q] \in {"idle", "finished"}
         /\ manifest = source /\ (kind # "single" => lock = p)
         /\ \A g \in Groups : g < at[p] => Done(g)
BY DEF LedgerInv, OneProcess, SourcesHeld, Frontier, Active

(* A step of the process that runs keeps it alone and its sources held.    *)
LEMMA ControlStep ==
  ASSUME LedgerInv, NEW p \in Procs, Active(p), NEW there \in Places,
         Goto(p, there), UNCHANGED <<kind, source, manifest>>,
         there \notin {"idle", "finished"} => lock' = lock
  PROVE  /\ OneProcess' /\ SourcesHeld'
         /\ pc' \in [Procs -> Places] /\ pc'[p] = there
         /\ \A q \in Procs \ {p} : pc'[q] = pc[q] /\ pc[q] \in {"idle", "finished"}
<1>1. pc \in [Procs -> Places]
  BY DEF LedgerInv, LedgerType
<1>2. /\ pc' \in [Procs -> Places] /\ pc'[p] = there
      /\ \A q \in Procs \ {p} : pc'[q] = pc[q]
  BY <1>1 DEF Goto
<1> QED BY <1>2, RunsAlone DEF OneProcess, SourcesHeld, Active

(* A step that touches only the group its process is at, and does not undo *)
(* it, moves the frontier only if that group is done.                      *)
LEMMA FrontierStep ==
  ASSUME LedgerInv, NEW p \in Procs, Active(p), NEW there \in Places \ {"finished"},
         Goto(p, there), UNCHANGED kind, NEW g \in Groups, g = at[p],
         \A h \in Groups \ {g} : /\ answer'[h] = answer[h] /\ journal'[h] = journal[h]
                                 /\ rollouts'[h] = rollouts[h],
         Done(g) => Done(g)',
         at' = at \/ (at' = [at EXCEPT ![p] = @ + 1] /\ Done(g)')
  PROVE  Frontier'
<1>1. pc \in [Procs -> Places] /\ at \in [Procs -> 1..(LastGroup + 1)]
  BY DEF LedgerInv, LedgerType
<1>2. pc'[p] = there /\ \A q \in Procs \ {p} : pc'[q] = pc[q] /\ pc'[q] \in {"idle", "finished"}
  BY <1>1, RunsAlone DEF Goto
<1>3. \A h \in Groups \ {g} : (Done(h)' <=> Done(h)) /\ (Touched(h)' <=> Touched(h))
  BY AnswersStay DEF Touched
<1>4. \A h \in Groups : Done(h) => Done(h)'
  BY <1>3
<1>5. ASSUME NEW q \in Procs, Active(q)', NEW h \in Groups, h < at'[q]
      PROVE  Done(h)'
  <2>1. q = p
    BY <1>2, <1>5 DEF Active
  <2>2. h < g \/ (h = g /\ Done(g)')
    BY <1>1, <1>5, <2>1 DEF Groups
  <2> QED BY <2>2, <1>4, RunsAlone
<1>6. ASSUME NEW f \in Groups, NEW h \in Groups, f < h, Touched(h)'
      PROVE  Done(f)'
  <2>1. CASE h = g
    BY <2>1, <1>4, <1>6, RunsAlone
  <2>2. CASE h # g
    BY <2>2, <1>3, <1>4, <1>6 DEF LedgerInv, Frontier
  <2> QED BY <2>1, <2>2
<1>7. ASSUME NEW q \in Procs, pc'[q] = "finished" PROVE \A h \in Groups : Done(h)'
  <2>1. q # p /\ pc[q] = "finished"
    BY <1>2, <1>7
  <2> QED BY <2>1, <1>4 DEF LedgerInv, Frontier
<1> QED BY <1>5, <1>6, <1>7 DEF Frontier

(* A step that leaves the directory alone leaves its parts alone.          *)
LEMMA DirectoryStays ==
  ASSUME LedgerInv, UNCHANGED <<kind, answer, journal, rollouts>>
  PROVE  /\ NoneIneligible' /\ JournalOutlivesGrading'
         /\ \A g \in Groups : /\ Rows' = Rows /\ Answered(g)' = Answered(g)
                              /\ Complete(g)' = Complete(g) /\ (Flawed(g)' <=> Flawed(g))
                              /\ (Done(g)' <=> Done(g)) /\ (Touched(g)' <=> Touched(g))
<1>1. \A g \in Groups : /\ Rows' = Rows /\ Answered(g)' = Answered(g)
                        /\ Complete(g)' = Complete(g) /\ (Flawed(g)' <=> Flawed(g))
                        /\ (Done(g)' <=> Done(g)) /\ (Touched(g)' <=> Touched(g))
  BY AnswersStay DEF Touched
<1> QED BY <1>1 DEF LedgerInv, NoneIneligible, JournalOutlivesGrading

(* A process that leaves, by whatever exit, leaves a sound directory.      *)
LEMMA InvLeave ==
  ASSUME LedgerInv, NEW p \in Procs, Active(p), Exit(p, "idle"),
         UNCHANGED <<kind, source, manifest, answer, journal, rollouts, at>>,
         mem' \in [Procs -> Rollouts \cup {None}], crashes' \in 0..MaxCrashes
  PROVE  LedgerInv'
<1>1. Goto(p, "idle") /\ "idle" \in Places \ {"finished"}
  BY DEF Exit, Places
<1>2. /\ OneProcess' /\ SourcesHeld' /\ pc' \in [Procs -> Places] /\ pc'[p] = "idle"
      /\ \A q \in Procs \ {p} : pc'[q] = pc[q] /\ pc[q] \in {"idle", "finished"}
  BY <1>1, ControlStep
<1>3. LedgerType' /\ AtGroup' /\ InHand'
  BY <1>2 DEF LedgerInv, LedgerType, AtGroup, InHand
<1>4. Frontier'
  BY <1>2, DirectoryStays DEF LedgerInv, Frontier, Active
<1> QED BY <1>2, <1>3, <1>4, DirectoryStays DEF LedgerInv

-----------------------------------------------------------------------------
(* Visits.                                                                 *)

(* A process that passes over a group, with nothing to do or after the     *)
(* record that its prompt does not fit.                                    *)
LEMMA InvPass ==
  ASSUME LedgerInv, NEW p \in Procs, Active(p), NEW g \in Groups, g = at[p],
         Advance(p), UNCHANGED <<kind, source, manifest, journal, rollouts, lock, mem, crashes>>,
         answer' \in [Groups -> [{0, 1} -> Answers \cup {Ineligible, None}]],
         \A h \in Groups \ {g} : answer'[h] = answer[h],
         Done(g)', NoneIneligible'
  PROVE  LedgerInv'
<1> DEFINE there == IF at[p] = LastGroup THEN "last" ELSE "visit"
<1>1. Goto(p, there) /\ at' = [at EXCEPT ![p] = @ + 1] /\ there \in Places \ {"finished"}
  BY DEF Advance, Places
<1>2. /\ OneProcess' /\ SourcesHeld' /\ pc' \in [Procs -> Places] /\ pc'[p] = there
      /\ \A q \in Procs \ {p} : pc'[q] = pc[q] /\ pc[q] \in {"idle", "finished"}
  BY <1>1, ControlStep
<1>3. /\ at \in [Procs -> 1..(LastGroup + 1)] /\ at'[p] = g + 1
      /\ at' \in [Procs -> 1..(LastGroup + 1)]
      /\ LastGroup \in Nat \ {0}
  BY <1>1, LedgerAssumption DEF LedgerInv, LedgerType, Groups
<1>4. LedgerType'
  BY <1>2, <1>3 DEF LedgerInv, LedgerType
<1>5. AtGroup'
  <2>1. CASE g = LastGroup
    BY <2>1, <1>2, <1>3 DEF AtGroup
  <2>2. CASE g # LastGroup
    <3>1. g + 1 \in Groups /\ pc'[p] = "visit"
      BY <2>2, <1>2, <1>3 DEF Groups
    <3> QED BY <3>1, <1>2, <1>3 DEF AtGroup
  <2> QED BY <2>1, <2>2
<1>6. InHand'
  BY <1>2 DEF InHand
<1>7. Frontier'
  <2> HIDE DEF there
  <2> QED BY <1>1, FrontierStep
<1>8. JournalOutlivesGrading'
  <2> SUFFICES ASSUME NEW h \in Groups, Answered(h)' \notin {{}, Rows'} PROVE journal'[h] # None
    BY DEF JournalOutlivesGrading
  <2>1. h # g
    BY DEF Done
  <2>2. Answered(h)' = Answered(h) /\ Rows' = Rows
    BY <2>1, AnswersStay
  <2> QED BY <2>2 DEF LedgerInv, JournalOutlivesGrading
<1> QED BY <1>2, <1>4, <1>5, <1>6, <1>7, <1>8 DEF LedgerInv

(* What each outcome of a visit says of the group.                         *)
LEMMA NextStepFacts ==
  ASSUME NEW g \in Groups
  PROVE  /\ NextStep(g) = "skip" => Done(g)
         /\ NextStep(g) = "ineligible" => kind = "single" /\ Answered(g) = {}
         /\ NextStep(g) = "grade" =>
              journal[g] # None /\ (kind = "single" => Answered(g) = {})
         /\ NextStep(g) = "generate" => Answered(g) = {} /\ journal[g] = None
<1>1. kind = "single" /\ Answered(g) # Rows => Answered(g) = {}
  BY DEF Answered, Rows
<1> QED BY <1>1 DEF NextStep, Done

(* The record of a prompt that does not fit: its group is done.            *)
LEMMA IneligibleEffect ==
  ASSUME LedgerInv, NEW g \in Groups, NextStep(g) = "ineligible", UNCHANGED kind,
         answer' = [answer EXCEPT ![g][0] = Ineligible]
  PROVE  /\ answer' \in [Groups -> [{0, 1} -> Answers \cup {Ineligible, None}]]
         /\ \A h \in Groups \ {g} : answer'[h] = answer[h]
         /\ Done(g)' /\ NoneIneligible' /\ Complete(g) = {} /\ Complete(g)' = {}
<1>1. kind = "single" /\ Answered(g) = {} /\ Rows = {0} /\ Rows' = {0}
  BY NextStepFacts DEF Rows
<1>2. answer \in [Groups -> [{0, 1} -> Answers \cup {Ineligible, None}]]
  BY DEF LedgerInv, LedgerType
<1>3. /\ answer' \in [Groups -> [{0, 1} -> Answers \cup {Ineligible, None}]]
      /\ \A h \in Groups \ {g} : answer'[h] = answer[h]
      /\ answer'[g][0] = Ineligible
  BY <1>2
<1>4. Answered(g)' = {0}
  BY <1>1, <1>3, LedgerAssumption DEF Answered
<1>5. Complete(g)' = {}
  BY <1>1, <1>3, <1>4 DEF Complete, Ineligible
<1>6. Done(g)'
  BY <1>1, <1>4, <1>5 DEF Done, Flawed
<1> QED BY <1>1, <1>3, <1>5, <1>6 DEF NoneIneligible, Complete

(* A process takes up a group: its journal, or a new rollout.              *)
LEMMA InvTakeUp ==
  ASSUME LedgerInv, NEW p \in Procs, pc[p] = "visit", NEW g \in Groups, g = at[p],
         NEW there \in {"grade", "generate"}, NextStep(g) = there, Goto(p, there),
         UNCHANGED <<kind, source, manifest, answer, journal, at, lock, crashes>>,
         rollouts' \in [Groups -> Nat], \A h \in Groups \ {g} : rollouts'[h] = rollouts[h],
         mem' \in [Procs -> Rollouts \cup {None}],
         there = "grade" => mem'[p] = journal[g],
         there = "generate" => mem'[p] # None /\ mem'[p].rollout = rollouts'[g]
  PROVE  LedgerInv'
<1>1. Active(p) /\ there \in Places \ {"finished"} /\ there \notin {"idle", "finished"}
  BY DEF Active, Places
<1>2. /\ OneProcess' /\ SourcesHeld' /\ pc' \in [Procs -> Places] /\ pc'[p] = there
      /\ \A q \in Procs \ {p} : pc'[q] = pc[q] /\ pc[q] \in {"idle", "finished"}
  BY <1>1, ControlStep
<1>3. LedgerType' /\ AtGroup'
  BY <1>2 DEF LedgerInv, LedgerType, AtGroup
<1>4. /\ Rows' = Rows /\ Answered(g)' = Answered(g) /\ (Done(g)' <=> Done(g))
      /\ NoneIneligible' /\ JournalOutlivesGrading'
  <2>1. \A h \in Groups : /\ Rows' = Rows /\ Answered(h)' = Answered(h)
                          /\ Complete(h)' = Complete(h) /\ (Done(h)' <=> Done(h))
    BY AnswersStay
  <2> QED BY <2>1 DEF LedgerInv, NoneIneligible, JournalOutlivesGrading
<1>5. Frontier'
  BY <1>1, <1>4, FrontierStep
<1>6. InHand'
  <2> SUFFICES ASSUME NEW q \in Procs, NEW h \in Groups, at[q] = h
               PROVE  /\ pc'[q] = "generate" =>
                           /\ Answered(h)' = {} /\ journal'[h] = None
                           /\ mem'[q] # None /\ mem'[q].rollout = rollouts'[h]
                      /\ pc'[q] = "grade" =>
                           /\ journal'[h] = mem'[q] /\ mem'[q] # None
                           /\ kind' = "single" => Answered(h)' = {}
                      /\ pc'[q] \notin {"unlink", "summarize"}
    BY DEF InHand
  <2>1. CASE q = p
    BY <2>1, <1>2, <1>4, NextStepFacts
  <2>2. CASE q # p
    BY <2>2, <1>2
  <2> QED BY <2>1, <2>2
<1> QED BY <1>2, <1>3, <1>4, <1>5, <1>6 DEF LedgerInv

(* A visit, whatever it leads to.                                          *)
LEMMA InvVisit ==
  ASSUME LedgerInv, NEW p \in Procs, Visit(p)
  PROVE  LedgerInv'
<1>0. PICK g \in Groups : g = at[p]
  BY DEF Visit, LedgerInv, AtGroup
<1>1. /\ g = at[p] /\ Active(p) /\ pc[p] = "visit"
      /\ UNCHANGED <<kind, source, manifest, journal, summary, crashes>>
  BY <1>0 DEF Visit, Active
<1>2. /\ mem \in [Procs -> Rollouts \cup {None}] /\ rollouts \in [Groups -> Nat]
      /\ journal \in [Groups -> Rollouts \cup {None}] /\ source \in Sources
      /\ crashes \in 0..MaxCrashes
      /\ answer \in [Groups -> [{0, 1} -> Answers \cup {Ineligible, None}]]
  BY DEF LedgerInv, LedgerType
<1>3. CASE NextStep(g) = "skip" /\ Advance(p) /\ UNCHANGED <<answer, rollouts, lock, mem>>
  <2>1. Done(g)' /\ NoneIneligible'
    BY <1>1, <1>3, NextStepFacts, DirectoryStays
  <2> QED BY <1>1, <1>2, <1>3, <2>1, InvPass
<1>4. CASE NextStep(g) = "stop" /\ Exit(p, "idle") /\ UNCHANGED <<answer, rollouts, at, mem>>
  BY <1>1, <1>2, <1>4, InvLeave
<1>5. CASE /\ NextStep(g) = "ineligible" /\ Advance(p)
           /\ answer' = [answer EXCEPT ![g][0] = Ineligible]
           /\ UNCHANGED <<rollouts, lock, mem>>
  <2>1. /\ answer' \in [Groups -> [{0, 1} -> Answers \cup {Ineligible, None}]]
        /\ \A h \in Groups \ {g} : answer'[h] = answer[h]
        /\ Done(g)' /\ NoneIneligible'
    BY <1>1, <1>5, IneligibleEffect
  <2> QED BY <1>1, <1>5, <2>1, InvPass
<1>6. CASE /\ NextStep(g) = "grade" /\ Goto(p, "grade")
           /\ mem' = [mem EXCEPT ![p] = journal[g]]
           /\ UNCHANGED <<answer, rollouts, at, lock>>
  <2>1. mem' \in [Procs -> Rollouts \cup {None}] /\ mem'[p] = journal[g]
    BY <1>1, <1>2, <1>6
  <2> QED BY <1>1, <1>2, <1>6, <2>1, InvTakeUp
<1>7. CASE /\ NextStep(g) = "generate" /\ Goto(p, "generate")
           /\ rollouts' = [rollouts EXCEPT ![g] = @ + 1]
           /\ mem' = [mem EXCEPT ![p] = [rollout |-> rollouts'[g], source |-> source]]
           /\ UNCHANGED <<answer, at, lock>>
  <2>1. /\ rollouts' \in [Groups -> Nat] /\ \A h \in Groups \ {g} : rollouts'[h] = rollouts[h]
        /\ rollouts'[g] \in Nat
    BY <1>1, <1>2, <1>7
  <2>2. [rollout |-> rollouts'[g], source |-> source] \in Rollouts
    BY <1>2, <2>1 DEF Rollouts
  <2>3. /\ mem' \in [Procs -> Rollouts \cup {None}]
        /\ mem'[p] # None /\ mem'[p].rollout = rollouts'[g]
    BY <1>2, <1>7, <2>2, LedgerAssumption
  <2> QED BY <1>1, <1>7, <2>1, <2>3, InvTakeUp
<1> QED BY <1>1, <1>3, <1>4, <1>5, <1>6, <1>7 DEF Visit

-----------------------------------------------------------------------------
(* Journals, gradings, and what follows them.                              *)

(* A rollout becomes durable.                                              *)
LEMMA InvJournal ==
  ASSUME LedgerInv, NEW p \in Procs, Journal(p)
  PROVE  LedgerInv'
<1>1. PICK g \in Groups : g = at[p]
  BY DEF Journal, LedgerInv, AtGroup
<1>2. /\ Active(p) /\ pc[p] = "generate" /\ Goto(p, "grade")
      /\ "grade" \in Places \ {"finished"}
      /\ journal' = [journal EXCEPT ![g] = mem[p]]
      /\ UNCHANGED <<kind, source, manifest, answer, rollouts, lock, at, mem, crashes>>
  BY <1>1 DEF Journal, Active, Places
<1>3. /\ OneProcess' /\ SourcesHeld' /\ pc' \in [Procs -> Places] /\ pc'[p] = "grade"
      /\ \A q \in Procs \ {p} : pc'[q] = pc[q] /\ pc[q] \in {"idle", "finished"}
  BY <1>2, ControlStep
<1>4. /\ journal \in [Groups -> Rollouts \cup {None}] /\ mem[p] \in Rollouts \cup {None}
      /\ Answered(g) = {} /\ mem[p] # None
  BY <1>1, <1>2 DEF LedgerInv, LedgerType, InHand
<1>5. /\ journal' \in [Groups -> Rollouts \cup {None}] /\ journal'[g] = mem[p]
      /\ \A h \in Groups \ {g} : journal'[h] = journal[h]
  BY <1>2, <1>4
<1>6. LedgerType' /\ AtGroup'
  BY <1>2, <1>3, <1>5 DEF LedgerInv, LedgerType, AtGroup
<1>7. \A h \in Groups : /\ Rows' = Rows /\ Answered(h)' = Answered(h)
                        /\ Complete(h)' = Complete(h)
  BY <1>2, AnswersStay
<1>8. InHand'
  BY <1>1, <1>2, <1>3, <1>4, <1>5, <1>7 DEF InHand
<1>9. Frontier'
  <2>1. ~Done(g)
    BY <1>4, RowsType DEF Done
  <2> QED BY <1>1, <1>2, <1>5, <2>1, FrontierStep
<1>10. NoneIneligible' /\ JournalOutlivesGrading'
  BY <1>2, <1>4, <1>5, <1>7 DEF LedgerInv, NoneIneligible, JournalOutlivesGrading
<1> QED BY <1>3, <1>6, <1>8, <1>9, <1>10 DEF LedgerInv

(* The record a grading writes.                                            *)
RecordOf(p, errors) ==
  [status |-> "complete", rollout |-> mem[p].rollout, source |-> mem[p].source,
   grader |-> source, errors |-> errors]

(* One row of a group gets its answer: the others keep theirs.             *)
LEMMA GradeEffect ==
  ASSUME LedgerInv, NEW p \in Procs, NEW g \in Groups, g = at[p], Grade(p)
  PROVE  \E errors \in BOOLEAN, r \in Rows \ Answered(g) :
           /\ answer' \in [Groups -> [{0, 1} -> Answers \cup {Ineligible, None}]]
           /\ \A h \in Groups \ {g} : answer'[h] = answer[h]
           /\ answer'[g][r] = RecordOf(p, errors)
           /\ \A s \in Rows \ {r} : answer'[g][s] = answer[g][s]
           /\ Rows' = Rows /\ Answered(g)' = Answered(g) \cup {r}
           /\ Complete(g)' = Complete(g) \cup {r}
           /\ IF errors /\ kind # "single" THEN Exit(p, "idle")
              ELSE Goto(p, IF kind = "single" THEN "unlink" ELSE "grade") /\ lock' = lock
<1> DEFINE left == ToGrade(g)
           r == CHOOSE s \in left : \A t \in left : s <= t
<1>1. PICK errors \in BOOLEAN :
        /\ answer' = [answer EXCEPT ![g][r] = RecordOf(p, errors)]
        /\ IF errors /\ kind # "single" THEN Exit(p, "idle")
           ELSE Goto(p, IF kind = "single" THEN "unlink" ELSE "grade") /\ lock' = lock
  BY DEF Grade, RecordOf
<1>2. left # {} /\ left \subseteq {0, 1} /\ left = Rows \ Answered(g) /\ kind' = kind
  BY RowsType DEF Grade, ToGrade
<1>3. \E s \in left : \A t \in left : s <= t
  <2>1. CASE 0 \in left
    BY <2>1, <1>2
  <2>2. CASE 0 \notin left
    <3>1. left = {1}
      BY <2>2, <1>2
    <3> QED BY <3>1
  <2> QED BY <2>1, <2>2
<1>4. r \in left
  BY <1>3
<1> HIDE DEF r, left
<1>5. r \in Rows \ Answered(g) /\ r \in {0, 1}
  BY <1>2, <1>4
<1>6. /\ answer \in [Groups -> [{0, 1} -> Answers \cup {Ineligible, None}]]
      /\ mem[p] \in Rollouts /\ source \in Sources
  BY DEF LedgerInv, LedgerType, InHand, Grade
<1>7. RecordOf(p, errors) \in Answers
  BY <1>6 DEF RecordOf, Answers, Rollouts
<1>8. /\ answer' \in [Groups -> [{0, 1} -> Answers \cup {Ineligible, None}]]
      /\ \A h \in Groups \ {g} : answer'[h] = answer[h]
      /\ answer'[g][r] = RecordOf(p, errors)
      /\ \A s \in Rows \ {r} : answer'[g][s] = answer[g][s]
  BY <1>1, <1>5, <1>6, <1>7, RowsType
<1>9. Rows' = Rows
  BY <1>2 DEF Rows
<1>10. Answered(g)' = Answered(g) \cup {r}
  BY <1>5, <1>7, <1>8, <1>9, LedgerAssumption DEF Answered
<1>11. Complete(g)' = Complete(g) \cup {r}
  <2>1. answer'[g][r].status = "complete"
    BY <1>8 DEF RecordOf
  <2> QED BY <1>5, <1>8, <1>10, <2>1 DEF Complete, Answered
<1> QED BY <1>1, <1>5, <1>8, <1>9, <1>10, <1>11

(* A grading: the journal is still there, and no group behind was begun.   *)
LEMMA InvGrade ==
  ASSUME LedgerInv, NEW p \in Procs, Grade(p)
  PROVE  LedgerInv'
<1>1. PICK g \in Groups : g = at[p]
  BY DEF Grade, LedgerInv, AtGroup
<1>2. /\ Active(p) /\ pc[p] = "grade"
      /\ UNCHANGED <<kind, source, manifest, journal, rollouts, at, mem, crashes>>
  BY <1>1 DEF Grade, Active
<1>3. PICK errors \in BOOLEAN, r \in Rows \ Answered(g) :
        /\ answer' \in [Groups -> [{0, 1} -> Answers \cup {Ineligible, None}]]
        /\ \A h \in Groups \ {g} : answer'[h] = answer[h]
        /\ Rows' = Rows /\ Answered(g)' = Answered(g) \cup {r}
        /\ Complete(g)' = Complete(g) \cup {r}
        /\ IF errors /\ kind # "single" THEN Exit(p, "idle")
           ELSE Goto(p, IF kind = "single" THEN "unlink" ELSE "grade") /\ lock' = lock
  BY <1>1, GradeEffect
<1> DEFINE there == IF errors /\ kind # "single" THEN "idle"
                    ELSE IF kind = "single" THEN "unlink" ELSE "grade"
<1>4. /\ Goto(p, there) /\ there \in Places \ {"finished"}
      /\ there \notin {"idle", "finished"} => lock' = lock
  BY <1>3 DEF Exit, Places
<1>5. /\ OneProcess' /\ SourcesHeld' /\ pc' \in [Procs -> Places] /\ pc'[p] = there
      /\ \A q \in Procs \ {p} : pc'[q] = pc[q] /\ pc[q] \in {"idle", "finished"}
  BY <1>2, <1>4, ControlStep
<1>6. LedgerType' /\ AtGroup'
  BY <1>1, <1>2, <1>3, <1>5 DEF LedgerInv, LedgerType, AtGroup
<1>7. journal[g] = mem[p] /\ mem[p] # None /\ (kind = "single" => Answered(g) = {})
  BY <1>1, <1>2 DEF LedgerInv, InHand
<1>8. InHand'
  <2>1. kind = "single" => Answered(g)' = Rows'
    BY <1>3, <1>7, RowsType
  <2> QED BY <1>1, <1>2, <1>5, <1>7, <2>1 DEF InHand
<1>9. Frontier'
  <2>1. ~Done(g)
    BY <1>3 DEF Done
  <2> HIDE DEF there
  <2> QED BY <1>1, <1>2, <1>3, <1>4, <2>1, FrontierStep
<1>10. \A h \in Groups \ {g} : Answered(h)' = Answered(h) /\ Complete(h)' = Complete(h)
  BY <1>2, <1>3, AnswersStay
<1>11. NoneIneligible' /\ JournalOutlivesGrading'
  BY <1>2, <1>3, <1>7, <1>10 DEF LedgerInv, NoneIneligible, JournalOutlivesGrading
<1> QED BY <1>5, <1>6, <1>8, <1>9, <1>11 DEF LedgerInv

(* The journal goes when every row has its answer.                         *)
LEMMA InvUnlink ==
  ASSUME LedgerInv, NEW p \in Procs, Unlink(p)
  PROVE  LedgerInv'
<1>1. PICK g \in Groups : g = at[p]
  BY DEF Unlink, LedgerInv, AtGroup
<1>2. /\ Active(p) /\ Answered(g) = Rows /\ journal' = [journal EXCEPT ![g] = None]
      /\ UNCHANGED <<kind, source, manifest, answer, rollouts, at, mem, crashes>>
  BY <1>1 DEF Unlink, Active, Graded
<1> DEFINE there == IF Flawed(g) THEN "idle" ELSE "summarize"
<1>3. /\ Goto(p, there) /\ there \in Places \ {"finished"}
      /\ there \notin {"idle", "finished"} => lock' = lock
  BY <1>1 DEF Unlink, Exit, Places
<1>4. /\ OneProcess' /\ SourcesHeld' /\ pc' \in [Procs -> Places] /\ pc'[p] = there
      /\ \A q \in Procs \ {p} : pc'[q] = pc[q] /\ pc[q] \in {"idle", "finished"}
  BY <1>2, <1>3, ControlStep
<1>5. journal \in [Groups -> Rollouts \cup {None}]
  BY DEF LedgerInv, LedgerType
<1>6. /\ journal' \in [Groups -> Rollouts \cup {None}] /\ journal'[g] = None
      /\ \A h \in Groups \ {g} : journal'[h] = journal[h]
  BY <1>2, <1>5
<1>7. LedgerType' /\ AtGroup'
  BY <1>1, <1>2, <1>4, <1>6 DEF LedgerInv, LedgerType, AtGroup
<1>8. \A h \in Groups : /\ Rows' = Rows /\ Answered(h)' = Answered(h)
                        /\ Complete(h)' = Complete(h) /\ (Flawed(h)' <=> Flawed(h))
  BY <1>2, AnswersStay
<1>9. ~Flawed(g) => Done(g)'
  BY <1>2, <1>6, <1>8 DEF Done
<1>10. InHand'
  BY <1>1, <1>2, <1>4, <1>9 DEF InHand
<1>11. Frontier'
  <2>1. Done(g) => Done(g)'
    BY <1>9 DEF Done
  <2> HIDE DEF there
  <2> QED BY <1>1, <1>2, <1>3, <1>6, <2>1, FrontierStep
<1>12. NoneIneligible' /\ JournalOutlivesGrading'
  BY <1>2, <1>6, <1>8 DEF LedgerInv, NoneIneligible, JournalOutlivesGrading
<1> QED BY <1>4, <1>7, <1>10, <1>11, <1>12 DEF LedgerInv

(* Behind the last group every group is done.                              *)
LEMMA AllDone ==
  ASSUME LedgerInv, NEW p \in Procs, pc[p] = "last"
  PROVE  \A g \in Groups : Done(g)
<1>1. Active(p) /\ at[p] = LastGroup + 1
  BY DEF Active, LedgerInv, AtGroup
<1>2. \A g \in Groups : g < at[p]
  BY <1>1, LedgerAssumption DEF Groups
<1> QED BY <1>1, <1>2, RunsAlone

(* A summary behind a group that is done, or at the end.                   *)
LEMMA InvSummarize ==
  ASSUME LedgerInv, NEW p \in Procs, Summarize(p)
  PROVE  LedgerInv'
<1>1. /\ Active(p)
      /\ UNCHANGED <<kind, source, manifest, answer, journal, rollouts, mem, crashes>>
  BY DEF Summarize, Active
<1>2. CASE pc[p] = "summarize"
  <2>1. PICK g \in Groups : g = at[p]
    BY <1>2 DEF LedgerInv, AtGroup
  <2>2. Advance(p) /\ lock' = lock
    BY <1>2 DEF Summarize
  <2>3. Done(g)' /\ NoneIneligible'
    BY <1>1, <1>2, <2>1, DirectoryStays DEF LedgerInv, InHand
  <2>4. answer' \in [Groups -> [{0, 1} -> Answers \cup {Ineligible, None}]]
    BY <1>1 DEF LedgerInv, LedgerType
  <2> QED BY <1>1, <2>1, <2>2, <2>3, <2>4, InvPass
<1>3. CASE pc[p] = "last"
  <2>1. Goto(p, "finished") /\ at' = at /\ "finished" \in Places
    BY <1>3 DEF Summarize, Exit, Places
  <2>2. /\ OneProcess' /\ SourcesHeld' /\ pc' \in [Procs -> Places] /\ pc'[p] = "finished"
        /\ \A q \in Procs \ {p} : pc'[q] = pc[q] /\ pc[q] \in {"idle", "finished"}
    BY <1>1, <2>1, ControlStep
  <2>3. LedgerType' /\ AtGroup' /\ InHand'
    BY <1>1, <2>1, <2>2 DEF LedgerInv, LedgerType, AtGroup, InHand
  <2>4. Frontier'
    BY <1>1, <1>3, AllDone, DirectoryStays DEF Frontier
  <2> QED BY <1>1, <2>2, <2>3, <2>4, DirectoryStays DEF LedgerInv
<1> QED BY <1>2, <1>3 DEF Summarize

-----------------------------------------------------------------------------
(* Deaths and edits.                                                       *)

LEMMA InvCrash ==
  ASSUME LedgerInv, NEW p \in Procs, Crash(p)
  PROVE  LedgerInv'
<1>1. /\ Active(p) /\ Exit(p, "idle")
      /\ UNCHANGED <<kind, source, manifest, answer, journal, rollouts, at>>
  BY DEF Crash, Active, disk
<1>2. mem' \in [Procs -> Rollouts \cup {None}] /\ crashes' \in 0..MaxCrashes
  BY LedgerAssumption DEF Crash, LedgerInv, LedgerType
<1> QED BY <1>1, <1>2, InvLeave

LEMMA InvEdit == LedgerInv /\ Edit => LedgerInv'
<1> SUFFICES ASSUME LedgerInv, Edit PROVE LedgerInv'
  OBVIOUS
<1>1. /\ UNCHANGED <<kind, manifest, answer, journal, rollouts, lock, pc, at, mem, crashes>>
      /\ source' \in Sources /\ \A q \in Procs : ~Active(q)
  BY DEF Edit, Active, disk
<1>2. LedgerType' /\ AtGroup' /\ OneProcess' /\ SourcesHeld'
  BY <1>1 DEF LedgerInv, LedgerType, AtGroup, OneProcess, SourcesHeld, Active
<1>3. InHand' /\ Frontier'
  BY <1>1, DirectoryStays DEF LedgerInv, InHand, Frontier, Active
<1> QED BY <1>1, <1>2, <1>3, DirectoryStays DEF LedgerInv

LEMMA InvStutter == LedgerInv /\ UNCHANGED vars => LedgerInv'
<1> SUFFICES ASSUME LedgerInv, UNCHANGED vars PROVE LedgerInv'
  OBVIOUS
<1>1. /\ UNCHANGED <<kind, source, manifest, answer, journal, rollouts, lock, pc, at, mem, crashes>>
  BY DEF vars, disk
<1>2. LedgerType' /\ AtGroup' /\ OneProcess' /\ SourcesHeld'
  BY <1>1 DEF LedgerInv, LedgerType, AtGroup, OneProcess, SourcesHeld, Active
<1>3. InHand' /\ Frontier'
  BY <1>1, DirectoryStays DEF LedgerInv, InHand, Frontier, Active
<1> QED BY <1>1, <1>2, <1>3, DirectoryStays DEF LedgerInv

LEMMA InvStep == LedgerInv /\ [Next]_vars => LedgerInv'
<1> SUFFICES ASSUME LedgerInv, [Next]_vars PROVE LedgerInv'
  OBVIOUS
<1>1. ASSUME NEW p \in Procs, Step(p) PROVE LedgerInv'
  BY <1>1, InvStart, InvVisit, InvJournal, InvGrade, InvUnlink, InvSummarize DEF Step
<1>2. ASSUME NEW p \in Procs, Crash(p) PROVE LedgerInv'
  BY <1>2, InvCrash
<1> QED BY <1>1, <1>2, InvEdit, InvStutter DEF Next

-----------------------------------------------------------------------------
(* Origin: one batch and one protocol for the two answers of a problem.    *)

OriginInv == OneOrigin /\ OneProtocol /\ PairFromOneBatch

(* A complete answer is a record of the grader's.                          *)
LEMMA CompleteRecords ==
  ASSUME LedgerInv, NEW g \in Groups, NEW r \in Complete(g)
  PROVE  answer[g][r] \in Answers /\ r \in Rows
<1>1. r \in Rows /\ answer[g][r] # None /\ answer[g][r].status = "complete"
  BY DEF Complete, Answered
<1>2. answer[g][r] \in Answers \cup {Ineligible, None}
  BY <1>1, RowsType DEF LedgerInv, LedgerType
<1> QED BY <1>1, <1>2 DEF Ineligible

(* A step that only forgets journals and memory forgets no origin.         *)
LEMMA OriginStays ==
  ASSUME OriginInv, UNCHANGED <<kind, manifest, answer>>,
         \A g \in Groups : journal'[g] \in {journal[g], None},
         \A p \in Procs : pc'[p] \in {"generate", "grade"} =>
           pc[p] \in {"generate", "grade"} /\ mem'[p] = mem[p]
  PROVE  OriginInv'
<1>1. \A g \in Groups : Complete(g)' = Complete(g)
  BY AnswersStay
<1>2. OneOrigin'
  BY DEF OriginInv, OneOrigin
<1>3. OneProtocol' /\ PairFromOneBatch'
  BY <1>1 DEF OriginInv, OneProtocol, PairFromOneBatch
<1> QED BY <1>2, <1>3 DEF OriginInv

(* A launch either repeats the manifest or writes the first one.           *)
LEMMA OriginStart ==
  ASSUME LedgerInv, OriginInv, NEW p \in Procs, Start(p)
  PROVE  OriginInv'
<1>1. /\ UNCHANGED <<kind, answer, journal, mem>> /\ manifest' = source
      /\ manifest \in {None, source} /\ Goto(p, "visit") /\ MayRun(p)
  BY DEF Start, Refused
<1>2. \A q \in Procs : pc'[q] \notin {"generate", "grade"}
  <2>1. \A q \in Procs : ~Active(q)
    BY <1>1, LedgerAssumption DEF MayRun, LedgerInv, OneProcess, Active
  <2> QED BY <1>1, <2>1 DEF Goto, Active, LedgerInv, LedgerType
<1>3. CASE manifest = source
  BY <1>1, <1>2, <1>3, OriginStays
<1>4. CASE manifest = None
  <2>1. \A g \in Groups : Complete(g) = {}
    <3> SUFFICES ASSUME NEW g \in Groups, NEW r \in Complete(g) PROVE FALSE
      OBVIOUS
    <3>1. answer[g][r].source \in Sources
      BY CompleteRecords DEF Answers
    <3> QED BY <3>1, <1>4, LedgerAssumption DEF OriginInv, OneProtocol
  <2>2. \A g \in Groups : journal[g] = None
    <3> SUFFICES ASSUME NEW g \in Groups, journal[g] # None PROVE FALSE
      OBVIOUS
    <3>1. journal[g].source \in Sources
      BY DEF LedgerInv, LedgerType, Rollouts
    <3> QED BY <3>1, <1>4, LedgerAssumption DEF OriginInv, OneOrigin
  <2>3. \A g \in Groups : Complete(g)' = {}
    BY <1>1, <2>1, AnswersStay
  <2> QED BY <1>1, <1>2, <2>2, <2>3 DEF OriginInv, OneOrigin, OneProtocol, PairFromOneBatch
<1> QED BY <1>1, <1>3, <1>4

(* Memory is filled from the journal, or from the sources of the manifest. *)
LEMMA OriginVisit ==
  ASSUME LedgerInv, OriginInv, NEW p \in Procs, Visit(p)
  PROVE  OriginInv'
<1>1. PICK g \in Groups : g = at[p]
  BY DEF Visit, LedgerInv, AtGroup
<1>2. /\ Active(p) /\ UNCHANGED <<kind, manifest, journal>>
      /\ pc \in [Procs -> Places] /\ mem \in [Procs -> Rollouts \cup {None}]
      /\ source \in Sources /\ rollouts \in [Groups -> Nat]
      /\ \A q \in Procs \ {p} : pc[q] \in {"idle", "finished"}
      /\ manifest = source
  BY RunsAlone DEF Visit, Active, LedgerInv, LedgerType
<1>3. CASE pc'[p] \notin {"generate", "grade"} /\ answer' = answer
  <2>1. \A q \in Procs \ {p} : pc'[q] = pc[q]
    BY <1>2 DEF Visit, Goto, Exit, Advance
  <2> QED BY <1>2, <1>3, <2>1, OriginStays
<1>4. CASE /\ NextStep(g) = "ineligible" /\ Advance(p)
           /\ answer' = [answer EXCEPT ![g][0] = Ineligible]
  <2>1. /\ Complete(g)' = {} /\ \A h \in Groups \ {g} : answer'[h] = answer[h]
    BY <1>2, <1>4, IneligibleEffect
  <2>2. \A h \in Groups : h = g \/ Complete(h)' = Complete(h)
    BY <1>2, <2>1, AnswersStay
  <2>3. \A q \in Procs : pc'[q] \notin {"generate", "grade"}
    BY <1>2, <1>4 DEF Advance, Goto
  <2> QED BY <1>2, <2>1, <2>2, <2>3 DEF OriginInv, OneOrigin, OneProtocol, PairFromOneBatch
<1>5. CASE /\ answer' = answer /\ mem'[p] # None /\ mem'[p].source = manifest
           /\ \A q \in Procs \ {p} : pc'[q] \notin {"generate", "grade"}
  <2>1. \A h \in Groups : Complete(h)' = Complete(h)
    BY <1>2, <1>5, AnswersStay
  <2> QED BY <1>2, <1>5, <2>1 DEF OriginInv, OneOrigin, OneProtocol, PairFromOneBatch
<1>6. CASE /\ NextStep(g) = "grade" /\ Goto(p, "grade")
           /\ mem' = [mem EXCEPT ![p] = journal[g]] /\ answer' = answer
  <2>1. mem'[p] = journal[g] /\ journal[g] # None
    BY <1>2, <1>6, NextStepFacts
  <2> QED BY <1>2, <1>5, <1>6, <2>1 DEF OriginInv, OneOrigin, Goto
<1>7. CASE /\ NextStep(g) = "generate" /\ Goto(p, "generate")
           /\ rollouts' = [rollouts EXCEPT ![g] = @ + 1]
           /\ mem' = [mem EXCEPT ![p] = [rollout |-> rollouts'[g], source |-> source]]
           /\ answer' = answer
  <2>1. [rollout |-> rollouts'[g], source |-> source] \in Rollouts
    BY <1>2, <1>7 DEF Rollouts
  <2>2. mem'[p] # None /\ mem'[p].source = manifest
    BY <1>2, <1>7, <2>1, LedgerAssumption
  <2> QED BY <1>2, <1>5, <1>7, <2>2 DEF Goto
<1>8. \/ pc'[p] \notin {"generate", "grade"} /\ answer' = answer
      \/ NextStep(g) = "ineligible" /\ Advance(p) /\ answer' = [answer EXCEPT ![g][0] = Ineligible]
      \/ /\ NextStep(g) = "grade" /\ Goto(p, "grade")
         /\ mem' = [mem EXCEPT ![p] = journal[g]] /\ answer' = answer
      \/ /\ NextStep(g) = "generate" /\ Goto(p, "generate")
         /\ rollouts' = [rollouts EXCEPT ![g] = @ + 1]
         /\ mem' = [mem EXCEPT ![p] = [rollout |-> rollouts'[g], source |-> source]]
         /\ answer' = answer
  BY <1>1, <1>2 DEF Visit, Advance, Exit, Goto
<1> QED BY <1>3, <1>4, <1>6, <1>7, <1>8

(* The journal takes its origin from memory.                               *)
LEMMA OriginJournal ==
  ASSUME LedgerInv, OriginInv, NEW p \in Procs, Journal(p)
  PROVE  OriginInv'
<1>1. PICK g \in Groups : g = at[p]
  BY DEF Journal, LedgerInv, AtGroup
<1>2. /\ pc[p] = "generate" /\ journal' = [journal EXCEPT ![g] = mem[p]]
      /\ UNCHANGED <<kind, manifest, answer, mem>> /\ Goto(p, "grade")
      /\ Answered(g) = {}
      /\ journal \in [Groups -> Rollouts \cup {None}] /\ pc \in [Procs -> Places]
  BY <1>1 DEF Journal, LedgerInv, LedgerType, InHand
<1>3. /\ journal'[g] = mem[p] /\ mem[p] # None /\ mem[p].source = manifest
      /\ \A h \in Groups \ {g} : journal'[h] = journal[h]
  BY <1>2 DEF OriginInv, OneOrigin
<1>4. \A h \in Groups : Complete(h)' = Complete(h)
  BY <1>2, AnswersStay
<1>5. OneOrigin'
  BY <1>2, <1>3 DEF OriginInv, OneOrigin, Goto
<1>6. Complete(g) = {}
  BY <1>2 DEF Complete
<1>7. OneProtocol' /\ PairFromOneBatch'
  BY <1>2, <1>3, <1>4, <1>6 DEF OriginInv, OneProtocol, PairFromOneBatch
<1> QED BY <1>5, <1>7 DEF OriginInv

(* Every row is graded from the one journal of its group.                  *)
LEMMA OriginGrade ==
  ASSUME LedgerInv, OriginInv, NEW p \in Procs, Grade(p)
  PROVE  OriginInv'
<1>1. PICK g \in Groups : g = at[p]
  BY DEF Grade, LedgerInv, AtGroup
<1>2. /\ pc[p] = "grade" /\ UNCHANGED <<kind, manifest, journal, mem>> /\ Active(p)
      /\ manifest = source
  BY RunsAlone DEF Grade, Active
<1>3. PICK errors \in BOOLEAN, r \in Rows \ Answered(g) :
        /\ \A h \in Groups \ {g} : answer'[h] = answer[h]
        /\ answer'[g][r] = RecordOf(p, errors)
        /\ \A s \in Rows \ {r} : answer'[g][s] = answer[g][s]
        /\ Complete(g)' = Complete(g) \cup {r}
        /\ Rows' = Rows
        /\ \E there \in Places : Goto(p, there)
  BY <1>1, GradeEffect DEF Exit, Places
<1>4. /\ answer'[g][r].rollout = mem[p].rollout /\ answer'[g][r].source = mem[p].source
      /\ answer'[g][r].grader = source
  BY <1>3 DEF RecordOf
<1>5. journal[g] = mem[p] /\ mem[p] # None /\ mem[p].source = manifest
  BY <1>1, <1>2 DEF LedgerInv, InHand, OriginInv, OneOrigin
<1>6. /\ Complete(g) \subseteq Rows \ {r}
      /\ \A h \in Groups \ {g} : Complete(h)' = Complete(h)
  BY <1>2, <1>3, AnswersStay DEF Complete, Answered
<1>7. OneOrigin'
  BY <1>2, <1>3 DEF OriginInv, OneOrigin, Goto, LedgerInv, LedgerType
<1>8. OneProtocol'
  BY <1>2, <1>3, <1>4, <1>5, <1>6 DEF OriginInv, OneProtocol
<1>9. PairFromOneBatch'
  <2>1. \A s \in Complete(g)' : answer'[g][s].rollout = journal[g].rollout
    BY <1>3, <1>4, <1>5, <1>6 DEF OriginInv, PairFromOneBatch
  <2> QED BY <1>2, <1>3, <1>6, <2>1 DEF OriginInv, PairFromOneBatch
<1> QED BY <1>7, <1>8, <1>9 DEF OriginInv

LEMMA OriginStep == LedgerInv /\ OriginInv /\ [Next]_vars => OriginInv'
<1> SUFFICES ASSUME LedgerInv, OriginInv, [Next]_vars PROVE OriginInv'
  OBVIOUS
<1>1. pc \in [Procs -> Places] /\ journal \in [Groups -> Rollouts \cup {None}]
  BY DEF LedgerInv, LedgerType
<1>2. ASSUME NEW p \in Procs, Unlink(p) \/ Summarize(p) \/ Crash(p) PROVE OriginInv'
  <2>1. UNCHANGED <<kind, manifest, answer>>
    BY <1>2 DEF Unlink, Summarize, Crash, disk
  <2>2. \A g \in Groups : journal'[g] \in {journal[g], None}
    BY <1>1, <1>2 DEF Unlink, Summarize, Crash, disk
  <2>3. \A q \in Procs : pc'[q] \in {"generate", "grade"} =>
           pc[q] \in {"generate", "grade"} /\ mem'[q] = mem[q]
    <3>1. PICK there \in Places \ {"generate", "grade"} : Goto(p, there)
      BY <1>2 DEF Unlink, Summarize, Crash, Exit, Advance, Places
    <3>2. mem' = mem \/ mem' = [mem EXCEPT ![p] = None]
      BY <1>2 DEF Unlink, Summarize, Crash
    <3>3. mem \in [Procs -> Rollouts \cup {None}]
      BY DEF LedgerInv, LedgerType
    <3> QED BY <1>1, <3>1, <3>2, <3>3 DEF Goto
  <2> QED BY <2>1, <2>2, <2>3, OriginStays
<1>3. ASSUME NEW p \in Procs, Step(p) \/ Crash(p) PROVE OriginInv'
  BY <1>2, <1>3, OriginStart, OriginVisit, OriginJournal, OriginGrade DEF Step
<1>4. CASE Edit \/ UNCHANGED vars
  BY <1>4, OriginStays DEF Edit, vars, disk
<1> QED BY <1>3, <1>4 DEF Next

-----------------------------------------------------------------------------
(* Counting: what a group was started for is there, or cost a crash.       *)

(* A step that starts nothing and loses nothing.                           *)
LEMMA CountStays ==
  ASSUME LedgerInv, Counting, UNCHANGED <<rollouts, crashes>>,
         \A g \in Groups : Started(g) => Started(g)',
         \A g \in Groups : journal'[g] \in {journal[g], None},
         \A p \in Procs : pc'[p] = "generate" => pc[p] = "generate" /\ at'[p] = at[p]
  PROVE  Counting'
BY DEF LedgerInv, LedgerType, Counting

(* Begun rollouts are counted as they begin.                               *)
LEMMA CountVisit ==
  ASSUME LedgerInv, Counting, NEW p \in Procs, Visit(p)
  PROVE  Counting'
<1>1. PICK g \in Groups : g = at[p]
  BY DEF Visit, LedgerInv, AtGroup
<1>2. /\ pc[p] = "visit" /\ Active(p) /\ UNCHANGED <<kind, journal, crashes>>
      /\ pc \in [Procs -> Places] /\ at \in [Procs -> 1..(LastGroup + 1)]
      /\ rollouts \in [Groups -> Nat] /\ crashes \in Nat
      /\ \A q \in Procs \ {p} : pc[q] \in {"idle", "finished"}
  BY RunsAlone DEF Visit, Active, LedgerInv, LedgerType
<1>3. CASE pc'[p] # "generate" /\ rollouts' = rollouts
  <2>1. \A q \in Procs : pc'[q] # "generate" /\ pc[q] # "generate"
    BY <1>2, <1>3 DEF Visit, Goto, Exit, Advance
  <2>2. \A h \in Groups : answer'[h] = answer[h] \/ (h = g /\ Answered(g) = {})
    BY <1>1, <1>2, NextStepFacts, IneligibleEffect DEF Visit
  <2>3. \A h \in Groups : Answered(h) # {} => Answered(h)' # {}
    BY <1>2, <2>2, AnswersStay
  <2>4. \A h \in Groups : Started(h) => Started(h)'
    BY <1>2, <2>1, <2>3 DEF Started
  <2> QED BY <1>2, <1>3, <2>1, <2>4, CountStays
<1>4. CASE /\ NextStep(g) = "generate" /\ Goto(p, "generate") /\ at' = at
           /\ rollouts' = [rollouts EXCEPT ![g] = @ + 1] /\ answer' = answer
  <2>1. pc'[p] = "generate" /\ at'[p] = g /\ \A q \in Procs \ {p} : pc'[q] # "generate"
    BY <1>1, <1>2, <1>4 DEF Goto
  <2>2. /\ rollouts'[g] = rollouts[g] + 1
        /\ \A h \in Groups \ {g} : rollouts'[h] = rollouts[h]
    BY <1>2, <1>4
  <2>3. ~Started(g) /\ Started(g)' /\ journal[g] = None
    BY <1>2, <1>4, <2>1, NextStepFacts DEF Started
  <2>4. \A h \in Groups \ {g} : Started(h)' <=> Started(h)
    BY <1>2, <1>4, <2>1, AnswersStay DEF Started
  <2>5. ASSUME NEW h \in Groups
        PROVE  /\ rollouts'[h] <= crashes + IF Started(h)' THEN 1 ELSE 0
               /\ journal[h] # None => journal[h].rollout \in 1..rollouts'[h]
    <3>1. CASE h = g
      BY <3>1, <1>2, <2>2, <2>3 DEF Counting
    <3>2. CASE h # g
      BY <3>2, <1>2, <2>2, <2>4 DEF Counting
    <3> QED BY <3>1, <3>2
  <2>6. rollouts'[g] >= 1
    BY <1>2, <2>2
  <2> QED BY <1>2, <2>1, <2>5, <2>6 DEF Counting
<1>5. \/ pc'[p] # "generate" /\ rollouts' = rollouts
      \/ /\ NextStep(g) = "generate" /\ Goto(p, "generate") /\ at' = at
         /\ rollouts' = [rollouts EXCEPT ![g] = @ + 1] /\ answer' = answer
  BY <1>1, <1>2 DEF Visit, Advance, Exit, Goto
<1> QED BY <1>3, <1>4, <1>5

(* A journaled rollout is the last that was begun.                         *)
LEMMA CountJournal ==
  ASSUME LedgerInv, Counting, NEW p \in Procs, Journal(p)
  PROVE  Counting'
<1>1. PICK g \in Groups : g = at[p]
  BY DEF Journal, LedgerInv, AtGroup
<1>2. /\ pc[p] = "generate" /\ Active(p) /\ journal' = [journal EXCEPT ![g] = mem[p]]
      /\ UNCHANGED <<kind, answer, at, rollouts, crashes>> /\ Goto(p, "grade")
      /\ mem[p] # None /\ mem[p].rollout = rollouts[g] /\ rollouts[g] \in Nat
      /\ journal \in [Groups -> Rollouts \cup {None}] /\ pc \in [Procs -> Places]
  BY <1>1 DEF Journal, LedgerInv, LedgerType, InHand, Active
<1>3. /\ journal'[g] = mem[p] /\ rollouts[g] >= 1
      /\ \A h \in Groups \ {g} : journal'[h] = journal[h]
  BY <1>1, <1>2 DEF Counting
<1>4. \A q \in Procs : pc'[q] # "generate"
  BY <1>2, RunsAlone DEF Goto
<1>5. \A h \in Groups : Answered(h)' = Answered(h)
  BY <1>2, AnswersStay
<1>6. ASSUME NEW h \in Groups
      PROVE  /\ Started(h) => Started(h)'
             /\ journal'[h] # None => journal'[h].rollout \in 1..rollouts[h]
  <2>1. CASE h = g
    BY <2>1, <1>2, <1>3 DEF Started
  <2>2. CASE h # g
    <3>1. Started(h) => journal[h] # None \/ Answered(h) # {}
      BY <2>2, <1>1, <1>2, RunsAlone DEF Started
    <3> QED BY <2>2, <3>1, <1>3, <1>5 DEF Started, Counting
  <2> QED BY <2>1, <2>2
<1> QED BY <1>2, <1>4, <1>6 DEF Counting, LedgerInv, LedgerType

(* A death in the middle of a rollout is what the rollout cost.            *)
LEMMA CountCrash ==
  ASSUME LedgerInv, Counting, NEW p \in Procs, Crash(p)
  PROVE  Counting'
<1>1. /\ UNCHANGED <<kind, answer, journal, at, rollouts>> /\ crashes' = crashes + 1
      /\ Goto(p, "idle") /\ pc \in [Procs -> Places]
      /\ crashes \in Nat /\ rollouts \in [Groups -> Nat]
  BY DEF Crash, Exit, disk, LedgerInv, LedgerType
<1>2. \A g \in Groups : rollouts[g] <= crashes + 1
  BY <1>1 DEF Counting
<1>3. \A q \in Procs : pc'[q] = "generate" => pc[q] = "generate"
  BY <1>1 DEF Goto
<1> QED BY <1>1, <1>2, <1>3 DEF Counting

LEMMA CountStep == LedgerInv /\ Counting /\ [Next]_vars => Counting'
<1> SUFFICES ASSUME LedgerInv, Counting, [Next]_vars PROVE Counting'
  OBVIOUS
<1>1. /\ pc \in [Procs -> Places] /\ journal \in [Groups -> Rollouts \cup {None}]
      /\ at \in [Procs -> 1..(LastGroup + 1)]
  BY DEF LedgerInv, LedgerType
<1>2. ASSUME NEW p \in Procs, Start(p) PROVE Counting'
  <2>1. \A q \in Procs : ~Active(q)
    BY <1>2, LedgerAssumption DEF Start, MayRun, LedgerInv, OneProcess, Active
  <2>2. \A q \in Procs : pc'[q] # "generate" /\ pc[q] # "generate"
    BY <1>1, <1>2, <2>1 DEF Start, Goto, Active
  <2>3. \A g \in Groups : Answered(g)' = Answered(g)
    BY <1>2, AnswersStay DEF Start
  <2> QED BY <1>2, <2>2, <2>3, CountStays DEF Start, Started
<1>3. ASSUME NEW p \in Procs, Grade(p) PROVE Counting'
  <2>1. PICK g \in Groups : g = at[p]
    BY <1>3 DEF Grade, LedgerInv, AtGroup
  <2>2. /\ UNCHANGED <<kind, journal, at, rollouts, crashes>>
        /\ \A h \in Groups : h = g \/ answer'[h] = answer[h]
        /\ Answered(g)' # {} /\ \E there \in Places \ {"generate"} : Goto(p, there)
    <3>1. PICK errors \in BOOLEAN, r \in Rows \ Answered(g) :
            /\ \A h \in Groups \ {g} : answer'[h] = answer[h]
            /\ Answered(g)' = Answered(g) \cup {r}
            /\ IF errors /\ kind # "single" THEN Exit(p, "idle")
               ELSE Goto(p, IF kind = "single" THEN "unlink" ELSE "grade") /\ lock' = lock
      BY <1>3, <2>1, GradeEffect
    <3>2. \E there \in Places \ {"generate"} : Goto(p, there)
      BY <3>1 DEF Exit, Places
    <3> QED BY <1>3, <3>1, <3>2 DEF Grade
  <2>3. \A h \in Groups : Answered(h) # {} => Answered(h)' # {}
    BY <2>2, AnswersStay
  <2>4. \A q \in Procs : pc'[q] = "generate" <=> pc[q] = "generate"
    BY <1>1, <1>3, <2>2 DEF Goto, Grade
  <2> QED BY <2>2, <2>3, <2>4, CountStays DEF Started
<1>4. ASSUME NEW p \in Procs, Unlink(p) \/ Summarize(p) PROVE Counting'
  <2>1. UNCHANGED <<kind, answer, rollouts, crashes>>
    BY <1>4 DEF Unlink, Summarize
  <2>2. \A g \in Groups : Answered(g)' = Answered(g)
    BY <2>1, AnswersStay
  <2>3. \A q \in Procs : pc'[q] = "generate" <=> pc[q] = "generate"
    BY <1>1, <1>4 DEF Unlink, Summarize, Exit, Goto, Advance
  <2>4. \A q \in Procs : pc[q] = "generate" => at'[q] = at[q]
    BY <1>1, <1>4 DEF Unlink, Summarize, Advance
  <2>5. \A g \in Groups : journal'[g] = journal[g] \/ (journal'[g] = None /\ Answered(g) # {})
    BY <1>1, <1>4, RowsType DEF Unlink, Summarize, Graded
  <2>6. \A g \in Groups : Started(g) => Started(g)'
    BY <2>2, <2>3, <2>4, <2>5 DEF Started
  <2> QED BY <2>1, <2>3, <2>4, <2>5, <2>6, CountStays
<1>5. ASSUME NEW p \in Procs, Step(p) \/ Crash(p) PROVE Counting'
  BY <1>2, <1>3, <1>4, <1>5, CountVisit, CountJournal, CountCrash DEF Step
<1>6. CASE Edit \/ UNCHANGED vars
  <2>1. UNCHANGED <<kind, answer, journal, pc, at, rollouts, crashes>>
    BY <1>6 DEF Edit, vars, disk
  <2>2. \A g \in Groups : Answered(g)' = Answered(g)
    BY <2>1, AnswersStay
  <2> QED BY <2>1, <2>2, CountStays DEF Started
<1> QED BY <1>5, <1>6 DEF Next

-----------------------------------------------------------------------------
(* The summary.                                                            *)

(* Complete answers that only become more are counted upwards.             *)
LEMMA CountedGrows ==
  ASSUME Rows' = Rows, \A g \in Groups : Complete(g) \subseteq Complete(g)'
  PROVE  /\ Counted \in Nat /\ Counted' \in Nat /\ Counted <= Counted'
         /\ (\A g \in Groups : Complete(g)' = Complete(g)) => Counted' = Counted
<1> DEFINE old == {x \in Groups \X Rows : x[2] \in Complete(x[1])}
           new == {x \in Groups \X Rows : x[2] \in Complete(x[1])'}
<1>1. IsFiniteSet(Groups) /\ IsFiniteSet({0}) /\ IsFiniteSet({0, 1})
  <2>1. 0 \in Int /\ 1 \in Int /\ LastGroup \in Int
    BY LedgerAssumption
  <2>2. IsFiniteSet(0..0) /\ IsFiniteSet(0..1) /\ IsFiniteSet(1..LastGroup)
    BY ONLY <2>1, FS_Interval
  <2>3. 0..0 = {0} /\ 0..1 = {0, 1}
    OBVIOUS
  <2> QED BY <2>2, <2>3 DEF Groups
<1>2. IsFiniteSet(Groups \X Rows)
  BY <1>1, FS_Product DEF Rows
<1>3. old \in SUBSET new /\ new \in SUBSET (Groups \X Rows)
  OBVIOUS
<1>4. IsFiniteSet(new)
  BY <1>2, <1>3, FS_Subset
<1>5. IsFiniteSet(old) /\ Cardinality(old) <= Cardinality(new)
  BY <1>3, <1>4, FS_Subset
<1>6. Cardinality(old) \in Nat /\ Cardinality(new) \in Nat
  BY <1>4, <1>5, FS_CardinalityType
<1>7. Counted = Cardinality(old) /\ Counted' = Cardinality(new)
  BY DEF Counted
<1>8. (\A g \in Groups : Complete(g)' = Complete(g)) => old = new
  OBVIOUS
<1> QED BY <1>5, <1>6, <1>7, <1>8

(* A summary that is not written stays true while answers only arrive, and *)
(* none arrives once a process has finished.                               *)
LEMMA SummaryStays ==
  ASSUME SummaryInv, summary' = summary, Rows' = Rows,
         \A g \in Groups : Complete(g) \subseteq Complete(g)',
         (\E p \in Procs : pc'[p] = "finished") =>
           /\ \E p \in Procs : pc[p] = "finished"
           /\ \A g \in Groups : Complete(g)' = Complete(g)
  PROVE  SummaryInv'
<1>1. /\ Counted \in Nat /\ Counted' \in Nat /\ Counted <= Counted'
      /\ (\A g \in Groups : Complete(g)' = Complete(g)) => Counted' = Counted
  BY CountedGrows
<1>2. summary' \in 0..Counted'
  BY <1>1 DEF SummaryInv
<1>3. (\E p \in Procs : pc'[p] = "finished") => summary' = Counted'
  BY <1>1 DEF SummaryInv
<1> QED BY <1>2, <1>3 DEF SummaryInv

LEMMA SummaryStep == LedgerInv /\ SummaryInv /\ [Next]_vars => SummaryInv'
<1> SUFFICES ASSUME LedgerInv, SummaryInv, [Next]_vars PROVE SummaryInv'
  OBVIOUS
<1>1. pc \in [Procs -> Places]
  BY DEF LedgerInv, LedgerType
<1>2. ASSUME NEW p \in Procs, Grade(p) PROVE SummaryInv'
  <2>1. PICK g \in Groups : g = at[p]
    BY <1>2 DEF Grade, LedgerInv, AtGroup
  <2>2. PICK errors \in BOOLEAN, r \in Rows \ Answered(g) :
          /\ \A h \in Groups \ {g} : answer'[h] = answer[h]
          /\ Rows' = Rows /\ Complete(g)' = Complete(g) \cup {r}
          /\ \E there \in Places \ {"finished"} : Goto(p, there)
    BY <1>2, <2>1, GradeEffect DEF Exit, Places
  <2>3. \A q \in Procs : pc'[q] = "finished" => pc[q] = "finished"
    BY <1>1, <2>2 DEF Goto
  <2>4. \A q \in Procs : pc[q] # "finished"
    <3>1. ~Done(g)
      BY <2>2 DEF Done
    <3> QED BY <3>1 DEF LedgerInv, Frontier
  <2>5. \A h \in Groups : Complete(h) \subseteq Complete(h)'
    BY <1>2, <2>2, AnswersStay DEF Grade
  <2> QED BY <1>2, <2>2, <2>3, <2>4, <2>5, SummaryStays DEF Grade
<1>3. ASSUME NEW p \in Procs, Summarize(p) PROVE SummaryInv'
  <2>1. \A g \in Groups : Complete(g)' = Complete(g)
    BY <1>3, AnswersStay DEF Summarize
  <2>2. Rows' = Rows
    BY <1>3 DEF Summarize, Rows
  <2>3. Counted' = Counted /\ Counted \in Nat
    BY <2>1, <2>2, CountedGrows
  <2> QED BY <1>3, <2>3 DEF Summarize, SummaryInv
<1>4. ASSUME NEW p \in Procs, Visit(p) PROVE SummaryInv'
  <2>1. PICK g \in Groups : g = at[p]
    BY <1>4 DEF Visit, LedgerInv, AtGroup
  <2>2. /\ kind' = kind /\ summary' = summary /\ Rows' = Rows
        /\ \E there \in Places \ {"finished"} : Goto(p, there)
    BY <1>4 DEF Visit, Advance, Exit, Places, Rows
  <2>3. \A h \in Groups : Complete(h)' = Complete(h)
    BY <1>4, <2>1, <2>2, AnswersStay, IneligibleEffect DEF Visit
  <2>4. \A q \in Procs : pc'[q] = "finished" => pc[q] = "finished"
    BY <1>1, <2>2 DEF Goto
  <2> QED BY <2>2, <2>3, <2>4, SummaryStays
<1>5. ASSUME NEW p \in Procs, Start(p) \/ Journal(p) \/ Unlink(p) \/ Crash(p)
      PROVE  SummaryInv'
  <2>1. UNCHANGED <<kind, answer, summary>> /\ \E there \in Places \ {"finished"} : Goto(p, there)
    BY <1>5 DEF Start, Journal, Unlink, Crash, Exit, Places, disk
  <2>2. \A h \in Groups : Complete(h)' = Complete(h)
    BY <2>1, AnswersStay
  <2>3. \A q \in Procs : pc'[q] = "finished" => pc[q] = "finished"
    BY <1>1, <2>1 DEF Goto
  <2>4. Rows' = Rows
    BY <2>1 DEF Rows
  <2> QED BY <2>1, <2>2, <2>3, <2>4, SummaryStays
<1>6. CASE Edit \/ UNCHANGED vars
  <2>1. UNCHANGED <<kind, answer, summary, pc>>
    BY <1>6 DEF Edit, vars, disk
  <2>2. /\ Rows' = Rows /\ \A h \in Groups : Complete(h)' = Complete(h)
    BY <2>1, AnswersStay DEF Rows
  <2> QED BY <2>1, <2>2, SummaryStays
<1> QED BY <1>2, <1>3, <1>4, <1>5, <1>6 DEF Next, Step

-----------------------------------------------------------------------------
(* The theorems.                                                           *)

LEMMA IInvInit == Init => IInv
<1> SUFFICES ASSUME Init PROVE IInv
  OBVIOUS
<1>1. \A g \in Groups : Complete(g) = {} /\ journal[g] = None /\ rollouts[g] = 0
  BY RowsType DEF Init, Complete, Answered
<1>2. \A p \in Procs : pc[p] = "idle"
  BY DEF Init
<1>3. OneOrigin /\ OneProtocol /\ PairFromOneBatch
  BY <1>1, <1>2 DEF OneOrigin, OneProtocol, PairFromOneBatch
<1>4. Counting
  BY <1>1, <1>2 DEF Counting, Init
<1>5. Counted = 0
  <2>1. {x \in Groups \X Rows : x[2] \in Complete(x[1])} = {}
    BY <1>1
  <2> QED BY <2>1, FS_EmptySet DEF Counted
<1>6. SummaryInv
  BY <1>2, <1>5 DEF SummaryInv, Init
<1> QED BY <1>3, <1>4, <1>6, InvInit DEF IInv

LEMMA IInvStep == IInv /\ [Next]_vars => IInv'
BY InvStep, OriginStep, CountStep, SummaryStep DEF IInv, OriginInv

LEMMA Invariance == Spec => []IInv
BY IInvInit, IInvStep, PTL DEF Spec

(* The invariant says what a reader of the directory wants to know.        *)
LEMMA IInvSound == IInv => LedgerSound
<1> SUFFICES ASSUME IInv PROVE LedgerSound
  OBVIOUS
<1>1. LedgerInv /\ Counting /\ SummaryInv
  BY DEF IInv
<1>2. TypeOK
  <2>1. \A g \in Groups : rollouts[g] \in 0..(MaxCrashes + 1)
    BY <1>1, LedgerAssumption DEF LedgerInv, LedgerType, Counting
  <2> QED BY <1>1, <2>1 DEF TypeOK, LedgerInv, LedgerType, Counting, SummaryInv, Counted
<1>3. NothingPastAnError
  BY <1>1, DoneFacts DEF NothingPastAnError, LedgerInv, Frontier, Touched
<1>4. FinishedIsWhole
  <2> SUFFICES ASSUME NEW p \in Procs, pc[p] = "finished"
               PROVE  /\ \A g \in Groups : Answered(g) = Rows /\ ~Flawed(g)
                      /\ kind # "single" => Audited(LastGroup) /\ \A g \in Groups : journal[g] = None
                      /\ summary = Counted
    BY DEF FinishedIsWhole
  <2>1. \A g \in Groups : Done(g)
    BY <1>1 DEF LedgerInv, Frontier
  <2>2. kind # "single" => \A g \in Groups : Complete(g) = Rows
    BY <1>1, <2>1 DEF LedgerInv, NoneIneligible, Done
  <2> QED BY <1>1, <2>1, <2>2 DEF Done, SummaryInv, Audited, Groups
<1> QED BY <1>1, <1>2, <1>3, <1>4 DEF LedgerSound, LedgerInv

(* After any launches, deaths and edits, journals outlive the grading of   *)
(* their rows, nothing was begun behind a grading error, no lost rollout   *)
(* goes without a crash, and a run that says FINISHED left a directory     *)
(* that the auditors accept, with its count.                               *)
THEOREM LedgerStaysSound == Spec => []LedgerSound
BY Invariance, IInvSound, PTL

(* The two answers of a problem are rows of one batch, generated and       *)
(* graded under the sources of the manifest, whatever crashed in between.  *)
THEOREM PairsStayComparable == Spec => []PairsComparable
<1>1. IInv => PairsComparable
  BY DEF IInv, PairsComparable
<1> QED BY <1>1, Invariance, PTL

(* A rollout that is durable is the last one of its group.                 *)
LEMMA NoSecondStep ==
  ASSUME LedgerInv, [Next]_vars, NEW g \in Groups, journal[g] # None \/ Answered(g) # {}
  PROVE  rollouts'[g] = rollouts[g]
<1>1. ASSUME NEW p \in Procs, Visit(p) PROVE rollouts'[g] = rollouts[g]
  <2>1. PICK h \in Groups : h = at[p]
    BY <1>1 DEF Visit, LedgerInv, AtGroup
  <2>2. rollouts' = rollouts \/ (NextStep(h) = "generate" /\ rollouts' = [rollouts EXCEPT ![h] = @ + 1])
    BY <1>1, <2>1 DEF Visit
  <2>3. NextStep(h) = "generate" => h # g
    BY NextStepFacts
  <2> QED BY <2>2, <2>3 DEF LedgerInv, LedgerType
<1>2. CASE UNCHANGED rollouts
  BY <1>2
<1> QED BY <1>1, <1>2 DEF Next, Step, Start, Journal, Grade, Unlink, Summarize, Crash, Edit, vars

(* What the audit of a prefix accepted is never written again.             *)
LEMMA FrozenStep ==
  ASSUME LedgerInv, [Next]_vars, NEW k \in Groups, Audited(k)
  PROVE  Audited(k)' /\ \A g \in 1..k : answer'[g] = answer[g]
<1>1. \A g \in 1..k : g \in Groups
  BY LedgerAssumption DEF Groups
<1>2. \A g \in 1..k : Answered(g) = Rows /\ Answered(g) # {}
  BY RowsType DEF Audited, Complete, Answered
<1>3. kind' = kind
  BY DEF Next, Step, Start, Visit, Journal, Grade, Unlink, Summarize, Crash, Edit, vars
<1>4. /\ answer \in [Groups -> [{0, 1} -> Answers \cup {Ineligible, None}]]
      /\ journal \in [Groups -> Rollouts \cup {None}]
  BY DEF LedgerInv, LedgerType
<1>5. \A g \in 1..k : answer'[g] = answer[g]
  <2>1. ASSUME NEW p \in Procs, Visit(p), NEW g \in 1..k PROVE answer'[g] = answer[g]
    <3>1. PICK h \in Groups : h = at[p]
      BY <2>1 DEF Visit, LedgerInv, AtGroup
    <3>2. answer' = answer \/ (NextStep(h) = "ineligible" /\ answer' = [answer EXCEPT ![h][0] = Ineligible])
      BY <2>1, <3>1 DEF Visit
    <3>3. NextStep(h) = "ineligible" => h # g
      BY <1>2, NextStepFacts
    <3> QED BY <1>1, <1>4, <3>2, <3>3
  <2>2. ASSUME NEW p \in Procs, Grade(p), NEW g \in 1..k PROVE answer'[g] = answer[g]
    <3>1. PICK h \in Groups : h = at[p]
      BY <2>2 DEF Grade, LedgerInv, AtGroup
    <3>2. Answered(h) # Rows /\ \A f \in Groups \ {h} : answer'[f] = answer[f]
      BY <2>2, <3>1, GradeEffect
    <3> QED BY <1>1, <1>2, <3>2
  <2>3. CASE UNCHANGED answer
    BY <2>3
  <2> QED BY <2>1, <2>2, <2>3 DEF Next, Step, Start, Journal, Unlink, Summarize, Crash, Edit, vars, disk
<1>6. \A g \in 1..k : kind = "control" => journal'[g] = None
  <2>1. ASSUME NEW p \in Procs, Journal(p), NEW g \in 1..k, kind = "control" PROVE journal'[g] = None
    <3>1. PICK h \in Groups : h = at[p]
      BY <2>1 DEF Journal, LedgerInv, AtGroup
    <3>2. Answered(h) = {} /\ journal' = [journal EXCEPT ![h] = mem[p]]
      BY <2>1, <3>1 DEF Journal, LedgerInv, InHand
    <3> QED BY <1>1, <1>2, <1>4, <2>1, <3>2 DEF Audited
  <2>2. ASSUME NEW p \in Procs, Unlink(p), NEW g \in 1..k, kind = "control" PROVE journal'[g] = None
    BY <1>1, <1>4, <2>2 DEF Unlink, Audited
  <2>3. CASE UNCHANGED journal
    BY <2>3 DEF Audited
  <2> QED BY <2>1, <2>2, <2>3 DEF Next, Step, Start, Visit, Grade, Summarize, Crash, Edit, vars, disk
<1>7. \A g \in 1..k : Complete(g)' = Complete(g) /\ (Flawed(g)' <=> Flawed(g)) /\ Rows' = Rows
  BY <1>3, <1>5, AnswersStay
<1> QED BY <1>3, <1>5, <1>6, <1>7 DEF Audited

(* No answer is sampled twice, and what the audit of a prefix accepted     *)
(* stays what it was.                                                      *)
THEOREM NothingIsRepeated == Spec => NothingRepeated
<1>1. IInv /\ [Next]_vars =>
        [\A g \in Groups : journal[g] # None \/ Answered(g) # {} => rollouts'[g] = rollouts[g]]_vars
  BY NoSecondStep DEF IInv
<1>2. IInv /\ [Next]_vars =>
        [\A k \in Groups : Audited(k) => Audited(k)' /\ \A g \in 1..k : answer'[g] = answer[g]]_vars
  BY FrozenStep DEF IInv
<1> QED BY <1>1, <1>2, Invariance, PTL DEF Spec, NothingRepeated, NoSecondRollout, AuditedPrefixFrozen

-----------------------------------------------------------------------------
(* Arithmetic of a schedule.                                               *)

LEMMA Division ==
  ASSUME NEW a \in Nat, NEW b \in Nat \ {0}
  PROVE  a = b * (a \div b) + (a % b) /\ a \div b \in Nat /\ a % b \in 0..(b - 1)
OBVIOUS

(* A lower factor leaves room for one more.                                *)
LEMMA Multiples ==
  ASSUME NEW a \in Nat, NEW q \in Nat, NEW r \in Nat, q < r
  PROVE  a * q + a <= a * r
<1> DEFINE e == r - q - 1
<1>1. e \in Nat /\ r = q + 1 + e
  OBVIOUS
<1> HIDE DEF e
<1>2. a * (q + 1 + e) = a * q + a + a * e /\ a * e \in Nat /\ a * q \in Nat
  BY <1>1
<1> QED BY <1>1, <1>2

(* A set of numbers that is not empty has a least one.                     *)
LEMMA Least ==
  ASSUME NEW T, T \subseteq Nat, T # {}
  PROVE  \E n \in T : \A m \in T : n <= m
<1> DEFINE R == OpToRel(<, Nat)
<1>1. IsWellFoundedOn(R, Nat)
  BY NatLessThanWellFounded
<1>2. \A m \in Nat, k \in Nat : m < k => <<m, k>> \in R
  BY DEF R, OpToRel
<1> HIDE DEF R
<1>3. PICK n \in T : \A m \in T : <<m, n>> \notin R
  BY <1>1, WFMin
<1>4. ASSUME NEW m \in T PROVE n <= m
  <2>1. m \in Nat /\ n \in Nat
    OBVIOUS
  <2>2. ~(m < n)
    BY <1>2, <1>3, <2>1, Zenon
  <2> QED BY <2>1, <2>2, SMT
<1> QED BY <1>4

LEMMA GreaterOfTwo ==
  ASSUME NEW a \in Nat, NEW b \in Nat
  PROVE  Max({a, b}) = IF a >= b THEN a ELSE b
<1> DEFINE m == IF a >= b THEN a ELSE b
<1>1. m \in {a, b} /\ \A y \in {a, b} : m >= y
  OBVIOUS
<1>2. \A x \in {a, b} : (\A y \in {a, b} : x >= y) => x = m
  OBVIOUS
<1> HIDE DEF m
<1>3. (CHOOSE x \in {a, b} : \A y \in {a, b} : x >= y) = m
  BY <1>1, <1>2
<1> QED BY <1>3 DEF Max, m

(* A number has one quotient and one remainder.                            *)
LEMMA DivisionIsUnique ==
  ASSUME NEW b \in Nat \ {0}, NEW q \in Nat, NEW r \in 0..(b - 1)
  PROVE  (b * q + r) \div b = q /\ (b * q + r) % b = r
<1> DEFINE a == b * q + r
           x == a \div b
           y == a % b
<1>1. b * q \in Nat /\ a \in Nat
  OBVIOUS
<1>2. a = b * x + y /\ x \in Nat /\ y \in 0..(b - 1)
  <2> HIDE DEF a
  <2> QED BY <1>1, Division
<1>3. a = b * q + r
  OBVIOUS
<1> HIDE DEF a, x, y
<1>4. b * q \in Nat /\ b * x \in Nat
  BY <1>2
<1>5. ~(q < x)
  <2> SUFFICES ASSUME q < x PROVE FALSE
    OBVIOUS
  <2>1. b * q + b <= b * x
    BY <1>2, Multiples
  <2> QED BY <1>2, <1>3, <1>4, <2>1
<1>6. ~(x < q)
  <2> SUFFICES ASSUME x < q PROVE FALSE
    OBVIOUS
  <2>1. b * x + b <= b * q
    BY <1>2, Multiples
  <2> QED BY <1>2, <1>3, <1>4, <2>1
<1>7. x = q
  BY <1>2, <1>5, <1>6
<1>8. y = r
  BY <1>2, <1>3, <1>4, <1>7
<1> QED BY <1>7, <1>8 DEF a, x, y

-----------------------------------------------------------------------------
(* The windows of a run.                                                    *)

PerContext == Repeats * Len(Modes)
WindowsAll == Repeats * Len(Modes) * Len(Contexts)

(* What the assertions on the arguments give the provers, without products. *)
LEMMA BenchConstants ==
  /\ Steps \in Nat \ {0} /\ Repeats \in Nat \ {0} /\ Len(Modes) \in Nat \ {0}
  /\ Len(Contexts) \in Nat \ {0} /\ PerContext \in Nat \ {0} /\ Width \in Nat
  /\ DOMAIN Contexts = 1..Len(Contexts) /\ DOMAIN Modes = 1..Len(Modes)
  /\ \A c \in 1..Len(Contexts) : Contexts[c] \in Nat
  /\ \A c \in 1..(Len(Contexts) - 1) : Contexts[c] + Width <= Contexts[c + 1]
  /\ BenchPrompt \in Nat /\ BenchPrompt < Contexts[1]
  /\ WindowsAll = PerContext * Len(Contexts) /\ WindowsAll \in Nat
  /\ Width = PerContext * Steps
<1> DEFINE M == Len(Modes)
           L == Len(Contexts)
<1>1. /\ Steps \in Nat \ {0} /\ Repeats \in Nat \ {0} /\ M \in Nat \ {0} /\ L \in Nat \ {0}
  BY ScheduleAssumption
<1>2. DOMAIN Contexts = 1..Len(Contexts) /\ \A c \in 1..Len(Contexts) : Contexts[c] \in Nat
  BY ScheduleAssumption
<1>3. DOMAIN Modes = 1..Len(Modes)
  BY ScheduleAssumption
<1>4. /\ \A c \in 1..(Len(Contexts) - 1) : Contexts[c] + Width <= Contexts[c + 1]
      /\ BenchPrompt \in Nat /\ BenchPrompt < Contexts[1]
  <2>1. \A c \in 1..(Len(Contexts) - 1) : Contexts[c] + Width <= Contexts[c + 1]
    BY ScheduleAssumption
  <2>2. BenchPrompt \in Nat /\ Contexts[1] > BenchPrompt
    BY ScheduleAssumption
  <2>3. Contexts[1] \in Nat
    BY <1>1, <1>2
  <2> QED BY <2>1, <2>2, <2>3
<1>5. /\ Repeats * M \in Nat \ {0} /\ Steps * Repeats * M = (Repeats * M) * Steps
      /\ Steps * Repeats * M \in Nat /\ Repeats * M * L \in Nat
  <2> HIDE DEF M, L
  <2>1. Repeats * M \in Nat \ {0}
    BY <1>1
  <2>2. Steps * Repeats * M = Repeats * M * Steps /\ Steps * Repeats \in Nat
    BY <1>1
  <2>3. Repeats * M * Steps \in Nat /\ Repeats * M * L \in Nat
    BY <1>1, <2>1
  <2> QED BY <2>1, <2>2, <2>3
<1> QED BY <1>1, <1>2, <1>3, <1>4, <1>5 DEF Width, PerContext, WindowsAll

(* The digits of an index below R * M * L, and that every index has some.  *)
DigitsFit(R, M, L, q, r, m) ==
  /\ M * r + m \in 0..(R * M - 1)
  /\ R * M * q + (M * r + m) \in 0..(R * M * L - 1)
  /\ (R * M * q + (M * r + m)) \div (R * M) = q
  /\ (R * M * q + (M * r + m)) % (R * M) = M * r + m
  /\ (M * r + m) \div M = r /\ (M * r + m) % M = m

HasDigits(R, M, L, a) ==
  \E q \in 0..(L - 1), r \in 0..(R - 1), m \in 0..(M - 1) : a = R * M * q + (M * r + m)

LEMMA Digits ==
  ASSUME NEW R \in Nat \ {0}, NEW M \in Nat \ {0}, NEW L \in Nat \ {0},
         NEW q \in 0..(L - 1), NEW r \in 0..(R - 1), NEW m \in 0..(M - 1)
  PROVE  DigitsFit(R, M, L, q, r, m)
<1> DEFINE P == R * M
           w == M * r + m
<1>1. P \in Nat \ {0} /\ P = M * R
  OBVIOUS
<1>2. w \in 0..(P - 1)
  <2>1. M * r + M <= M * R
    BY Multiples
  <2>2. M * r \in Nat
    OBVIOUS
  <2> HIDE DEF P
  <2> QED BY <1>1, <2>1, <2>2
<1>3. (M * r + m) \div M = r /\ (M * r + m) % M = m
  BY DivisionIsUnique
<1> HIDE DEF P, w
<1>4. (P * q + w) \div P = q /\ (P * q + w) % P = w
  BY <1>1, <1>2, DivisionIsUnique
<1>5. P * q + w \in 0..(P * L - 1)
  <2>1. P * q + P <= P * L
    BY <1>1, Multiples
  <2>2. P * q \in Nat /\ P * L \in Nat
    BY <1>1
  <2> QED BY <1>1, <1>2, <2>1, <2>2
<1> QED BY <1>2, <1>3, <1>4, <1>5 DEF P, w, DigitsFit

LEMMA DigitsOf ==
  ASSUME NEW R \in Nat \ {0}, NEW M \in Nat \ {0}, NEW L \in Nat \ {0},
         NEW a \in 0..(R * M * L - 1)
  PROVE  HasDigits(R, M, L, a)
<1> DEFINE P == R * M
           q == a \div P
           w == a % P
           r == w \div M
           m == w % M
<1>1. P \in Nat \ {0} /\ P = M * R /\ P * L \in Nat
  OBVIOUS
<1>2. a \in Nat /\ a < P * L
  <2> HIDE DEF P
  <2>1. R * M * L = P * L
    BY DEF P
  <2> QED BY <1>1, <2>1
<1>3. a = P * q + w /\ q \in Nat /\ w \in 0..(P - 1)
  <2> HIDE DEF P
  <2> QED BY <1>1, <1>2, Division
<1>4. w = M * r + m /\ r \in Nat /\ m \in 0..(M - 1)
  <2>1. w \in Nat
    <3> HIDE DEF P, w
    <3> QED BY <1>1, <1>3
  <2> HIDE DEF P, w
  <2> QED BY <2>1, Division
<1> HIDE DEF P, q, w, r, m
<1>5. q < L
  <2> SUFFICES ASSUME ~(q < L) PROVE FALSE
    OBVIOUS
  <2>1. CASE q = L
    <3>1. P * q = P * L
      BY <2>1
    <3> QED BY <1>1, <1>2, <1>3, <3>1
  <2>2. CASE q > L
    <3>1. P * L + P <= P * q
      BY <1>1, <1>3, <2>2, Multiples
    <3>2. P * q \in Nat
      BY <1>1, <1>3
    <3> QED BY <1>1, <1>2, <1>3, <3>1, <3>2
  <2> QED BY <1>3, <2>1, <2>2
<1>6. r < R
  <2> SUFFICES ASSUME ~(r < R) PROVE FALSE
    OBVIOUS
  <2>1. CASE r = R
    <3>1. M * r = P
      BY <1>1, <2>1
    <3> QED BY <1>1, <1>3, <1>4, <3>1
  <2>2. CASE r > R
    <3>1. M * R + M <= M * r
      BY <1>4, <2>2, Multiples
    <3>2. M * r \in Nat
      BY <1>4
    <3> QED BY <1>1, <1>3, <1>4, <3>1, <3>2
  <2> QED BY <1>4, <2>1, <2>2
<1>7. q \in 0..(L - 1) /\ r \in 0..(R - 1)
  BY <1>3, <1>4, <1>5, <1>6
<1>8. a = R * M * q + (M * r + m)
  BY <1>3, <1>4 DEF P
<1> QED BY <1>4, <1>7, <1>8 DEF HasDigits

(* A context behind another one is higher.                                 *)
LEMMA LatestContext == \A c \in 1..Len(Contexts) : Contexts[c] <= Contexts[Len(Contexts)]
<1> DEFINE L == Len(Contexts)
           T == {k \in 0..(L - 1) : ~(Contexts[L - k] <= Contexts[L])}
<1>1. L \in Nat \ {0} /\ \A c \in 1..L : Contexts[c] \in Nat
  BY BenchConstants
<1>2. \A c \in 1..(L - 1) : Contexts[c] <= Contexts[c + 1]
  <2> SUFFICES ASSUME NEW c \in 1..(L - 1) PROVE Contexts[c] <= Contexts[c + 1]
    OBVIOUS
  <2>1. Contexts[c] + Width <= Contexts[c + 1] /\ Width \in Nat
    BY BenchConstants
  <2>2. c \in 1..L /\ c + 1 \in 1..L
    BY <1>1
  <2>3. Contexts[c] \in Nat /\ Contexts[c + 1] \in Nat
    BY <1>1, <2>2
  <2> QED BY <2>1, <2>3
<1> HIDE DEF L
<1>3. T = {}
  <2> SUFFICES ASSUME T # {} PROVE FALSE
    OBVIOUS
  <2>1. PICK k \in T : \A j \in T : k <= j
    <3>1. T \subseteq Nat
      BY <1>1
    <3> HIDE DEF T
    <3> QED BY <3>1, Least
  <2>2. k \in 0..(L - 1) /\ ~(Contexts[L - k] <= Contexts[L])
    OBVIOUS
  <2>3. L \in 1..L /\ Contexts[L] \in Nat
    BY <1>1
  <2>4. k # 0
    BY <1>1, <2>2, <2>3
  <2>5. k - 1 \in 0..(L - 1) /\ k - 1 \notin T
    BY <1>1, <2>1, <2>2, <2>4
  <2>6. Contexts[L - (k - 1)] <= Contexts[L]
    BY <2>5
  <2>7. L - k \in 1..(L - 1) /\ (L - k) + 1 = L - (k - 1)
    BY <1>1, <2>2, <2>4
  <2>8. Contexts[L - k] <= Contexts[L - (k - 1)]
    BY <1>2, <2>7
  <2>9. Contexts[L - k] \in Nat /\ Contexts[L - (k - 1)] \in Nat
    <3>1. L - k \in 1..L /\ L - (k - 1) \in 1..L
      BY <1>1, <2>2, <2>4
    <3> QED BY <1>1, <3>1
  <2> QED BY <2>2, <2>3, <2>6, <2>8, <2>9
<1>4. ASSUME NEW c \in 1..L PROVE Contexts[c] <= Contexts[L]
  <2>1. L - c \in 0..(L - 1) /\ L - (L - c) = c
    BY <1>1
  <2>2. L - c \notin T
    BY <1>3
  <2> QED BY <2>1, <2>2
<1> QED BY <1>4 DEF L

(* Where a window stands in the schedule: its context, and its place in it. *)
LEMMA WindowAt ==
  ASSUME NEW q \in 0..(Len(Contexts) - 1), NEW r \in 0..(Repeats - 1),
         NEW m \in 0..(Len(Modes) - 1)
  PROVE  /\ Len(Modes) * r + m \in 0..(PerContext - 1)
         /\ PerContext * q + (Len(Modes) * r + m) + 1 \in 1..WindowsAll
         /\ KeyOf(PerContext * q + (Len(Modes) * r + m) + 1) = <<q + 1, r + 1, m + 1>>
         /\ AuditedStart(<<q + 1, r + 1, m + 1>>)
              = Contexts[q + 1] + (Len(Modes) * r + m) * Steps
<1>0. PICK mm \in Nat \ {0}, ll \in Nat \ {0} : mm = Len(Modes) /\ ll = Len(Contexts)
  BY BenchConstants
<1> DEFINE w == mm * r + m
           a == Repeats * mm * q + w
           nn == Repeats * mm * ll
<1>1. Repeats \in Nat \ {0} /\ mm \in Nat \ {0} /\ ll \in Nat \ {0} /\ nn \in Nat
  BY <1>0, BenchConstants DEF WindowsAll
<1>2. q \in 0..(ll - 1) /\ m \in 0..(mm - 1)
  BY <1>0
<1>3. /\ w \in 0..(Repeats * mm - 1) /\ a \in 0..(nn - 1)
      /\ a \div (Repeats * mm) = q /\ a % (Repeats * mm) = w
      /\ w \div mm = r /\ w % mm = m
  <2>1. DigitsFit(Repeats, mm, ll, q, r, m)
    BY <1>1, <1>2, Digits, Zenon
  <2> QED BY <2>1 DEF DigitsFit
<1> HIDE DEF a, w, nn
<1>4. (a + 1) - 1 = a /\ a + 1 \in 1..nn
  BY <1>1, <1>3
<1>5. KeyOf(a + 1) = <<q + 1, r + 1, m + 1>>
  BY <1>0, <1>3, <1>4 DEF KeyOf
<1>6. AuditedStart(<<q + 1, r + 1, m + 1>>) = Contexts[q + 1] + w * Steps
  <2>1. (r + 1) - 1 = r /\ (m + 1) - 1 = m /\ r * mm = mm * r
    BY <1>1, <1>2
  <2> QED BY <1>0, <2>1 DEF AuditedStart, w
<1> QED BY <1>0, <1>3, <1>4, <1>5, <1>6 DEF a, w, nn, PerContext, WindowsAll

LEMMA WindowOf ==
  ASSUME NEW i \in 1..WindowsAll
  PROVE  \E q \in 0..(Len(Contexts) - 1), r \in 0..(Repeats - 1), m \in 0..(Len(Modes) - 1) :
           i = PerContext * q + (Len(Modes) * r + m) + 1
<1>0. PICK mm \in Nat \ {0}, ll \in Nat \ {0} : mm = Len(Modes) /\ ll = Len(Contexts)
  BY BenchConstants
<1> DEFINE nn == Repeats * mm * ll
           a == i - 1
<1>1. Repeats \in Nat \ {0} /\ mm \in Nat \ {0} /\ ll \in Nat \ {0} /\ nn \in Nat /\ nn = WindowsAll
  BY <1>0, BenchConstants DEF WindowsAll
<1>2. a \in 0..(nn - 1) /\ i = a + 1
  <2> HIDE DEF nn
  <2> QED BY <1>1
<1> HIDE DEF a
<1>3. \E q \in 0..(ll - 1), r \in 0..(Repeats - 1), m \in 0..(mm - 1) :
        a = Repeats * mm * q + (mm * r + m)
  <2>1. HasDigits(Repeats, mm, ll, a)
    BY <1>1, <1>2, DigitsOf, Zenon
  <2> QED BY <2>1 DEF HasDigits
<1> QED BY <1>0, <1>2, <1>3 DEF PerContext

(* The closed form of a start, over the digits.                            *)
LEMMA StartAt ==
  ASSUME NEW i \in 1..WindowsAll
  PROVE  \E q \in 0..(Len(Contexts) - 1), w \in 0..(PerContext - 1) :
           /\ i = PerContext * q + w + 1
           /\ KeyOf(i) \in WindowKeys /\ KeyOf(i)[1] = q + 1
           /\ AuditedStart(KeyOf(i)) = Contexts[q + 1] + w * Steps
<1>1. PICK q \in 0..(Len(Contexts) - 1), r \in 0..(Repeats - 1), m \in 0..(Len(Modes) - 1) :
        i = PerContext * q + (Len(Modes) * r + m) + 1
  BY WindowOf
<1> DEFINE w == Len(Modes) * r + m
<1>2. /\ w \in 0..(PerContext - 1)
      /\ KeyOf(PerContext * q + w + 1) = <<q + 1, r + 1, m + 1>>
      /\ AuditedStart(<<q + 1, r + 1, m + 1>>) = Contexts[q + 1] + w * Steps
  BY WindowAt
<1>3. i = PerContext * q + w + 1
  BY <1>1
<1> HIDE DEF w
<1>4. KeyOf(i) = <<q + 1, r + 1, m + 1>>
  BY <1>2, <1>3
<1>5. <<q + 1, r + 1, m + 1>> \in WindowKeys
  <2>1. q + 1 \in DOMAIN Contexts /\ r + 1 \in 1..Repeats /\ m + 1 \in DOMAIN Modes
    BY BenchConstants
  <2> QED BY <2>1 DEF WindowKeys
<1> QED BY <1>2, <1>3, <1>4, <1>5

(* The schedule begins at the first context, ...                           *)
LEMMA FirstStart == 1 <= WindowsAll /\ AuditedStart(KeyOf(1)) = Contexts[1] /\ KeyOf(1)[1] = 1
<1>1. 0 \in 0..(Len(Contexts) - 1) /\ 0 \in 0..(Repeats - 1) /\ 0 \in 0..(Len(Modes) - 1)
  BY BenchConstants
<1>2. /\ PerContext * 0 + (Len(Modes) * 0 + 0) + 1 \in 1..WindowsAll
      /\ KeyOf(PerContext * 0 + (Len(Modes) * 0 + 0) + 1) = <<0 + 1, 0 + 1, 0 + 1>>
      /\ AuditedStart(<<0 + 1, 0 + 1, 0 + 1>>)
           = Contexts[0 + 1] + (Len(Modes) * 0 + 0) * Steps
  BY <1>1, WindowAt, Zenon
<1>3. PerContext * 0 + (Len(Modes) * 0 + 0) + 1 = 1 /\ (Len(Modes) * 0 + 0) * Steps = 0
  BY BenchConstants
<1>4. KeyOf(1) = <<1, 1, 1>> /\ AuditedStart(<<1, 1, 1>>) = Contexts[1] + 0 /\ 1 <= WindowsAll
  BY <1>2, <1>3, BenchConstants
<1>5. Contexts[1] \in Nat
  BY BenchConstants
<1> QED BY <1>4, <1>5

(* ... has its last window inside the prepared trace, ...                  *)
LEMMA StartFits ==
  ASSUME NEW i \in 1..WindowsAll
  PROVE  /\ KeyOf(i) \in WindowKeys /\ Contexts[KeyOf(i)[1]] \in Nat
         /\ AuditedStart(KeyOf(i)) \in Nat
         /\ AuditedStart(KeyOf(i)) + Steps <= Maximum
<1>1. PICK q \in 0..(Len(Contexts) - 1), w \in 0..(PerContext - 1) :
        /\ KeyOf(i) \in WindowKeys /\ KeyOf(i)[1] = q + 1
        /\ AuditedStart(KeyOf(i)) = Contexts[q + 1] + w * Steps
  BY StartAt
<1> DEFINE c == Contexts[q + 1]
           top == Contexts[Len(Contexts)]
<1>2. c \in Nat /\ top \in Nat /\ c <= top
  <2>1. q + 1 \in 1..Len(Contexts) /\ Len(Contexts) \in 1..Len(Contexts)
    BY BenchConstants
  <2> QED BY <2>1, BenchConstants, LatestContext
<1>3. w * Steps \in Nat /\ w * Steps + Steps <= Width /\ Width \in Nat /\ Steps \in Nat
  <2>1. PerContext \in Nat /\ Steps \in Nat /\ Width = PerContext * Steps /\ Width \in Nat
    BY BenchConstants
  <2>2. w \in Nat /\ w < PerContext
    BY <2>1
  <2>3. Steps * w + Steps <= Steps * PerContext
    BY <2>1, <2>2, Multiples
  <2>4. Steps * w = w * Steps /\ Steps * PerContext = PerContext * Steps /\ w * Steps \in Nat
    BY <2>1, <2>2
  <2> QED BY <2>1, <2>3, <2>4
<1>4. Maximum = top + Width
  BY DEF Maximum
<1> DEFINE x == w * Steps
<1>5. AuditedStart(KeyOf(i)) = c + x
  BY <1>1
<1>6. x \in Nat /\ x + Steps <= Width
  BY <1>3
<1> HIDE DEF c, top, x
<1>7. c + x \in Nat /\ c + x + Steps <= Maximum
  BY <1>2, <1>3, <1>4, <1>6
<1> QED BY <1>1, <1>2, <1>5, <1>7 DEF c

(* ... and each window where the last one of its context ended, or at its context. *)
LEMMA NextStart ==
  ASSUME NEW i \in 1..WindowsAll, i + 1 \in 1..WindowsAll
  PROVE  AuditedStart(KeyOf(i + 1))
           = Max({AuditedStart(KeyOf(i)) + Steps, Contexts[KeyOf(i + 1)[1]]})
<1>1. PICK q \in 0..(Len(Contexts) - 1), w \in 0..(PerContext - 1) :
        /\ i = PerContext * q + w + 1
        /\ AuditedStart(KeyOf(i)) = Contexts[q + 1] + w * Steps
  BY StartAt
<1>2. PICK k \in 0..(Len(Contexts) - 1), v \in 0..(PerContext - 1) :
        /\ i + 1 = PerContext * k + v + 1
        /\ KeyOf(i + 1)[1] = k + 1
        /\ AuditedStart(KeyOf(i + 1)) = Contexts[k + 1] + v * Steps
  BY StartAt
<1>3. /\ PerContext \in Nat \ {0} /\ Steps \in Nat /\ Width = PerContext * Steps
      /\ Len(Contexts) \in Nat /\ WindowsAll \in Nat
  BY BenchConstants
<1>4. q \in Nat /\ w \in Nat /\ w < PerContext /\ k \in Nat /\ v \in Nat /\ v < PerContext
  BY <1>3
<1>5. i = PerContext * k + v
  <2>1. PerContext * k \in Nat
    BY <1>3, <1>4
  <2> QED BY <1>2, <1>3, <1>4, <2>1
<1>6. i \div PerContext = k /\ i % PerContext = v
  BY <1>3, <1>5, DivisionIsUnique
<1>7. Contexts[q + 1] \in Nat /\ Contexts[k + 1] \in Nat
  <2>1. q + 1 \in 1..Len(Contexts) /\ k + 1 \in 1..Len(Contexts)
    BY <1>3
  <2> QED BY <2>1, BenchConstants
<1>8. CASE w + 1 < PerContext
  <2>1. i = PerContext * q + (w + 1)
    <3>1. PerContext * q \in Nat
      BY <1>3, <1>4
    <3> QED BY <1>1, <1>3, <1>4, <3>1
  <2>2. w + 1 \in 0..(PerContext - 1)
    BY <1>3, <1>4, <1>8
  <2>3. i \div PerContext = q /\ i % PerContext = w + 1
    BY <1>3, <1>4, <2>1, <2>2, DivisionIsUnique
  <2>4. k = q /\ v = w + 1
    BY <1>6, <2>3
  <2>5. (w + 1) * Steps = w * Steps + Steps /\ w * Steps \in Nat
    BY <1>3, <1>4
  <2> DEFINE x == w * Steps
             c == Contexts[q + 1]
             s == AuditedStart(KeyOf(i))
             t == AuditedStart(KeyOf(i + 1))
             u == Contexts[KeyOf(i + 1)[1]]
  <2>6. s = c + x /\ t = c + (x + Steps) /\ u = c /\ x \in Nat /\ c \in Nat
    BY <1>1, <1>2, <1>7, <2>4, <2>5
  <2> HIDE DEF x, c, s, t, u
  <2>7. s + Steps \in Nat /\ u \in Nat /\ t = s + Steps /\ s + Steps >= u
    BY <1>3, <2>6
  <2>8. Max({s + Steps, u}) = s + Steps
    BY <2>7, GreaterOfTwo
  <2> QED BY <2>7, <2>8 DEF s, t, u
<1>9. CASE ~(w + 1 < PerContext)
  <2>1. w + 1 = PerContext
    BY <1>3, <1>4, <1>9
  <2>2. i = PerContext * (q + 1) + 0
    <3>1. PerContext * (q + 1) = PerContext * q + PerContext /\ PerContext * q \in Nat
      BY <1>3, <1>4
    <3> QED BY <1>1, <1>3, <1>4, <2>1, <3>1
  <2>3. 0 \in 0..(PerContext - 1) /\ q + 1 \in Nat
    BY <1>3, <1>4
  <2>4. i \div PerContext = q + 1 /\ i % PerContext = 0
    BY <1>3, <2>2, <2>3, DivisionIsUnique
  <2>5. k = q + 1 /\ v = 0
    BY <1>6, <2>4
  <2>6. w * Steps + Steps = Width /\ 0 * Steps = 0
    <3>1. (w + 1) * Steps = w * Steps + Steps
      BY <1>3, <1>4
    <3> QED BY <1>3, <2>1, <3>1
  <2>7. Contexts[q + 1] + Width <= Contexts[k + 1] /\ Width \in Nat
    <3>1. q + 1 \in 1..(Len(Contexts) - 1) /\ k + 1 = (q + 1) + 1
      BY <1>3, <1>4, <2>5
    <3> QED BY <3>1, BenchConstants
  <2> DEFINE x == w * Steps
             c == Contexts[q + 1]
             d == Contexts[k + 1]
             s == AuditedStart(KeyOf(i))
             t == AuditedStart(KeyOf(i + 1))
             u == Contexts[KeyOf(i + 1)[1]]
  <2>8. x \in Nat
    BY <1>3, <1>4
  <2>9. s = c + x /\ t = d + 0 /\ u = d /\ c \in Nat /\ d \in Nat /\ x + Steps = Width
    BY <1>1, <1>2, <1>7, <2>5, <2>6
  <2>10. c + Width <= d
    BY <2>7
  <2> HIDE DEF x, c, d, s, t, u
  <2>11. s + Steps \in Nat /\ u \in Nat /\ t = u /\ s + Steps <= u
    BY <1>3, <2>7, <2>8, <2>9, <2>10
  <2>12. Max({s + Steps, u}) = u
    BY <2>11, GreaterOfTwo
  <2> QED BY <2>11, <2>12 DEF s, t, u
<1> QED BY <1>8, <1>9

(* The windows of a run are those of the schedule, each once.              *)
LEMMA EveryWindowOnce ==
  /\ {KeyOf(i) : i \in 1..WindowsAll} = WindowKeys
  /\ IsFiniteSet(WindowKeys) /\ Cardinality(WindowKeys) = WindowsAll
<1> DEFINE f == [i \in 1..WindowsAll |-> KeyOf(i)]
<1>1. \A i \in 1..WindowsAll : KeyOf(i) \in WindowKeys
  BY StartFits
<1>2. ASSUME NEW key \in WindowKeys PROVE \E i \in 1..WindowsAll : KeyOf(i) = key
  <2>1. PICK c \in 1..Len(Contexts), p \in 1..Repeats, o \in 1..Len(Modes) : key = <<c, p, o>>
    BY BenchConstants DEF WindowKeys
  <2> DEFINE q == c - 1
             r == p - 1
             m == o - 1
  <2>2. /\ q \in 0..(Len(Contexts) - 1) /\ r \in 0..(Repeats - 1) /\ m \in 0..(Len(Modes) - 1)
        /\ q + 1 = c /\ r + 1 = p /\ m + 1 = o
    BY BenchConstants
  <2> HIDE DEF q, r, m
  <2>3. /\ PerContext * q + (Len(Modes) * r + m) + 1 \in 1..WindowsAll
        /\ KeyOf(PerContext * q + (Len(Modes) * r + m) + 1) = <<q + 1, r + 1, m + 1>>
    BY <2>2, WindowAt, Zenon
  <2> QED BY <2>1, <2>2, <2>3
<1>3. ASSUME NEW i \in 1..WindowsAll, NEW j \in 1..WindowsAll, KeyOf(i) = KeyOf(j)
      PROVE  i = j
  <2>1. PICK q \in 0..(Len(Contexts) - 1), r \in 0..(Repeats - 1), m \in 0..(Len(Modes) - 1) :
          i = PerContext * q + (Len(Modes) * r + m) + 1
    BY WindowOf
  <2>2. PICK k \in 0..(Len(Contexts) - 1), s \in 0..(Repeats - 1), n \in 0..(Len(Modes) - 1) :
          j = PerContext * k + (Len(Modes) * s + n) + 1
    BY WindowOf
  <2>3. KeyOf(i) = <<q + 1, r + 1, m + 1>>
    BY <2>1, WindowAt, Zenon
  <2>4. KeyOf(j) = <<k + 1, s + 1, n + 1>>
    BY <2>2, WindowAt, Zenon
  <2>5. q + 1 = k + 1 /\ r + 1 = s + 1 /\ m + 1 = n + 1
    <3>1. <<q + 1, r + 1, m + 1>> = <<k + 1, s + 1, n + 1>>
      BY <1>3, <2>3, <2>4, Zenon
    <3> QED BY <3>1
  <2>6. q = k /\ r = s /\ m = n
    BY <2>5, BenchConstants
  <2> QED BY <2>1, <2>2, <2>6
<1>4. f \in Bijection(1..WindowsAll, WindowKeys)
  BY <1>1, <1>2, <1>3 DEF Bijection, Injection, Surjection, IsInjective
<1>5. WindowsAll \in Nat
  BY BenchConstants
<1>6. IsFiniteSet(1..WindowsAll) /\ Cardinality(1..WindowsAll) = WindowsAll
  BY <1>5, FS_Interval
<1>7. ExistsBijection(1..WindowsAll, WindowKeys)
  BY <1>4 DEF ExistsBijection
<1> QED BY <1>1, <1>2, <1>6, <1>7, FS_Bijection

-----------------------------------------------------------------------------
(* The reports of a benchmark.                                             *)

Reports == [windows : Seq(Windows), reference : Nat \cup {NoRun}]

BenchTyped ==
  /\ order \in BenchOrders
  /\ report \in [Methods -> Reports \cup {NoRun}]
  /\ stored \in Nat \cup {NoRun} /\ reference \in Nat \cup {NoRun} /\ runs \in Nat
  /\ benchAt \in Nat \ {0} /\ position \in Nat /\ windows \in Seq(Windows)
  /\ benchPc = "measure" => benchAt \in DOMAIN order /\ report[Method] = NoRun

(* The windows measured so far are the first ones of the schedule, where   *)
(* it has them; the trace has been decoded up to the end of the last one.  *)
OnSchedule(seq) ==
  \A i \in DOMAIN seq :
    /\ seq[i].key = KeyOf(i) /\ seq[i].start = AuditedStart(KeyOf(i))
    /\ seq[i].end = AuditedStart(KeyOf(i)) + Steps

WindowsInv ==
  /\ Len(windows) <= WindowsAll /\ OnSchedule(windows)
  /\ \A i \in DOMAIN windows : windows[i].end <= position
  /\ \A i, j \in DOMAIN windows : i < j => windows[i].end <= windows[j].start
  /\ windows # << >> => position = windows[Len(windows)].end
  /\ windows = << >> => position <= Contexts[1]

Running == benchPc \in {"visit", "measure"}
HasReport(m) == report[m] # NoRun

(* Windows that were held against a run were held against this one.        *)
HeldAgainst(seq, run) == \A i \in DOMAIN seq : seq[i].compared \in {NoRun, run}

(* What the audit asks of the comparisons of a method.                     *)
Held(m, seq) ==
  \A i \in DOMAIN seq :
    /\ m = "native_preallocated" => seq[i].compared # NoRun
    /\ m = "compressed" /\ Rounds(m, seq[i].end) = 0 /\ Listed("native_dynamic")
         => seq[i].compared # NoRun

(* One reference: the one on the disk is the one the native report names,  *)
(* the one in memory is none but this, and it is there behind the native   *)
(* method.  Until that report is written nothing has been held against it. *)
ReferenceInv ==
  /\ HasReport("native_dynamic") =>
       report["native_dynamic"].reference = stored /\ stored # NoRun
  /\ ~HasReport("native_dynamic") =>
       \A m \in Methods : HasReport(m) => HeldAgainst(report[m].windows, NoRun)
  /\ \A m \in Methods : HasReport(m) => HeldAgainst(report[m].windows, stored)
  /\ Running /\ reference # NoRun =>
       reference = stored /\
       (HasReport("native_dynamic") \/ (benchPc = "measure" /\ Method = "native_dynamic"))
  /\ Running => \A i \in DOMAIN order :
       i < benchAt /\ order[i] = "native_dynamic" => reference # NoRun
  /\ stored # NoRun => stored <= runs
  /\ benchPc = "measure" =>
       /\ Method = "native_dynamic" /\ stored = runs => reference = runs
       /\ HeldAgainst(windows, IF HasReport("native_dynamic") THEN stored ELSE NoRun)
       /\ Held(Method, windows)

(* A report has the whole schedule.                                        *)
Scheduled(m) ==
  /\ Len(report[m].windows) = WindowsAll /\ OnSchedule(report[m].windows)
  /\ Held(m, report[m].windows)

BenchInv ==
  BenchTyped /\ WindowsInv /\ ReferenceInv /\ \A m \in Methods : HasReport(m) => Scheduled(m)

LEMMA BenchStarts == BenchInit => BenchInv
<1> SUFFICES ASSUME BenchInit PROVE BenchInv
  OBVIOUS
<1>1. NoRun \in Reports \cup {NoRun}
  OBVIOUS
<1>2. BenchTyped
  BY <1>1 DEF BenchInit, BenchTyped
<1>3. \A m \in Methods : ~HasReport(m)
  BY DEF BenchInit, HasReport
<1>4. "native_dynamic" \in Methods
  BY DEF Methods
<1>5. WindowsInv
  <2>1. windows = << >> /\ position = 0 /\ Len(windows) = 0 /\ DOMAIN windows = {}
    BY DEF BenchInit
  <2>2. 0 <= WindowsAll /\ 0 <= Contexts[1]
    BY BenchConstants
  <2> QED BY <2>1, <2>2 DEF WindowsInv, OnSchedule
<1>6. ReferenceInv
  <2>1. stored = NoRun /\ benchPc = "idle"
    BY DEF BenchInit
  <2> QED BY <1>3, <1>4, <2>1 DEF ReferenceInv, Running
<1> QED BY <1>2, <1>3, <1>5, <1>6 DEF BenchInv

(* Steps that leave the disk and the measured windows alone.               *)
LEMMA BenchQuiet ==
  ASSUME BenchInv, UNCHANGED <<order, report, stored, runs, position, windows>>,
         benchPc' # "measure", benchAt' \in Nat \ {0}, reference' \in Nat \cup {NoRun},
         benchPc' = "visit" =>
           /\ reference' # NoRun => reference' = stored /\ HasReport("native_dynamic")
           /\ \A i \in DOMAIN order :
                i < benchAt' /\ order[i] = "native_dynamic" => reference' # NoRun
  PROVE  BenchInv'
<1>1. BenchTyped'
  BY DEF BenchInv, BenchTyped
<1>2. WindowsInv'
  BY DEF BenchInv, WindowsInv, OnSchedule
<1>3. ReferenceInv'
  BY DEF BenchInv, ReferenceInv, Running, HasReport, HeldAgainst
<1>4. (\A m \in Methods : HasReport(m) => Scheduled(m))'
  BY DEF BenchInv, HasReport, Scheduled, OnSchedule, Held, Listed
<1> QED BY <1>1, <1>2, <1>3, <1>4 DEF BenchInv

(* The order of the methods is a sequence of methods.                       *)
LEMMA OrderFacts ==
  ASSUME BenchTyped
  PROVE  /\ order \in Seq(Methods) /\ DOMAIN order = 1..Len(order) /\ Len(order) \in Nat
         /\ \A i \in DOMAIN order : order[i] \in Methods
<1>1. order \in Seq(Methods)
  BY ScheduleAssumption DEF BenchTyped
<1> QED BY <1>1

LEMMA BeginKeeps == BenchInv /\ Begin => BenchInv'
<1> SUFFICES ASSUME BenchInv, Begin PROVE BenchInv'
  OBVIOUS
<1>1. /\ benchAt \in DOMAIN order /\ Method' = Method /\ windows' = << >> /\ ~HasReport(Method)
      /\ position' = BenchPrompt /\ runs' = runs + 1
      /\ UNCHANGED <<order, report, stored, reference, benchAt>>
  <2>1. benchAt \in DOMAIN order
    BY OrderFacts DEF Begin, BenchInv, BenchTyped
  <2> QED BY <2>1 DEF Begin, Method, HasReport
<1>2. BenchTyped'
  <2>1. BenchPrompt \in Nat /\ << >> \in Seq(Windows)
    BY BenchConstants
  <2> QED BY <1>1, <2>1 DEF BenchInv, BenchTyped, HasReport
<1>3. WindowsInv'
  <2>1. Len(windows') = 0 /\ DOMAIN windows' = {}
    BY <1>1
  <2>2. 0 <= WindowsAll /\ BenchPrompt <= Contexts[1]
    BY BenchConstants
  <2> QED BY <1>1, <2>1, <2>2 DEF WindowsInv, OnSchedule
<1>4. ReferenceInv'
  <2>1. Running /\ benchPc' = "measure"
    BY DEF Begin, Running
  <2>2. benchPc # "measure"
    BY DEF Begin
  <2>3. stored # NoRun => stored <= runs'
    BY <1>1 DEF BenchInv, BenchTyped, ReferenceInv
  <2>4. stored # runs'
    BY <1>1, ScheduleAssumption DEF BenchInv, BenchTyped, ReferenceInv
  <2> DEFINE some == IF HasReport("native_dynamic") THEN stored ELSE NoRun
  <2>5. HeldAgainst(windows', some) /\ Held(Method, windows')
    BY <1>1 DEF HeldAgainst, Held
  <2>6. UNCHANGED <<HasReport("native_dynamic"), Method, Listed("native_dynamic")>>
    BY <1>1 DEF HasReport, Listed
  <2>7. (Held(Method, windows))'
    BY <1>1 DEF Held
  <2>8. HeldAgainst(windows, some)'
    BY <1>1, <2>5 DEF HeldAgainst, HasReport
  <2>9. reference # NoRun => reference = stored /\ HasReport("native_dynamic")
    BY <2>1, <2>2 DEF BenchInv, ReferenceInv
  <2>10. \A i \in DOMAIN order :
           i < benchAt /\ order[i] = "native_dynamic" => reference # NoRun
    BY <2>1 DEF BenchInv, ReferenceInv
  <2>11. /\ HasReport("native_dynamic") =>
              report["native_dynamic"].reference = stored /\ stored # NoRun
         /\ ~HasReport("native_dynamic") =>
              \A m \in Methods : HasReport(m) => HeldAgainst(report[m].windows, NoRun)
         /\ \A m \in Methods : HasReport(m) => HeldAgainst(report[m].windows, stored)
    BY DEF BenchInv, ReferenceInv
  <2>12. UNCHANGED <<report, stored, reference, order, benchAt>>
    BY <1>1
  <2> QED
    <3>1. /\ HasReport("native_dynamic")' =>
              report'["native_dynamic"].reference = stored' /\ stored' # NoRun
          /\ ~HasReport("native_dynamic")' =>
              \A m \in Methods : HasReport(m)' => HeldAgainst(report[m].windows, NoRun)'
          /\ \A m \in Methods : HasReport(m)' => HeldAgainst(report[m].windows, stored)'
      BY <2>11, <2>12 DEF HasReport, HeldAgainst
    <3>2. reference' # NoRun => reference' = stored' /\ HasReport("native_dynamic")'
      BY <2>9, <2>12 DEF HasReport
    <3>3. \A i \in DOMAIN order' :
            i < benchAt' /\ order'[i] = "native_dynamic" => reference' # NoRun
      BY <2>10, <2>12
    <3>4. stored' # NoRun => stored' <= runs'
      BY <2>3, <2>12
    <3>5. stored' # runs'
      BY <2>4, <2>12
    <3> QED BY <2>7, <2>8, <3>1, <3>2, <3>3, <3>4, <3>5 DEF ReferenceInv
<1>5. (\A m \in Methods : HasReport(m) => Scheduled(m))'
  BY <1>1 DEF BenchInv, HasReport, Scheduled, OnSchedule, Held, Listed
<1> QED BY <1>2, <1>3, <1>4, <1>5 DEF BenchInv

LEMMA SaveReferenceKeeps == BenchInv /\ SaveReference => BenchInv'
<1> SUFFICES ASSUME BenchInv, SaveReference PROVE BenchInv'
  OBVIOUS
<1>1. /\ benchPc = "measure" /\ Method = "native_dynamic" /\ stored' = runs /\ reference' = runs
      /\ UNCHANGED <<order, report, runs, benchPc, benchAt, position, windows>>
      /\ runs \in Nat /\ runs # NoRun /\ ~HasReport("native_dynamic")
  <2>1. runs \in Nat /\ (benchPc = "measure" => ~HasReport(Method))
    BY DEF BenchInv, BenchTyped, HasReport
  <2> QED BY <2>1, ScheduleAssumption DEF SaveReference, Measured
<1>2. BenchTyped'
  BY <1>1 DEF BenchInv, BenchTyped, Method
<1>3. WindowsInv'
  BY <1>1 DEF BenchInv, WindowsInv, OnSchedule
<1>4. ReferenceInv'
  <2>1. \A m \in Methods : HasReport(m) => HeldAgainst(report[m].windows, NoRun)
    BY <1>1 DEF BenchInv, ReferenceInv
  <2>2. \A m \in Methods : HasReport(m) => HeldAgainst(report[m].windows, runs)
    BY <2>1 DEF HeldAgainst
  <2>3. HeldAgainst(windows, NoRun) /\ Held(Method, windows)
    BY <1>1 DEF BenchInv, ReferenceInv
  <2>4. /\ ~HasReport("native_dynamic")'
        /\ \A m \in Methods : HasReport(m)' => HeldAgainst(report[m].windows, NoRun)'
        /\ \A m \in Methods : HasReport(m)' => HeldAgainst(report[m].windows, stored)'
    BY <1>1, <2>1, <2>2 DEF HeldAgainst, HasReport
  <2>5. HeldAgainst(windows, NoRun)' /\ Held(Method, windows)'
    BY <1>1, <2>3 DEF HeldAgainst, Held, Listed, Method
  <2>6. /\ benchPc' = "measure" /\ Method' = "native_dynamic" /\ reference' = stored'
        /\ reference' # NoRun /\ stored' <= runs' /\ reference' = runs'
    BY <1>1 DEF Method
  <2> QED BY <2>4, <2>5, <2>6 DEF ReferenceInv
<1>5. (\A m \in Methods : HasReport(m) => Scheduled(m))'
  BY <1>1 DEF BenchInv, HasReport, Scheduled, OnSchedule, Held, Listed
<1> QED BY <1>2, <1>3, <1>4, <1>5 DEF BenchInv

(* The next window starts where the schedule has it.                       *)
LEMMA WarmedOnSchedule ==
  ASSUME BenchTyped, WindowsInv, Len(windows) < WindowsAll
  PROVE  /\ Len(windows) + 1 \in 1..WindowsAll
         /\ Warmed(KeyOf(Len(windows) + 1)) = AuditedStart(KeyOf(Len(windows) + 1))
         /\ position <= Warmed(KeyOf(Len(windows) + 1))
<1> DEFINE n == Len(windows)
           s == AuditedStart(KeyOf(n + 1))
           u == Contexts[KeyOf(n + 1)[1]]
<1>1. n \in Nat /\ DOMAIN windows = 1..n /\ WindowsAll \in Nat /\ position \in Nat
  BY BenchConstants DEF BenchTyped
<1>2. n < WindowsAll
  OBVIOUS
<1>3. n + 1 \in 1..WindowsAll
  <2> HIDE DEF n
  <2> QED BY <1>1, <1>2
<1>4. s \in Nat /\ u \in Nat
  BY <1>3, StartFits
<1>5. Warmed(KeyOf(n + 1)) = Max({position, u})
  BY DEF Warmed
<1>6. Max({position, u}) = IF position >= u THEN position ELSE u
  <2> HIDE DEF u
  <2> QED BY <1>1, <1>4, GreaterOfTwo
<1>7. CASE n = 0
  <2>1. n + 1 = 1
    BY <1>7
  <2>2. s = Contexts[1] /\ u = Contexts[1]
    BY <2>1, FirstStart
  <2>3. windows = << >>
    BY <1>7 DEF BenchTyped
  <2>4. position <= Contexts[1]
    BY <2>3 DEF WindowsInv
  <2>5. position <= u /\ s = u
    BY <2>2, <2>4
  <2> HIDE DEF n, s, u
  <2>6. Max({position, u}) = s /\ position <= Max({position, u})
    BY <1>1, <1>4, <1>6, <2>5
  <2> QED BY <1>3, <1>5, <2>6 DEF n, s
<1>8. CASE n # 0
  <2>1. n \in 1..WindowsAll /\ n \in DOMAIN windows
    <3> HIDE DEF n
    <3> QED BY <1>1, <1>2, <1>8
  <2>2. windows # << >>
    BY <2>1
  <2>3. position = windows[n].end
    BY <2>2 DEF WindowsInv
  <2>4. windows[n].end = AuditedStart(KeyOf(n)) + Steps
    BY <2>1 DEF WindowsInv, OnSchedule
  <2>5. s = Max({AuditedStart(KeyOf(n)) + Steps, u})
    <3> HIDE DEF n
    <3> QED BY <1>3, <2>1, NextStart
  <2>6. Max({position, u}) = s
    BY <2>3, <2>4, <2>5, Zenon
  <2> HIDE DEF n, s, u
  <2>7. position <= Max({position, u})
    BY <1>1, <1>4, <1>6
  <2> QED BY <1>3, <1>5, <2>6, <2>7 DEF n, s
<1> QED BY <1>1, <1>7, <1>8

(* A window is compared wherever the audit asks for it: native_dynamic has *)
(* been passed, and the reference is in memory behind it.                  *)
LEMMA MeasureKeeps == NativeLeads /\ BenchInv /\ Measure => BenchInv'
<1> SUFFICES ASSUME NativeLeads, BenchInv, Measure PROVE BenchInv'
  OBVIOUS
<1>1. /\ benchPc = "measure" /\ Len(windows) < WindowsAll
      /\ UNCHANGED <<order, report, stored, reference, runs, benchAt>>
      /\ Method' = Method
  BY DEF Measure, WindowsAll, Method
<1>2. BenchTyped /\ WindowsInv /\ ReferenceInv
  BY DEF BenchInv
<1>3. CASE Method = "native_preallocated" /\ reference = NoRun
  <2>1. benchPc' = "idle" /\ UNCHANGED <<position, windows>>
    BY <1>3 DEF Measure
  <2> QED BY <1>1, <1>2, <2>1, BenchQuiet DEF BenchTyped
<1>4. CASE ~(Method = "native_preallocated" /\ reference = NoRun)
  <2> DEFINE n == Len(windows)
             key == KeyOf(n + 1)
             start == Warmed(key)
             end == start + Steps
             compared == reference # NoRun /\
               (Method = "native_preallocated" \/ (Method = "compressed" /\ Rounds(Method, end) = 0))
             against == IF compared THEN reference ELSE NoRun
             w == [key |-> key, start |-> start, end |-> end, compared |-> against]
  <2>1. position' = end /\ windows' = Append(windows, w) /\ benchPc' = "measure"
    BY <1>1, <1>4 DEF Measure
  <2>2. n + 1 \in 1..WindowsAll /\ start = AuditedStart(key) /\ position <= start
    BY <1>1, <1>2, WarmedOnSchedule
  <2>3. key \in WindowKeys /\ start \in Nat
    BY <2>2, StartFits
  <2>4. end \in Nat /\ start <= end /\ position \in Nat /\ n \in Nat /\ DOMAIN windows = 1..n
    <3>1. position \in Nat /\ n \in Nat /\ DOMAIN windows = 1..n
      BY <1>2 DEF BenchTyped
    <3> HIDE DEF start, n
    <3> QED BY <2>3, <3>1, BenchConstants
  <2>5. against \in Nat \cup {NoRun}
    BY <1>2 DEF BenchTyped
  <2>6. w \in Windows
    <3> HIDE DEF key, start, end, against
    <3> QED BY <2>3, <2>4, <2>5 DEF Windows
  <2>7. /\ Len(windows') = n + 1 /\ DOMAIN windows' = 1..(n + 1) /\ windows' \in Seq(Windows)
        /\ windows'[n + 1] = w /\ \A i \in DOMAIN windows : windows'[i] = windows[i]
    <3>1. windows \in Seq(Windows)
      BY <1>2 DEF BenchTyped
    <3> HIDE DEF w
    <3> QED BY <2>1, <2>6, <3>1
  <2>8. w.key = key /\ w.start = start /\ w.end = end /\ w.compared = against
    OBVIOUS
  <2>9. ~HasReport(Method) /\ benchAt \in DOMAIN order
    BY <1>1, <1>2 DEF BenchTyped, HasReport
  <2>10. Listed("native_dynamic") /\ Method = "compressed" => reference # NoRun
    <3> SUFFICES ASSUME Listed("native_dynamic"), Method = "compressed" PROVE reference # NoRun
      OBVIOUS
    <3>1. PICK i \in DOMAIN order : order[i] = "native_dynamic"
      BY DEF Listed
    <3>2. i < benchAt
      BY <1>2, <2>9, <3>1 DEF NativeLeads, BenchTyped, Method
    <3> QED BY <1>1, <1>2, <3>1, <3>2 DEF ReferenceInv, Running
  <2>11. against # NoRun => against = stored /\ HasReport("native_dynamic")
    <3> SUFFICES ASSUME against # NoRun PROVE against = stored /\ HasReport("native_dynamic")
      OBVIOUS
    <3>1. reference # NoRun /\ against = reference /\ Method # "native_dynamic"
      OBVIOUS
    <3> QED BY <1>1, <1>2, <3>1 DEF ReferenceInv, Running
  <2>12. /\ Method = "native_preallocated" => against # NoRun
         /\ Method = "compressed" /\ Rounds(Method, end) = 0 /\ Listed("native_dynamic")
              => against # NoRun
    BY <1>4, <2>10
  <2> HIDE DEF n, key, start, end, against, w
  <2>13. BenchTyped'
    BY <1>1, <1>2, <2>1, <2>4, <2>7, <2>9 DEF BenchTyped, HasReport
  <2>14. WindowsInv'
    <3>1. Len(windows') <= WindowsAll
      BY <2>2, <2>7
    <3>2. OnSchedule(windows')
      <4> SUFFICES ASSUME NEW i \in 1..(n + 1)
                   PROVE  /\ windows'[i].key = KeyOf(i)
                          /\ windows'[i].start = AuditedStart(KeyOf(i))
                          /\ windows'[i].end = AuditedStart(KeyOf(i)) + Steps
        BY <2>7 DEF OnSchedule
      <4>1. CASE i = n + 1
        BY <2>2, <2>7, <2>8, <4>1 DEF key, end
      <4>2. CASE i # n + 1
        <5>1. i \in DOMAIN windows
          BY <2>4, <4>2
        <5> QED BY <1>2, <2>7, <5>1 DEF WindowsInv, OnSchedule
      <4> QED BY <4>1, <4>2
    <3>3. \A i \in DOMAIN windows : windows[i].end <= start /\ windows[i].end \in Nat
      <4>1. \A i \in DOMAIN windows : windows[i].end <= position /\ windows[i].end \in Nat
        <5>1. \A i \in DOMAIN windows : windows[i] \in Windows
          BY <1>2 DEF BenchTyped
        <5>2. \A i \in DOMAIN windows : windows[i].end \in Nat
          BY <5>1 DEF Windows
        <5> QED BY <1>2, <5>2 DEF WindowsInv
      <4> QED BY <2>2, <2>3, <2>4, <4>1
    <3>4. \A i \in DOMAIN windows' : windows'[i].end <= position'
      <4> SUFFICES ASSUME NEW i \in 1..(n + 1) PROVE windows'[i].end <= position'
        BY <2>7
      <4>1. CASE i = n + 1
        BY <2>1, <2>4, <2>7, <2>8, <4>1
      <4>2. CASE i # n + 1
        <5>1. i \in DOMAIN windows
          BY <2>4, <4>2
        <5>2. windows'[i].end <= start /\ windows'[i].end \in Nat
          BY <2>7, <3>3, <5>1
        <5> QED BY <2>1, <2>3, <2>4, <5>2
      <4> QED BY <4>1, <4>2
    <3>5. \A i, j \in DOMAIN windows' : i < j => windows'[i].end <= windows'[j].start
      <4> SUFFICES ASSUME NEW i \in 1..(n + 1), NEW j \in 1..(n + 1), i < j
                   PROVE  windows'[i].end <= windows'[j].start
        BY <2>7
      <4>1. i \in DOMAIN windows
        BY <2>4
      <4>2. CASE j = n + 1
        BY <2>7, <2>8, <3>3, <4>1, <4>2
      <4>3. CASE j # n + 1
        <5>1. j \in DOMAIN windows
          BY <2>4, <4>3
        <5> QED BY <1>2, <2>7, <4>1, <5>1 DEF WindowsInv
      <4> QED BY <4>2, <4>3
    <3>6. windows' # << >> /\ position' = windows'[Len(windows')].end
      BY <2>1, <2>4, <2>7, <2>8
    <3> QED BY <3>1, <3>2, <3>4, <3>5, <3>6 DEF WindowsInv
  <2>15. ReferenceInv'
    <3> DEFINE some == IF HasReport("native_dynamic") THEN stored ELSE NoRun
    <3>1. HeldAgainst(windows', some)
      <4> SUFFICES ASSUME NEW i \in 1..(n + 1) PROVE windows'[i].compared \in {NoRun, some}
        BY <2>7 DEF HeldAgainst
      <4>1. CASE i = n + 1
        BY <2>7, <2>8, <2>11, <4>1
      <4>2. CASE i # n + 1
        <5>1. i \in DOMAIN windows
          BY <2>4, <4>2
        <5> QED BY <1>1, <1>2, <2>7, <5>1 DEF ReferenceInv, HeldAgainst
      <4> QED BY <4>1, <4>2
    <3>2. Held(Method, windows')
      <4> SUFFICES ASSUME NEW i \in 1..(n + 1)
                   PROVE  /\ Method = "native_preallocated" => windows'[i].compared # NoRun
                          /\ Method = "compressed" /\ Rounds(Method, windows'[i].end) = 0
                               /\ Listed("native_dynamic") => windows'[i].compared # NoRun
        BY <2>7 DEF Held
      <4>1. CASE i = n + 1
        BY <2>7, <2>8, <2>12, <4>1
      <4>2. CASE i # n + 1
        <5>1. i \in DOMAIN windows
          BY <2>4, <4>2
        <5> QED BY <1>1, <1>2, <2>7, <5>1 DEF ReferenceInv, Held
      <4> QED BY <4>1, <4>2
    <3>3. HeldAgainst(windows, some)' /\ Held(Method, windows)'
      BY <1>1, <3>1, <3>2 DEF HeldAgainst, Held, Listed, HasReport
    <3>4. HasReport("native_dynamic")' = HasReport("native_dynamic")
      BY <1>1 DEF HasReport
    <3> HIDE DEF some
    <3>5. /\ HasReport("native_dynamic")' =>
              report'["native_dynamic"].reference = stored' /\ stored' # NoRun
          /\ ~HasReport("native_dynamic")' =>
              \A m \in Methods : HasReport(m)' => HeldAgainst(report[m].windows, NoRun)'
          /\ \A m \in Methods : HasReport(m)' => HeldAgainst(report[m].windows, stored)'
      BY <1>1, <1>2, <3>4 DEF ReferenceInv, HeldAgainst, HasReport
    <3>6. /\ reference' # NoRun =>
               reference' = stored' /\ (HasReport("native_dynamic")' \/ Method' = "native_dynamic")
          /\ \A i \in DOMAIN order' :
               i < benchAt' /\ order'[i] = "native_dynamic" => reference' # NoRun
          /\ stored' # NoRun => stored' <= runs'
          /\ Method' = "native_dynamic" /\ stored' = runs' => reference' = runs'
      BY <1>1, <1>2, <3>4 DEF ReferenceInv, Running
    <3> QED BY <2>1, <3>3, <3>5, <3>6 DEF ReferenceInv, some
  <2>16. (\A m \in Methods : HasReport(m) => Scheduled(m))'
    BY <1>1 DEF BenchInv, HasReport, Scheduled, OnSchedule, Held, Listed
  <2> QED BY <2>13, <2>14, <2>15, <2>16 DEF BenchInv
<1> QED BY <1>3, <1>4

LEMMA WriteReportKeeps == BenchInv /\ WriteReport => BenchInv'
<1> SUFFICES ASSUME BenchInv, WriteReport PROVE BenchInv'
  OBVIOUS
<1>0. PICK m0 \in Methods : m0 = Method /\ m0 = order[benchAt] /\ ~HasReport(m0)
  <2>1. benchAt \in DOMAIN order /\ ~HasReport(Method)
    BY DEF BenchInv, BenchTyped, HasReport, WriteReport, Measured
  <2> QED BY <2>1, OrderFacts DEF Method, BenchInv
<1> DEFINE new == [windows |-> windows,
                   reference |-> IF m0 = "native_dynamic" THEN runs ELSE NoRun]
<1>1. BenchTyped /\ WindowsInv /\ ReferenceInv /\ \A m \in Methods : HasReport(m) => Scheduled(m)
  BY DEF BenchInv
<1>2. /\ benchPc = "measure" /\ Len(windows) = WindowsAll /\ benchPc' = "visit"
      /\ m0 = "native_dynamic" => stored = runs
      /\ report' = [report EXCEPT ![m0] = new] /\ benchAt' = benchAt + 1
      /\ UNCHANGED <<order, stored, reference, runs, position, windows>>
  BY <1>0 DEF WriteReport, Measured, MayReport, WindowsAll
<1>3. m0 = order[benchAt] /\ m0 \in Methods /\ ~HasReport(m0)
  BY <1>0
<1>4. /\ new \in Reports /\ new # NoRun /\ new.windows = windows
      /\ m0 = "native_dynamic" => new.reference = runs
  <2>1. windows \in Seq(Windows) /\ runs \in Nat
    BY <1>1 DEF BenchTyped
  <2>2. new \in Reports
    BY <2>1 DEF Reports
  <2> QED BY <2>2, ScheduleAssumption DEF Reports
<1> HIDE DEF new
<1>5. /\ report' \in [Methods -> Reports \cup {NoRun}]
      /\ report'[m0] = new /\ \A m \in Methods \ {m0} : report'[m] = report[m]
  <2>1. report \in [Methods -> Reports \cup {NoRun}]
    BY <1>1 DEF BenchTyped
  <2> QED BY <1>2, <1>3, <1>4, <2>1
<1>6. BenchTyped'
  BY <1>1, <1>2, <1>5 DEF BenchTyped
<1>7. WindowsInv'
  BY <1>1, <1>2 DEF WindowsInv, OnSchedule
<1>8. /\ HasReport(m0)' /\ \A m \in Methods \ {m0} : HasReport(m)' <=> HasReport(m)
      /\ "native_dynamic" \in Methods
  BY <1>4, <1>5 DEF HasReport, Methods
<1>9. ReferenceInv'
  <2> DEFINE some == IF HasReport("native_dynamic") THEN stored ELSE NoRun
  <2>1. HeldAgainst(windows, some)
    BY <1>1, <1>2 DEF ReferenceInv
  <2>2. HeldAgainst(windows, stored)
    BY <2>1 DEF HeldAgainst
  <2>3. HeldAgainst(report'[m0].windows, stored)
    BY <1>4, <1>5, <2>2
  <2>4. \A m \in Methods : HasReport(m)' => HeldAgainst(report'[m].windows, stored)
    BY <1>1, <1>5, <1>8, <2>3 DEF ReferenceInv
  <2>5. CASE m0 = "native_dynamic"
    <3>1. stored = runs /\ runs \in Nat /\ reference = runs /\ runs # NoRun
      <4>1. stored = runs /\ Method = "native_dynamic" /\ runs \in Nat
        BY <1>0, <1>1, <1>2, <2>5 DEF BenchTyped
      <4> QED BY <1>1, <1>2, <4>1, ScheduleAssumption DEF ReferenceInv
    <3>2. HasReport("native_dynamic")' /\ report'["native_dynamic"].reference = runs
      BY <1>4, <1>5, <1>8, <2>5
    <3>3. \A m \in Methods : HasReport(m)' => HeldAgainst(report[m].windows, stored)'
      BY <1>2, <2>4 DEF HeldAgainst
    <3>4. stored' = runs' /\ reference' = runs' /\ runs' \in Nat /\ runs' # NoRun
      BY <1>2, <3>1
    <3> QED BY <1>2, <3>2, <3>3, <3>4 DEF ReferenceInv
  <2>6. CASE m0 # "native_dynamic"
    <3>1. /\ HasReport("native_dynamic")' <=> HasReport("native_dynamic")
          /\ report'["native_dynamic"] = report["native_dynamic"]
      BY <1>5, <1>8, <2>6
    <3>2. ~HasReport("native_dynamic") =>
            \A m \in Methods : HasReport(m)' => HeldAgainst(report[m].windows, NoRun)'
      <4> SUFFICES ASSUME ~HasReport("native_dynamic"), NEW m \in Methods, HasReport(m)'
                   PROVE  HeldAgainst(report'[m].windows, NoRun)
        BY DEF HeldAgainst
      <4>1. CASE m = m0
        BY <1>4, <1>5, <2>1, <4>1
      <4>2. CASE m # m0
        BY <1>1, <1>5, <1>8, <4>2 DEF ReferenceInv
      <4> QED BY <4>1, <4>2
    <3>3. \A m \in Methods : HasReport(m)' => HeldAgainst(report[m].windows, stored)'
      BY <1>2, <2>4 DEF HeldAgainst
    <3>4. /\ reference # NoRun => reference = stored /\ HasReport("native_dynamic")
          /\ stored # NoRun => stored <= runs
          /\ HasReport("native_dynamic") =>
               report["native_dynamic"].reference = stored /\ stored # NoRun
      BY <1>0, <1>1, <1>2, <2>6 DEF ReferenceInv, Running
    <3>5. \A i \in DOMAIN order :
            i < benchAt + 1 /\ order[i] = "native_dynamic" => reference # NoRun
      <4> SUFFICES ASSUME NEW i \in DOMAIN order, i < benchAt + 1, order[i] = "native_dynamic"
                   PROVE  reference # NoRun
        OBVIOUS
      <4>1. i # benchAt
        BY <1>3, <2>6
      <4>2. i < benchAt
        BY <1>1, <4>1, OrderFacts DEF BenchTyped
      <4> QED BY <1>1, <1>2, <4>2 DEF ReferenceInv, Running
    <3> QED BY <1>2, <3>1, <3>2, <3>3, <3>4, <3>5 DEF ReferenceInv
  <2> QED BY <2>5, <2>6
<1>10. (\A m \in Methods : HasReport(m) => Scheduled(m))'
  <2> SUFFICES ASSUME NEW m \in Methods, HasReport(m)' PROVE Scheduled(m)'
    OBVIOUS
  <2>1. CASE m = m0
    <3>1. Held(m0, windows) /\ OnSchedule(windows) /\ Len(windows) = WindowsAll
      BY <1>0, <1>1, <1>2 DEF ReferenceInv, WindowsInv
    <3>2. report'[m].windows = windows
      BY <1>4, <1>5, <2>1
    <3> QED BY <1>2, <2>1, <3>1, <3>2 DEF Scheduled, Held, OnSchedule, Listed
  <2>2. CASE m # m0
    BY <1>1, <1>2, <1>5, <1>8, <2>2 DEF Scheduled, Held, OnSchedule, Listed
  <2> QED BY <2>1, <2>2
<1> QED BY <1>6, <1>7, <1>9, <1>10 DEF BenchInv

LEMMA BenchSkipKeeps == BenchInv /\ BenchSkip => BenchInv'
<1> SUFFICES ASSUME BenchInv, BenchSkip PROVE BenchInv'
  OBVIOUS
<1>1. /\ benchPc = "visit" /\ HasReport(Method) /\ reference' = LoadedReference
      /\ benchAt' = benchAt + 1
      /\ UNCHANGED <<order, report, stored, runs, benchPc, position, windows>>
  BY DEF BenchSkip, HasReport
<1>2. /\ benchAt \in Nat \ {0} /\ stored \in Nat \cup {NoRun} /\ reference \in Nat \cup {NoRun}
      /\ DOMAIN order \subseteq Nat
  BY OrderFacts DEF BenchInv, BenchTyped
<1>3. /\ reference # NoRun => reference = stored /\ HasReport("native_dynamic")
      /\ \A i \in DOMAIN order : i < benchAt /\ order[i] = "native_dynamic" => reference # NoRun
      /\ HasReport("native_dynamic") => stored # NoRun
  BY <1>1 DEF BenchInv, ReferenceInv, Running
<1>4. \A i \in DOMAIN order : i < benchAt + 1 => i < benchAt \/ i = benchAt
  BY <1>2
<1>5. /\ reference' # NoRun => reference' = stored /\ HasReport("native_dynamic")
      /\ \A i \in DOMAIN order :
           i < benchAt + 1 /\ order[i] = "native_dynamic" => reference' # NoRun
  BY <1>1, <1>3, <1>4 DEF LoadedReference, Method
<1> QED BY <1>1, <1>2, <1>5, BenchQuiet DEF LoadedReference

LEMMA BenchStepKeeps == NativeLeads /\ BenchInv /\ [BenchNext]_benchVars => BenchInv'
<1> SUFFICES ASSUME NativeLeads, BenchInv, [BenchNext]_benchVars PROVE BenchInv'
  OBVIOUS
<1>1. CASE BenchStart
  <2>1. /\ benchPc' = "visit" /\ benchAt' = 1 /\ reference' = NoRun
        /\ UNCHANGED <<order, report, stored, runs, position, windows>>
    BY <1>1 DEF BenchStart
  <2>2. \A i \in DOMAIN order : ~(i < 1)
    BY OrderFacts DEF BenchInv
  <2> QED BY <2>1, <2>2, BenchQuiet
<1>2. CASE BenchSkip
  BY <1>2, BenchSkipKeeps
<1>3. CASE Begin
  BY <1>3, BeginKeeps
<1>4. CASE Measure
  BY <1>4, MeasureKeeps
<1>5. CASE SaveReference
  BY <1>5, SaveReferenceKeeps
<1>6. CASE WriteReport
  BY <1>6, WriteReportKeeps
<1>7. CASE BenchFinish
  <2>1. /\ benchPc' = "finished" /\ benchAt' \in Nat \ {0} /\ reference' \in Nat \cup {NoRun}
        /\ UNCHANGED <<order, report, stored, runs, position, windows>>
    BY <1>7 DEF BenchFinish, BenchInv, BenchTyped, benchDisk, benchRun
  <2> QED BY <2>1, BenchQuiet
<1>8. CASE BenchCrash
  <2>1. /\ benchPc' = "idle" /\ benchAt' \in Nat \ {0} /\ reference' \in Nat \cup {NoRun}
        /\ UNCHANGED <<order, report, stored, runs, position, windows>>
    BY <1>8 DEF BenchCrash, benchDisk, benchRun, BenchInv, BenchTyped
  <2> QED BY <2>1, BenchQuiet
<1>9. CASE UNCHANGED benchVars
  <2>1. UNCHANGED <<order, report, stored, reference, runs, benchPc, benchAt, position, windows>>
    BY <1>9 DEF benchVars, benchDisk, benchRun
  <2>2. BenchTyped'
    BY <2>1 DEF BenchInv, BenchTyped, Method
  <2>3. WindowsInv'
    BY <2>1 DEF BenchInv, WindowsInv, OnSchedule
  <2>4. ReferenceInv'
    BY <2>1 DEF BenchInv, ReferenceInv, Running, HasReport, HeldAgainst, Held, Listed, Method
  <2>5. (\A m \in Methods : HasReport(m) => Scheduled(m))'
    BY <2>1 DEF BenchInv, HasReport, Scheduled, OnSchedule, Held, Listed
  <2> QED BY <2>2, <2>3, <2>4, <2>5 DEF BenchInv
<1> QED BY <1>1, <1>2, <1>3, <1>4, <1>5, <1>6, <1>7, <1>8, <1>9 DEF BenchNext, BenchWork

LEMMA BenchInvShows == BenchInv => BenchmarkComparable
<1> SUFFICES ASSUME BenchInv PROVE BenchmarkComparable
  OBVIOUS
<1>1. BenchTyped /\ WindowsInv /\ ReferenceInv /\ \A m \in Methods : HasReport(m) => Scheduled(m)
  BY DEF BenchInv
<1>2. ReportsPassAudit
  <2> SUFFICES ASSUME NEW m \in Methods, HasReport(m) PROVE ReportAccepted(m)
    BY DEF ReportsPassAudit, HasReport
  <2> DEFINE seq == report[m].windows
  <2>1. report[m] \in Reports
    BY <1>1 DEF BenchTyped, HasReport
  <2>2. seq \in Seq(Windows)
    BY <2>1 DEF Reports
  <2>3. Len(seq) = WindowsAll /\ OnSchedule(seq) /\ Held(m, seq) /\ DOMAIN seq = 1..WindowsAll
    BY <1>1, <2>2 DEF Scheduled
  <2>4. {seq[i].key : i \in DOMAIN seq} = {KeyOf(i) : i \in 1..WindowsAll}
    BY <2>3 DEF OnSchedule
  <2>5. ASSUME NEW i \in DOMAIN seq PROVE WindowAccepted(m, seq[i])
    BY <2>3 DEF OnSchedule, Held, WindowAccepted
  <2> QED BY <2>3, <2>4, <2>5, EveryWindowOnce DEF ReportAccepted
<1>3. OneReference
  <2>1. \A m \in Methods : report[m] # NoRun =>
          \A i \in DOMAIN report[m].windows : report[m].windows[i].compared \in {NoRun, stored}
    BY <1>1 DEF ReferenceInv, HeldAgainst, HasReport
  <2>2. report["native_dynamic"] # NoRun => report["native_dynamic"].reference = stored
    BY <1>1 DEF ReferenceInv, HasReport
  <2> QED BY <2>1, <2>2 DEF OneReference
<1>4. WindowsDisjoint
  <2>1. \A i, j \in DOMAIN windows : i < j => windows[i].end <= windows[j].start
    BY <1>1 DEF WindowsInv
  <2>2. position <= Maximum
    <3>1. CASE windows = << >>
      <4>1. position <= Contexts[1] /\ position \in Nat
        BY <1>1, <3>1 DEF WindowsInv, BenchTyped
      <4>2. AuditedStart(KeyOf(1)) + Steps <= Maximum /\ AuditedStart(KeyOf(1)) \in Nat
        <5>1. 1 \in 1..WindowsAll
          BY FirstStart, BenchConstants
        <5> QED BY <5>1, StartFits
      <4>3. AuditedStart(KeyOf(1)) = Contexts[1] /\ Steps \in Nat
        BY FirstStart, BenchConstants
      <4>4. Maximum \in Int
        <5>1. Len(Contexts) \in 1..Len(Contexts)
          BY BenchConstants
        <5>2. Contexts[Len(Contexts)] \in Nat /\ Width \in Nat
          BY <5>1, BenchConstants
        <5> QED BY <5>2 DEF Maximum
      <4> QED BY <4>1, <4>2, <4>3, <4>4
    <3>2. CASE windows # << >>
      <4> DEFINE n == Len(windows)
      <4>1. windows \in Seq(Windows) /\ n \in Nat /\ n # 0 /\ DOMAIN windows = 1..n
        BY <1>1, <3>2 DEF BenchTyped
      <4>2. n <= WindowsAll /\ WindowsAll \in Nat
        BY <1>1, BenchConstants DEF WindowsInv
      <4> HIDE DEF n
      <4>3. n \in 1..WindowsAll /\ n \in DOMAIN windows
        BY <4>1, <4>2
      <4>4. position = AuditedStart(KeyOf(n)) + Steps
        BY <1>1, <3>2, <4>3 DEF WindowsInv, OnSchedule, n
      <4> QED BY <4>3, <4>4, StartFits
    <3> QED BY <3>1, <3>2
  <2> QED BY <2>1, <2>2 DEF WindowsDisjoint
<1> QED BY <1>2, <1>3, <1>4 DEF BenchmarkComparable

(* The decode benchmark, for every schedule, every capacity and any number  *)
(* of crashes: a report has each window once, where the audit's closed     *)
(* form puts it, all comparisons of a directory are with the one reference *)
(* on its disk and none is missing where nothing was evicted, and windows  *)
(* of a run keep apart.                                                    *)
THEOREM BenchmarkStaysComparable ==
  ASSUME NativeLeads PROVE BenchSpec => []BenchmarkComparable
<1>1. BenchInit => BenchInv
  BY BenchStarts
<1>2. BenchInv /\ [BenchNext]_benchVars => BenchInv'
  BY BenchStepKeeps
<1>3. BenchInv => BenchmarkComparable
  BY BenchInvShows
<1> QED BY <1>1, <1>2, <1>3, PTL DEF BenchSpec

-----------------------------------------------------------------------------
(* The rows a round of the probe keeps.                                    *)

(* A bounded set of numbers that is not empty has a greatest one.          *)
LEMMA Greatest ==
  ASSUME NEW top \in Nat, NEW T, T \subseteq 0..top, T # {}
  PROVE  \E z \in T : \A y \in T : y <= z
<1> DEFINE D == {top - x : x \in T}
<1>1. D \subseteq Nat /\ D # {}
  <2>1. \A x \in T : x \in Nat /\ x <= top /\ top - x \in Nat
    OBVIOUS
  <2>2. PICK x \in T : TRUE
    OBVIOUS
  <2>3. top - x \in D
    BY <2>2
  <2>4. D \subseteq Nat
    BY <2>1
  <2> QED BY <2>3, <2>4
<1>2. PICK d \in D : \A e \in D : d <= e
  <2> HIDE DEF D
  <2> QED BY <1>1, Least
<1>3. PICK z \in T : d = top - z
  OBVIOUS
<1>4. \A y \in T : top - y \in D
  OBVIOUS
<1>5. ASSUME NEW y \in T PROVE y <= z
  <2>1. d <= top - y
    BY <1>2, <1>4
  <2> HIDE DEF D
  <2>2. y \in Nat /\ z \in Nat
    OBVIOUS
  <2> QED BY <1>3, <2>1, <2>2
<1> QED BY <1>5

(* Of a finite set of numbers, the highest ones, any number of them.       *)
LEMMA NewestOf ==
  ASSUME NEW top \in Nat, NEW T, T \subseteq 0..top, NEW m \in 0..Cardinality(T)
  PROVE  \E k \in SUBSET T : Cardinality(k) = m /\ \A x \in k, y \in T \ k : y < x
<1> DEFINE Reaches(j) == \E k \in SUBSET T : Cardinality(k) = j /\ \A x \in k, y \in T \ k : y < x
           Bad == {j \in 0..Cardinality(T) : ~Reaches(j)}
<1>1. IsFiniteSet(T) /\ Cardinality(T) \in Nat
  <2>1. IsFiniteSet(0..top)
    BY FS_Interval
  <2>2. IsFiniteSet(T)
    BY <2>1, FS_Subset
  <2> QED BY <2>2, FS_CardinalityType
<1>2. Bad = {}
  <2> SUFFICES ASSUME Bad # {} PROVE FALSE
    OBVIOUS
  <2>1. PICK j \in Bad : \A i \in Bad : j <= i
    <3>1. Bad \subseteq Nat
      OBVIOUS
    <3> HIDE DEF Bad
    <3> QED BY <3>1, Least
  <2>2. j \in 0..Cardinality(T) /\ ~Reaches(j)
    OBVIOUS
  <2>3. j # 0
    <3>1. Cardinality({}) = 0
      BY FS_EmptySet
    <3>2. Reaches(0)
      BY <3>1
    <3> HIDE DEF Reaches
    <3> QED BY <2>2, <3>2
  <2>4. Reaches(j - 1)
    <3>1. j - 1 \in 0..Cardinality(T) /\ ~(j <= j - 1)
      BY <1>1, <2>2, <2>3
    <3> HIDE DEF Reaches
    <3> QED BY <2>1, <3>1
  <2>5. PICK k \in SUBSET T : Cardinality(k) = j - 1 /\ \A x \in k, y \in T \ k : y < x
    BY <2>4
  <2>6. IsFiniteSet(k)
    BY <1>1, FS_Subset
  <2>7. T \ k # {}
    <3> SUFFICES ASSUME T \ k = {} PROVE FALSE
      OBVIOUS
    <3>1. k = T
      OBVIOUS
    <3> QED BY <1>1, <2>2, <2>3, <2>5, <3>1
  <2>8. PICK z \in T \ k : \A y \in T \ k : y <= z
    BY <2>7, Greatest
  <2> DEFINE new == k \cup {z}
  <2>9. new \in SUBSET T /\ Cardinality(new) = j
    <3>1. Cardinality(new) = Cardinality(k) + 1
      BY <2>6, <2>8, FS_AddElement
    <3> QED BY <1>1, <2>2, <2>5, <3>1
  <2>10. ASSUME NEW x \in new, NEW y \in T \ new PROVE y < x
    <3>1. y \in T \ k /\ y # z /\ y \in Nat /\ z \in Nat
      OBVIOUS
    <3>2. CASE x \in k
      BY <2>5, <3>1, <3>2
    <3>3. CASE x = z
      BY <2>8, <3>1, <3>3
    <3> QED BY <3>2, <3>3
  <2>11. Reaches(j)
    BY <2>9, <2>10
  <2> HIDE DEF Reaches
  <2> QED BY <2>2, <2>11
<1>3. m \notin Bad
  BY <1>2
<1> QED BY <1>3

(* What the assertions on the arguments give the provers.                  *)
LEMMA ProbeConstants ==
  /\ Cases \in Nat \ {0} /\ Len(Gaps) \in Nat \ {0} /\ DOMAIN Gaps = 1..Len(Gaps)
  /\ \A i \in DOMAIN Gaps : Gaps[i] \in Nat
  /\ Value \in Nat /\ Fact \in Nat /\ Value < Fact /\ Query \in Nat \ {0}
  /\ ProbePrompt \in Nat /\ ProbeCapacity \in Nat /\ ProbeRecent \in Nat \ {0}
  /\ ProbePrompt + ProbeRecent < ProbeCapacity
<1>1. Gaps \in Seq(Nat) /\ Len(Gaps) > 0
  BY ProbeAssumption
<1>2. Len(Gaps) \in Nat \ {0} /\ DOMAIN Gaps = 1..Len(Gaps) /\ \A i \in DOMAIN Gaps : Gaps[i] \in Nat
  BY <1>1
<1>3. /\ Value \in Nat /\ Fact \in Nat /\ Value < Fact /\ Query \in Nat \ {0}
      /\ ProbePrompt \in Nat /\ ProbeCapacity \in Nat /\ ProbeRecent \in Nat \ {0}
      /\ ProbePrompt < ProbeCapacity - ProbeRecent /\ Cases \in Nat \ {0}
  BY ProbeAssumption
<1> QED BY <1>2, <1>3

-----------------------------------------------------------------------------
(* A round of eviction.                                                     *)

PinnedRows(rows, newest) == {x \in rows : x < ProbePrompt \/ x > newest - ProbeRecent}
KeptRows(rows, newest) ==
  {k \in SUBSET (rows \ PinnedRows(rows, newest)) :
     Cardinality(PinnedRows(rows, newest) \cup k) = ProbeCapacity}
Highest(k, T) == \A x \in k, y \in T \ k : y < x

LEMMA SurvivorsAre ==
  \A policy, rows, newest :
    Survivors(policy, rows, newest)
      = {PinnedRows(rows, newest) \cup k :
           k \in IF policy = "recency_pp"
                 THEN {k \in KeptRows(rows, newest) :
                         Highest(k, rows \ PinnedRows(rows, newest))}
                 ELSE KeptRows(rows, newest)}
BY DEF Survivors, PinnedRows, KeptRows, Highest

(* A round always finds rows to keep, ...                                  *)
LEMMA SurvivorsExist ==
  ASSUME NEW policy, NEW top \in Nat, NEW rows, rows \subseteq 0..top,
         Cardinality(rows) = ProbeCapacity + ProbeRecent
  PROVE  Survivors(policy, rows, top) # {}
<1> DEFINE pinned == PinnedRows(rows, top)
           T == rows \ pinned
           a == Cardinality(pinned)
           low == 0..(ProbePrompt - 1)
           high == (top - ProbeRecent + 1)..top
<1>0. /\ ProbePrompt \in Nat /\ ProbeCapacity \in Nat /\ ProbeRecent \in Nat \ {0}
      /\ ProbePrompt + ProbeRecent < ProbeCapacity
  BY ProbeConstants
<1>1. IsFiniteSet(rows) /\ pinned \subseteq rows
  <2>1. IsFiniteSet(0..top)
    BY FS_Interval
  <2> QED BY <2>1, FS_Subset DEF PinnedRows
<1>2. IsFiniteSet(pinned) /\ a \in Nat
  <2>1. IsFiniteSet(pinned)
    BY <1>1, FS_Subset
  <2> QED BY <2>1, FS_CardinalityType
<1>3. a <= ProbePrompt + ProbeRecent
  <2>1. pinned \subseteq low \cup high
    <3> SUFFICES ASSUME NEW x \in pinned PROVE x \in low \cup high
      OBVIOUS
    <3>1. x \in 0..top /\ (x < ProbePrompt \/ x > top - ProbeRecent)
      BY DEF PinnedRows
    <3> HIDE DEF pinned
    <3>2. CASE x < ProbePrompt
      BY <1>0, <3>1, <3>2
    <3>3. CASE x > top - ProbeRecent
      BY <1>0, <3>1, <3>3
    <3> QED BY <3>1, <3>2, <3>3
  <2>2. IsFiniteSet(low) /\ Cardinality(low) = ProbePrompt
    BY <1>0, FS_Interval
  <2>3. IsFiniteSet(high) /\ Cardinality(high) = ProbeRecent
    <3>1. top - ProbeRecent + 1 \in Int /\ top - ProbeRecent + 1 <= top
      BY <1>0
    <3>2. IsFiniteSet(high) /\ Cardinality(high) = top - (top - ProbeRecent + 1) + 1
      BY <3>1, FS_Interval
    <3> QED BY <1>0, <3>2
  <2> HIDE DEF low, high
  <2>4. /\ IsFiniteSet(low \cup high)
        /\ Cardinality(low \cup high)
             = Cardinality(low) + Cardinality(high) - Cardinality(low \cap high)
    BY <2>2, <2>3, FS_Union
  <2>5. Cardinality(low \cap high) \in Nat
    <3>1. IsFiniteSet(low \cap high)
      BY <2>2, FS_Subset
    <3> QED BY <3>1, FS_CardinalityType
  <2>6. a <= Cardinality(low \cup high)
    BY <2>1, <2>4, FS_Subset
  <2> QED BY <1>0, <1>2, <2>2, <2>3, <2>4, <2>5, <2>6
<1>4. IsFiniteSet(T) /\ Cardinality(T) = ProbeCapacity + ProbeRecent - a
  <2>1. rows \cap pinned = pinned
    BY <1>1
  <2> HIDE DEF pinned
  <2>2. Cardinality(T) = Cardinality(rows) - Cardinality(rows \cap pinned) /\ IsFiniteSet(T)
    BY <1>1, FS_Difference
  <2>3. Cardinality(rows \cap pinned) = a
    BY <2>1
  <2> HIDE DEF T, a
  <2> QED BY <1>0, <1>2, <2>2, <2>3
<1> HIDE DEF pinned, a
<1>5. ProbeCapacity - a \in 0..Cardinality(T)
  <2> HIDE DEF T
  <2> QED BY <1>0, <1>2, <1>3, <1>4
<1>6. PICK k \in SUBSET T : Cardinality(k) = ProbeCapacity - a /\ Highest(k, T)
  <2>1. T \subseteq 0..top
    OBVIOUS
  <2> HIDE DEF T
  <2> QED BY <1>5, <2>1, NewestOf DEF Highest
<1>7. Cardinality(pinned \cup k) = ProbeCapacity
  <2>1. IsFiniteSet(k)
    BY <1>4, FS_Subset
  <2>2. pinned \cap k = {}
    OBVIOUS
  <2>3. Cardinality(pinned \cup k) = Cardinality(pinned) + Cardinality(k) - Cardinality({})
    BY <1>2, <2>1, <2>2, FS_Union
  <2>4. Cardinality({}) = 0 /\ Cardinality(pinned) = a
    BY FS_EmptySet DEF a
  <2> QED BY <1>0, <1>2, <1>6, <2>3, <2>4
<1>8. k \in KeptRows(rows, top)
  BY <1>7 DEF KeptRows, pinned
<1>9. pinned \cup k \in Survivors(policy, rows, top)
  <2>1. k \in IF policy = "recency_pp"
              THEN {j \in KeptRows(rows, top) : Highest(j, rows \ PinnedRows(rows, top))}
              ELSE KeptRows(rows, top)
    BY <1>6, <1>8 DEF pinned
  <2> QED BY <2>1, SurvivorsAre DEF pinned
<1> QED BY <1>9

(* ... the prompt and the capacity among them, under recency the newest.   *)
LEMMA SurvivorFacts ==
  ASSUME NEW policy, NEW top \in Nat, NEW rows, rows \subseteq 0..top,
         NEW left \in Survivors(policy, rows, top)
  PROVE  /\ left \subseteq rows /\ Cardinality(left) = ProbeCapacity
         /\ \A x \in rows : x < ProbePrompt => x \in left
         /\ policy = "recency_pp" =>
              \A x \in left, y \in rows : x >= ProbePrompt /\ y > x => y \in left
<1> DEFINE pinned == PinnedRows(rows, top)
           T == rows \ pinned
<1>1. PICK k \in KeptRows(rows, top) :
        left = pinned \cup k /\ (policy = "recency_pp" => Highest(k, T))
  BY SurvivorsAre
<1>2. k \subseteq T /\ Cardinality(pinned \cup k) = ProbeCapacity
  BY DEF KeptRows
<1>3. pinned \subseteq rows /\ \A x \in rows : x < ProbePrompt => x \in pinned
  BY DEF PinnedRows
<1>4. ASSUME policy = "recency_pp", NEW x \in left, NEW y \in rows, x >= ProbePrompt, y > x
      PROVE  y \in left
  <2>1. x \in rows /\ x \in Nat /\ y \in Nat
    <3>1. left \subseteq rows
      BY <1>1, <1>2, <1>3
    <3> HIDE DEF pinned, T
    <3>2. x \in 0..top /\ y \in 0..top
      BY <3>1
    <3> QED BY <3>1, <3>2
  <2>2. CASE x \in pinned
    <3>1. x > top - ProbeRecent
      BY <1>4, <2>1, <2>2, ProbeConstants DEF PinnedRows
    <3>2. y > top - ProbeRecent
      BY <1>4, <2>1, <3>1, ProbeConstants
    <3> QED BY <1>1, <3>2 DEF PinnedRows
  <2>3. CASE x \in k
    <3> SUFFICES ASSUME y \notin left PROVE FALSE
      OBVIOUS
    <3>1. y \in T \ k
      BY <1>1
    <3>2. y < x
      BY <1>1, <1>4, <2>3, <3>1 DEF Highest
    <3> QED BY <1>4, <2>1, <3>2
  <2> QED BY <1>1, <2>2, <2>3
<1> QED BY <1>1, <1>2, <1>3, <1>4

-----------------------------------------------------------------------------
(* The rows of a head.                                                      *)

(* What a store may be once n tokens are cached.                           *)
StoreShape(policy, store, n) ==
  /\ store.rounds \in Nat /\ store.rows \subseteq 0..(n - 1)
  /\ 0..(ProbePrompt - 1) \subseteq store.rows
  /\ policy = "native" => store.rounds = 0
  /\ store.rounds = 0 => store.rows = 0..(n - 1)
  /\ policy # "native" =>
       /\ Cardinality(store.rows) + store.rounds * ProbeRecent = n
       /\ Cardinality(store.rows) < ProbeCapacity + ProbeRecent
       /\ store.rounds = 0 \/ Cardinality(store.rows) >= ProbeCapacity
  /\ policy = "recency_pp" =>
       \A x \in store.rows, y \in 0..(n - 1) : x >= ProbePrompt /\ y > x => y \in store.rows

EmptyTrace == [rounds |-> 0, rows |-> 0..(ProbePrompt - 1)]

LEMMA EmptyTraceShape == ASSUME NEW policy PROVE StoreShape(policy, EmptyTrace, ProbePrompt)
<1>1. /\ ProbePrompt \in Nat /\ ProbeCapacity \in Nat /\ ProbeRecent \in Nat \ {0}
      /\ ProbePrompt + ProbeRecent < ProbeCapacity
  BY ProbeConstants
<1>2. Cardinality(0..(ProbePrompt - 1)) = ProbePrompt
  BY <1>1, FS_Interval
<1>3. EmptyTrace.rounds = 0 /\ EmptyTrace.rows = 0..(ProbePrompt - 1)
  BY DEF EmptyTrace
<1>4. 0 * ProbeRecent = 0 /\ ProbePrompt < ProbeCapacity + ProbeRecent
  BY <1>1
<1> QED BY <1>1, <1>2, <1>3, <1>4 DEF StoreShape

(* One token more.                                                         *)
LEMMA FollowShape ==
  ASSUME NEW policy, NEW n \in Nat, n >= ProbePrompt, NEW store, StoreShape(policy, store, n)
  PROVE  /\ Follow(policy, store, n) # {}
         /\ \A new \in Follow(policy, store, n) : StoreShape(policy, new, n + 1)
<1> DEFINE rows == store.rows \cup {n}
           c == Cardinality(store.rows)
           r == store.rounds
           full == policy # "native" /\ Cardinality(rows) = ProbeCapacity + ProbeRecent
<1>0. /\ ProbePrompt \in Nat /\ ProbeCapacity \in Nat /\ ProbeRecent \in Nat \ {0}
      /\ ProbePrompt + ProbeRecent < ProbeCapacity /\ r \in Nat
  BY ProbeConstants DEF StoreShape
<1>1. store.rows \subseteq 0..(n - 1) /\ 0..(ProbePrompt - 1) \subseteq store.rows
  BY DEF StoreShape
<1>2. IsFiniteSet(store.rows) /\ c \in Nat
  <2>1. IsFiniteSet(0..(n - 1))
    BY FS_Interval
  <2>2. IsFiniteSet(store.rows)
    BY <1>1, <2>1, FS_Subset
  <2> QED BY <2>2, FS_CardinalityType
<1>3. n \notin store.rows
  BY <1>1
<1>4. IsFiniteSet(rows) /\ Cardinality(rows) = c + 1
  BY <1>2, <1>3, FS_AddElement
<1>5. rows \subseteq 0..n /\ (n + 1) - 1 = n
  BY <1>1
<1>6. Follow(policy, store, n) =
        IF full THEN {[rounds |-> r + 1, rows |-> left] : left \in Survivors(policy, rows, n)}
        ELSE {[rounds |-> r, rows |-> rows]}
  BY DEF Follow
<1>7. r = 0 => rows = 0..n
  <2> SUFFICES ASSUME r = 0 PROVE rows = 0..n
    OBVIOUS
  <2>1. store.rows = 0..(n - 1)
    BY DEF StoreShape
  <2> QED BY <2>1
<1>8. policy # "native" =>
        /\ c + r * ProbeRecent = n /\ c < ProbeCapacity + ProbeRecent
        /\ r = 0 \/ c >= ProbeCapacity
  BY DEF StoreShape
<1>9. policy = "recency_pp" =>
        \A x \in rows, y \in 0..n : x >= ProbePrompt /\ y > x => y \in rows
  <2> SUFFICES ASSUME policy = "recency_pp", NEW x \in rows, NEW y \in 0..n,
                      x >= ProbePrompt, y > x
               PROVE  y \in rows
    OBVIOUS
  <2>1. CASE y = n
    BY <2>1
  <2>2. CASE y # n
    <3>1. x \in store.rows /\ y \in 0..(n - 1)
      BY <1>5, <2>2
    <3> QED BY <3>1 DEF StoreShape
  <2> QED BY <2>1, <2>2
<1>10. CASE ~full
  <2> DEFINE new == [rounds |-> r, rows |-> rows]
  <2>1. Follow(policy, store, n) = {new}
    BY <1>6, <1>10
  <2>2. new.rounds = r /\ new.rows = rows
    OBVIOUS
  <2>3. 0..(ProbePrompt - 1) \subseteq rows /\ (policy = "native" => r = 0)
    BY <1>1 DEF StoreShape
  <2>4. policy # "native" =>
          /\ Cardinality(rows) + r * ProbeRecent = n + 1
          /\ Cardinality(rows) < ProbeCapacity + ProbeRecent
          /\ r = 0 \/ Cardinality(rows) >= ProbeCapacity
    <3> SUFFICES ASSUME policy # "native"
                 PROVE  /\ Cardinality(rows) + r * ProbeRecent = n + 1
                        /\ Cardinality(rows) < ProbeCapacity + ProbeRecent
                        /\ r = 0 \/ Cardinality(rows) >= ProbeCapacity
      OBVIOUS
    <3>1. Cardinality(rows) # ProbeCapacity + ProbeRecent
      BY <1>10
    <3> DEFINE x == r * ProbeRecent
               b == Cardinality(rows)
    <3>2. x \in Nat /\ c + x = n /\ c < ProbeCapacity + ProbeRecent /\ b = c + 1
          /\ (r = 0 \/ c >= ProbeCapacity)
      BY <1>0, <1>4, <1>8
    <3> HIDE DEF x, b, c, r, rows
    <3>3. b # ProbeCapacity + ProbeRecent
      BY <3>1 DEF b
    <3>4. b + x = n + 1 /\ b < ProbeCapacity + ProbeRecent /\ (r = 0 \/ b >= ProbeCapacity)
      BY <1>0, <1>2, <3>2, <3>3
    <3> QED BY <3>4 DEF x, b
  <2> HIDE DEF new, rows, r, full
  <2>5. StoreShape(policy, new, n + 1)
    BY <1>0, <1>5, <1>7, <1>9, <2>2, <2>3, <2>4 DEF StoreShape
  <2> QED BY <2>1, <2>5
<1>11. CASE full
  <2>1. Survivors(policy, rows, n) # {}
    BY <1>5, <1>11, SurvivorsExist
  <2>2. ASSUME NEW left \in Survivors(policy, rows, n)
        PROVE  StoreShape(policy, [rounds |-> r + 1, rows |-> left], n + 1)
    <3> DEFINE new == [rounds |-> r + 1, rows |-> left]
    <3>1. new.rounds = r + 1 /\ new.rows = left
      OBVIOUS
    <3>2. /\ left \subseteq rows /\ Cardinality(left) = ProbeCapacity
          /\ \A x \in rows : x < ProbePrompt => x \in left
          /\ policy = "recency_pp" =>
               \A x \in left, y \in rows : x >= ProbePrompt /\ y > x => y \in left
      <4> HIDE DEF rows
      <4> QED BY <1>5, SurvivorFacts
    <3>3. policy # "native" /\ c + 1 = ProbeCapacity + ProbeRecent
      BY <1>4, <1>11
    <3>4. ProbeCapacity + (r + 1) * ProbeRecent = n + 1
      <4> DEFINE x == r * ProbeRecent
      <4>1. x \in Nat /\ (r + 1) * ProbeRecent = x + ProbeRecent /\ c + x = n
        BY <1>0, <1>8, <3>3
      <4> HIDE DEF x, r
      <4> QED BY <1>0, <1>2, <3>3, <4>1
    <3>5. \A x \in 0..(ProbePrompt - 1) : x \in rows /\ x < ProbePrompt
      BY <1>0, <1>1
    <3>6. 0..(ProbePrompt - 1) \subseteq left
      BY <3>2, <3>5
    <3>7. r + 1 \in Nat /\ r + 1 # 0 /\ ProbeCapacity < ProbeCapacity + ProbeRecent
      BY <1>0
    <3>8. policy = "recency_pp" =>
            \A x \in left, y \in 0..n : x >= ProbePrompt /\ y > x => y \in left
      BY <1>9, <3>2
    <3>9. left \subseteq 0..n
      BY <1>5, <3>2
    <3> HIDE DEF new, r, rows, full
    <3>10. /\ new.rounds \in Nat /\ new.rounds # 0 /\ new.rows \subseteq 0..((n + 1) - 1)
           /\ 0..(ProbePrompt - 1) \subseteq new.rows /\ policy # "native"
      BY <1>5, <3>1, <3>3, <3>6, <3>7, <3>9
    <3>11. /\ Cardinality(new.rows) + new.rounds * ProbeRecent = n + 1
           /\ Cardinality(new.rows) < ProbeCapacity + ProbeRecent
           /\ Cardinality(new.rows) >= ProbeCapacity
      <4>1. Cardinality(new.rows) = ProbeCapacity /\ new.rounds * ProbeRecent = (r + 1) * ProbeRecent
        BY <3>1, <3>2
      <4> QED BY <1>0, <3>4, <3>7, <4>1
    <3>12. policy = "recency_pp" =>
             \A x \in new.rows, y \in 0..((n + 1) - 1) :
               x >= ProbePrompt /\ y > x => y \in new.rows
      BY <1>5, <3>1, <3>8
    <3>13. StoreShape(policy, new, n + 1)
      BY <3>10, <3>11, <3>12 DEF StoreShape
    <3> QED BY <3>13 DEF new
  <2>3. Follow(policy, store, n) =
          {[rounds |-> r + 1, rows |-> left] : left \in Survivors(policy, rows, n)}
    BY <1>6, <1>11
  <2> HIDE DEF rows, r, full
  <2> QED BY <2>1, <2>2, <2>3
<1> QED BY <1>10, <1>11

(* A store of that shape has run the rounds of the closed form.            *)
LEMMA ShapeRounds ==
  ASSUME NEW policy, NEW n \in Nat, NEW store, StoreShape(policy, store, n)
  PROVE  store.rounds = AuditedRounds(policy, n)
<1> DEFINE c == Cardinality(store.rows)
           r == store.rounds
           x == r * ProbeRecent
<1>0. /\ ProbeCapacity \in Nat /\ ProbeRecent \in Nat \ {0} /\ r \in Nat
  BY ProbeConstants DEF StoreShape
<1>1. CASE policy = "native"
  BY <1>1 DEF StoreShape, AuditedRounds
<1>2. CASE policy # "native"
  <2>1. /\ c + x = n /\ c < ProbeCapacity + ProbeRecent /\ (r = 0 \/ c >= ProbeCapacity)
    BY <1>2 DEF StoreShape
  <2>2. c \in Nat /\ x \in Nat /\ (r = 0 => x = 0) /\ (r # 0 => x >= ProbeRecent)
    <3>1. IsFiniteSet(0..(n - 1))
      BY FS_Interval
    <3>2. IsFiniteSet(store.rows)
      BY <3>1, FS_Subset DEF StoreShape
    <3>3. c \in Nat
      BY <3>2, FS_CardinalityType
    <3>4. x \in Nat /\ (r = 0 => x = 0)
      BY <1>0
    <3>5. r # 0 => x >= ProbeRecent
      <4> SUFFICES ASSUME r # 0 PROVE x >= ProbeRecent
        OBVIOUS
      <4> DEFINE k == r - 1
      <4>1. k \in Nat /\ r = k + 1
        BY <1>0
      <4> HIDE DEF k, r
      <4>2. (k + 1) * ProbeRecent = k * ProbeRecent + ProbeRecent /\ k * ProbeRecent \in Nat
        BY <1>0, <4>1
      <4> QED BY <1>0, <4>1, <4>2
    <3> QED BY <3>3, <3>4, <3>5
  <2>3. CASE n < ProbeCapacity
    <3>1. r = 0
      <4> HIDE DEF c, x, r
      <4> QED BY <1>0, <2>1, <2>2, <2>3
    <3> QED BY <2>3, <3>1 DEF AuditedRounds
  <2>4. CASE ~(n < ProbeCapacity)
    <3> DEFINE d == n - ProbeCapacity
               e == c - ProbeCapacity
    <3>1. d \in Nat /\ d = x + e /\ e \in 0..(ProbeRecent - 1)
      <4>1. c >= ProbeCapacity
        <5> HIDE DEF c, x, r
        <5> QED BY <1>0, <2>1, <2>2, <2>4
      <4> HIDE DEF c, x
      <4> QED BY <1>0, <2>1, <2>2, <2>4, <4>1
    <3>2. x = ProbeRecent * r
      <4> HIDE DEF r
      <4> QED BY <1>0
    <3> HIDE DEF d, e, r, x
    <3>3. d \div ProbeRecent = r
      BY <1>0, <3>1, <3>2, DivisionIsUnique
    <3> QED BY <1>2, <2>4, <3>3 DEF AuditedRounds, d, r
  <2> QED BY <2>3, <2>4
<1> QED BY <1>1, <1>2

(* The stores along a trace, from those at the token before.               *)
AlongTrace(policy, f, length) ==
  [n \in ProbePrompt..length |->
     IF n = ProbePrompt THEN {EmptyTrace}
     ELSE UNION {Follow(policy, store, n - 1) : store \in f[n - 1]}]

(* There is such a function: else there were a least length without one.   *)
LEMMA AlongTraceExists ==
  ASSUME NEW policy, NEW length \in Nat, length >= ProbePrompt
  PROVE  \E f : f = AlongTrace(policy, f, length)
<1> DEFINE Reaches(k) == \E f : f = AlongTrace(policy, f, k)
           Bad == {k \in ProbePrompt..length : ~Reaches(k)}
<1>0. ProbePrompt \in Nat
  BY ProbeConstants
<1>1. Bad = {}
  <2> SUFFICES ASSUME Bad # {} PROVE FALSE
    OBVIOUS
  <2>1. PICK k \in Bad : \A i \in Bad : k <= i
    <3>1. Bad \subseteq Nat
      BY <1>0
    <3> HIDE DEF Bad
    <3> QED BY <3>1, Least
  <2>2. k \in ProbePrompt..length /\ ~Reaches(k)
    OBVIOUS
  <2>3. CASE k = ProbePrompt
    <3> DEFINE f == [n \in ProbePrompt..k |-> {EmptyTrace}]
    <3>1. \A n \in ProbePrompt..k : n = ProbePrompt
      BY <1>0, <2>3
    <3>2. f = AlongTrace(policy, f, k)
      BY <3>1 DEF AlongTrace
    <3>3. Reaches(k)
      BY <3>2
    <3> QED BY <2>2, <3>3
  <2>4. CASE k # ProbePrompt
    <3>1. k - 1 \in ProbePrompt..length /\ ~(k <= k - 1)
      BY <1>0, <2>2, <2>4
    <3>2. Reaches(k - 1)
      <4> HIDE DEF Reaches
      <4> QED BY <2>1, <3>1
    <3>3. PICK f : f = AlongTrace(policy, f, k - 1)
      BY <3>2
    <3> DEFINE g == AlongTrace(policy, f, k)
    <3>4. \A n \in ProbePrompt..(k - 1) : g[n] = f[n]
      <4> SUFFICES ASSUME NEW n \in ProbePrompt..(k - 1) PROVE g[n] = f[n]
        OBVIOUS
      <4>1. n \in ProbePrompt..k
        BY <1>0, <2>2
      <4>2. f[n] = AlongTrace(policy, f, k - 1)[n]
        BY <3>3
      <4> QED BY <4>1, <4>2 DEF AlongTrace
    <3>5. ASSUME NEW n \in ProbePrompt..k, n # ProbePrompt PROVE g[n - 1] = f[n - 1]
      <4>1. n - 1 \in ProbePrompt..(k - 1)
        BY <1>0, <2>2, <3>5
      <4> QED BY <3>4, <4>1
    <3>6. g = AlongTrace(policy, g, k)
      <4>1. \A n \in ProbePrompt..k :
              (IF n = ProbePrompt THEN {EmptyTrace}
               ELSE UNION {Follow(policy, store, n - 1) : store \in f[n - 1]})
              = (IF n = ProbePrompt THEN {EmptyTrace}
                 ELSE UNION {Follow(policy, store, n - 1) : store \in g[n - 1]})
        <5> HIDE DEF g
        <5> QED BY <3>5
      <4>2. g = [n \in ProbePrompt..k |->
                   IF n = ProbePrompt THEN {EmptyTrace}
                   ELSE UNION {Follow(policy, store, n - 1) : store \in f[n - 1]}]
        BY DEF AlongTrace
      <4> HIDE DEF g
      <4> QED BY <4>1, <4>2 DEF AlongTrace
    <3>7. Reaches(k)
      BY <3>6
    <3> HIDE DEF Reaches
    <3> QED BY <2>2, <3>7
  <2> QED BY <2>3, <2>4
<1>2. length \in ProbePrompt..length
  BY <1>0
<1>3. length \notin Bad
  BY <1>1
<1> QED BY <1>2, <1>3

LEMMA CachedIs ==
  ASSUME NEW policy, NEW length \in Nat, length >= ProbePrompt
  PROVE  \E f : f = AlongTrace(policy, f, length) /\ Cached(policy, length) = f[length]
<1> DEFINE f == CHOOSE g : g = AlongTrace(policy, g, length)
<1>1. f = AlongTrace(policy, f, length)
  BY AlongTraceExists
<1>2. Cached(policy, length) = f[length]
  BY Zenon DEF Cached, AlongTrace, EmptyTrace
<1> QED BY <1>1, <1>2

(* All its stores have the shape: else there were a least length at which  *)
(* one has not.                                                            *)
LEMMA CachedShape ==
  ASSUME NEW policy, NEW length \in Nat, length >= ProbePrompt
  PROVE  /\ Cached(policy, length) # {}
         /\ \A store \in Cached(policy, length) : StoreShape(policy, store, length)
<1>0. ProbePrompt \in Nat
  BY ProbeConstants
<1>1. PICK f : f = AlongTrace(policy, f, length) /\ Cached(policy, length) = f[length]
  BY CachedIs
<1> DEFINE Reaches(n) == f[n] # {} /\ \A store \in f[n] : StoreShape(policy, store, n)
           Bad == {n \in ProbePrompt..length : ~Reaches(n)}
<1>2. \A n \in ProbePrompt..length :
        f[n] = IF n = ProbePrompt THEN {EmptyTrace}
               ELSE UNION {Follow(policy, store, n - 1) : store \in f[n - 1]}
  <2> SUFFICES ASSUME NEW n \in ProbePrompt..length
               PROVE  f[n] = IF n = ProbePrompt THEN {EmptyTrace}
                      ELSE UNION {Follow(policy, store, n - 1) : store \in f[n - 1]}
    OBVIOUS
  <2>1. f[n] = AlongTrace(policy, f, length)[n]
    BY <1>1
  <2> QED BY <2>1 DEF AlongTrace
<1>3. Bad = {}
  <2> SUFFICES ASSUME Bad # {} PROVE FALSE
    OBVIOUS
  <2>1. PICK k \in Bad : \A i \in Bad : k <= i
    <3>1. Bad \subseteq Nat
      BY <1>0
    <3> HIDE DEF Bad
    <3> QED BY <3>1, Least
  <2>2. k \in ProbePrompt..length /\ ~Reaches(k) /\ k \in Nat
    BY <1>0
  <2>3. CASE k = ProbePrompt
    <3>1. f[k] = {EmptyTrace}
      BY <1>2, <2>2, <2>3
    <3>2. Reaches(k)
      BY <2>3, <3>1, EmptyTraceShape
    <3> HIDE DEF Reaches
    <3> QED BY <2>2, <3>2
  <2>4. CASE k # ProbePrompt
    <3> DEFINE p == k - 1
    <3>1. p \in ProbePrompt..length /\ ~(k <= p) /\ p \in Nat /\ p >= ProbePrompt /\ p + 1 = k
      BY <1>0, <2>2, <2>4
    <3>2. Reaches(p)
      <4> HIDE DEF Reaches, p
      <4> QED BY <2>1, <3>1
    <3>3. f[k] = UNION {Follow(policy, store, p) : store \in f[p]}
      BY <1>2, <2>2, <2>4
    <3> HIDE DEF p
    <3>4. ASSUME NEW store \in f[p]
          PROVE  /\ Follow(policy, store, p) # {}
                 /\ \A new \in Follow(policy, store, p) : StoreShape(policy, new, k)
      <4>1. StoreShape(policy, store, p)
        BY <3>2
      <4>2. /\ Follow(policy, store, p) # {}
            /\ \A new \in Follow(policy, store, p) : StoreShape(policy, new, p + 1)
        BY <3>1, <4>1, FollowShape
      <4> QED BY <3>1, <4>2
    <3>5. f[k] # {}
      BY <3>2, <3>3, <3>4
    <3>6. \A new \in f[k] : StoreShape(policy, new, k)
      BY <3>3, <3>4
    <3>7. Reaches(k)
      BY <3>5, <3>6
    <3> HIDE DEF Reaches
    <3> QED BY <2>2, <3>7
  <2> QED BY <2>3, <2>4
<1>4. length \in ProbePrompt..length
  BY <1>0
<1>5. Reaches(length)
  <2>1. length \notin Bad
    BY <1>3
  <2> HIDE DEF Reaches
  <2> QED BY <1>4, <2>1
<1> QED BY <1>1, <1>5

(* The rounds of a store are those the audit counts from the length alone.  *)
LEMMA RoundsCounted ==
  ASSUME NEW policy, NEW length \in Nat, length >= ProbePrompt
  PROVE  RoundsRun(policy, length) = AuditedRounds(policy, length)
         /\ RoundsRun(policy, length) \in Nat
<1>1. /\ Cached(policy, length) # {}
      /\ \A store \in Cached(policy, length) : StoreShape(policy, store, length)
  BY CachedShape
<1> DEFINE store == CHOOSE store \in Cached(policy, length) : TRUE
<1>2. store \in Cached(policy, length)
  BY <1>1
<1>3. StoreShape(policy, store, length)
  BY <1>1, <1>2
<1> HIDE DEF store
<1>4. store.rounds = AuditedRounds(policy, length) /\ store.rounds \in Nat
  BY <1>3, ShapeRounds DEF StoreShape
<1> QED BY <1>4 DEF RoundsRun, store

-----------------------------------------------------------------------------
(* What a snapshot shows.                                                   *)

CountsHold(policy, v, kept) ==
  /\ \A h \in Heads : kept.value[h] <= kept.fact[h]
  /\ policy \in {"native", "recency_pp", "random_shared_pp"} => kept.alike
  /\ AuditedRounds(policy, Snapshot(v)) = 0 =>
       \A h \in Heads : kept.fact[h] = Fact /\ kept.value[h] = Fact - Value
  /\ policy = "recency_pp" /\ MustForget(v) => \A h \in Heads : kept.fact[h] = 0

LEMMA SnapshotFacts ==
  ASSUME NEW v \in Visits
  PROVE  /\ Snapshot(v) \in Nat /\ Snapshot(v) >= ProbePrompt + Fact
         /\ ProbePrompt + Trace(v) = Snapshot(v) + 1
<1>1. v[2] \in DOMAIN Gaps
  BY DEF Visits
<1>2. Gaps[v[2]] \in Nat
  BY <1>1, ProbeConstants
<1> DEFINE gap == Gaps[v[2]]
<1>3. Snapshot(v) = ProbePrompt + (Fact + gap + Query) - 1 /\ Trace(v) = Fact + gap + Query
  BY DEF Snapshot, Trace
<1> HIDE DEF gap
<1>4. gap \in Nat
  BY <1>2 DEF gap
<1> QED BY <1>3, <1>4, ProbeConstants

(* The rows of the fact and of its value in the store of one head.         *)
LEMMA FactIn ==
  ASSUME NEW policy, NEW v \in Visits, NEW store, StoreShape(policy, store, Snapshot(v))
  PROVE  /\ Cardinality(store.rows \cap FactRows) \in Nat
         /\ Cardinality(store.rows \cap ValueRows) \in Nat
         /\ Cardinality(store.rows \cap ValueRows) <= Cardinality(store.rows \cap FactRows)
         /\ AuditedRounds(policy, Snapshot(v)) = 0 =>
              /\ store.rows = 0..(Snapshot(v) - 1)
              /\ Cardinality(store.rows \cap FactRows) = Fact
              /\ Cardinality(store.rows \cap ValueRows) = Fact - Value
         /\ policy = "recency_pp" /\ MustForget(v) =>
              Cardinality(store.rows \cap FactRows) = 0
<1> DEFINE n == Snapshot(v)
<1>0. /\ ProbePrompt \in Nat /\ ProbeCapacity \in Nat /\ ProbeRecent \in Nat \ {0}
      /\ Fact \in Nat /\ Value \in Nat /\ Value < Fact
      /\ n \in Nat /\ n >= ProbePrompt + Fact
  BY ProbeConstants, SnapshotFacts
<1> HIDE DEF n
<1>1. /\ IsFiniteSet(FactRows) /\ Cardinality(FactRows) = Fact
      /\ Cardinality(ValueRows) = Fact - Value /\ ValueRows \subseteq FactRows
  <2>1. IsFiniteSet(FactRows) /\ Cardinality(FactRows) = Fact
    <3>1. /\ ProbePrompt \in Int /\ ProbePrompt + Fact - 1 \in Int
          /\ ~(ProbePrompt > ProbePrompt + Fact - 1)
      BY <1>0
    <3>2. IsFiniteSet(FactRows) /\ Cardinality(FactRows) = (ProbePrompt + Fact - 1) - ProbePrompt + 1
      BY <3>1, FS_Interval DEF FactRows
    <3> QED BY <1>0, <3>2
  <2>2. Cardinality(ValueRows) = Fact - Value
    <3>1. /\ ProbePrompt + Value \in Int /\ ProbePrompt + Fact - 1 \in Int
          /\ ~(ProbePrompt + Value > ProbePrompt + Fact - 1)
      BY <1>0
    <3>2. Cardinality(ValueRows) = (ProbePrompt + Fact - 1) - (ProbePrompt + Value) + 1
      BY <3>1, FS_Interval DEF ValueRows
    <3> QED BY <1>0, <3>2
  <2>3. ValueRows \subseteq FactRows
    BY <1>0 DEF ValueRows, FactRows
  <2> QED BY <2>1, <2>2, <2>3
<1>2. IsFiniteSet(store.rows \cap FactRows) /\ IsFiniteSet(store.rows \cap ValueRows)
  BY <1>1, FS_Subset
<1>3. Cardinality(store.rows \cap ValueRows) <= Cardinality(store.rows \cap FactRows)
  <2>1. store.rows \cap ValueRows \in SUBSET (store.rows \cap FactRows)
    BY <1>1
  <2> QED BY <1>2, <2>1, FS_Subset
<1>4. ASSUME AuditedRounds(policy, n) = 0
      PROVE  /\ store.rows = 0..(n - 1)
             /\ Cardinality(store.rows \cap FactRows) = Fact
             /\ Cardinality(store.rows \cap ValueRows) = Fact - Value
  <2>1. store.rounds = 0
    BY <1>0, <1>4, ShapeRounds DEF n
  <2>2. store.rows = 0..(n - 1)
    BY <2>1 DEF StoreShape, n
  <2>3. FactRows \subseteq 0..(n - 1)
    BY <1>0 DEF FactRows
  <2>4. store.rows \cap FactRows = FactRows /\ store.rows \cap ValueRows = ValueRows
    BY <1>1, <2>2, <2>3
  <2> QED BY <1>1, <2>2, <2>4
<1>5. ASSUME policy = "recency_pp", MustForget(v)
      PROVE  Cardinality(store.rows \cap FactRows) = 0
  <2>1. store.rows \cap FactRows = {}
    <3> SUFFICES ASSUME NEW x \in store.rows, x \in FactRows PROVE FALSE
      OBVIOUS
    <3>1. x \in Nat /\ x >= ProbePrompt /\ x < ProbePrompt + Fact
      BY <1>0 DEF FactRows
    <3>2. /\ store.rows \subseteq 0..(n - 1) /\ 0..(ProbePrompt - 1) \subseteq store.rows
          /\ Cardinality(store.rows) < ProbeCapacity + ProbeRecent
          /\ \A y \in 0..(n - 1) : y > x => y \in store.rows
      BY <1>5, <3>1 DEF StoreShape, n
    <3> DEFINE low == 0..(ProbePrompt - 1)
               high == x..(n - 1)
    <3>3. low \cup high \subseteq store.rows /\ low \cap high = {}
      <4>1. \A y \in high : y \in 0..(n - 1) /\ (y = x \/ y > x)
        BY <1>0, <3>1
      <4>2. high \subseteq store.rows
        BY <3>2, <4>1
      <4>3. low \cap high = {}
        BY <1>0, <3>1
      <4> QED BY <3>2, <4>2, <4>3
    <3>4. IsFiniteSet(low) /\ Cardinality(low) = ProbePrompt
      <4>1. 0 \in Int /\ ProbePrompt - 1 \in Int /\ ProbePrompt \in Nat
        BY <1>0
      <4>2. /\ IsFiniteSet(low)
            /\ Cardinality(low) = IF 0 > ProbePrompt - 1 THEN 0 ELSE (ProbePrompt - 1) - 0 + 1
        BY <4>1, FS_Interval
      <4> QED BY <4>1, <4>2
    <3>5. IsFiniteSet(high) /\ Cardinality(high) = n - x
      <4>1. x \in Int /\ n - 1 \in Int /\ ~(x > n - 1)
        BY <1>0, <3>1
      <4>2. IsFiniteSet(high) /\ Cardinality(high) = (n - 1) - x + 1
        BY <4>1, FS_Interval
      <4> QED BY <1>0, <3>1, <4>2
    <3>6. IsFiniteSet(store.rows)
      <4>1. IsFiniteSet(0..(n - 1))
        BY <1>0, FS_Interval
      <4> QED BY <3>2, <4>1, FS_Subset
    <3> HIDE DEF low, high
    <3>7. Cardinality(low \cup high) = Cardinality(low) + Cardinality(high) - Cardinality({})
      BY <3>3, <3>4, <3>5, FS_Union
    <3>8. Cardinality({}) = 0
      BY FS_EmptySet
    <3>9. Cardinality(low \cup high) <= Cardinality(store.rows)
      BY <3>3, <3>6, FS_Subset
    <3>10. Cardinality(store.rows) \in Nat
      BY <3>6, FS_CardinalityType
    <3>11. ProbePrompt + Fact <= n - (ProbeCapacity - ProbePrompt + ProbeRecent)
      BY <1>5 DEF MustForget, n
    <3> DEFINE c == Cardinality(store.rows)
    <3>12. ProbePrompt + (n - x) <= c /\ c \in Nat /\ c < ProbeCapacity + ProbeRecent
      <4>1. Cardinality(low \cup high) = ProbePrompt + (n - x)
        BY <1>0, <3>1, <3>4, <3>5, <3>7, <3>8
      <4> QED BY <3>2, <3>9, <3>10, <4>1
    <3> HIDE DEF c
    <3> QED BY <1>0, <3>1, <3>11, <3>12
  <2> QED BY <2>1, FS_EmptySet
<1>6. /\ Cardinality(store.rows \cap FactRows) \in Nat
      /\ Cardinality(store.rows \cap ValueRows) \in Nat
  BY <1>2, FS_CardinalityType
<1> QED BY <1>3, <1>4, <1>5, <1>6 DEF n

(* What a snapshot shows is what the audit asks for.                       *)
LEMMA ShownHolds ==
  ASSUME NEW policy \in Policies, NEW v \in Visits, NEW shown \in Shown(policy, v)
  PROVE  /\ shown.retained \in Retention /\ shown.native \in BOOLEAN
         /\ CountsHold(policy, v, shown.retained)
         /\ AuditedRounds(policy, Snapshot(v)) = 0 => shown.native
<1> DEFINE n == Snapshot(v)
           stores == Cached(policy, n)
<1>1. PICK held \in Holdings(policy, {store.rows : store \in stores}) :
        shown = [retained |-> Retained(held, v),
                 native |-> policy = "native" \/ \A h \in Heads : held[h] = 0..(n - 1)]
  BY DEF Shown
<1>2. \A store \in stores : StoreShape(policy, store, n)
  BY SnapshotFacts, ProbeConstants, CachedShape
<1>3. \A h \in Heads : \E store \in stores : held[h] = store.rows
  <2>1. CASE policy = "random_pp"
    <3>1. held \in [Heads -> {store.rows : store \in stores}]
      BY <2>1 DEF Holdings
    <3> HIDE DEF stores
    <3> QED BY <3>1
  <2>2. CASE policy # "random_pp"
    <3>1. PICK r \in {store.rows : store \in stores} : held = [h \in Heads |-> r]
      BY <2>2 DEF Holdings
    <3> HIDE DEF stores
    <3> QED BY <3>1
  <2> QED BY <2>1, <2>2
<1>4. policy \in {"native", "recency_pp", "random_shared_pp"} => held[1] = held[2]
  <2> SUFFICES ASSUME policy \in {"native", "recency_pp", "random_shared_pp"}
               PROVE  held[1] = held[2]
    OBVIOUS
  <2>1. PICK r \in {store.rows : store \in stores} : held = [h \in Heads |-> r]
    BY DEF Holdings
  <2> QED BY <2>1 DEF Heads
<1> HIDE DEF stores
<1> DEFINE kept == Retained(held, v)
<1>5. shown.retained = kept /\
      shown.native = (policy = "native" \/ \A h \in Heads : held[h] = 0..(n - 1))
  BY <1>1
<1>6. /\ kept.fact = [h \in Heads |-> Cardinality(held[h] \cap FactRows)]
      /\ kept.value = [h \in Heads |-> Cardinality(held[h] \cap ValueRows)]
      /\ kept.alike = (\A g, h \in Heads : Older(held[g], v) = Older(held[h], v))
      /\ kept = [fact |-> kept.fact, value |-> kept.value, alike |-> kept.alike]
  BY DEF Retained
<1>7. ASSUME NEW h \in Heads
      PROVE  /\ Cardinality(held[h] \cap FactRows) \in Nat
             /\ Cardinality(held[h] \cap ValueRows) \in Nat
             /\ Cardinality(held[h] \cap ValueRows) <= Cardinality(held[h] \cap FactRows)
             /\ AuditedRounds(policy, n) = 0 =>
                  /\ held[h] = 0..(n - 1)
                  /\ Cardinality(held[h] \cap FactRows) = Fact
                  /\ Cardinality(held[h] \cap ValueRows) = Fact - Value
             /\ policy = "recency_pp" /\ MustForget(v) =>
                  Cardinality(held[h] \cap FactRows) = 0
  <2>1. PICK store \in stores : held[h] = store.rows
    BY <1>3
  <2>2. StoreShape(policy, store, Snapshot(v))
    BY <1>2
  <2> QED BY <2>1, <2>2, FactIn
<1> HIDE DEF kept
<1>8. \A h \in Heads : /\ kept.fact[h] = Cardinality(held[h] \cap FactRows)
                       /\ kept.value[h] = Cardinality(held[h] \cap ValueRows)
  BY <1>6
<1>9. kept.alike \in BOOLEAN
  BY <1>6
<1>10. kept \in Retention
  <2>1. kept.fact \in [Heads -> Nat] /\ kept.value \in [Heads -> Nat]
    BY <1>6, <1>7
  <2> QED BY <1>6, <1>9, <2>1 DEF Retention
<1>11. policy \in {"native", "recency_pp", "random_shared_pp"} => kept.alike
  BY <1>4, <1>6 DEF Heads
<1>12. CountsHold(policy, v, kept)
  BY <1>7, <1>8, <1>11 DEF CountsHold
<1>13. AuditedRounds(policy, n) = 0 => \A h \in Heads : held[h] = 0..(n - 1)
  BY <1>7
<1> QED BY <1>5, <1>10, <1>12, <1>13

-----------------------------------------------------------------------------
(* The records of the probe.                                               *)

Scored(policy, v) == probeRecord[policy][v] # NoTrace
Earlier(v, w) == v[1] < w[1] \/ (v[1] = w[1] /\ v[2] < w[2])
NativeAhead(j) == \E i \in DOMAIN probeOrder : i < j /\ probeOrder[i] = "native"

ProbeTyped ==
  /\ probeOrder \in ProbeOrders
  /\ probeRecord \in [Policies -> [Visits -> TraceRecords \cup {NoTrace}]]
  /\ probeReference \in Visits \cup {NoTrace} /\ probeAt \in Visits
  /\ probeCell \in DOMAIN probeOrder

(* A record passes the audit and, without a round, is the native one's     *)
(* equal; what it was held against is the native record of its own trace.  *)
RecordStands(policy, v, r) ==
  /\ InOrder(policy)
  /\ r.before = AuditedRounds(policy, Snapshot(v))
  /\ r.rounds = AuditedRounds(policy, ProbePrompt + Trace(v))
  /\ CountsHold(policy, v, r.retained) /\ (r.rounds = 0 => r.native)
  /\ r.compared \in {NoTrace, v}
  /\ \A j \in DOMAIN probeOrder :
       policy # "native" /\ r.rounds = 0 /\ NativeAhead(j) /\ probeOrder[j] = policy
         => r.compared = v

RecordsStand ==
  \A policy \in Policies, v \in Visits :
    Scored(policy, v) => RecordStands(policy, v, probeRecord[policy][v])

(* The reference in memory is of the trace at hand, and there once the     *)
(* native cell has been passed.                                            *)
AtHand ==
  /\ probeReference \in {NoTrace, probeAt}
  /\ NativeAhead(probeCell) => probeReference = probeAt

(* The loops leave nothing behind.                                         *)
Behind ==
  \A v \in Visits, i \in DOMAIN probeOrder :
    Earlier(v, probeAt) \/ (v = probeAt /\ i < probeCell) => Scored(probeOrder[i], v)

AllScored == \A v \in Visits, i \in DOMAIN probeOrder : Scored(probeOrder[i], v)

ProbeInv ==
  /\ ProbeTyped
  /\ RecordsStand
  /\ probePc = "visit" => AtHand /\ Behind
  /\ probePc = "finished" => AllScored

LEMMA ProbeOrderFacts ==
  ASSUME ProbeTyped
  PROVE  /\ probeOrder \in Seq(Policies) /\ DOMAIN probeOrder = 1..Len(probeOrder)
         /\ Len(probeOrder) \in Nat \ {0} /\ probeCell \in 1..Len(probeOrder)
         /\ \A i \in DOMAIN probeOrder : probeOrder[i] \in Policies
         /\ \A i, j \in DOMAIN probeOrder : probeOrder[i] = probeOrder[j] => i = j
         /\ Policy \in Policies
<1>1. probeOrder \in Seq(Policies) /\ probeOrder # << >>
  BY ProbeAssumption DEF ProbeTyped
<1>2. \A i, j \in DOMAIN probeOrder : probeOrder[i] = probeOrder[j] => i = j
  BY ProbeAssumption DEF ProbeTyped
<1>3. DOMAIN probeOrder = 1..Len(probeOrder) /\ Len(probeOrder) \in Nat \ {0}
  BY <1>1
<1>4. \A i \in DOMAIN probeOrder : probeOrder[i] \in Policies
  BY <1>1
<1>5. probeCell \in 1..Len(probeOrder) /\ Policy \in Policies
  BY <1>3, <1>4 DEF ProbeTyped, Policy
<1> QED BY <1>1, <1>2, <1>3, <1>4, <1>5

LEMMA FirstVisit == <<1, 1>> \in Visits /\ \A v \in Visits : ~Earlier(v, <<1, 1>>)
<1>1. 1 \in 1..Cases /\ 1 \in DOMAIN Gaps
  BY ProbeConstants
<1>2. \A v \in Visits : v[1] \in 1..Cases /\ v[2] \in DOMAIN Gaps
  BY DEF Visits
<1>3. \A v \in Visits : v[1] \in Nat /\ v[1] >= 1 /\ v[2] \in Nat /\ v[2] >= 1
  BY <1>2, ProbeConstants
<1> QED BY <1>1, <1>3 DEF Visits, Earlier

LEMMA ProbeStarts == ProbeInit => ProbeInv
<1> SUFFICES ASSUME ProbeInit PROVE ProbeInv
  OBVIOUS
<1>1. probeOrder \in Seq(Policies) /\ probeOrder # << >>
  BY ProbeAssumption DEF ProbeInit
<1>2. 1 \in DOMAIN probeOrder
  BY <1>1
<1>3. ProbeTyped
  BY <1>2, FirstVisit DEF ProbeInit, ProbeTyped
<1>4. \A policy \in Policies, v \in Visits : ~Scored(policy, v)
  BY DEF ProbeInit, Scored
<1> QED BY <1>3, <1>4 DEF ProbeInv, ProbeInit, RecordsStand

(* The next cell of the trace, the next trace, or the end.                 *)
LEMMA AdvanceKeeps ==
  ASSUME ProbeTyped, probePc = "visit", Behind, UNCHANGED probeOrder,
         NEW carried \in {NoTrace, probeAt}, ProbeAdvance(carried),
         NativeAhead(probeCell + 1) => carried = probeAt,
         probeRecord'[Policy][probeAt] # NoTrace,
         \A policy \in Policies, v \in Visits : Scored(policy, v) => Scored(policy, v)'
  PROVE  /\ probeReference' \in Visits \cup {NoTrace} /\ probeAt' \in Visits
         /\ probeCell' \in DOMAIN probeOrder
         /\ probePc' = "visit" => AtHand' /\ Behind'
         /\ probePc' = "finished" => AllScored'
<1> DEFINE all == Len(probeOrder)
<1>1. /\ DOMAIN probeOrder = 1..all /\ all \in Nat \ {0} /\ probeCell \in 1..all
      /\ \A i \in DOMAIN probeOrder : probeOrder[i] \in Policies
  BY ProbeOrderFacts
<1> HIDE DEF all
<1>2. probeAt \in Visits /\ \A v \in Visits : v = <<v[1], v[2]>> /\ v[1] \in Nat /\ v[2] \in Nat
         /\ v[1] >= 1 /\ v[1] <= Cases /\ v[2] >= 1 /\ v[2] <= Len(Gaps)
  <2>1. probeAt \in Visits
    BY DEF ProbeTyped
  <2>2. \A v \in Visits : v = <<v[1], v[2]>> /\ v[1] \in 1..Cases /\ v[2] \in 1..Len(Gaps)
    BY ProbeConstants DEF Visits
  <2> QED BY <2>1, <2>2, ProbeConstants
<1>3. ASSUME NEW v \in Visits, NEW i \in DOMAIN probeOrder,
             Earlier(v, probeAt) \/ (v = probeAt /\ i <= probeCell)
      PROVE  Scored(probeOrder[i], v)'
  <2>1. CASE v = probeAt /\ i = probeCell
    <3>1. probeRecord'[probeOrder[i]][v] # NoTrace
      BY <2>1 DEF Policy
    <3> QED BY <3>1 DEF Scored
  <2>2. CASE ~(v = probeAt /\ i = probeCell)
    <3>1. Earlier(v, probeAt) \/ (v = probeAt /\ i < probeCell)
      BY <1>1, <1>3, <2>2
    <3>2. Scored(probeOrder[i], v)
      BY <3>1 DEF Behind
    <3>3. probeRecord'[probeOrder[i]][v] # NoTrace
      BY <1>1, <3>2 DEF Scored
    <3> QED BY <3>3 DEF Scored
  <2> QED BY <2>1, <2>2
<1>4. CASE probeCell < all
  <2>1. /\ probeCell' = probeCell + 1 /\ probeReference' = carried
        /\ probePc' = "visit" /\ probeAt' = probeAt
    BY <1>4 DEF ProbeAdvance, all
  <2>2. probeCell + 1 \in DOMAIN probeOrder
    BY <1>1, <1>4
  <2>3. AtHand'
    BY <2>1 DEF AtHand, NativeAhead
  <2>4. \A v \in Visits, i \in DOMAIN probeOrder :
          Earlier(v, probeAt) \/ (v = probeAt /\ i < probeCell + 1) => Scored(probeOrder[i], v)'
    BY <1>1, <1>3
  <2>5. Behind'
    BY <2>1, <2>4 DEF Behind, Earlier, Scored
  <2> QED BY <1>2, <2>1, <2>2, <2>3, <2>5
<1>5. CASE ~(probeCell < all)
  <2>1. /\ probeCell' = 1 /\ probeReference' = NoTrace
        /\ IF probeAt[2] < Len(Gaps)
           THEN probeAt' = <<probeAt[1], probeAt[2] + 1>> /\ probePc' = "visit"
           ELSE IF probeAt[1] < Cases
           THEN probeAt' = <<probeAt[1] + 1, 1>> /\ probePc' = "visit"
           ELSE probeAt' = probeAt /\ probePc' = "finished"
    BY <1>5 DEF ProbeAdvance, all, ReferenceAtTrace
  <2>2. 1 \in DOMAIN probeOrder
    BY <1>1
  <2>3. AtHand'
    <3>1. \A i \in DOMAIN probeOrder : ~(i < 1)
      BY <1>1
    <3> QED BY <2>1, <3>1 DEF AtHand, NativeAhead
  <2>4. \A v \in Visits, i \in DOMAIN probeOrder :
          Earlier(v, probeAt) \/ v = probeAt => Scored(probeOrder[i], v)'
    BY <1>1, <1>3, <1>5
  <2>5. ASSUME NEW w \in Visits, probeAt' = w, probePc' = "visit",
               \A v \in Visits : Earlier(v, w) => Earlier(v, probeAt) \/ v = probeAt
        PROVE  Behind'
    <3>1. \A v \in Visits, i \in DOMAIN probeOrder : Earlier(v, w) => Scored(probeOrder[i], v)'
      BY <2>4, <2>5
    <3>2. \A i \in DOMAIN probeOrder : ~(i < 1)
      BY <1>1
    <3> QED BY <2>1, <2>5, <3>1, <3>2 DEF Behind, Earlier, Scored
  <2>6. CASE probeAt[2] < Len(Gaps)
    <3> DEFINE w == <<probeAt[1], probeAt[2] + 1>>
    <3>1. w \in Visits
      <4>1. probeAt[1] \in 1..Cases /\ probeAt[2] + 1 \in 1..Len(Gaps)
        BY <1>2, <2>6, ProbeConstants
      <4> QED BY <4>1, ProbeConstants DEF Visits
    <3>2. ASSUME NEW v \in Visits, Earlier(v, w) PROVE Earlier(v, probeAt) \/ v = probeAt
      <4>1. v[1] < probeAt[1] \/ (v[1] = probeAt[1] /\ v[2] < probeAt[2] + 1)
        BY <3>2 DEF Earlier
      <4>2. v[1] < probeAt[1] \/ (v[1] = probeAt[1] /\ v[2] < probeAt[2])
            \/ (v[1] = probeAt[1] /\ v[2] = probeAt[2])
        BY <1>2, <4>1
      <4>3. v = <<v[1], v[2]>> /\ probeAt = <<probeAt[1], probeAt[2]>>
        BY <1>2
      <4> QED BY <4>2, <4>3 DEF Earlier
    <3>3. probeAt' = w /\ probePc' = "visit"
      BY <2>1, <2>6
    <3> HIDE DEF w
    <3>4. Behind'
      BY <2>5, <3>1, <3>2, <3>3
    <3> QED BY <2>1, <2>2, <2>3, <3>1, <3>3, <3>4
  <2>7. CASE ~(probeAt[2] < Len(Gaps)) /\ probeAt[1] < Cases
    <3> DEFINE w == <<probeAt[1] + 1, 1>>
    <3>1. w \in Visits
      <4>1. probeAt[1] + 1 \in 1..Cases /\ 1 \in 1..Len(Gaps)
        BY <1>2, <2>7, ProbeConstants
      <4> QED BY <4>1, ProbeConstants DEF Visits
    <3>2. ASSUME NEW v \in Visits, Earlier(v, w) PROVE Earlier(v, probeAt) \/ v = probeAt
      <4>1. v[1] < probeAt[1] + 1 \/ (v[1] = probeAt[1] + 1 /\ v[2] < 1)
        BY <3>2 DEF Earlier
      <4>2. v[1] < probeAt[1] \/ (v[1] = probeAt[1] /\ v[2] < probeAt[2])
            \/ (v[1] = probeAt[1] /\ v[2] = probeAt[2])
        BY <1>2, <2>7, <4>1, ProbeConstants
      <4>3. v = <<v[1], v[2]>> /\ probeAt = <<probeAt[1], probeAt[2]>>
        BY <1>2
      <4> QED BY <4>2, <4>3 DEF Earlier
    <3>3. probeAt' = w /\ probePc' = "visit"
      BY <2>1, <2>7
    <3> HIDE DEF w
    <3>4. Behind'
      BY <2>5, <3>1, <3>2, <3>3
    <3> QED BY <2>1, <2>2, <2>3, <3>1, <3>3, <3>4
  <2>8. CASE ~(probeAt[2] < Len(Gaps)) /\ ~(probeAt[1] < Cases)
    <3>1. probeAt' = probeAt /\ probePc' = "finished"
      BY <2>1, <2>8
    <3>2. ASSUME NEW v \in Visits PROVE Earlier(v, probeAt) \/ v = probeAt
      <4>1. v[1] < probeAt[1] \/ (v[1] = probeAt[1] /\ v[2] < probeAt[2])
            \/ (v[1] = probeAt[1] /\ v[2] = probeAt[2])
        BY <1>2, <2>8, ProbeConstants
      <4>2. v = <<v[1], v[2]>> /\ probeAt = <<probeAt[1], probeAt[2]>>
        BY <1>2
      <4> QED BY <4>1, <4>2 DEF Earlier
    <3>3. \A v \in Visits, i \in DOMAIN probeOrder : Scored(probeOrder[i], v)'
      BY <2>4, <3>2
    <3>4. AllScored'
      BY <3>3 DEF AllScored, Scored
    <3> QED BY <1>2, <2>1, <2>2, <3>1, <3>4
  <2> QED BY <2>6, <2>7, <2>8
<1> QED BY <1>4, <1>5

(* The record that is about to be written.                                 *)
LEMMA NewRecordStands ==
  ASSUME ProbeTyped, AtHand, NEW shown \in Shown(Policy, probeAt)
  PROVE  /\ TraceRecord(Policy, probeAt, shown) \in TraceRecords
         /\ RecordStands(Policy, probeAt, TraceRecord(Policy, probeAt, shown))
<1> DEFINE r == TraceRecord(Policy, probeAt, shown)
           n == Snapshot(probeAt)
           m == ProbePrompt + Trace(probeAt)
<1>1. Policy \in Policies /\ probeAt \in Visits /\ probeReference \in {NoTrace, probeAt}
  BY ProbeOrderFacts DEF ProbeTyped, AtHand
<1>2. n \in Nat /\ n >= ProbePrompt /\ m = n + 1 /\ m \in Nat /\ m >= ProbePrompt
  <2>1. n \in Nat /\ n >= ProbePrompt + Fact /\ m = n + 1
    BY <1>1, SnapshotFacts
  <2> HIDE DEF n, m
  <2> QED BY <2>1, ProbeConstants
<1>3. /\ RoundsRun(Policy, n) = AuditedRounds(Policy, n) /\ RoundsRun(Policy, n) \in Nat
      /\ RoundsRun(Policy, m) = AuditedRounds(Policy, m) /\ RoundsRun(Policy, m) \in Nat
  <2> HIDE DEF n, m
  <2> QED BY <1>2, RoundsCounted
<1>4. AuditedRounds(Policy, m) = 0 => AuditedRounds(Policy, n) = 0
  <2> HIDE DEF n, m
  <2> SUFFICES ASSUME Policy # "native", ~(n < ProbeCapacity), AuditedRounds(Policy, m) = 0
               PROVE  AuditedRounds(Policy, n) = 0
    BY DEF AuditedRounds
  <2> DEFINE d == n - ProbeCapacity
             q == (d + 1) \div ProbeRecent
             e == (d + 1) % ProbeRecent
  <2>0. ProbeCapacity \in Nat /\ ProbeRecent \in Nat \ {0}
    BY ProbeConstants
  <2>1. d \in Nat /\ ~(m < ProbeCapacity) /\ m - ProbeCapacity = d + 1
    BY <1>2, <2>0
  <2>2. q = 0
    BY <2>1 DEF AuditedRounds
  <2> HIDE DEF d
  <2>3. d + 1 = ProbeRecent * q + e /\ e \in 0..(ProbeRecent - 1)
    BY <2>0, <2>1, Division
  <2> HIDE DEF q, e
  <2>4. ProbeRecent * q = 0
    BY <2>0, <2>2
  <2>5. d \in 0..(ProbeRecent - 1) /\ ProbeRecent * 0 + d = d
    BY <2>0, <2>1, <2>3, <2>4
  <2>6. d \div ProbeRecent = 0
    BY <2>0, <2>5, DivisionIsUnique
  <2> QED BY <2>6 DEF AuditedRounds, d
<1>5. /\ shown.retained \in Retention /\ shown.native \in BOOLEAN
      /\ CountsHold(Policy, probeAt, shown.retained)
      /\ AuditedRounds(Policy, n) = 0 => shown.native
  BY <1>1, ShownHolds
<1>6. r = [before |-> RoundsRun(Policy, n), rounds |-> RoundsRun(Policy, m),
           retained |-> shown.retained, native |-> shown.native,
           compared |-> IF Policy # "native" /\ RoundsRun(Policy, m) = 0
                        THEN probeReference ELSE NoTrace]
  BY DEF TraceRecord
<1> HIDE DEF r, n, m
<1>7. r \in TraceRecords
  BY <1>1, <1>3, <1>5, <1>6 DEF TraceRecords
<1>8. /\ r.before = AuditedRounds(Policy, n) /\ r.rounds = AuditedRounds(Policy, m)
      /\ r.retained = shown.retained /\ r.native = shown.native
      /\ r.compared = IF Policy # "native" /\ r.rounds = 0 THEN probeReference ELSE NoTrace
  BY <1>3, <1>6
<1>9. InOrder(Policy)
  BY DEF InOrder, Policy, ProbeTyped
<1>10. ASSUME NEW j \in DOMAIN probeOrder, NativeAhead(j), probeOrder[j] = Policy
       PROVE  probeReference = probeAt
  <2>1. j = probeCell
    BY <1>10, ProbeOrderFacts DEF Policy
  <2> QED BY <1>10, <2>1 DEF AtHand
<1>11. /\ r.before = AuditedRounds(Policy, Snapshot(probeAt))
       /\ r.rounds = AuditedRounds(Policy, ProbePrompt + Trace(probeAt))
  BY <1>8 DEF n, m
<1>12. CountsHold(Policy, probeAt, r.retained) /\ (r.rounds = 0 => r.native)
  BY <1>4, <1>5, <1>8
<1>13. r.compared \in {NoTrace, probeAt}
  BY <1>1, <1>8
<1>14. RecordStands(Policy, probeAt, r)
  BY <1>8, <1>9, <1>10, <1>11, <1>12, <1>13 DEF RecordStands
<1> QED BY <1>7, <1>14 DEF r

LEMMA ScoreKeeps == ProbeInv /\ Score => ProbeInv'
<1> SUFFICES ASSUME ProbeInv, Score PROVE ProbeInv'
  OBVIOUS
<1>1. ProbeTyped /\ RecordsStand /\ AtHand /\ Behind /\ probePc = "visit"
  BY DEF ProbeInv, Score
<1>2. PICK shown \in Shown(Policy, probeAt) :
        probeRecord' = [probeRecord EXCEPT ![Policy][probeAt] = TraceRecord(Policy, probeAt, shown)]
  BY DEF Score
<1>3. PICK p \in Policies, w \in Visits, r \in TraceRecords :
        p = Policy /\ w = probeAt /\ r = TraceRecord(Policy, probeAt, shown)
  BY <1>1, NewRecordStands, ProbeOrderFacts DEF ProbeTyped
<1>4. RecordStands(p, w, r) /\ r # NoTrace
  BY <1>1, <1>3, NewRecordStands, ProbeAssumption
<1>5. probeRecord' = [probeRecord EXCEPT ![p][w] = r] /\ UNCHANGED probeOrder
  BY <1>2, <1>3 DEF Score
<1>6. /\ probeRecord' \in [Policies -> [Visits -> TraceRecords \cup {NoTrace}]]
      /\ probeRecord'[p][w] = r
      /\ \A policy \in Policies, v \in Visits :
           ~(policy = p /\ v = w) => probeRecord'[policy][v] = probeRecord[policy][v]
  <2>1. probeRecord \in [Policies -> [Visits -> TraceRecords \cup {NoTrace}]]
    BY <1>1 DEF ProbeTyped
  <2> QED BY <1>5, <2>1
<1>7. \A policy \in Policies, v \in Visits : Scored(policy, v) => Scored(policy, v)'
  BY <1>4, <1>6 DEF Scored
<1>8. probeRecord'[Policy][probeAt] # NoTrace
  BY <1>3, <1>4, <1>6
<1> DEFINE carried == IF Policy = "native" THEN probeAt ELSE probeReference
<1>9. ProbeAdvance(carried) /\ carried \in {NoTrace, probeAt}
  BY <1>1 DEF Score, AtHand
<1>10. NativeAhead(probeCell + 1) => carried = probeAt
  <2> SUFFICES ASSUME NEW i \in DOMAIN probeOrder, i < probeCell + 1, probeOrder[i] = "native",
                      Policy # "native"
               PROVE  probeReference = probeAt
    BY DEF NativeAhead
  <2>1. i # probeCell
    BY DEF Policy
  <2>2. i < probeCell
    BY <1>1, <2>1, ProbeOrderFacts
  <2> QED BY <1>1, <2>2 DEF AtHand, NativeAhead
<1> HIDE DEF carried
<1>11. /\ probeReference' \in Visits \cup {NoTrace} /\ probeAt' \in Visits
       /\ probeCell' \in DOMAIN probeOrder
       /\ probePc' = "visit" => AtHand' /\ Behind'
       /\ probePc' = "finished" => AllScored'
  BY <1>1, <1>5, <1>7, <1>8, <1>9, <1>10, AdvanceKeeps
<1>12. ProbeTyped'
  BY <1>1, <1>5, <1>6, <1>11 DEF ProbeTyped
<1>13. RecordsStand'
  <2> SUFFICES ASSUME NEW policy \in Policies, NEW v \in Visits, Scored(policy, v)'
               PROVE  RecordStands(policy, v, probeRecord[policy][v])'
    BY DEF RecordsStand
  <2>1. RecordStands(policy, v, probeRecord'[policy][v])
    <3>1. CASE policy = p /\ v = w
      BY <1>4, <1>6, <3>1
    <3>2. CASE ~(policy = p /\ v = w)
      BY <1>1, <1>6, <3>2 DEF RecordsStand, Scored
    <3> QED BY <3>1, <3>2
  <2> QED BY <1>5, <2>1 DEF RecordStands, InOrder, NativeAhead
<1> QED BY <1>11, <1>12, <1>13 DEF ProbeInv

LEMMA RecordsKept ==
  ASSUME RecordsStand, UNCHANGED <<probeOrder, probeRecord>> PROVE RecordsStand'
BY DEF RecordsStand, Scored, RecordStands, InOrder, NativeAhead

LEMMA SkipKeeps == ProbeInv /\ ProbeSkip => ProbeInv'
<1> SUFFICES ASSUME ProbeInv, ProbeSkip PROVE ProbeInv'
  OBVIOUS
<1>1. ProbeTyped /\ RecordsStand /\ AtHand /\ Behind /\ probePc = "visit"
  BY DEF ProbeInv, ProbeSkip
<1>2. UNCHANGED <<probeOrder, probeRecord>> /\ probeRecord[Policy][probeAt] # NoTrace
  BY DEF ProbeSkip
<1>3. \A policy \in Policies, v \in Visits : Scored(policy, v) => Scored(policy, v)'
  BY <1>2 DEF Scored
<1>4. probeRecord'[Policy][probeAt] # NoTrace
  BY <1>2
<1> DEFINE carried == ReadBack
<1>5. ProbeAdvance(carried) /\ carried \in {NoTrace, probeAt}
  BY <1>1 DEF ProbeSkip, AtHand, ReadBack
<1>6. NativeAhead(probeCell + 1) => carried = probeAt
  <2> SUFFICES ASSUME NEW i \in DOMAIN probeOrder, i < probeCell + 1, probeOrder[i] = "native",
                      Policy # "native"
               PROVE  probeReference = probeAt
    BY DEF NativeAhead, ReadBack
  <2>1. i # probeCell
    BY DEF Policy
  <2>2. i < probeCell
    BY <1>1, <2>1, ProbeOrderFacts
  <2> QED BY <1>1, <2>2 DEF AtHand, NativeAhead
<1> HIDE DEF carried
<1>7. /\ probeReference' \in Visits \cup {NoTrace} /\ probeAt' \in Visits
      /\ probeCell' \in DOMAIN probeOrder
      /\ probePc' = "visit" => AtHand' /\ Behind'
      /\ probePc' = "finished" => AllScored'
  BY <1>1, <1>2, <1>3, <1>4, <1>5, <1>6, AdvanceKeeps
<1>8. ProbeTyped'
  BY <1>1, <1>2, <1>7 DEF ProbeTyped
<1> QED BY <1>1, <1>2, <1>7, <1>8, RecordsKept DEF ProbeInv

LEMMA ProbeStepKeeps == ProbeInv /\ [ProbeNext]_probeVars => ProbeInv'
<1> SUFFICES ASSUME ProbeInv, [ProbeNext]_probeVars PROVE ProbeInv'
  OBVIOUS
<1>0. ProbeTyped /\ RecordsStand
  BY DEF ProbeInv
<1>1. CASE ProbeStart
  <2>1. /\ probePc' = "visit" /\ probeAt' = <<1, 1>> /\ probeCell' = 1
        /\ probeReference' = NoTrace /\ UNCHANGED <<probeOrder, probeRecord>>
    BY <1>1 DEF ProbeStart
  <2>2. /\ 1 \in DOMAIN probeOrder /\ \A i \in DOMAIN probeOrder : ~(i < 1)
    BY <1>0, ProbeOrderFacts
  <2>3. ProbeTyped'
    BY <1>0, <2>1, <2>2, FirstVisit DEF ProbeTyped
  <2>4. AtHand'
    BY <2>1, <2>2 DEF AtHand, NativeAhead
  <2>5. Behind'
    <3>1. \A v \in Visits : ~Earlier(v, <<1, 1>>)
      BY FirstVisit
    <3> QED BY <2>1, <2>2, <3>1 DEF Behind, Earlier
  <2> QED BY <1>0, <2>1, <2>3, <2>4, <2>5, RecordsKept DEF ProbeInv
<1>2. CASE ProbeSkip
  BY <1>2, SkipKeeps
<1>3. CASE Score
  BY <1>3, ScoreKeeps
<1>4. CASE ProbeCrash
  <2>1. probePc' = "idle" /\ UNCHANGED <<probeOrder, probeRecord, probeReference, probeAt, probeCell>>
    BY <1>4 DEF ProbeCrash, probeDisk, probeRun
  <2>2. ProbeTyped'
    BY <1>0, <2>1 DEF ProbeTyped
  <2> QED BY <1>0, <2>1, <2>2, RecordsKept DEF ProbeInv
<1>5. CASE ProbeEdit \/ UNCHANGED probeVars
  <2>1. UNCHANGED <<probeOrder, probeRecord, probeReference, probeAt, probeCell, probePc>>
    BY <1>5 DEF ProbeEdit, probeVars, probeDisk, probeRun
  <2>2. ProbeTyped'
    BY <1>0, <2>1 DEF ProbeTyped
  <2>3. (probePc = "visit" => AtHand /\ Behind)' /\ (probePc = "finished" => AllScored)'
    BY <2>1 DEF ProbeInv, AtHand, Behind, AllScored, NativeAhead, Scored
  <2> QED BY <1>0, <2>1, <2>2, <2>3, RecordsKept DEF ProbeInv
<1> QED BY <1>1, <1>2, <1>3, <1>4, <1>5 DEF ProbeNext, ProbeWork

LEMMA ProbeInvShows == ProbeInv => ProbeSound
<1> SUFFICES ASSUME ProbeInv PROVE ProbeSound
  OBVIOUS
<1>1. ProbeTyped /\ RecordsStand
  BY DEF ProbeInv
<1>2. ASSUME NEW policy \in Policies, NEW v \in Visits, Scored(policy, v)
      PROVE  RecordAccepted(policy, v) /\ PairAccepted(policy, v)
  <2> DEFINE r == probeRecord[policy][v]
  <2>1. RecordStands(policy, v, r)
    BY <1>1, <1>2 DEF RecordsStand
  <2> HIDE DEF r
  <2>2. RecordAccepted(policy, v)
    BY <2>1 DEF RecordStands, RecordAccepted, CountsHold, r
  <2>3. PairAccepted(policy, v)
    BY <2>1 DEF RecordStands, PairAccepted, r
  <2> QED BY <2>2, <2>3
<1>3. ProbeRecords = {x \in Policies \X Visits : Scored(x[1], x[2])}
  BY DEF ProbeRecords, Scored
<1>4. ASSUME NEW x \in ProbeRecords
      PROVE  x[1] \in Policies /\ x[2] \in Visits /\ Scored(x[1], x[2]) /\ x = <<x[1], x[2]>>
  BY <1>3
<1>5. CountsPassAudit
  BY <1>2, <1>4 DEF CountsPassAudit
<1>6. ComparedWithOwn
  <2> SUFFICES ASSUME NEW x \in ProbeRecords
               PROVE  LET r == probeRecord[x[1]][x[2]] IN
                      /\ r.compared \in {NoTrace, x[2]}
                      /\ (x[1] # "native" /\ r.rounds = 0 /\
                          \E i, j \in DOMAIN probeOrder :
                            i < j /\ probeOrder[i] = "native" /\ probeOrder[j] = x[1])
                         => r.compared = x[2]
    BY DEF ComparedWithOwn
  <2>1. RecordStands(x[1], x[2], probeRecord[x[1]][x[2]])
    BY <1>1, <1>4 DEF RecordsStand
  <2> QED BY <2>1 DEF RecordStands, NativeAhead
<1>7. FinishedPasses
  <2> SUFFICES ASSUME probePc = "finished", probeSource = probeManifest PROVE AuditPasses
    BY DEF FinishedPasses
  <2>1. AllScored
    BY DEF ProbeInv
  <2>2. ASSUME NEW p \in Policies, NEW v \in Visits PROVE Scored(p, v) <=> InOrder(p)
    <3>1. Scored(p, v) => InOrder(p)
      BY <1>1 DEF RecordsStand, RecordStands
    <3>2. InOrder(p) => Scored(p, v)
      BY <2>1 DEF InOrder, AllScored
    <3> QED BY <3>1, <3>2
  <2>3. ProbeRecords = {p \in Policies : InOrder(p)} \X Visits
    BY <1>3, <2>2
  <2>4. \A x \in ProbeRecords : RecordAccepted(x[1], x[2]) /\ PairAccepted(x[1], x[2])
    BY <1>2, <1>4
  <2> QED BY <2>3, <2>4 DEF AuditPasses
<1> QED BY <1>5, <1>6, <1>7 DEF ProbeSound

(* The delayed-lookup probe, for every gap, capacity, order of the cells    *)
(* and number of crashes and edits: records pass the audit of their        *)
(* counts, a cell that evicted nothing was held against the native scores  *)
(* of its own trace, and a finished directory passes the audit while its   *)
(* sources stay.                                                           *)
THEOREM ProbeStaysSound == ProbeSpec => []ProbeSound
<1>1. ProbeInit => ProbeInv
  BY ProbeStarts
<1>2. ProbeInv /\ [ProbeNext]_probeVars => ProbeInv'
  BY ProbeStepKeeps
<1>3. ProbeInv => ProbeSound
  BY ProbeInvShows
<1> QED BY <1>1, <1>2, <1>3, PTL DEF ProbeSpec

-----------------------------------------------------------------------------
(* The audits across two directories.                                      *)

LEMMA LesserOfTwo ==
  ASSUME NEW a \in Nat, NEW b \in Nat
  PROVE  Min({a, b}) = IF a <= b THEN a ELSE b
<1> DEFINE m == IF a <= b THEN a ELSE b
<1>1. m \in {a, b} /\ \A y \in {a, b} : m <= y
  OBVIOUS
<1>2. \A x \in {a, b} : (\A y \in {a, b} : x <= y) => x = m
  OBVIOUS
<1> HIDE DEF m
<1>3. (CHOOSE x \in {a, b} : \A y \in {a, b} : x <= y) = m
  BY <1>1, <1>2
<1> QED BY <1>3 DEF Min, m

(* A directory has answers to its own problems in its own cells, each from *)
(* one of the two drivers.                                                 *)
AnswersTyped ==
  /\ pairStudy \in {"frontier", "control"} /\ driver \in {1, 2}
  /\ departure \in Nat \ {0}
  /\ \A c \in {"C1", "C2", "native"} : ends[c] \in Nat \ {0}
  /\ Natural(ends)
  /\ answers = [d \in Dirs |-> answers[d]]
  /\ \A d \in Dirs : \A k \in DOMAIN answers[d] : answers[d][k] \in {1, 2}

AuditsInv == AnswersTyped /\ ReportSeesDrift /\ ReportExtends /\ ReportIsOfRecord

LEMMA CapsAndPrefixes ==
  /\ ShortCap \in Nat \ {0} /\ LongCap \in Nat \ {0} /\ ShortCap < LongCap
  /\ Compressed = {"C1", "C2"} /\ \A c \in Compressed : SharedLength[c] \in Nat \ {0, 1}
BY StudyAssumption

LEMMA AuditsStart == AuditsInit => AuditsInv
<1> SUFFICES ASSUME AuditsInit PROVE AuditsInv
  OBVIOUS
<1>1. AnswersTyped
  <2>1. pairStudy \in {"frontier", "control"} /\ driver \in {1, 2} /\ departure \in Nat \ {0}
    BY StudyAssumption DEF AuditsInit
  <2>2. ends \in [Compressed \cup {"native"} -> Lengths] /\ Natural(ends)
    BY DEF AuditsInit
  <2>3. \A c \in {"C1", "C2", "native"} : ends[c] \in Nat \ {0}
    BY <2>2, StudyAssumption
  <2>4. answers = [d \in Dirs |-> << >>]
    BY DEF AuditsInit
  <2>5. answers = [d \in Dirs |-> answers[d]] /\ \A d \in Dirs : DOMAIN answers[d] = {}
    BY <2>4
  <2> QED BY <2>1, <2>2, <2>3, <2>5 DEF AnswersTyped
<1>2. ~Reported
  BY DEF AuditsInit, Reported
<1> QED BY <1>1, <1>2 DEF AuditsInv, ReportSeesDrift, ReportExtends, ReportIsOfRecord

(* Where an answer ends, and how much of it a run keeps.                   *)
LEMMA EndTyped ==
  ASSUME AnswersTyped, NEW c \in {"C1", "C2", "native"}, NEW drv \in {1, 2}
  PROVE  /\ EndOf(c, drv) \in Nat \ {0}
         /\ \A cap \in Nat \ {0} : Emitted(c, drv, cap) =
              IF cap <= EndOf(c, drv) THEN cap ELSE EndOf(c, drv)
<1>1. EndOf(c, drv) \in Nat \ {0}
  BY DEF AnswersTyped, EndOf
<1> QED BY <1>1, LesserOfTwo DEF Emitted

(* An answer of the same driver holds the gate on the common prefix, ...   *)
LEMMA HonestPrefix ==
  ASSUME AnswersTyped, NEW drv \in {1, 2}, NEW c \in Compressed, NEW cap \in Nat \ {0}
  PROVE  PrefixHolds(c, drv, drv, cap)
<1> DEFINE e == EndOf(c, drv)
           o == EndOf("native", drv)
           s == SharedLength[c]
           n == Compared(c, drv, cap)
<1>1. c \in {"C1", "C2"} /\ s \in Nat \ {0, 1} /\ c # "native"
  BY CapsAndPrefixes
<1>2. e \in Nat \ {0} /\ o \in Nat \ {0}
  BY <1>1, EndTyped
<1>3. /\ Emitted(c, drv, cap) = IF cap <= e THEN cap ELSE e
      /\ Emitted("native", drv, cap) = IF cap <= o THEN cap ELSE o
  BY <1>1, EndTyped
<1>4. /\ n \in Nat /\ n <= s /\ n <= cap /\ n <= o
  <2>1. Emitted("native", drv, cap) \in Nat
    BY <1>2, <1>3
  <2>2. n = IF Emitted("native", drv, cap) <= s THEN Emitted("native", drv, cap) ELSE s
    BY <1>1, <2>1, LesserOfTwo DEF Compared
  <2> QED BY <1>1, <1>2, <1>3, <2>1, <2>2
(* The answer ends where the native one does, or both end behind the prefix. *)
<1>5. e = o \/ (e > s /\ o > s)
  <2>1. IF ends["native"] <= s THEN ends[c] = ends["native"] ELSE ends[c] > s
    BY DEF AnswersTyped, Natural
  <2>2. ends[c] \in Nat /\ ends["native"] \in Nat
    BY <1>1 DEF AnswersTyped
  <2> QED BY <1>1, <2>1, <2>2 DEF EndOf
<1> HIDE DEF e, o, n, s
<1>6. Emitted(c, drv, cap) >= n
  BY <1>1, <1>2, <1>3, <1>4, <1>5
<1>7. ASSUME NEW i \in 1..n PROVE Token(c, drv, i) = Token("native", drv, i)
  <2>1. ~(i > s)
    BY <1>1, <1>4, <1>7
  <2>2. i = e <=> i = o
    BY <1>1, <1>2, <1>4, <1>5, <1>7
  <2> QED BY <2>1, <2>2 DEF Token, s, e, o
<1> QED BY <1>6, <1>7 DEF PrefixHolds, Agree, n

(* ... and the one on its extension.                                       *)
LEMMA HonestExtension ==
  ASSUME AnswersTyped, NEW drv \in {1, 2}, NEW c \in {"C1", "C2", "native"}
  PROVE  ExtendsAnswer(c, drv, drv)
<1>1. EndOf(c, drv) \in Nat \ {0}
  BY EndTyped
<1>2. /\ Emitted(c, drv, ShortCap) = IF ShortCap <= EndOf(c, drv) THEN ShortCap ELSE EndOf(c, drv)
      /\ Emitted(c, drv, LongCap) = IF LongCap <= EndOf(c, drv) THEN LongCap ELSE EndOf(c, drv)
  BY CapsAndPrefixes, EndTyped
<1> DEFINE e == EndOf(c, drv)
<1> HIDE DEF e
<1>3. Emitted(c, drv, LongCap) >= Emitted(c, drv, ShortCap)
  BY <1>1, <1>2, CapsAndPrefixes DEF e
<1>4. Terminated(c, drv, ShortCap) =>
        Terminated(c, drv, LongCap) /\ Emitted(c, drv, LongCap) = Emitted(c, drv, ShortCap)
  BY <1>1, <1>2, CapsAndPrefixes DEF Terminated
<1>5. Agree(c, drv, c, drv, Emitted(c, drv, ShortCap))
  BY DEF Agree
<1> QED BY <1>3, <1>4, <1>5 DEF ExtendsAnswer

LEMMA HonestPass == AnswersTyped => HonestAnswersPass
<1> SUFFICES ASSUME AnswersTyped, NEW drv \in Drivers
             PROVE  /\ \A c \in Compressed, cap \in {ShortCap, LongCap} :
                         PrefixHolds(c, drv, drv, cap)
                    /\ \A c \in Compressed \cup {"native"} : ExtendsAnswer(c, drv, drv)
  BY DEF HonestAnswersPass
<1>1. drv \in {1, 2}
  BY DEF Drivers, AnswersTyped
<1> QED BY <1>1, HonestPrefix, HonestExtension, CapsAndPrefixes

(* A gate on the prefix that two drivers hold is passed before they part.  *)
LEMMA PrefixSeesDrift ==
  ASSUME AnswersTyped, NEW a \in {1, 2}, NEW b \in {1, 2}, a # b, NEW c \in Compressed,
         PrefixHolds(c, a, b, LongCap)
  PROVE  departure > SharedLength[c] \/ departure > Emitted("native", b, LongCap)
<1> DEFINE s == SharedLength[c]
           m == Emitted("native", b, LongCap)
           n == Compared(c, b, LongCap)
<1>1. s \in Nat /\ m \in Nat /\ departure \in Nat \ {0}
  BY CapsAndPrefixes, EndTyped DEF AnswersTyped
<1>2. n = IF m <= s THEN m ELSE s
  BY <1>1, LesserOfTwo DEF Compared
<1>3. \A i \in 1..n : Token(c, a, i) = Token("native", b, i)
  BY DEF PrefixHolds, Agree
<1>4. \A i \in 1..n : Token(c, a, i).under = Token("native", b, i).under
  BY <1>3
<1>5. \A i \in 1..n : ~(i >= departure)
  BY <1>4 DEF Token
<1> HIDE DEF s, m, n
<1> QED BY <1>1, <1>2, <1>5 DEF s, m

(* A gate on an extension that two answers hold leaves nothing to tell     *)
(* them apart under the lower cap.                                         *)
LEMMA ExtensionSame ==
  ASSUME AnswersTyped, NEW a \in {1, 2}, NEW b \in {1, 2}, NEW c \in {"C1", "C2", "native"},
         ExtendsAnswer(c, a, b)
  PROVE  /\ Emitted(c, a, ShortCap) = Emitted(c, b, ShortCap)
         /\ Terminated(c, a, ShortCap) <=> Terminated(c, b, ShortCap)
<1> DEFINE e == EndOf(c, a)
           f == EndOf(c, b)
           n == Emitted(c, a, ShortCap)
<1>1. e \in Nat \ {0} /\ f \in Nat \ {0} /\ ShortCap \in Nat \ {0}
  BY EndTyped, CapsAndPrefixes
<1>2. /\ n = IF ShortCap <= e THEN ShortCap ELSE e
      /\ Emitted(c, b, ShortCap) = IF ShortCap <= f THEN ShortCap ELSE f
  BY EndTyped, CapsAndPrefixes
<1>3. \A i \in 1..n : Token(c, a, i) = Token(c, b, i)
  BY DEF ExtendsAnswer, Agree
<1>4. \A i \in 1..n : Token(c, a, i).eos = Token(c, b, i).eos
  BY <1>3
<1>5. \A i \in 1..n : i = e <=> i = f
  BY <1>4 DEF Token
<1> HIDE DEF e, f, n
<1>6. n \in Nat /\ n >= 1
  BY <1>1, <1>2
<1>7. CASE e <= ShortCap
  <2>1. n = e
    BY <1>1, <1>2, <1>7
  <2>2. f = e
    BY <1>1, <1>5, <1>6, <2>1
  <2> QED BY <1>1, <1>2, <2>1, <2>2 DEF Terminated, e, f, n
<1>8. CASE ~(e <= ShortCap)
  <2>1. n = ShortCap /\ e > ShortCap
    BY <1>1, <1>2, <1>8
  <2>2. f > ShortCap
    BY <1>1, <1>5, <2>1
  <2> QED BY <1>1, <1>2, <2>1, <2>2 DEF Terminated, e, f, n
<1> QED BY <1>7, <1>8

(* Until there is a report nothing is said of one.                         *)
LEMMA UnreportedIsFine == ~Reported => ReportSeesDrift /\ ReportExtends /\ ReportIsOfRecord
BY DEF ReportSeesDrift, ReportExtends, ReportIsOfRecord

LEMMA TypedUnlessDisturbed ==
  ASSUME AnswersTyped, UNCHANGED pairSetting, driver' \in {1, 2}, UNCHANGED answers
  PROVE  AnswersTyped'
BY DEF AnswersTyped, pairSetting, Natural

LEMMA GenerateTyped ==
  ASSUME AnswersTyped, NEW d \in Dirs, Generate(d)
  PROVE  AnswersTyped'
<1>1. PICK k \in Keys(d) :
        answers' = [answers EXCEPT ![d] =
          [j \in DOMAIN @ \cup {k} |-> IF j = k THEN driver ELSE @[j]]]
  BY DEF Generate
<1>2. \A e \in Dirs : answers'[e] =
        IF e = d THEN [j \in DOMAIN answers[d] \cup {k} |-> IF j = k THEN driver ELSE answers[d][j]]
        ELSE answers[e]
  BY <1>1 DEF AnswersTyped
<1>3. answers' = [e \in Dirs |-> answers'[e]]
  BY <1>1 DEF AnswersTyped
<1>4. UNCHANGED <<pairStudy, driver, departure, ends>>
  BY DEF Generate, pairSetting
<1> QED BY <1>2, <1>3, <1>4 DEF AnswersTyped, Natural

LEMMA RemoveTyped ==
  ASSUME AnswersTyped, NEW d \in Dirs, RemoveAnswer(d)
  PROVE  AnswersTyped'
<1>1. PICK k \in DOMAIN answers[d] :
        answers' = [answers EXCEPT ![d] = [j \in DOMAIN @ \ {k} |-> @[j]]]
  BY DEF RemoveAnswer
<1>2. \A e \in Dirs : answers'[e] =
        IF e = d THEN [j \in DOMAIN answers[d] \ {k} |-> answers[d][j]] ELSE answers[e]
  BY <1>1 DEF AnswersTyped
<1>3. answers' = [e \in Dirs |-> answers'[e]]
  BY <1>1 DEF AnswersTyped
<1>4. UNCHANGED <<pairStudy, driver, departure, ends>>
  BY DEF RemoveAnswer, pairSetting
<1> QED BY <1>2, <1>3, <1>4 DEF AnswersTyped, Natural

(* The report that is made, and what stays.                                *)
LEMMA ReportMade ==
  ASSUME NEW sort \in {"preflight", "final", "extension"}, MakeReport(sort)
  PROVE  /\ pairReport'.kind = sort /\ pairReport'.base = answers["base"]
         /\ pairReport'.new = answers["new"] /\ pairReport'.seen = snapshot
         /\ UNCHANGED <<pairStudy, ends, departure, driver, answers, baseline>>
BY DEF MakeReport, pairSetting, pairDisk

LEMMA EmittedStays ==
  ASSUME UNCHANGED <<ends, departure>>
  PROVE  /\ \A c, drv, cap : Emitted(c, drv, cap)' = Emitted(c, drv, cap)
         /\ \A c, drv, cap : Terminated(c, drv, cap)' = Terminated(c, drv, cap)
BY DEF Emitted, Terminated, EndOf

(* A final report comes behind gates on the whole new directory.           *)
LEMMA FinalSeesDrift ==
  ASSUME AnswersTyped, Whole("new"), PairsHold("new", 2), MakeReport("final"),
         pairStudy = "frontier" => Whole("base")
  PROVE  ReportSeesDrift'
<1> USE DEF Dirs
<1> SUFFICES ASSUME NEW j \in Keys("new"), j[2] # "native"
             PROVE  LET native == IF pairStudy = "control" THEN answers["new"][<<j[1], "native">>]
                                  ELSE answers["base"][<<j[1], "native">>]
                    IN  native # answers["new"][j] =>
                          \/ departure > SharedLength[j[2]]
                          \/ departure > Emitted("native", native, LongCap)
  BY ReportMade, EmittedStays DEF ReportSeesDrift, Whole
<1> DEFINE native == IF pairStudy = "control" THEN answers["new"][<<j[1], "native">>]
                     ELSE answers["base"][<<j[1], "native">>]
           own == answers["new"][j]
<1>1. j[1] \in {1, 2} /\ j[2] \in {"C1", "C2"} /\ Cap("new") = LongCap
  BY DEF Keys, Problems, CellsOf, Cap
<1>2. own \in {1, 2}
  BY DEF Whole, AnswersTyped
<1>3. native = NativeOf("new", j[1])
  BY DEF NativeOf, NativeDir, CellsOf, AnswersTyped
<1>4. native \in {1, 2}
  <2>1. CASE pairStudy = "control"
    <3>1. <<j[1], "native">> \in Keys("new")
      BY <1>1, <2>1 DEF Keys, Problems, CellsOf
    <3> QED BY <2>1, <3>1 DEF Whole, AnswersTyped
  <2>2. CASE pairStudy = "frontier"
    <3>1. <<j[1], "native">> \in Keys("base")
      BY <1>1, <2>2 DEF Keys, Problems, CellsOf
    <3> QED BY <2>2, <3>1 DEF Whole, AnswersTyped
  <2> QED BY <2>1, <2>2 DEF AnswersTyped
<1>5. PrefixHolds(j[2], own, native, LongCap)
  BY <1>1, <1>3 DEF PairsHold, Prefix
<1> HIDE DEF native, own
<1>6. native # own => departure > SharedLength[j[2]] \/ departure > Emitted("native", native, LongCap)
  BY <1>1, <1>2, <1>4, <1>5, PrefixSeesDrift, CapsAndPrefixes
<1> QED BY <1>6 DEF native, own

LEMMA PreflightKeeps ==
  ASSUME AnswersTyped, Preflight
  PROVE  ReportSeesDrift' /\ ReportExtends' /\ ReportIsOfRecord'
<1>1. MakeReport("preflight") /\ pairStudy = "frontier" /\ answers["base"] = baseline
  BY DEF Preflight, ReferenceHolds
<1>2. /\ pairReport'.kind = "preflight" /\ pairReport'.base = baseline'
      /\ pairStudy' = "frontier"
  BY <1>1, ReportMade
<1> QED BY <1>2 DEF ReportSeesDrift, ReportExtends, ReportIsOfRecord

LEMMA AnalyzeFrontierKeeps ==
  ASSUME AnswersTyped, AnalyzeFrontier
  PROVE  ReportSeesDrift' /\ ReportExtends' /\ ReportIsOfRecord'
<1>1. /\ MakeReport("final") /\ pairStudy = "frontier" /\ answers["base"] = baseline
      /\ Whole("base") /\ Whole("new") /\ PairsHold("new", 2)
  BY DEF AnalyzeFrontier, ReferenceHolds
<1>2. pairReport'.kind = "final" /\ pairReport'.base = baseline' /\ pairStudy' = "frontier"
  BY <1>1, ReportMade
<1>3. ReportSeesDrift'
  BY <1>1, FinalSeesDrift
<1> QED BY <1>2, <1>3 DEF ReportExtends, ReportIsOfRecord

LEMMA AuditCompletedKeeps ==
  ASSUME AnswersTyped, AuditCompleted
  PROVE  ReportSeesDrift' /\ ReportExtends' /\ ReportIsOfRecord'
<1>1. /\ MakeReport("final") /\ pairStudy = "control" /\ Unchanged
      /\ Whole("new") /\ PairsHold("new", 2)
  BY DEF AuditCompleted
<1>2. /\ pairReport'.kind = "final" /\ pairReport'.new = answers["new"]
      /\ pairReport'.seen = snapshot /\ pairStudy' = "control"
  BY <1>1, ReportMade
<1>3. ReportSeesDrift'
  BY <1>1, FinalSeesDrift
<1>4. ReportIsOfRecord'
  BY <1>1, <1>2 DEF ReportIsOfRecord, Unchanged
<1> QED BY <1>2, <1>3, <1>4 DEF ReportExtends

LEMMA AuditExtensionKeeps ==
  ASSUME AnswersTyped, AuditExtension
  PROVE  ReportSeesDrift' /\ ReportExtends' /\ ReportIsOfRecord'
<1> USE DEF Dirs
<1>1. /\ MakeReport("extension") /\ pairStudy = "control" /\ Whole("base") /\ There("new", 1)
      /\ \A j \in Keys("base") : ExtendsAnswer(j[2], answers["base"][j], answers["new"][j])
  BY DEF AuditExtension
<1>2. /\ pairReport'.kind = "extension" /\ pairReport'.base = answers["base"]
      /\ pairReport'.new = answers["new"] /\ pairStudy' = "control"
      /\ UNCHANGED <<ends, departure>>
  BY <1>1, ReportMade
<1>3. ASSUME NEW j \in Keys("base")
      PROVE  /\ Emitted(j[2], answers["base"][j], ShortCap) = Emitted(j[2], answers["new"][j], ShortCap)
             /\ Terminated(j[2], answers["base"][j], ShortCap)
                  <=> Terminated(j[2], answers["new"][j], ShortCap)
  <2>1. j[2] \in {"C1", "C2", "native"} /\ j \in Prefix("new", 1)
    BY <1>1 DEF Keys, Problems, CellsOf, Prefix
  <2>2. answers["base"][j] \in {1, 2} /\ answers["new"][j] \in {1, 2}
    BY <1>1, <2>1 DEF AnswersTyped, Whole, There
  <2> QED BY <1>1, <2>1, <2>2, ExtensionSame
<1>4. ReportExtends'
  BY <1>1, <1>2, <1>3, EmittedStays DEF ReportExtends, Whole
<1> QED BY <1>2, <1>4 DEF ReportSeesDrift, ReportIsOfRecord

LEMMA AuditsStep == AuditsInv /\ [AuditsNext]_auditsVars => AuditsInv'
<1> SUFFICES ASSUME AuditsInv, [AuditsNext]_auditsVars PROVE AuditsInv'
  OBVIOUS
<1>1. AnswersTyped
  BY DEF AuditsInv
<1>2. ASSUME UNCHANGED auditsVars PROVE AuditsInv'
  <2>1. UNCHANGED <<pairStudy, ends, departure, pairReport, baseline, answers, driver>>
    BY <1>2 DEF auditsVars, pairSetting, pairDisk
  <2> QED BY <2>1, EmittedStays DEF AuditsInv, AnswersTyped, Natural, ReportSeesDrift,
            ReportExtends, ReportIsOfRecord, Reported
<1>3. ASSUME AuditsNext PROVE AuditsInv'
  <2>1. ~Reported
    BY <1>3 DEF AuditsNext, Reported
  <2>2. ASSUME AnswersTyped', UNCHANGED pairReport PROVE AuditsInv'
    <3>1. ~Reported'
      BY <2>1, <2>2 DEF Reported
    <3> QED BY <2>2, <3>1 DEF AuditsInv, ReportSeesDrift, ReportExtends, ReportIsOfRecord
  <2>3. ASSUME NEW sort, MakeReport(sort) PROVE AnswersTyped'
    BY <1>1, <2>3 DEF MakeReport, pairDisk, AnswersTyped, pairSetting, Natural
  <2>4. ASSUME NEW d \in Dirs, Generate(d) PROVE AuditsInv'
    BY <1>1, <2>2, <2>4, GenerateTyped DEF Generate
  <2>5. ASSUME NEW d \in Dirs, RemoveAnswer(d) PROVE AuditsInv'
    BY <1>1, <2>2, <2>5, RemoveTyped DEF RemoveAnswer
  <2>6. ASSUME EditSources \/ Update PROVE AuditsInv'
    <3>1. AnswersTyped' /\ UNCHANGED pairReport
      BY <1>1, <2>6 DEF EditSources, Update, pairDisk, AnswersTyped, pairSetting, Natural
    <3> QED BY <2>2, <3>1
  <2>7. ASSUME (\E k \in {1, 2} : AuditPrefix(k)) \/ Publish PROVE AuditsInv'
    <3>1. AnswersTyped' /\ UNCHANGED pairReport
      BY <1>1, <2>7 DEF AuditPrefix, Publish, pairDisk, AnswersTyped, pairSetting, Natural
    <3> QED BY <2>2, <3>1
  <2>8. ASSUME Preflight PROVE AuditsInv'
    BY <1>1, <2>3, <2>8, PreflightKeeps DEF Preflight, AuditsInv
  <2>9. ASSUME AnalyzeFrontier PROVE AuditsInv'
    BY <1>1, <2>3, <2>9, AnalyzeFrontierKeeps DEF AnalyzeFrontier, AuditsInv
  <2>10. ASSUME AuditExtension PROVE AuditsInv'
    BY <1>1, <2>3, <2>10, AuditExtensionKeeps DEF AuditExtension, AuditsInv
  <2>11. ASSUME AuditCompleted PROVE AuditsInv'
    BY <1>1, <2>3, <2>11, AuditCompletedKeeps DEF AuditCompleted, AuditsInv
  <2> QED BY <1>3, <2>4, <2>5, <2>6, <2>7, <2>8, <2>9, <2>10, <2>11 DEF AuditsNext
<1> QED BY <1>2, <1>3

(* The audits across two directories, for all lengths of answers, caps,    *)
(* prefixes and disturbances: an honest answer is never refused, a final   *)
(* report has no change of driver in what the compared answers have in     *)
(* common before their first round, an extension report is of answers the  *)
(* smoke phase could have been cut from, and a report is of the published  *)
(* data and of what was audited before.                                    *)
THEOREM ReportsAlwaysStand == AuditsSpec => []ReportsStand
<1>1. AuditsInv => ReportsStand
  BY HonestPass DEF AuditsInv, ReportsStand
<1> QED BY AuditsStart, AuditsStep, <1>1, PTL DEF AuditsSpec

-----------------------------------------------------------------------------
(* What is published side by side may be compared: the three ledgers       *)
(* together, each stepping whenever it may.                                *)
THEOREM ReportsStayComparable ==
  ASSUME NativeLeads
  PROVE  BenchSpec /\ ProbeSpec /\ AuditsSpec => []ReportsComparable
<1>1. BenchmarkComparable /\ ProbeSound /\ ReportsStand => ReportsComparable
  BY DEF ReportsComparable
<1> QED BY <1>1, BenchmarkStaysComparable, ProbeStaysSound, ReportsAlwaysStand, PTL
=============================================================================
