---------------------------- MODULE PaperTables ----------------------------
(***************************************************************************)
(* One column of the paper's grids: completion files grow, their graded    *)
(* rows land in a TSV in any order, gen_paper_tables.py resolves a cell of *)
(* each method from the rows and prints the commands of the paired tests;  *)
(* stats_paired.py and lcb_paired.py grade the files of the moment anew    *)
(* and write what they find, and a cell is grayed by what is read back.    *)
(* organize_results.py lays the same rows out a second time, and three more*)
(* tables print the value of the paper's own method.                       *)
(***************************************************************************)
EXTENDS Naturals, Sequences, FiniteSets, SequencesExt, Functions

CONSTANTS
  MaxLandings,  \* bound on the cells that grow, are graded or are graded again
  MaxFiles,     \* bound on the files of paired tests
  None

\* Columns: their data sets, and the directories a cell may lie in, main one first.
Tasks == {"math", "aime", "lcb"}
DATA == [math |-> {"math"}, aime |-> {"aime25", "aime26"}, lcb |-> {"lcb"}]
bases_for ==
  [math |-> <<"math_K1024", "flat">>, aime |-> <<"aime_K4096">>, lcb |-> <<"lcb">>]
Main(t) == bases_for[t][1]

\* The method the others are tested against, and a baseline of two directory names.
CELL_PREFS ==
  [random_pp |-> <<"random_pp">>, vase |-> <<"vase_faithful", "range_sink_sample_attn">>]
Rows == DOMAIN CELL_PREFS
MethodNames == UNION {Range(CELL_PREFS[r]) : r \in Rows}

\* Sizes of a graded row: what the grader was given of the standard runs.
Sizes == {"fragment", "odd", "half", "full"}

VARIABLES
  task,      \* the column
  disk,      \* base -> method -> data -> the state of its completion files: how often they grew
  tsv,       \* the same -> the row [n, at], or None; at is the files' state it was graded at
  commands,  \* printed and not run: [a, b, methods]
  files,     \* paired files: sequences of [key, method, of, below]; of is the states
             \* of the files the two sides were graded from
  landings,
  emitted    \* (history) the commands were printed after the last row that landed

vars == <<task, disk, tsv, commands, files, landings, emitted>>

Init ==
  /\ task \in Tasks
  /\ disk = [b \in Range(bases_for[task]) |-> [m \in MethodNames |-> [d \in DATA[task] |-> 0]]]
  /\ tsv = [b \in Range(bases_for[task]) |-> [m \in MethodNames |-> [d \in DATA[task] |-> None]]]
  /\ commands = {} /\ files = << >> /\ landings = 0 /\ emitted = FALSE

\* Completions are appended to files that have a row, and no row is written; what was
\* appended before the first row is part of its landing.
Grow(b, m, d) ==
  /\ tsv[b][m][d] # None /\ landings < MaxLandings /\ landings' = landings + 1
  /\ disk' = [disk EXCEPT ![b][m][d] = @ + 1]
  /\ UNCHANGED <<task, tsv, commands, files, emitted>>

\* The files of some of a directory's data sets have grown, and the graders write the
\* rows of these.
Land(b, m) ==
  /\ landings < MaxLandings /\ landings' = landings + 1
  /\ \E size \in [DATA[task] -> Sizes \cup {None}] :
       /\ \E d \in DATA[task] : size[d] # None
       /\ disk' = [disk EXCEPT ![b][m] =
                     [d \in DATA[task] |-> IF size[d] = None THEN @[d] ELSE @[d] + 1]]
       /\ tsv' = [tsv EXCEPT ![b][m] =
                    [d \in DATA[task] |-> IF size[d] = None THEN @[d]
                                          ELSE [n |-> size[d], at |-> disk'[b][m][d]]]]
  /\ emitted' = FALSE
  /\ UNCHANGED <<task, commands, files>>

-----------------------------------------------------------------------------
(* gen_paper_tables.py                                                     *)

Hit(b, m, d) == tsv[b][m][d]
\* EXPECTED_N: the mark of an acceptable size, None for the others.
Mark(d, n) ==
  CASE n = "full" -> "" [] n = "half" /\ d # "math" -> "8" [] OTHER -> None

\* Mutant: a pooled cell takes the components it finds.
AcceptedAny(p) ==
  \E d \in DATA[task] : Hit(p[1], p[2], d) # None /\ Mark(d, Hit(p[1], p[2], d).n) # None
\* Every component is there, under one method, at an expected size; the column of
\* the code benchmark is not gated.
Accepted(p) ==
  \A d \in DATA[task] :
    Hit(p[1], p[2], d) # None /\ (task = "lcb" \/ Mark(d, Hit(p[1], p[2], d).n) # None)

\* The first of the acceptable places, or None.
First(places) == IF places = << >> THEN None ELSE places[1]
\* Directory by directory, in each the names by preference; or name by name.
ByBase(row) ==
  FlattenSeq([i \in DOMAIN bases_for[task] |->
    [j \in DOMAIN CELL_PREFS[row] |-> <<bases_for[task][i], CELL_PREFS[row][j]>>]])
ByMethod(row) ==
  FlattenSeq([j \in DOMAIN CELL_PREFS[row] |->
    [i \in DOMAIN bases_for[task] |-> <<bases_for[task][i], CELL_PREFS[row][j]>>]])

resolve(row) == First(SelectSeq(ByBase(row), Accepted))
Marked(p) == \E d \in DATA[task] : Hit(p[1], p[2], d).n # "full"
\* What a paired test grades.
OnDisk(p) == disk[p[1]][p[2]]

\* Mutant: the section is headed by the directory of the A side.
CommandsUnderA ==
  LET a == resolve("random_pp")  b == resolve("vase")
  IN  IF a = None \/ b = None THEN {} ELSE {[a |-> a[1], b |-> a[1], methods |-> {b[2]}]}
\* --emit_paired_cmds: one command for each directory the baselines resolve to.
Commands ==
  LET a == resolve("random_pp")
      others == {resolve(r) : r \in Rows \ {"random_pp"}} \ {None}
  IN  IF a = None THEN {}
      ELSE {[a |-> a[1], b |-> base, methods |-> {p[2] : p \in {q \in others : q[1] = base}}]
              : base \in {q[1] : q \in others}}

Emit ==
  /\ task # "lcb" /\ commands = {} /\ Commands # {} /\ Len(files) < MaxFiles
  /\ commands' = Commands /\ files' = Append(files, << >>) /\ emitted' = TRUE
  /\ UNCHANGED <<task, disk, tsv, landings>>

\* Both sides are graded anew from the files of this moment, under the B side's base.
RunPair(c) ==
  /\ c \in commands /\ commands' = commands \ {c}
  /\ \E below \in BOOLEAN :
       files' = [files EXCEPT ![Len(files)] = @ \o SetToSeq(
         {[key |-> c.b, method |-> m, below |-> below,
           of |-> <<OnDisk(<<c.a, "random_pp">>), OnDisk(<<c.b, m>>)>>] : m \in c.methods})]
  /\ UNCHANGED <<task, disk, tsv, landings, emitted>>

\* lcb_paired.py is run by hand, and its logs are read by model.
PairLcb(m) ==
  /\ task = "lcb" /\ Len(files) < MaxFiles
  /\ \A n \in {"random_pp", m} : OnDisk(<<"lcb", n>>)["lcb"] > 0
  /\ \E below \in BOOLEAN :
       files' = Append(files, <<[key |-> "lcb", method |-> m, below |-> below,
         of |-> <<OnDisk(<<"lcb", "random_pp">>), OnDisk(<<"lcb", m>>)>>]>>)
  /\ UNCHANGED <<task, disk, tsv, commands, landings, emitted>>

\* A section's entry of a method: its last line, or else for the faithful name the first
\* line of the old one.
EntryIn(file, key, m) ==
  LET lines(name) == SelectSeq(file, LAMBDA e : e.key = key /\ e.method = name)
  IN  IF lines(m) # << >> THEN Last(lines(m))
      ELSE IF task # "lcb" /\ m = "vase_faithful" /\ lines("range_sink_sample_attn") # << >>
           THEN Head(lines("range_sink_sample_attn")) ELSE None
\* load_paired of each file; later files override earlier ones.
Paired(key, m) ==
  LET entries == SelectSeq([f \in DOMAIN files |-> EntryIn(files[f], key, m)],
                           LAMBDA e : e # None)
  IN  IF entries = << >> THEN None ELSE Last(entries)

\* The test a cell is grayed by: of its own directory, or of an alternate one.
TestOf(p) ==
  LET found == SelectSeq([i \in DOMAIN bases_for[task] |-> Paired(bases_for[task][i], p[2])],
                         LAMBDA e : e # None)
  IN  IF Paired(p[1], p[2]) # None THEN Paired(p[1], p[2])
      ELSE IF found = << >> THEN None ELSE found[1]
Gray(row) ==
  /\ row # "random_pp" /\ resolve(row) # None
  /\ TestOf(resolve(row)) # None /\ TestOf(resolve(row)).below

\* gated: exactly the full size, or nearly; and the three tables of the own method.
GatedFull(p) == Hit(p[1], p[2], "math") # None /\ Hit(p[1], p[2], "math").n = "full"
GatedNear(p) == Hit(p[1], p[2], "math") # None /\ Hit(p[1], p[2], "math").n \in {"full", "odd"}
mechanism_table == First(SelectSeq(ByBase("random_pp"), GatedFull))
protection_table == First(SelectSeq(ByMethod("random_pp"), GatedFull))
promptprotect_table == First(SelectSeq(ByMethod("random_pp"), GatedNear))

-----------------------------------------------------------------------------
(* organize_results.py                                                     *)

\* R of a row against the standard: a fragment has fewer than half of the runs, and
\* a row that lacks a few lines has all of them.
RunsOf(n) == CASE n = "fragment" -> 0 [] n = "half" -> 1 [] OTHER -> 2
Parsed(m, d) == Hit(Main(task), m, d) # None /\ RunsOf(Hit(Main(task), m, d).n) >= 1
Whole(m) == \A d \in DATA[task] : Parsed(m, d)
\* A column is satisfied by the first of its names that has a row.
pick(row) ==
  First(SelectSeq(CELL_PREFS[row], LAMBDA m : \E d \in DATA[task] : Parsed(m, d)))
\* Printed without an annotation: all data sets, the standard number of runs.
Plain(m) == Whole(m) /\ \A d \in DATA[task] : RunsOf(Hit(Main(task), m, d).n) = 2

Next ==
  \/ \E b \in DOMAIN tsv, m \in MethodNames : Land(b, m) \/ \E d \in DATA[task] : Grow(b, m, d)
  \/ Emit \/ \E c \in commands : RunPair(c)
  \/ \E m \in MethodNames \ {"random_pp"} : PairLcb(m)

Spec == Init /\ [][Next]_vars

-----------------------------------------------------------------------------
\* A test that was read back graded a side from the very files its printed row was, or
\* else those files have grown since that row and the test saw them as they grew.
SideCurrent(of, p) ==
  \A d \in DATA[task] :
    LET row == Hit(p[1], p[2], d).at
    IN  of[d] = row \/ (row < of[d] /\ of[d] <= OnDisk(p)[d])

\* Once the printed commands were run and no row landed since, every baseline cell that
\* stands beside the own method's has a test, of the two cells' own directories and of
\* nothing older than they print, whatever older files are read with it.
MarksCurrent ==
  commands = {} /\ emitted =>
    LET ours == resolve("random_pp")  theirs == resolve("vase")
    IN  ours # None /\ theirs # None =>
          /\ TestOf(theirs) # None
          /\ SideCurrent(TestOf(theirs).of[1], ours) /\ SideCurrent(TestOf(theirs).of[2], theirs)

\* A gray cell was tested as the method it prints, under one of that row's names.
GrayIsOwnRow ==
  \A row \in Rows : Gray(row) => TestOf(resolve(row)).method \in Range(CELL_PREFS[row])

\* "Partials are never folded": a gated cell stands on every data set of its column.
NothingFolded ==
  task # "lcb" =>
    \A row \in Rows :
      LET here == resolve(row)
      IN  here # None => \A d \in DATA[task] :
            Hit(here[1], here[2], d) # None /\ Hit(here[1], here[2], d).n \in {"full", "half"}

\* A value that both layouts print as an ordinary one, the one here without a mark and
\* of an expected size there, is the same grading.
LayoutsAgree ==
  \A row \in Rows :
    LET here == resolve(row)  there == pick(row)
    IN  here # None /\ there # None /\ task # "lcb" /\ ~Marked(here) /\ Plain(there)
          /\ (\A d \in DATA[task] : Hit(Main(task), there, d).n = "full")
        => here = <<Main(task), there>>

\* The own method has one value in all tables, unless the main directory's grading is
\* the nearly complete one that promptprotect tolerates.
OursIsOneValue ==
  task = "math" /\ resolve("random_pp") # None =>
    /\ mechanism_table = resolve("random_pp") /\ protection_table = resolve("random_pp")
    /\ promptprotect_table # resolve("random_pp") =>
         Hit(Main(task), "random_pp", "math").n = "odd"

TablesSound ==
  MarksCurrent /\ GrayIsOwnRow /\ NothingFolded /\ LayoutsAgree /\ OursIsOneValue
=============================================================================
