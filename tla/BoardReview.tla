----------------------------- MODULE BoardReview -----------------------------
(***************************************************************************)
(* Is this board ready?  validate_for_manufacturing and run_design_review  *)
(* run kicad-cli's DRC (tools/cli.rs), weigh its report (drc_gate.rs) and  *)
(* audit the files (manufacturing.rs, design_review.rs);                   *)
(* export_manufacturing_package runs kicad-cli once for each output.       *)
(*                                                                         *)
(* kicad-cli loads the board, and some time later writes its file and ends.*)
(* A call that loses patience leaves it running.  The report of a board has*)
(* one name, whoever asks for it.                                          *)
(***************************************************************************)
EXTENDS Naturals, SequencesExt, SheetAudits

CONSTANTS
  Callers,
  Runs,         \* one for each start of kicad-cli
  Root, Files,  \* the root schematic, and all schematics
  Boards,       \* the forms the board takes: the worst of each DRC pass, and of the board's own audit
  Sheets,       \* the forms a schematic takes, each with its child sheets
  Broken,       \* a schematic that is missing or does not load
  Starts,       \* how the project may be at the start
  Leftovers,    \* reports an earlier call may have left behind, and NoFile
  Omissions,    \* the passes a kicad-cli may leave out of its report
  NoFile, NoRun,
  MaxSaves, MaxTimeouts, MaxReviews  \* bounds on the user and on the calls

Severities == {"none", "warning", "error"}
Passes == {"violations", "unconnected_items", "schematic_parity"}
Outputs == <<"gerber", "drill", "pick_and_place", "bom">>

ASSUME ReviewAssumption ==
  /\ Root \in Files /\ Broken \notin Sheets /\ NoRun \notin Runs
  /\ Boards \subseteq [drc : [Passes -> Severities], dfm : Severities]
  /\ Starts \subseteq [board : Boards, sheets : [Files -> Sheets \cup {Broken}]]
  /\ Leftovers \subseteq {NoFile} \cup [Passes -> Severities \cup {"absent"}]

\* A sheet names its children, and its pins end at points that may have a label.
ASSUME SheetsAssumption ==
  \A s \in Sheets : /\ s.children \in Seq(Files)
                    /\ \A part \in s.parts : \A q \in DOMAIN part.pins : part.pins[q] \in DOMAIN s.labels

VARIABLES
  board, sheets,   \* the project as it is saved
  report,          \* <board>.drc.json, or NoFile
  package,         \* output -> the project it shows, or NoFile
  run,             \* kicad-cli runs: [what, saw, parity, of] once started
  asked,           \* caller -> its call
  past,            \* caller -> what the project has been in the course of its call
  alone,           \* caller -> has no other kicad-cli run been about during its call?
  reviews, saves, timeouts

reviewVars == <<board, sheets, report, package, run, asked, past, alone, reviews, saves, timeouts>>

Idle == [tool |-> "none", at |-> "idle", run |-> NoRun]
NotStarted == [at |-> "free"]

ReviewInit ==
  /\ \E start \in Starts : board = start.board /\ sheets = start.sheets
  /\ report \in Leftovers /\ package = [o \in ToSet(Outputs) |-> NoFile]
  /\ run = [r \in Runs |-> NotStarted]
  /\ asked = [c \in Callers |-> Idle]
  /\ past = [c \in Callers |-> {}] /\ alone = [c \in Callers |-> TRUE]
  /\ reviews = 0 /\ saves = 0 /\ timeouts = 0

Now == [board |-> board, sheets |-> sheets]
Becomes(c, at) == asked' = [asked EXCEPT ![c].at = at]
Underway == {r \in Runs : run[r].at \in {"started", "loaded"}}
projectVars == <<board, sheets, saves>>
historyVars == <<past, alone, reviews>>

-----------------------------------------------------------------------------
(* The tools up to kicad-cli.                                                 *)

\* A review is of a schematic, of a board, or of both; with neither it is refused.
\* A package has two outputs, or four for assembly; without a schematic it has no
\* bill of materials, and says so.
Ask(c, tool, ofBoard, ofSchematic, outputs) ==
  /\ asked[c].at = "idle" /\ reviews < MaxReviews
  /\ tool = "review" => ofBoard \/ ofSchematic
  /\ tool # "review" => ofBoard
  /\ (tool = "package") = (outputs > 0) /\ outputs = 3 => ~ofSchematic
  /\ asked' = [asked EXCEPT ![c] =
       [tool |-> tool, board |-> ofBoard, schematic |-> ofSchematic, run |-> NoRun, next |-> 1, first |-> 1, last |-> outputs, made |-> {},
        warned |-> outputs = 3,
        drc |-> [p \in Passes |-> "unasked"], found |-> {}, todo |-> <<>>, unaudited |-> FALSE, verdict |-> "none",
        at |-> IF tool = "package" THEN "export" ELSE IF ofBoard THEN "drc" ELSE "walk"]]
  /\ past' = [past EXCEPT ![c] = {Now}]
  /\ alone' = [alone EXCEPT ![c] = Underway = {}]
  /\ reviews' = reviews + 1
  /\ UNCHANGED <<projectVars, report, package, run, timeouts>>

\* The tools that export one thing; plots may have the drill files added to them.
Exports == {<<1, 1>>, <<1, 2>>, <<2, 2>>, <<3, 3>>, <<4, 4>>}

AskExport(c, export) ==
  /\ asked[c].at = "idle" /\ reviews < MaxReviews
  /\ asked' = [asked EXCEPT ![c] = [tool |-> "export", run |-> NoRun, next |-> export[1], first |-> export[1], last |-> export[2],
                                    made |-> {}, warned |-> FALSE, verdict |-> "none", at |-> "export"]]
  /\ past' = [past EXCEPT ![c] = {Now}]
  /\ alone' = [alone EXCEPT ![c] = Underway = {}]
  /\ reviews' = reviews + 1
  /\ UNCHANGED <<projectVars, report, package, run, timeouts>>

\* kicad-cli is started for the report or for the next output.
Spawn(c, r) ==
  /\ run[r].at = "free"
  /\ \/ asked[c].at = "drc"
     \/ asked[c].at = "export" /\ asked[c].next <= asked[c].last
  /\ run' = [run EXCEPT ![r] = [at |-> "started", of |-> c, saw |-> NoFile, parity |-> FALSE,
                                what |-> IF asked[c].at = "drc" THEN "report" ELSE Outputs[asked[c].next]]]
  /\ asked' = [asked EXCEPT ![c].at = "waiting", ![c].run = r]
  /\ alone' = [d \in Callers |-> alone[d] /\ (d = c \/ asked[d].at = "idle") /\ (d = c => Underway = {})]
  /\ UNCHANGED <<projectVars, report, package, past, reviews, timeouts>>

\* It reads the board, and the root schematic for the comparison of the two.
Loads(r) ==
  /\ run[r].at = "started"
  /\ run' = [run EXCEPT ![r].at = "loaded", ![r].saw = Now, ![r].parity = sheets[Root] # Broken]
  /\ UNCHANGED <<projectVars, report, package, asked, historyVars, timeouts>>

\* The report has a list for each pass it was built to make; a comparison that
\* could not be made leaves an empty list, and a line on stderr.
Reported(r, omitted) ==
  [p \in Passes |->
     IF p \in omitted THEN "absent"
     ELSE IF p = "schematic_parity" /\ ~run[r].parity THEN "none"
     ELSE run[r].saw.board.drc[p]]

\* One that nobody waits for is gone when it ends.
Over(r, how) == IF \E c \in Callers : asked[c].run = r THEN [run[r] EXCEPT !.at = how] ELSE NotStarted
Heard(c) == run' = [run EXCEPT ![asked[c].run] = NotStarted]

Ends(r) ==
  /\ run[r].at = "loaded"
  /\ \/ /\ run[r].what = "report"
        /\ \E omitted \in Omissions : report' = Reported(r, omitted)
        /\ UNCHANGED package
     \/ /\ run[r].what # "report"
        /\ package' = [package EXCEPT ![run[r].what] = run[r].saw]
        /\ UNCHANGED report
  /\ run' = [run EXCEPT ![r] = Over(r, "ended")]
  /\ UNCHANGED <<projectVars, asked, historyVars, timeouts>>

\* A board that does not load, an option it refuses: it ends with nothing written.
Fails(r) ==
  /\ run[r].at = "started"
  /\ run' = [run EXCEPT ![r] = Over(r, "failed")]
  /\ UNCHANGED <<projectVars, report, package, asked, historyVars, timeouts>>

\* What a call goes on with after its DRC, and after its report.
AfterDrc(c) ==
  CASE asked[c].tool = "drc" -> "answered"
    [] asked[c].tool = "validate" -> "structure"
    [] asked[c].tool = "review" -> IF asked[c].schematic THEN "walk" ELSE "dfm"

NextOutput(c, made, warned) ==
  asked' = [asked EXCEPT ![c].at = "export", ![c].run = NoRun, ![c].next = @ + 1, ![c].made = @ \cup made, ![c].warned = @ \/ warned]

\* The failure of a drill export is not told, unless it was what was asked for.
Unmade(c) ==
  IF asked[c].tool = "export" /\ asked[c].next = asked[c].first THEN asked' = [asked EXCEPT ![c].at = "answered", ![c].run = NoRun, ![c].verdict = "error"]
  ELSE NextOutput(c, {}, Outputs[asked[c].next] # "drill")

Exporting(c) == asked[c].tool \in {"package", "export"}

WithoutDrc(c) == asked' = [asked EXCEPT ![c].at = AfterDrc(c), ![c].run = NoRun, ![c].drc = [p \in Passes |-> "absent"]]

\* After ten minutes the call goes on without it, and does not stop it.
LosesPatience(c) ==
  /\ asked[c].at = "waiting" /\ asked[c].run \in Underway /\ timeouts < MaxTimeouts
  /\ timeouts' = timeouts + 1
  /\ IF Exporting(c) THEN Unmade(c) ELSE WithoutDrc(c)
  /\ UNCHANGED <<projectVars, report, package, run, historyVars>>

HearsOfFailure(c) ==
  /\ asked[c].at = "waiting" /\ asked[c].run # NoRun /\ run[asked[c].run].at = "failed"
  /\ IF Exporting(c) THEN Unmade(c) ELSE WithoutDrc(c)
  /\ Heard(c)
  /\ UNCHANGED <<projectVars, report, package, historyVars, timeouts>>

Outputted(c) ==
  /\ asked[c].at = "waiting" /\ Exporting(c) /\ run[asked[c].run].at = "ended"
  /\ NextOutput(c, {run[asked[c].run].what}, FALSE)
  /\ Heard(c)
  /\ UNCHANGED <<projectVars, report, package, historyVars, timeouts>>

-----------------------------------------------------------------------------
(* The report and the verdict.                                                *)

\* A fault to detect: an empty comparison is taken for a clean one.
EvidenceAsWritten(r) == report

\* apply_parity_evidence: an empty comparison that was not made is no comparison.
Evidence(r) ==
  IF report.schematic_parity = "none" /\ ~run[r].parity THEN [report EXCEPT !.schematic_parity = "absent"] ELSE report

ReadsReport(c) ==
  /\ asked[c].at = "waiting" /\ ~Exporting(c) /\ run[asked[c].run].at = "ended"
  /\ \/ report = NoFile /\ WithoutDrc(c) /\ UNCHANGED report
     \/ /\ report # NoFile
        /\ asked' = [asked EXCEPT ![c].at = AfterDrc(c), ![c].run = NoRun, ![c].drc = Evidence(asked[c].run)]
        /\ report' = NoFile
  /\ Heard(c)
  /\ UNCHANGED <<projectVars, package, historyVars, timeouts>>

\* drc_gate: the severities found, and whether a pass is missing.
GateFindings(c) == ToSet([i \in 1..3 |-> asked[c].drc[<<"violations", "unconnected_items", "schematic_parity">>[i]]]) \cap {"warning", "error"}
GateIncomplete(c) == \E p \in Passes : asked[c].drc[p] = "absent"

Answers(c, verdict, found) == asked' = [asked EXCEPT ![c].at = "answered", ![c].verdict = verdict, ![c].found = found]

\* validate_for_manufacturing: errors first, then what was not looked at.  That DRC
\* did not run, or left a pass out, is a warning of its own.
ReadsBoard(c) ==
  /\ asked[c].at = "structure"
  /\ LET found == GateFindings(c) \cup ({board.dfm} \ {"none"}) \cup (IF GateIncomplete(c) THEN {"warning"} ELSE {})
     IN Answers(c, IF "error" \in found THEN "NOT READY" ELSE IF GateIncomplete(c) THEN "INCOMPLETE"
                   ELSE IF found # {} THEN "NEEDS REVIEW" ELSE "READY", found)
  /\ UNCHANGED <<projectVars, report, package, run, historyVars, timeouts>>

-----------------------------------------------------------------------------
(* The review's own audits.                                                   *)

\* reachable_sheets: every sheet a loaded sheet names, once for each way to it that
\* does not go round.  Two levels are all there is of a tree here.
Only(files, kept) == FlattenSeq([i \in DOMAIN files |-> IF files[i] \in kept THEN <<files[i]>> ELSE <<>>])

Tree(all) ==
  LET children(f, above) == IF all[f] = Broken THEN <<>> ELSE Only(all[f].children, Files \ above)
      subs == children(Root, {Root})
  IN <<Root>> \o FlattenSeq([i \in DOMAIN subs |-> <<subs[i]>> \o children(subs[i], {Root, subs[i]})])

Walks(c) ==
  /\ asked[c].at = "walk"
  /\ asked' = [asked EXCEPT ![c].at = "audit", ![c].todo = Only(Tree(sheets), {f \in Files : sheets[f] # Broken}),
                            ![c].unaudited = \E f \in ToSet(Tree(sheets)) : sheets[f] = Broken]
  /\ UNCHANGED <<projectVars, report, package, run, historyVars, timeouts>>

\* Each sheet is read again by its audits; one that no longer loads ends the review.
AuditsSheet(c) ==
  /\ asked[c].at = "audit" /\ asked[c].todo # <<>>
  /\ LET f == Head(asked[c].todo)
     IN IF sheets[f] = Broken THEN asked' = [asked EXCEPT ![c].at = "answered", ![c].verdict = "error"]
        ELSE asked' = [asked EXCEPT ![c].todo = Tail(@), ![c].found = @ \cup Found(sheets[f])]
  /\ UNCHANGED <<projectVars, report, package, run, historyVars, timeouts>>

AuditsDone(c) ==
  /\ asked[c].at = "audit" /\ asked[c].todo = <<>>
  /\ Becomes(c, "dfm")
  /\ UNCHANGED <<projectVars, report, package, run, historyVars, timeouts>>

\* run_design_review: the board's own audit last, if there is a board.
Concludes(c) ==
  /\ asked[c].at = "dfm"
  /\ LET incomplete == asked[c].board /\ GateIncomplete(c)
         found == asked[c].found \cup GateFindings(c) \cup (IF asked[c].board THEN {board.dfm} \ {"none"} ELSE {})
                    \cup (IF incomplete THEN {"warning"} ELSE {})
     IN Answers(c, IF "error" \in found THEN "NOT READY" ELSE IF asked[c].unaudited \/ incomplete THEN "INCOMPLETE"
                   ELSE IF "warning" \in found THEN "NEEDS ATTENTION" ELSE "LOOKS GOOD", found)
  /\ UNCHANGED <<projectVars, report, package, run, historyVars, timeouts>>

Packaged(c) ==
  /\ asked[c].at = "export" /\ asked[c].next > asked[c].last
  /\ asked' = [asked EXCEPT ![c].at = "answered", ![c].verdict = IF asked[c].warned THEN "warnings" ELSE "No warnings."]
  /\ UNCHANGED <<projectVars, report, package, run, historyVars, timeouts>>

Told(c) ==
  /\ asked[c].at = "answered"
  /\ asked' = [asked EXCEPT ![c] = Idle]
  /\ past' = [past EXCEPT ![c] = {}]
  /\ UNCHANGED <<projectVars, report, package, run, alone, reviews, timeouts>>

Saves ==
  /\ saves < MaxSaves /\ saves' = saves + 1
  /\ \/ board' \in Boards /\ UNCHANGED sheets
     \/ \E f \in Files, s \in Sheets \cup {Broken} : sheets' = [sheets EXCEPT ![f] = s] /\ UNCHANGED board
  /\ past' = [c \in Callers |-> IF asked[c].at \in {"idle", "answered"} THEN past[c] ELSE past[c] \cup {Now'}]
  /\ UNCHANGED <<report, package, run, asked, alone, reviews, timeouts>>

ReviewNext ==
  \/ \E c \in Callers :
       \/ \E tool \in {"drc", "validate", "review", "package"}, b, s \in BOOLEAN, outputs \in {0, 2, 3, 4} : Ask(c, tool, b, s, outputs)
       \/ \E export \in Exports : AskExport(c, export)
       \/ \E r \in Runs : Spawn(c, r)
       \/ LosesPatience(c) \/ HearsOfFailure(c) \/ Outputted(c) \/ ReadsReport(c) \/ ReadsBoard(c)
       \/ Walks(c) \/ AuditsSheet(c) \/ AuditsDone(c) \/ Concludes(c) \/ Packaged(c) \/ Told(c)
  \/ \E r \in Runs : Loads(r) \/ Ends(r) \/ Fails(r)
  \/ Saves

ReviewSpec == ReviewInit /\ [][ReviewNext]_reviewVars

-----------------------------------------------------------------------------
Clean(b) == \A p \in Passes : b.drc[p] = "none"

\* What a verdict of readiness stands for: in the course of the call there was a
\* board, with a root schematic to compare it with, that DRC has nothing to say of;
\* one that its own audit has nothing to say of; and a tree of sheets of which each
\* was there, at some time, with nothing amiss.
Earned(c) ==
  /\ asked[c].board => /\ \E n \in past[c] : Clean(n.board) /\ n.sheets[Root] # Broken
                       /\ \E n \in past[c] : n.board.dfm = "none"
  /\ asked[c].tool = "review" /\ asked[c].schematic =>
       \E n \in past[c] : \A f \in ToSet(Tree(n.sheets)) :
         \E m \in past[c] : m.sheets[f] # Broken /\ Found(m.sheets[f]) = {}

\* Evidence nobody gathered is never a clean bill.
ReadyIsEarned(c) ==
  asked[c].at = "answered" /\ asked[c].verdict \in {"READY", "LOOKS GOOD"} => Earned(c)

\* The counts of a DRC are those of a board that was there; a pass that was not
\* made is not counted as one that found nothing.
CountsAreMeasured(c) ==
  asked[c].at = "answered" /\ asked[c].tool = "drc" =>
    \E n \in past[c] : \A p \in Passes :
      asked[c].drc[p] # "absent" => asked[c].drc[p] = n.board.drc[p] /\ (p = "schematic_parity" => n.sheets[Root] # Broken)

\* A package without warnings has its plots and its assembly files, and an export
\* what was asked for, of this project as it was during the call.
PackageIsMade(c) ==
  asked[c].at = "answered" /\ asked[c].verdict = "No warnings." =>
    \A i \in asked[c].first..asked[c].last : Outputs[i] # "drill" \/ asked[c].first = 2 => package[Outputs[i]] \in past[c]

\* All three hold of a call that has kicad-cli to itself.
ReviewsHold ==
  /\ \A f \in Files : sheets[f] # Broken => AuditsAgree(sheets[f])
  /\ \A c \in Callers : alone[c] => ReadyIsEarned(c) /\ CountsAreMeasured(c) /\ PackageIsMade(c)

\* Checked by no run, and false: two reviews of one board at a time share its report,
\* and a kicad-cli that was given up writes it late.
ReadyIsAlwaysEarned == \A c \in Callers : ReadyIsEarned(c)
=============================================================================
