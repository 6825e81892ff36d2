----------------------------- MODULE SheetPages -----------------------------
(***************************************************************************)
(* The tree of hierarchical sheets and its page numbers:                   *)
(* konnect-core/src/tools/sch_hierarchy.rs with the sheets of              *)
(* konnect-schematic-editor/src/schematic/sheet.rs.                        *)
(*                                                                         *)
(* A schematic file holds sheets; a sheet names the file it stands for and *)
(* keeps, per project and instance path (the root's and the sheets' uuids  *)
(* from the root down), the number of its page. Two sheets may stand for   *)
(* one file. Each operation reads the files, works in memory and writes    *)
(* them in one transaction that refuses what changed in between, so an     *)
(* operation is one step; the files' other contents and the sheets' pins   *)
(* are left out, and the uuid of a file is the file itself.                *)
(***************************************************************************)
EXTENDS Naturals, FiniteSets, SequencesExt

CONSTANTS
    Files,       \* the schematic files a project may have
    Root,        \* the root schematic, whose stem is the project's name
    Labels,      \* names of sheets
    SheetIds,    \* uuids of sheets, numbers in the order they are made
    Projects,    \* projects at the start: file -> its sheets, Missing for no file
    Missing,     \* a file that is not there, a page that is not known
    MaxSteps     \* bound: operations of one behaviour

VARIABLES
    project,  \* file -> the sequence of its sheets, or Missing
    answer,   \* what the last operation answered
    steps     \* operations so far

pageVars == <<project, answer, steps>>

Present(files) == {f \in Files : files[f] # Missing}
FirstOr(seq, Test(_), default) == IF \E i \in DOMAIN seq : Test(seq[i]) THEN SelectSeq(seq, Test)[1] ELSE default

-----------------------------------------------------------------------------
(* The pages of one sheet. *)

\* The page of the first entry of the project, whatever its path.
PageOf(sheet, name) == FirstOr(sheet.pages, LAMBDA e : e.name = name, [page |-> Missing]).page

\* A fault to detect: the entry of before stays in front of the new one.
AppendPage(sheet, name, path, page) == [sheet EXCEPT !.pages = Append(@, [name |-> name, path |-> path, page |-> page])]

SetPage(sheet, name, path, page) ==
    LET here == {i \in DOMAIN sheet.pages : sheet.pages[i].name = name /\ sheet.pages[i].path = path}
        entry == [name |-> name, path |-> path, page |-> page]
    IN  IF here = {} THEN [sheet EXCEPT !.pages = Append(@, entry)]
        ELSE [sheet EXCEPT !.pages[CHOOSE i \in here : \A j \in here : i <= j] = entry]

\* One more than the highest page of the sheets of this file; page 1 is the root's.
NextFreePage(sheets, name) ==
    LET pages == {PageOf(sheets[i], name) : i \in DOMAIN sheets} \ {Missing}
    IN  1 + (CHOOSE m \in pages \cup {1} : \A p \in pages \cup {1} : p <= m)

NamedIn(sheets, name) == {i \in DOMAIN sheets : sheets[i].label = name}

NewSheet(parent, id, label, file, name, sheets) ==
    [id |-> id, label |-> label, file |-> file,
     pages |-> <<[name |-> name, path |-> <<parent>>, page |-> NextFreePage(sheets, name)]>>]

UsedIds(files) == UNION {{files[f][i].id : i \in DOMAIN files[f]} : f \in Present(files)}
\* A new uuid: none where they are used up.
NewId(files) == LET free == SheetIds \ UsedIds(files) IN {id \in free : \A other \in free : id <= other}

-----------------------------------------------------------------------------
(* Renumbering: a walk of the tree that collects the files to replace.      *)
(* A walk is [next page, files with their new sheets, refused].             *)

RECURSIVE Renumbered(_, _, _, _, _, _)
Renumbered(files, file, path, name, ancestors, walk) ==
    LET \* One sheet of the file: the first of its label takes the next page.
        Numbered(st, sheet) ==
          LET first == CHOOSE i \in NamedIn(st.sheets, sheet.label) : \A j \in NamedIn(st.sheets, sheet.label) : i <= j
              change == PageOf(st.sheets[first], name) # st.walk.next
              next == [st.walk EXCEPT !.next = @ + 1]
          IN  [sheets |-> IF change THEN [st.sheets EXCEPT ![first] = SetPage(@, name, path, st.walk.next)] ELSE st.sheets,
               changed |-> IF change THEN Append(st.changed, first) ELSE st.changed,
               walk |-> IF sheet.file \in Present(files)
                        THEN Renumbered(files, sheet.file, Append(path, sheet.id), name, ancestors \cup {file}, next)
                        ELSE next]
        end == FoldLeft(Numbered, [sheets |-> files[file], changed |-> <<>>, walk |-> walk], files[file])
        \* A command refuses a target named twice and one that does not change.
        refused == \/ ~ IsInjective(end.changed)
                   \/ \E i \in DOMAIN end.changed : end.sheets[end.changed[i]] = files[file][end.changed[i]]
    IN  IF file \in ancestors THEN walk
        ELSE IF end.changed = <<>> THEN end.walk
        ELSE [end.walk EXCEPT !.refused = @ \/ refused, !.writes = Append(@, [file |-> file, sheets |-> end.sheets])]

Walk(files, root, name) == Renumbered(files, root, <<root>>, name, {}, [next |-> 2, writes |-> <<>>, refused |-> FALSE])

\* A transaction refuses a file it is to replace twice.
Refused(walk) ==
    walk.refused \/ \E i, j \in DOMAIN walk.writes : i # j /\ walk.writes[i].file = walk.writes[j].file

Replaced(files, walk) ==
    [f \in Files |-> FirstOr(walk.writes, LAMBDA w : w.file = f, [sheets |-> files[f]]).sheets]

-----------------------------------------------------------------------------
PageInit ==
    /\ project \in Projects
    /\ answer = "none"
    /\ steps = 0

Answered(a) == answer' = a /\ steps < MaxSteps /\ steps' = steps + 1

\* add_hierarchical_sheet: a name new to the file, a child other than the file itself,
\* made if it is not there.
AddHierarchicalSheet(parent, id, label, file, name) ==
    /\ IF file = parent \/ NamedIn(project[parent], label) # {}
       THEN Answered("refused") /\ UNCHANGED project
       ELSE /\ Answered("ok")
            /\ project' = [project EXCEPT
                 ![parent] = Append(@, NewSheet(parent, id, label, file, name, project[parent])),
                 ![file] = IF @ = Missing THEN <<>> ELSE @]

\* duplicate_sheet: the child's file is copied to one that must not be there.
DuplicateSheet(parent, i, id, label, file, name) ==
    /\ IF \/ NamedIn(project[parent], label) # {}
          \/ file \in Present(project)
          \/ project[parent][i].file \notin Present(project)
       THEN Answered("refused") /\ UNCHANGED project
       ELSE /\ Answered("ok")
            /\ project' = [project EXCEPT
                 ![parent] = Append(@, NewSheet(parent, id, label, file, name, project[parent])),
                 ![file] = project[project[parent][i].file]]

\* edit_sheet: the new name and the new file are taken as they are.
EditSheet(parent, i, label, file) ==
    /\ LET after == [project[parent][i] EXCEPT !.label = label, !.file = file]
       IN  IF after = project[parent][i] THEN Answered("refused") /\ UNCHANGED project
           ELSE Answered("ok") /\ project' = [project EXCEPT ![parent][i] = after]

\* delete_sheet: the file it stands for stays.
DeleteSheet(parent, i) ==
    /\ Answered("ok")
    /\ project' = [project EXCEPT ![parent] = RemoveAt(@, i)]

RenumberSheetPages(root, name) ==
    LET walk == Walk(project, root, name)
    IN  IF Refused(walk) THEN Answered("renumber refused") /\ UNCHANGED project
        ELSE Answered("renumbered") /\ project' = Replaced(project, walk)

PageNext ==
    \/ RenumberSheetPages(Root, Root)
    \/ \E parent \in Present(project), file \in Files, label \in Labels :
         \/ \E id \in NewId(project), name \in {Root, parent} :
              \/ AddHierarchicalSheet(parent, id, label, file, name)
              \/ \E i \in DOMAIN project[parent] : DuplicateSheet(parent, i, id, label, file, name)
         \/ \E i \in DOMAIN project[parent] : EditSheet(parent, i, label, file) \/ DeleteSheet(parent, i)

PageSpec == PageInit /\ [][PageNext]_pageVars

-----------------------------------------------------------------------------
(* What KiCad shows: the page of every instance of every sheet, the tree read *)
(* from the root depth first.                                                 *)

RECURSIVE Instances(_, _, _, _)
Instances(files, file, path, ancestors) ==
    IF file \in ancestors \/ file \notin Present(files) THEN <<>>
    ELSE FlattenSeq([i \in DOMAIN files[file] |->
           <<[sheet |-> files[file][i], file |-> file, path |-> path]>>
             \o Instances(files, files[file][i].file, Append(path, files[file][i].id), ancestors \cup {file})])

Shown(files) == Instances(files, Root, <<Root>>, {})

PageShown(instance) ==
    FirstOr(instance.sheet.pages, LAMBDA e : e.name = Root /\ e.path = instance.path, [page |-> Missing]).page

InOrder(files) == \A i \in DOMAIN Shown(files) : PageShown(Shown(files)[i]) = i + 1

\* No two sheets of a file share a name, no file that holds sheets is shown
\* twice, and no sheet has a page of the project at a path that is not its own.
Plain(files) ==
    /\ \A f \in Present(files) : \A i, j \in DOMAIN files[f] : i # j => files[f][i].label # files[f][j].label
    /\ \A i, j \in DOMAIN Shown(files) :
         i # j => <<Shown(files)[i].file, Shown(files)[i].sheet.id>> # <<Shown(files)[j].file, Shown(files)[j].sheet.id>>
    /\ \A i \in DOMAIN Shown(files) : \A e \in Range(Shown(files)[i].sheet.pages) :
         e.name = Root => e.path = Shown(files)[i].path

\* A renumbering of a plain tree is accepted and leaves every instance of every
\* sheet with its place in the depth-first order of the tree, whatever gaps,
\* cycles and doubled pages the operations before it left.
PagesInOrder == answer \in {"renumbered", "renumber refused"} /\ Plain(project) => InOrder(project)

\* The same of every tree a call answers with success for, which is what the
\* tool's description says of it.
RenumbersTheTree == answer = "renumbered" => InOrder(project)
=============================================================================
