-------------------------- MODULE SchematicCommand --------------------------
(***************************************************************************)
(* Commands on one schematic: konnect-sexp/src/command.rs.                 *)
(*                                                                         *)
(* A document is the sequence of its top-level items. A command names the  *)
(* items it changes by identifier, with the exact block each must have     *)
(* before and the block it has after; a committed command returns its      *)
(* inverse. The editors prepare commands from the document as they read it *)
(* and commit them later, in any order; the user saves changes of single   *)
(* items from Eeschema in between. A commit is one step: transact_atomic   *)
(* holds the document's lock, and what another program writes under that   *)
(* lock is FileTransaction's subject. Layout is left out: an item is       *)
(* removed with its line and put back on a line of its own.                *)
(***************************************************************************)
EXTENDS Naturals, FiniteSets, SequencesExt

CONSTANTS
    Editors,     \* tasks of the server that edit the schematic
    Documents,   \* the documents at the start
    NewIds,      \* fresh identifiers
    Values,      \* values of a property, names of sheets and of their pins
    Paths,       \* hierarchical instance paths
    NoId,        \* of an item that has no uuid of its own
    Absent,      \* the block of an item that is not there
    MaxCommits,  \* bound: commits of one behaviour
    MaxSaves     \* bound: saves of the user

VARIABLES
    document,    \* the items, in the order of the file
    held,        \* per editor: the command it has prepared or the inverse it may
                 \* commit, with what that restores if its own commit was not rebased
    commits,     \* commits so far
    saves        \* saves of the user so far

commandVars == <<document, held, commits, saves>>

Footers == {"sheet_instances", "symbol_instances", "embedded_fonts"}

\* The block of an item: what the commands read of it.
Block(id, kind, value) == [id |-> id, kind |-> kind, value |-> value, paths |-> <<>>, pins |-> <<>>]

PlaceOf(doc, id) == CHOOSE p \in DOMAIN doc : doc[p].id = id
IdsOf(doc) == {doc[p].id : p \in DOMAIN doc} \ {NoId}
BlockOf(doc, id) == IF id \in IdsOf(doc) THEN doc[PlaceOf(doc, id)] ELSE Absent

-----------------------------------------------------------------------------
(* Preparing a command: a set of one command, or none where it is refused. *)

Before(id) == [at |-> "before", id |-> id]
BeforeFooter == [at |-> "footer", id |-> NoId]
EndOfDocument == [at |-> "end", id |-> NoId]

Change(id, before, after, anchor) == [id |-> id, before |-> before, after |-> after, anchor |-> anchor]
Command(doc, changes) == [base |-> doc, whole |-> FALSE, changes |-> changes]

\* One target per change, a real change, and blocks that carry the target's identifier.
ValidChanges(changes) ==
    /\ changes # <<>>
    /\ \A i, j \in DOMAIN changes : i # j => changes[i].id # changes[j].id
    /\ \A i \in DOMAIN changes :
         /\ changes[i].before # changes[i].after
         /\ \A block \in {changes[i].before, changes[i].after} \ {Absent} : block.id = changes[i].id

FromChanges(doc, changes) ==
    {Command(doc, c) : c \in {c \in {changes} :
        ValidChanges(c) /\ \A i \in DOMAIN c : BlockOf(doc, c[i].id) = c[i].before}}

\* The blocks of the named items become those of an edited document.
ReplaceItems(doc, ids, Edited(_)) ==
    IF ~ (ids \subseteq IdsOf(doc)) THEN {}
    ELSE FromChanges(doc, [i \in 1..Cardinality(ids) |->
           LET id == SetToSeq(ids)[i] IN Change(id, BlockOf(doc, id), Edited(BlockOf(doc, id)), EndOfDocument)])

SetProperty(doc, id, value) == ReplaceItems(doc, {id}, LAMBDA block : [block EXCEPT !.value = value])

\* Every placed symbol that lacks the instance path gets it.
EnsureSymbolInstancePath(doc, path) ==
    LET lacking == {id \in IdsOf(doc) : BlockOf(doc, id).kind = "symbol" /\ ~ Contains(BlockOf(doc, id).paths, path)}
    IN  ReplaceItems(doc, lacking, LAMBDA block : [block EXCEPT !.paths = Append(@, path)])

\* Refused for what is not a sheet, and for a second pin of one name.
InsertSheetPin(doc, id, name) ==
    IF \/ id \notin IdsOf(doc)
       \/ BlockOf(doc, id).kind # "sheet"
       \/ Contains(BlockOf(doc, id).pins, name)
    THEN {}
    ELSE ReplaceItems(doc, {id}, LAMBDA block : [block EXCEPT !.pins = Append(@, name)])

\* A deleted item is anchored to the next one that stays.
AnchorAfter(doc, p, ids) ==
    LET staying == {q \in p + 1..Len(doc) : doc[q].id \notin ids \cup {NoId}}
    IN  IF staying # {} THEN Before(doc[CHOOSE q \in staying : \A s \in staying : q <= s].id)
        ELSE IF \E q \in p + 1..Len(doc) : doc[q].kind \in Footers THEN BeforeFooter
        ELSE EndOfDocument

Deletion(doc, p, ids) == Change(doc[p].id, doc[p], Absent, AnchorAfter(doc, p, ids))

\* The changes stand in reverse order of the document.
DeleteItems(doc, ids) ==
    IF ids = {} \/ ~ (ids \subseteq IdsOf(doc)) THEN {}
    ELSE LET places == SelectSeq([p \in DOMAIN doc |-> p], LAMBDA p : doc[p].id \in ids)
         IN  FromChanges(doc, [i \in DOMAIN places |-> Deletion(doc, Reverse(places)[i], ids)])

InsertItem(doc, block, anchor) ==
    IF block.id \in IdsOf(doc) THEN {} ELSE {Command(doc, <<Change(block.id, Absent, block, anchor)>>)}

RequiringUnchangedDocument(cmd) == [cmd EXCEPT !.whole = TRUE]

\* The tools add a sheet under a name no sheet of the document has.
AddSheet(doc, id, name) ==
    IF \E p \in DOMAIN doc : doc[p].kind = "sheet" /\ doc[p].value = name THEN {}
    ELSE {RequiringUnchangedDocument(cmd) : cmd \in InsertItem(doc, Block(id, "sheet", name), BeforeFooter)}

-----------------------------------------------------------------------------
(* Committing one. *)

\* Where an insertion goes, 0 where its anchor is gone.
InsertionPoint(doc, anchor) ==
    LET footers == {p \in DOMAIN doc : doc[p].kind \in Footers}
    IN  CASE anchor.at = "before" -> IF anchor.id \in IdsOf(doc) THEN PlaceOf(doc, anchor.id) ELSE 0
          [] anchor.at = "footer" /\ footers # {} -> CHOOSE p \in footers : \A q \in footers : p <= q
          [] OTHER -> Len(doc) + 1

\* A fault to detect: the targets are there, and nobody looks at what they have become.
MatchesById(doc, cmd) ==
    \A i \in DOMAIN cmd.changes : LET change == cmd.changes[i]
      IN  /\ change.id \in IdsOf(doc) <=> change.before # Absent
          /\ change.before = Absent => InsertionPoint(doc, change.anchor) # 0

\* Every target is exactly what the command was prepared for, wherever it now stands.
Matches(doc, cmd) ==
    /\ cmd.whole => doc = cmd.base
    /\ ValidChanges(cmd.changes)
    /\ \A i \in DOMAIN cmd.changes :
         LET change == cmd.changes[i]
         IN  /\ BlockOf(doc, change.id) = change.before
             /\ change.before = Absent => InsertionPoint(doc, change.anchor) # 0

\* The edits are applied from the end of the text: of several insertions at one
\* place the last of the command comes first in the document.
ApplyEdits(doc, cmd) ==
    LET InsertedAt(p) == SelectSeq(cmd.changes, LAMBDA c : c.before = Absent /\ InsertionPoint(doc, c.anchor) = p)
        Kept(p) == IF p > Len(doc) THEN <<>>
                   ELSE LET changed == SelectSeq(cmd.changes, LAMBDA c : c.before = doc[p] /\ c.id # NoId)
                        IN  IF changed = <<>> THEN <<doc[p]>>
                            ELSE IF changed[1].after = Absent THEN <<>> ELSE <<changed[1].after>>
        inserted(p) == Reverse([i \in DOMAIN InsertedAt(p) |-> InsertedAt(p)[i].after])
    IN  FlattenSeq([p \in 1..Len(doc) + 1 |-> inserted(p) \o Kept(p)])

InverseOf(cmd, after) ==
    [base |-> after, whole |-> FALSE,
     changes |-> [i \in DOMAIN cmd.changes |->
        [cmd.changes[i] EXCEPT !.before = cmd.changes[i].after, !.after = cmd.changes[i].before]]]

-----------------------------------------------------------------------------
CommandInit ==
    /\ document \in Documents
    /\ held = [e \in Editors |-> {}]
    /\ commits = 0
    /\ saves = 0

\* Identifiers that no item and no held command has.
FreshIds == NewIds \ (IdsOf(document) \cup UNION {{c.cmd.changes[i].id : i \in DOMAIN c.cmd.changes} : c \in UNION Range(held)})

\* The commands a tool may prepare from the document it reads.
Prepared(doc) == UNION {
    UNION {SetProperty(doc, id, value) : id \in {i \in IdsOf(doc) : BlockOf(doc, i).kind # "sheet"}, value \in Values},
    UNION {EnsureSymbolInstancePath(doc, path) : path \in Paths},
    UNION {InsertSheetPin(doc, id, name) : id \in IdsOf(doc), name \in Values},
    UNION {DeleteItems(doc, ids) : ids \in SUBSET IdsOf(doc)},
    UNION {AddSheet(doc, id, name) : id \in FreshIds, name \in Values}}

Prepare(e) ==
    /\ held[e] = {}
    /\ \E cmd \in Prepared(document) : held' = [held EXCEPT ![e] = {[cmd |-> cmd, restores |-> <<>>]}]
    /\ UNCHANGED <<document, commits, saves>>

\* commit_command: refused, the document untouched, or written, and the inverse kept.
Commit(e) ==
    /\ \E c \in held[e] :
         IF Matches(document, c.cmd)
         THEN LET after == ApplyEdits(document, c.cmd)
                  restores == IF document = c.cmd.base THEN document ELSE <<>>
              IN  /\ commits < MaxCommits
                  /\ commits' = commits + 1
                  /\ document' = after
                  /\ held' = [held EXCEPT ![e] = {[cmd |-> InverseOf(c.cmd, after), restores |-> restores]}]
         ELSE held' = [held EXCEPT ![e] = {}] /\ UNCHANGED <<document, commits>>
    /\ UNCHANGED saves

\* An editor forgets what it might have undone.
Drop(e) ==
    /\ held[e] # {}
    /\ held' = [held EXCEPT ![e] = {}]
    /\ UNCHANGED <<document, commits, saves>>

\* Eeschema saves the document with one item changed or removed.
Save ==
    /\ saves < MaxSaves
    /\ saves' = saves + 1
    /\ \E p \in {p \in DOMAIN document : document[p].kind \notin {"sheet"} \cup Footers /\ document[p].id # NoId} :
         \/ document' = RemoveAt(document, p)
         \/ \E value \in Values \ {document[p].value} : document' = [document EXCEPT ![p].value = value]
    /\ UNCHANGED <<held, commits>>

CommandNext == Save \/ \E e \in Editors : Prepare(e) \/ Commit(e) \/ Drop(e)
CommandSpec == CommandInit /\ [][CommandNext]_commandVars

-----------------------------------------------------------------------------
Targets(cmd) == {cmd.changes[i].id : i \in DOMAIN cmd.changes}
NamesOfSheets(doc) == [p \in {p \in DOMAIN doc : doc[p].kind = "sheet"} |-> doc[p].value]

\* A command merges with whatever happened since it was prepared: a commit, an
\* undo and a redo change their own targets, each from exactly the block the
\* command was prepared for, and leave every other item and their order alone; no
\* identifier is ever doubled, and a command that looked at the whole document
\* (the name of a new sheet) does not double a sheet's name.
CommitsMerge ==
    [][commits' # commits => \E e \in Editors : held'[e] # held[e] /\ \E c \in held[e] :
         LET own == Targets(c.cmd)
             Others(doc) == SelectSeq(doc, LAMBDA block : block.id \notin own)
         IN  /\ Others(document') = Others(document)
             /\ \A i \in DOMAIN c.cmd.changes :
                  LET change == c.cmd.changes[i]
                  IN  BlockOf(document, change.id) = change.before /\ BlockOf(document', change.id) = change.after
             /\ \A p, q \in DOMAIN document' : p # q => document'[p].id = NoId \/ document'[p].id # document'[q].id
             /\ c.cmd.whole /\ IsInjective(NamesOfSheets(document)) => IsInjective(NamesOfSheets(document'))]_commandVars

\* The inverse of a command that was not rebased, committed on the document the
\* command produced, is accepted and restores the document exactly, the order of
\* adjacent deleted items included; and so does the inverse of the inverse.
UndoRestores ==
    \A e \in Editors : \A c \in held[e] :
      c.restores # <<>> /\ document = c.cmd.base => /\ Matches(document, c.cmd)
                                                   /\ ApplyEdits(document, c.cmd) = c.restores

\* What a command promises, done and undone.
CommandsHold == CommitsMerge /\ []UndoRestores
=============================================================================
