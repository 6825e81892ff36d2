--------------------------- MODULE SchematicViewer ---------------------------
(***************************************************************************)
(* schematic-viewer/src/main.rs: a window on a tree of sheets.             *)
(*                                                                         *)
(* Opening a design walks its tree, renders every sheet from copies and    *)
(* starts a watcher, with a worker of its own that renders again what the  *)
(* watcher reports.  The commands of the window run one at a time; workers *)
(* run beside them, and one outlives its design until it looks up.         *)
(***************************************************************************)
EXTENDS Naturals, FiniteSets

CONSTANTS
  Roots, SheetFiles,
  DirOf,     \* file -> its directory
  Drawings,  \* file -> the sets of child files it may be saved with
  Gone,      \* no such file
  Nothing,   \* no image, no design
  MaxOpens, MaxEdits, MaxCommands, MaxMisfires  \* bounds on the user and on kicad-cli

Forms == [kids : SUBSET SheetFiles, edition : Nat]

ASSUME ViewerAssumption ==
  /\ Roots \subseteq SheetFiles /\ \A f \in SheetFiles : Drawings[f] \subseteq SUBSET SheetFiles /\ Gone \notin Drawings[f]
  /\ Gone # Nothing /\ Nothing \notin Forms /\ Gone \notin Forms
  /\ MaxOpens \in Nat

VARIABLES
  disk,          \* file -> [kids, edition] or Gone
  root, active,  \* root_path, active_file
  listed,        \* the sheets of the open design
  images,        \* svg_cache: file -> what it was drawn from, Gone if it failed, or Nothing
  recorded,      \* watched_dirs
  watcher,       \* the worker it reports to and the directories it covers
  pending,       \* worker -> the changed files in its channel
  worker,        \* worker -> what it is doing
  command,       \* what the window waits for
  window,        \* [selected, image]: what its user sees
  crossed,       \* has a command, or an unwatched save, crossed a rendering?
  opens, edits, commands, misfires

shownVars == <<root, active, listed, images, recorded, window>>
viewerVars == <<disk, shownVars, watcher, pending, worker, command, crossed, opens, edits, commands, misfires>>

Workers == 1..MaxOpens
NoWorker == [at |-> "none"]
NoCommand == [at |-> "idle"]

\* walk_sheet_tree: the root and every file below it that is there.  One that is its
\* own ancestor is passed over, so a tree has a file at each of its places once.
Kids(f) == IF disk[f] = Gone THEN {} ELSE {k \in disk[f].kids : disk[k] # Gone}
Below(fs) == \A f \in fs : Kids(f) \subseteq fs
Walk(r) == LET trees == {fs \in SUBSET SheetFiles : r \in fs /\ Below(fs)}
           IN {f \in SheetFiles : \A fs \in trees : f \in fs}

DirsOf(fs) == {DirOf[f] : f \in fs}

\* Copies are drawn; kicad-cli fails on one that is gone and may fail on any other.
Drawn(fs, failing) == [f \in fs |-> IF f \in failing THEN Gone ELSE disk[f]]
MayFail(fs) == {s \in SUBSET fs : Cardinality(s) + misfires <= MaxMisfires}

ViewerInit ==
  /\ \E form \in [SheetFiles -> UNION {Drawings[f] : f \in SheetFiles}] :
       (\A f \in SheetFiles : form[f] \in Drawings[f]) /\ disk = [f \in SheetFiles |-> [kids |-> form[f], edition |-> 0]]
  /\ root = Nothing /\ active = Nothing /\ listed = {} /\ images = [f \in SheetFiles |-> Nothing]
  /\ recorded = {} /\ watcher = [of |-> 0, dirs |-> {}]
  /\ pending = [w \in Workers |-> {}] /\ worker = [w \in Workers |-> NoWorker]
  /\ command = NoCommand /\ window = [selected |-> Nothing, image |-> Nothing]
  /\ crossed = FALSE /\ opens = 0 /\ edits = 0 /\ commands = 0 /\ misfires = 0

Busy(w) == worker[w].at \notin {"none", "waiting"}
Drawing(f) == \E w \in Workers : worker[w].at \in {"drawing", "merged"} /\ f \in worker[w].sheets

-----------------------------------------------------------------------------
(* The commands of the window.                                                *)

Start == command.at = "idle" /\ commands < MaxCommands /\ commands' = commands + 1

\* open_schematic: walk, render all.  A root that fails to render leaves all as it was.
Open(r) ==
  /\ Start /\ opens < MaxOpens /\ disk[r] # Gone
  /\ \E failing \in MayFail(Walk(r)) :
       /\ misfires' = misfires + Cardinality(failing)
       /\ command' = IF r \in failing THEN NoCommand
                     ELSE [at |-> "rendered", root |-> r, sheets |-> Walk(r), images |-> Drawn(Walk(r), failing)]
  /\ crossed' = (crossed \/ \E w \in Workers : Busy(w))
  /\ UNCHANGED <<disk, shownVars, watcher, pending, worker, opens, edits>>

\* build_watcher walks again; from here on it hears of what is saved.  The one
\* before it hears as well, until it is replaced.
BuildWatcher ==
  /\ command.at = "rendered"
  /\ command' = [at |-> "watching", root |-> command.root, sheets |-> command.sheets, images |-> command.images,
                 dirs |-> DirsOf(Walk(command.root))]
  /\ opens' = opens + 1
  /\ worker' = [worker EXCEPT ![opens'] = [at |-> "waiting", root |-> command.root]]
  /\ UNCHANGED <<disk, shownVars, watcher, pending, crossed, edits, commands, misfires>>

OpenEnds ==
  /\ command.at = "watching"
  /\ root' = command.root /\ active' = command.root
  /\ listed' = command.sheets
  /\ images' = [f \in SheetFiles |-> IF f \in command.sheets THEN command.images[f] ELSE Nothing]
  /\ recorded' = DirsOf(command.sheets)
  /\ watcher' = [of |-> opens, dirs |-> command.dirs]
  /\ window' = [selected |-> command.root, image |-> command.images[command.root]]
  /\ command' = NoCommand
  /\ UNCHANGED <<disk, pending, worker, crossed, opens, edits, commands, misfires>>

\* A sheet that is not listed, or has no image, is refused: the window keeps its image.
SelectSheet(f) ==
  /\ Start
  /\ f \in listed
  /\ IF images[f] \in {Nothing, Gone} THEN UNCHANGED <<active, window>>
     ELSE active' = f /\ window' = [selected |-> f, image |-> images[f]]
  /\ crossed' = (crossed \/ \E w \in Workers : worker[w].at \in {"merged", "told"})
  /\ UNCHANGED <<disk, root, listed, images, recorded, watcher, pending, worker, command, opens, edits, misfires>>

\* refresh: the active sheet is drawn, and its image replaced when that is done.
Refresh ==
  /\ Start /\ active # Nothing /\ disk[active] # Gone
  /\ command' = [at |-> "refreshed", file |-> active, image |-> disk[active]]
  /\ crossed' = (crossed \/ \E w \in Workers : Busy(w))
  /\ UNCHANGED <<disk, shownVars, watcher, pending, worker, opens, edits, misfires>>

Refreshed ==
  /\ command.at = "refreshed"
  /\ images' = [images EXCEPT ![command.file] = command.image]
  /\ window' = [window EXCEPT !.image = command.image]
  /\ command' = NoCommand
  /\ UNCHANGED <<disk, root, active, listed, recorded, watcher, pending, worker, crossed, opens, edits, commands, misfires>>

-----------------------------------------------------------------------------
(* The watcher and its worker.                                                *)

Hears(w, f) == \/ watcher.of = w /\ DirOf[f] \in watcher.dirs
               \/ command.at = "watching" /\ opens = w /\ DirOf[f] \in command.dirs

\* A sheet is saved or removed: whoever watches its directory hears of it.
SavesSheet(f, form) ==
  /\ edits < MaxEdits /\ edits' = edits + 1
  /\ disk' = [disk EXCEPT ![f] = IF form = Gone THEN Gone ELSE [kids |-> form, edition |-> edits']]
  /\ pending' = [w \in Workers |-> IF Hears(w, f) THEN pending[w] \cup {f} ELSE pending[w]]
  /\ UNCHANGED <<shownVars, watcher, worker, command, opens, commands, misfires>>
  /\ crossed' = (\/ crossed \/ command.at \in {"rendered", "refreshed"}
                 \/ command.at = "watching" /\ ~Hears(opens, f)
                 \/ (Drawing(f) \/ (root # Nothing /\ f \in Walk(root)')) /\ ~\E w \in Workers : Hears(w, f))

Wake(w) ==
  /\ worker[w].at = "waiting" /\ pending[w] # {}
  /\ worker' = [worker EXCEPT ![w] = [at |-> "draining", root |-> @.root, changed |-> pending[w]]]
  /\ pending' = [pending EXCEPT ![w] = {}]
  /\ crossed' = (crossed \/ command.at # "idle")
  /\ UNCHANGED <<disk, shownVars, watcher, command, opens, edits, commands, misfires>>

\* The watcher's end of the channel is dropped with it.
Dropped(w) == watcher.of # w /\ ~(command.at = "watching" /\ opens = w)

\* drain_until_quiet, which ends when nothing was heard for a while, gives up waiting
\* for that after a longer one, and leaves when the channel is closed and empty.
Drain(w) ==
  /\ worker[w].at = "draining" /\ pending[w] # {}
  /\ worker' = [worker EXCEPT ![w].changed = @ \cup pending[w]]
  /\ pending' = [pending EXCEPT ![w] = {}]
  /\ UNCHANGED <<disk, shownVars, watcher, command, crossed, opens, edits, commands, misfires>>

Quiet(w) ==
  /\ worker[w].at = "draining" /\ ~Dropped(w)
  /\ worker' = [worker EXCEPT ![w].at = "quiet"]
  /\ UNCHANGED <<disk, shownVars, watcher, pending, command, crossed, opens, edits, commands, misfires>>

Leaves(w) ==
  /\ worker[w].at \in {"waiting", "draining"} /\ pending[w] = {} /\ Dropped(w)
  /\ worker' = [worker EXCEPT ![w] = NoWorker]
  /\ UNCHANGED <<disk, shownVars, watcher, pending, command, crossed, opens, edits, commands, misfires>>

\* A fault to detect: only what was reported is drawn again.
NeedReported(sheets, changed) == sheets \cap changed

\* files_needing_render: what was reported, and what has no image.
Need(sheets, changed) == {f \in sheets : f \in changed \/ images[f] \in {Nothing, Gone}}

\* The stale guard; then the tree is walked and what needs it is drawn.
Redraw(w) ==
  /\ worker[w].at = "quiet"
  /\ IF root # worker[w].root THEN worker' = [worker EXCEPT ![w] = NoWorker] /\ UNCHANGED misfires
     ELSE LET sheets == Walk(root)
              need == Need(sheets, worker[w].changed)
          IN \E failing \in MayFail({f \in need : disk[f] # Gone}) :
               /\ misfires' = misfires + Cardinality(failing)
               /\ worker' = [worker EXCEPT ![w] = [at |-> "drawing", root |-> root, sheets |-> sheets, old |-> images,
                                                   fresh |-> Drawn(need, failing)]]
  /\ UNCHANGED <<disk, shownVars, watcher, pending, command, crossed, opens, edits, commands>>

\* An active sheet that left the tree gives way to the root.
Merge(w) ==
  /\ worker[w].at = "drawing"
  /\ active' = IF active \in worker[w].sheets THEN active ELSE worker[w].root
  /\ worker' = [worker EXCEPT ![w] = [at |-> "merged", root |-> @.root, sheets |-> @.sheets, old |-> @.old,
                                               fresh |-> @.fresh, key |-> active', switched |-> active # active']]
  /\ UNCHANGED <<disk, root, listed, images, recorded, window, watcher, pending, command, crossed, opens, edits, commands, misfires>>

\* The directories of the new tree are watched; sheets and images are replaced, by
\* fresh images where there are, by those of before where none was needed.
Publish(w) ==
  /\ worker[w].at = "merged"
  /\ LET new == DirsOf(worker[w].sheets)
     IN /\ watcher' = [watcher EXCEPT !.dirs = (@ \cup (new \ recorded)) \ (recorded \ new)]
        /\ recorded' = new
  /\ listed' = worker[w].sheets
  /\ images' = [f \in SheetFiles |-> IF f \in DOMAIN worker[w].fresh THEN worker[w].fresh[f]
                                ELSE IF f \in worker[w].sheets THEN worker[w].old[f] ELSE Nothing]
  /\ worker' = [worker EXCEPT ![w].at = "told"]
  /\ UNCHANGED <<disk, root, active, window, pending, command, crossed, opens, edits, commands, misfires>>

\* sheets-updated, and schematic-updated if the active sheet was drawn or changed.
Tell(w) ==
  /\ worker[w].at = "told"
  /\ LET key == worker[w].key
         fresh == IF key \in DOMAIN worker[w].fresh THEN worker[w].fresh[key] ELSE worker[w].old[key]
     IN window' = [selected |-> key,
                   image |-> IF (worker[w].switched \/ key \in DOMAIN worker[w].fresh) /\ fresh \notin {Nothing, Gone}
                             THEN fresh ELSE window.image]
  /\ worker' = [worker EXCEPT ![w] = [at |-> "waiting", root |-> @.root]]
  /\ UNCHANGED <<disk, root, active, listed, images, recorded, watcher, pending, command, crossed, opens, edits, commands, misfires>>

ViewerNext ==
  \/ \E r \in Roots : Open(r)
  \/ BuildWatcher \/ OpenEnds \/ Refresh \/ Refreshed
  \/ \E f \in SheetFiles : SelectSheet(f) \/ (\E form \in Drawings[f] \cup {Gone} : SavesSheet(f, form))
  \/ \E w \in Workers : Wake(w) \/ Drain(w) \/ Quiet(w) \/ Leaves(w) \/ Redraw(w) \/ Merge(w) \/ Publish(w) \/ Tell(w)

ViewerSpec == ViewerInit /\ [][ViewerNext]_viewerVars

-----------------------------------------------------------------------------
\* Nothing is under way and nothing is left to hear of.
AtRest == /\ root # Nothing /\ command.at = "idle"
          /\ \A w \in Workers : ~Busy(w) /\ pending[w] = {}

\* Every sheet of the tree as it is now is listed, with an image of what is saved
\* or of a failure; the window shows the active sheet, or an older image of one
\* that failed.
ShowsWhatIsSaved ==
  /\ listed = Walk(root) /\ active \in listed
  /\ \A f \in listed : images[f] \in {disk[f], Gone}
  /\ window.selected = active
  /\ images[active] # Gone => window.image = images[active]

\* Whatever was saved, at rest the viewer has caught up with it, unless a command
\* or an unwatched save crossed a rendering.
ViewerHolds == AtRest /\ ~crossed => ShowsWhatIsSaved

\* Nor is it kept by a crossing.
CatchesUp == AtRest => ShowsWhatIsSaved
=============================================================================
