# Specification of the Konnect server

Konnect (`konnect`, the `kam-*` and `konnect-*` crates under `src/crates/`) is an MCP server with which an agent reads
and edits KiCad projects: S-expression documents in a project directory, and boards that a running KiCad holds, while a
person may work on both. Some two hundred tools edit documents or send KiCad commands; below them is a layer of
transactions, ledgers, snapshots, journals and catalogues that several clients, several processes, KiCad and a crash
share. This directory specifies both in TLA+, checks them with TLC on small instances, and proves the central invariants
with TLAPS for every value of the constants.

Paths below are relative to `src/crates/` unless they say otherwise; file names without a path are unique there or
belong to `konnect-core/src/tools/`.

## 1. Inventory

| Component | State it keeps | Operations | Talks to |
|---|---|---|---|
| Project file transactions, `konnect-sexp/src/transaction.rs` | targets, journals in `.konnect-transactions/`, document locks | commit, recover all, recover one, abandon, inspect | atomic writer, command line |
| Atomic document writer, `konnect-sexp/src/writer.rs` | the document, its lock file, a staged sibling | `write_atomic_if_unchanged`, `write_new_atomic`, `write_atomic`, `transact_atomic` | file system, KiCad's `~name.lck` |
| Schematic commands, `konnect-sexp/src/command.rs` | a prepared edit and its base | prepare, commit onto another text, undo | writer |
| Idempotency ledger, `kam-state/src/ledger.rs` | map of operation keys, queue of keys, under one mutex | claim (with eviction), complete, abandon | batches |
| Run journal, `kam-state/src/journal.rs` | `journal.jsonl`, image sets | append, compact, evict images, read | batches, `changes_since` |
| Evidence store, `kam-evidence/src/store.rs` | bounded queue of numbered items | put, get (found, expired, unknown) | batches, resources |
| Task store, `kam-state/src/task.rs` | tasks with bounded lists | start, update, get, evict | batches, supervisor |
| Operating modes, `kam-state/src/mode.rs`, `konnect-core/src/mode_gate.rs` | one atomic byte | current, restrict_to, check | dispatch, batches |
| Tool router and dispatch, `konnect-core/src/router/`, `mcp/handler.rs` | active toolsets and loaded tools under two locks, sinks for notifications | load, unload, load for a call, list, notify | transports, mode gate |
| Batch execution, `konnect-core/src/router/meta_tools.rs` | one batch's local state | base-revision check, claim, capture, the calls, rollback, validation, answer | ledger, snapshots, tools |
| Directory snapshots, `kam-state/src/snapshot.rs` | captured bytes of the tracked files | capture, changed, restore | file system |
| Plan compiler and executor, `kam-plan/`, `tools/plan.rs` | cache of verdicts | compile, resolve references, execute, validate | tools, kicad-cli |
| Local agent, `agent_loop.rs`, `verification_agent.rs`, `kam-runtime/` | the task at hand | propose, apply, verify, record | task store, model providers |
| KiCad IPC, `konnect-ipc/src/client.rs`, `ipc_queue.rs` | one worker and one queue per address, KiCad's boards and open commits | submit, run, commit, drop, reconnect | KiCad |
| Board tools, `pcb_*.rs`, `project.rs` | none between calls | thirty-five edits and queries of a board; `update_pcb_from_schematic` | IPC, documents |
| Schematic and library tools, `sch_*.rs`, `library.rs`, `footprint_graphics.rs`, `verification.rs`, `templates.rs` | none between calls | sixty-six edits and queries of documents | writer, commands, object model |
| Schematic object model, `konnect-schematic-editor/src/schematic/` | a document as typed objects | load, edit, overwrite, rewrite one item | tools |
| Hierarchical sheets, `sch_hierarchy.rs` | sheets, files, page numbers per instance | add, duplicate, edit, delete, renumber | transactions |
| Wires and nets, `sch_wiring.rs`, `sch_batch.rs`, `sch_analysis.rs` | wires, dots, labels, pins | draw, route, split, delete, label; place, move and pull symbols; net queries | object model |
| Symbol libraries, `konnect-schematic-editor/src/library.rs` | index in memory and on disk | resolve, scan, load and store the index, place | file system |
| Library tables, `library.rs` | global and project tables | register, flatten, find, search | the user's edits |
| Parts database, `integration.rs` | database file, temporaries, query cache | download, validate, install, search | network |
| Board reviews and output, `cli.rs`, `drc_gate.rs`, `manufacturing.rs`, `design_review.rs` | DRC reports, exported files | run DRC, validate, review, export | kicad-cli |
| Schematic viewer, `schematic-viewer/src/main.rs` | tree, renderings, watcher, worker | open, watch, redraw, select, refresh | file system, kicad-cli |
| Transports, command line, model providers, capability catalogue | connections, static tables | stdio one request at a time, http one task per request | dispatch |

How they interact: a transport hands a request to the dispatch, which checks the mode and calls a tool; `kicad_invoke`
and `apply_plan` call several, the former between a snapshot and a ledger entry. Tools change documents through the
writer, or several documents at once through a transaction, and boards through a queue per KiCad. Everything in the
process runs on one asynchronous runtime; documents, journals, indexes and databases are shared with other processes
through the file system and its advisory locks, and with KiCad's own files through nothing at all.

What is hard, and what makes each part correct:

* **Transactions.** Several files cannot be replaced at once, a crash can fall between any two renames, recovery may be
  run by anybody at any time, several locks are held together, KiCad takes no lock. Correct: all or nothing, nothing
  compared is overwritten unseen, a journal goes only when its work is done, nobody waits in a circle, calls return.
* **Ledger, stores, journal.** Bounded, but they must not forget what is running or what the user laid down; what one
  crash may cost is one line.
* **Batches.** Retries race first tries; clients go away; calls fail half-way; a rollback must restore everything and
  touch nothing else; the answer must say what is true and must stay the same.
* **Router and mode.** State under two locks or an atomic; a client's catalogue must not contradict it for ever.
* **Plans and the agent.** References must be refused before the first write; what is answered as clean must be clean
  for the text it was said of; a task may be evicted under the agent.
* **KiCad.** No answer does not mean not done; commands go out one by one while the user edits; several boards are open.
* **Design tools.** They read, compute and write later: the write must be of what was read, or of what was reviewed.
* **Reviews.** A pass that did not run must not count as clean; reports have one name for all callers.

`PROJECT.json` lists the components with what is modelled of each, and the hazards of this code at the lines where they
bite.

## 2. Modules

A module's header says what it models and what it leaves out; this is how they fit together. Modules named `MC...`
instantiate the others for TLC, modules named `..._proofs` prove about them.

**Transactions.** `AtomicStore` is the abstract specification: files of which several change in one step, from exactly
the contents a plan expects to exactly those it gives. `FileTransaction` is transaction.rs step by step. A caller (a
thread, or another process) runs one call at a time: `pc[p]` is the step it is about to take, `call[p]` its local
variables; `disk` holds the targets, `jstate` and `jentries` the journals, `owner` the document locks, `editor` the
schematics KiCad has open. The actions follow `commit_file_transaction` (transaction.rs:277-310): the journals found are
read (`ReadJournal`), the plan is normalised (`BeginCommit`), locks are taken in path order (`Lock`), open schematics
refused (`CheckClosed`), before images compared (`VerifyBefore`), the journal persisted (`Persist`), the targets staged
and renamed (`StageWrite`, `Rename`), read back (`VerifyAfter`), the journal removed (`RemoveJournal`). Recovery enters
at `Classify`; `abandon_file_transaction` has `ReadAbandoned`, `Inspect` and `Archive`; a save
(`write_atomic_if_unchanged`) shares the lock, the comparison and the rename. `Stop` is an error return or the death of
one caller, `Halt` a restart of the machine; both release the locks and keep what is on disk. Contents are values; a
journal's encoding and checks are the states "active", "invalid", "removed", "abandoned"; a rename and its directory
sync are one step. `View` is the refinement mapping: a target that a journal on disk will roll forward counts as
replaced.

**What a server remembers.** `IdempotencyLedger` (`entries` the map, `order` the queue; `Evicted` says which keys the
eviction loop drops), `RunJournal` (one write at a time, cut short after any), `EvidenceStore`, `TaskStore`, `ModeGuard`
(load and compare-exchange apart), and `Session`: the router's two sets, the meta tools over them, dispatch with loading
for a call, and each client with the channel of bounded size over which it hears that the catalogue changed and the
listing it does then. `Sublists` has what they do with their queues (`Sublist` filters, `Total` adds up the first sizes).
`Stores` composes them and runs one of them at a time, because they share nothing; `MCStores` gives it constants.

**Batches.** `KicadInvoke` instantiates `IdempotencyLedger`. A task serves one request at a time; `Compile` and `Receive`
are the client, who builds a request with or without `base_revisions` and may send it any number of times. Then, in the
code's order (meta_tools.rs:739-987): `CheckBase` for each document, `Claim`, `ParseVerify`, `Scan` and `Capture`, the
calls (`RefuseCall`, `ReadDocument`, `WriteDocument`, `HandlerFails`), `Finish`, the rollback (`RestoreDocument`,
`Rescan`, `DeleteDocument`, `RolledBack`) or the validators (`Validated`), and `CompleteBatch`. `Drop` ends a task at an
await. The listing of the tracked files, taken again at the end, may be cut short, and the code throws that error away:
`RescanCutShort` comes to some of the created documents only (`missed` says which not), and `ChangesOverlooked` takes a
batch that failed to have changed nothing. A document is the sequence of the texts that edits left in it, so that a
property can count them; its revision is its content.

**Plans.** `PlanCompiler` turns operations into steps and resolves what they refer to, through each of the four
spellings; `PlanRun` is `apply_plan` with its baseline, its steps, its postconditions and the cache of verdicts, by
several callers; `AgentLoop` adds the local agent over `TaskStore`. The model's answer is any plan of a given set.

**Tools.** A handler is a program: phases of commands to KiCad or of reads and writes of documents, with what follows
from each outcome (`ToolPrograms`). `BoardTools` and `SchematicTools` write the handlers down, `ToolCatalogue` is the
table of all, and `DesignTools` runs them: one worker per KiCad address in order of submission, commands that are obeyed,
refused, or obeyed with the answer lost, a user who edits, opens, closes and saves between any two of them, and
unqueued steps on files. An item is the mark of who last set each of its two attributes. `SoundRequest` is what all the
programs have in common; it is assumed of `Days`, and checked of the catalogue.

**Read first, write later.** `PcbSync` is `update_pcb_from_schematic`: a dry run plans, an apply plans again and goes
ahead only at the same revision, in one commit of KiCad. `SchematicCommand` prepares edits from one text and commits
them onto another. `SheetPages` is the tree of sheets and its page numbers. `SymbolIndex` decides which installed symbol
a lib_id means, with an index that one process leaves on disk for another. `SchematicObjects` is the object model: what a
rewrite of the whole document from typed objects keeps, moves and loses. `MCDesign` runs one of them at a time.

**Wires.** `Wiring` draws, splits and deletes wires with their junction dots, puts down, moves and deletes labels and
symbols, and answers about nets. Some tools look after the dots (`Call`), others look at no wire (`BlindCall`):
`connect_passthrough`, `batch_place_components`, `apply_template`, everything that moves, turns, pulls or replaces symbols,
and `batch_delete` of a dot. `loose` holds what these left touching without a dot, as long as it does, so that the others
are held to what they find. `MCDesign` has the sheet.

**Around a project.** `LibraryTables`: which library a nickname stands for, by each of the code's readers, which take a
relative path from different directories and put a derived symbol together by different rules (`Expand` and `TablePath`,
`PinsInFile` and `UnitsFlattened`); `MCProject` has the tables. `PartsCatalogue`: files are numbered and a name stands
for a number, because a rename moves a file away under whoever has it open. A client may go away at any await, and while
its archive is inflated on a thread of its own: that thread is then a stray that writes on (`Leave`, `strays`), and `met`
records who began while another, or a stray, was at work; `MCProject` has one client with searches, or two.
`BoardReview` over `SheetAudits`, and `SchematicViewer`: `MCProject` runs one of them at a time.

## 3. Runs

| Run | Instance | Shows |
|---|---|---|
| `tx_core` | 2 callers, 2 files, 5 plans (one undoes another) and a save, 1 call cut short, KiCad opening and closing the schematic | the inductive invariant, locks exclude, waiting is acyclic, nothing compared is lost, a journal is on disk before the first target is replaced and until the last one is |
| `tx_atomic` | 2 callers, plans that compete and one that follows, 2 machine restarts | journals on disk can be rolled forward; files and journals together implement `AtomicStore` |
| `tx_foreign` | an edit from outside or a damaged journal, 1 call cut short, fairness | only a journal that can no longer be replayed is set aside; every call returns |
| `stores` | five keys over a ledger of two; five runs over a journal of three lines; five artefacts over a store of three; three callers restricting the mode; three tasks in a store of two; two clients over two toolsets | types, map and queue agree, nothing in flight is forgotten, what full stores keep, budgets and torn lines, restrictions hold, active toolsets are loaded, stale clients hear of it and converge |
| `invoke_http` | 2 tasks, 4 requests, 3 receipts, 1 drop, 1 failure | one run per key, nothing applied twice, answers stay |
| `invoke_stdio` | 1 task, 4 requests, 4 receipts, 2 failures, 1 edit from outside, fairness | all or nothing but for created documents that a listing cut short did not come to, the answer says which, undone stays undone; every key comes free |
| `agent` | an agent and a caller, nine plans, three documents, a task store of one, fairness | what compiles resolves; clean means clean; every turn ends |
| `tools` | a hundred and one tools in turn, each beside another on the same document, 1 failure, 2 acts of the user, fairness | no edit of another caller or of the user is put back, commits are whole, placements happen once and where asked, every call is answered |
| `design` | six views, see `design.cfg` | dry runs and applies agree, commands merge and undo, pages stay in order, rewrites of an id are sole, rewrites keep what they are not about; tools that look after dots leave nothing touching unjoined whatever the others did, what is deleted or split cuts only itself, nets are KiCad's |
| `project` | six scenes, see `project.cfg` | readers of the library tables agree where KiCad leaves them tidy, footprints lead back, registering tells; the parts database is whole unless two downloads were at work, answers are recent; what is ready has been checked; the viewer shows what is saved |
| `tx_two_commits`, `board_wrong` | no fault; two boards open | counterexamples, section 6 |

Every property of a passing run has a mutant: a definition changed as a plausible bug would change the code (a comment
"A fault to detect" marks them), under which TLC finds that property violated.

**Bounds.** Two callers are enough for each race in this code: all of them are between one that compares, reads or
captures and one that writes, removes or undoes. Three parties matter for a cycle of waiters, which the proof covers for
any number, and for the compare-exchange of the mode, which has three. Two files show every mixed state of a transaction
(first done, second not) and the order of locks; one is a schematic that exists, the other is created. A journal number is
not used again. One call cut short or two restarts allow a failure, and a second one in the recovery of the first. For
batches two documents, one existing and one created, show both halves of a rollback; three or four receipts allow first
try, retry during it and retry after it. Each store has a capacity smaller than what is put into it. In `tools` one
failure of KiCad can fall on any command of any program, and two acts of the user before and after it; that those restart
KiCad under a job makes a difference only where another call has changed the same item since it was saved (section 6). In
`design` four calls on a cross of five points, beside one pin or two, are what it takes to draw two crossing wires, dot
them and delete both ways round, or to move a symbol onto what three drew; five operations reach nested, doubled and
cyclic sheets; two changes of the libraries fall before and after a fingerprint. In `project` one review, one save and
one loss of patience are what it takes for a late report to meet a new board; three steps register a library over a row
that has been added and a library that has moved; the two downloads are one client's with searches, or two clients' with
calls that go away at any step.

Deadlock is checked for the transactions; in the other runs the clients or the user stop when a bound is used up.

**Symmetry** is over callers, tasks, keys or servers, in runs without liveness properties.

**Fairness.** `FileTransaction`: weak fairness of a running call's own steps (a thread that can run does), strong
fairness of taking a lock, because `File::lock` queues in the kernel and a lock that is released again and again is had
in the end. `KicadInvoke`, `AgentLoop`: weak fairness of each task's own steps (the runtime polls a task that is ready).
`DesignTools`: of the next step of some call, no more, because the worker serves one job at a time. `MCStores`: of serving a
client's requests, of hearing or reopening its stream, and of listing again. Never fairness for starting calls, failures,
KiCad, users or other applications. `KeysComeFree` needs that nobody goes away, as over stdio; over http a key may stay in
flight (section 6).

## 4. What is proved

Every theorem is for all values of the constants that satisfy the modules' assumptions (what marks absence is not a
content, what is numbered is numbered, bounds are numbers) and the hypotheses named here. Each rests on an inductive
invariant, `Init => Inv` and `Inv /\ [Next]_vars => Inv'`, in the second of which one lemma stands for each action or
kind of action; the invariants were given to TLC before they were proved.

**`FileTransaction_proofs`**, any callers, files, journals and plans. That two calls past their lock loop have disjoint
targets rests on which locks a call holds at each step, and that on what it still has to visit. `IInv` therefore says of
each caller which local variables go with which step (`Shape`), which locks it holds (`HoldsItsLocks`: none before the
loop, those of the smaller paths in it, all after it), and that what it compared and has yet to write is unchanged
(`ComparisonStands`). The caller that moves re-establishes its own part; it disturbs no other's, because locks are taken
only when free and contents change only under their lock. `InductiveInvariant` and `TypeCorrect` are that;
`WritersAreExclusive`, `LocksAreOrdered` (nobody waits in a circle, for any number of callers) and
`NoKonnectWriteIsLost` follow.

Its second half extends this to the journals, in parts that each add a hypothesis only where the next needs it.

* `CommitsWriteAheadAlways`, if journals are not damaged: a commit replaces a target only under its own journal, whoever
  else recovers or abandons it. `JournalInv` says whose an id is and that whoever works on a journal works on the entries
  it was written with, `StandInv` that a commit's journal stays on disk.
* `JournalsAlwaysLead`, if in addition no other application edits a target: a journal is removed only when each target
  holds its replacement. `AppliedInv` adds that what a call has put behind it holds what it wrote.
* `OnlyDivergentAreAbandoned`, whatever is damaged, edited or cut short, as long as an edit brings back no image of a
  transaction (`EditsAreForeign`): a journal that can be rolled forward is not set aside.
* `JournalsStayRecoverable` and the refinement `TransactionsAreAtomic`, `Spec => ImplementsAtomicStore`, where restarts
  are the only fault (`OnlyRestarts`) and a transaction replaces content by content that is newer (`Newer`: some age of
  contents grows). Both hypotheses are needed, and TLC shows what happens without. A call that stops alone leaves a
  journal which a commit that has scanned the directory will not recover. A recovery that has read a journal and waits
  for the locks while its owner finishes, and another transaction brings the old content back, applies it a second time;
  with `Newer` it finds what is neither its before nor its after image, or its work done. `AtomicInv` says that
  such leftovers (`Orphan`) are ahead of every call that has begun, that journals on disk are disjoint and applicable, and
  that what a removed one wrote has been replaced by newer content only (`RemovedIsPast`). For the refinement, `Persist`
  is `Replace` and every other step leaves `View` unchanged.

**`KicadInvoke_proofs`**, any tasks, documents, keys, requests, capacity.

* `OneRunOfAnOperation` and `AnswersAreStable`, from `IInv`: the types of everything but the queue, `WritesForACall`
  and `OneRunPerKey`. Only `Claim`, `ParseVerify` and `CompleteBatch` look at the ledger; the other steps cite what
  `GoKeeps`, `ReturnKeeps`, `CallDoneKeeps` and `VisitKeeps` show of the ways a task moves on.
* `NoOperationAppliesTwice`, if the text of an edit tells which edit it was (`TextsLabelEdits`; else it could not be
  counted) and the ledger forgets no answer (`NeverForgets`; an eviction may be followed by a second application, which
  the code accepts). `LabelInv` speaks of every content that is kept anywhere, in a document or in what a task has
  captured and may write back: it holds the text of an edit once at most, and not at all while the edit can still be made.
* `AloneBatchesAreAtomic`, for one task, as over stdio. `AloneInv`: until a call fails all so far have been made; what a
  roll-back has visited is as it was captured, or the batch says that it is torn, or another application was there.
  It does not speak of created documents that the listing of a rollback did not come to (`missed`): those stay although
  the answer is that the batch was undone (`UndoneIsClean`, section 6), and nothing stronger is true of the code.
* `UndoneIsGone`, for one task, under the hypotheses of `NoOperationAppliesTwice` and that a request captures what its
  operation edits (`RootsHoldEdits`; what lies outside the directories a batch names is not captured). `UndoneInv`: what
  a task would write back holds no edit that has been undone, nor one of the operation it works on. It leaves out the
  same documents.

**`Design_proofs`**. Of the symbol index, any libraries, changes of them and processes: a fingerprint is taken in two
parts before the libraries are read, and what is read may be of any later moment. `IndexesAreFaithful`: it is to be
believed all the same, because a library whose time is the one probed has not been touched since, and one that was read
and then removed has left its trace in the time of the directory (`Faithful`, of the index in memory, half built, and on
disk alike). `OnlySoleRewrites` follows.

Of updating a board from its schematic, any schematics whose symbols have different paths and any boards whose footprints
have different identities, with whatever the user does to both between two reads: `AppliesDoWhatWasReviewed` (an
apply that nobody disturbs leaves the board as its dry run told, and planning again finds nothing to do) and
`SyncsPreserveTheBoard`. `SyncInv` follows a call from read to read: what was reviewed is the plan of the
board and schematic that were read then (`ReviewOK`), what it has read is still there while nobody edits (`ReadingOK`,
`SeenOK`), and the board in the middle of the writing is the planned one but for what is yet to be written
(`WritingOK`). It rests on what a plan without a conflict makes of a board: every symbol has an image
(`EverySymbolHasAnImage`), one only (`OneFootprintEach`), which has the symbol's fields (`SyncedAlike`), so that planning
again gives nothing (`SyncedIsNoop`).

**`Project_proofs`**. Of the parts database, any searches, libraries and limits, any number of downloads:
`AnswersAreAlwaysRecent`. `FilesInv` says that no file has two names and that what is written without being looked at is
never the database, `SearchInv` what has been in the database during each tick. `OneDownloadAtATime`: until a download
begins while another, or the thread of one whose client has gone, is at work, the database is a whole one
(`CatalogueHolds`), from what is in the temporaries at each step (`WholeInv`). That is no hypothesis on the behaviour:
`met` says when it is over, and a download that begins after a lost one has ended is covered. What follows when two have
met is in section 6.

Of the viewer, any sheets, directories, drawings and bounds: `TheViewerCatchesUp`. The stages of the
worker each say what stands for the tree as it is saved *but for what is still in the channel or known to have changed*
(`UpToDate`): the list in view while it waits and drains, what it has drawn and kept from before while it draws, the list
again once it is published. A save either is heard by that worker, and joins what is known to have changed, or lies in no
directory of the listed sheets and, unless it crossed a rendering, in no tree before or after it, which then is the same
tree (`SameTree`, an argument about least closed sets). That only the worker in view goes beyond draining is part of it
(`PlaceOK`), and that a command that began with no worker busy has the window to itself (`CommandsAlone`).

**`Stores_proofs`**, the stores and the registry of the server. `InFlightIsNeverForgotten`: eviction looks at finished
keys only. `RestrictionsAlwaysHold`, any number of callers: what a caller saw was never stricter than the mode is now
(`ModeInv`). `ActiveToolsetsAreLoaded` and `StaleClientsAlwaysHear`, any clients, toolsets and requests: a change of the
catalogue is that of a request that still owes a notification (`ChangesAreAnnounced`), and whoever sees an old one has a
cue left.
`OneEntryForATornLine`, for one server, any runs, images and bounds of the journal: each
line that is charged to a cut append (torn, or still without its end when the server went) is one of as many as appends
were cut short, and a line joined to another carries at most one entry that was returned (`LinesOK`, `Charged`), so that
the entries lost are at most the lines charged. `BudgetAlwaysHolds`, of the same server: while it evicts, the sets it has
yet to remove are the oldest of those a reader sees, and the others are within both budgets (`EnoughGo`). A file less of
the oldest leaves the others what they are, because no two entries are of one run (`EntriesDiffer`), so that its set goes
to the head's tail when its last file does (`OneFileLess`, `SublistWithoutFirst`), and eviction never meets a set that is
gone. Two servers over one directory are left to TLC, which shows what they lose (section 6).
`StoresAlwaysOK`, of all of them together, any keys, runs, servers, artefacts, tasks and capacities, from `StoresInv`:
* the ledger's queue lists each key of the map once and no other (`Lists`), which claiming, eviction and abandoning keep
  because a filtered list is the list read at increasing positions (`SublistPositions`);
* the evidence store's entries are the last of what was put, under the numbers they were given (`Stand`), its running
  byte count is the sum of their sizes, and there are as many as both bounds allow (`Longest`): `FirstKeptIs` shows that
  the loop stops there (`NewestAlwaysKept`);
* the tasks kept are numbered without a gap up to the newest, and each accepted constraint is in its list
  (`ConstraintsStay`);
* a journal line that parses has its run, so that what a reader or eviction makes of any lines are runs (`EntriesAreRuns`,
  `VictimsTyped`), of any number of servers.

**`AgentLoop_proofs`**, any plans, documents with their sheets, callers, tasks and size of the cache. `ProgramsOK`: the
concatenation that compile returns has the steps of an earlier operation before those of a later one
(`FlattenKeepsOrder`), and `Available` lets an operation refer only to earlier ones. `ReferencesAlwaysResolve`: until a
step fails, every step before the cursor has bound its id and its operation (`StepsOK`), and a failure halts.
`AnswersAreAlwaysTrue`: a verdict in the cache is the text that was read and what the sheets below contribute now, unless
it is suspect (`EntryOK`); the baseline is at most what was there before (`BaseOK`); a document that the postconditions
are done with keeps its promise as long as nobody else writes (`PostsOK`). A write by another caller (`OthersAreOK`)
leaves of the other turns what they claim of themselves alone.

**`BoardReview_proofs`**, any callers, kicad-cli runs, boards and sheets. `ReviewsAlwaysHold`, from `ReviewInv`
(`ReviewsStayInOrder`), which says of each call: where each tool can be and with what (`Stages`); that the run it waits
for is its own and does what it was started for (`Waits`); that what that run loaded is a project of the time of the call
(`Saw`). Alone, its run is the only one underway, and the report is gone or is what that run made of what it loaded
(`Solo`), so that the evidence is of one project there was (`Measured`: an empty comparison that could not be made is no
evidence); of the tree as it was walked each sheet is still to be read, or was read as it then was (`Walked`); what was
made is not made again by anyone, and what was not made has been warned of or is the drill file (`Makes`). A step of
another call, of kicad-cli or of the user leaves a call's part of the invariant if it is `Quiet` towards it (`Elsewhere`).
That the two audits of a capacitor agree is a fact about each sheet. The assumptions on the constants are types: which
severities a board's passes have, and that a pin of a sheet ends at a point of it.

**`DesignTools_proofs`**, any callers, documents, failures and deeds of the user, and any requests that are made as
`SoundRequest` says (`DaysAssumption`, which TLC checks for every tool of the catalogue): which fields a step has, that a
job changes and deletes only what its call names, that only a write that compares touches a schematic, that a call
creates an item once and lets be what it created, how a placement looks before it creates, and what is between the begin
and the push of a commit.

* `SheetEditsAlwaysStay`, without further hypotheses: `SheetsInv` says that a schematic that is there has its root and
  that Eeschema holds what is on disk but for what the user has set, because nobody writes what Eeschema has open.
* `EditsAlwaysStay`, from `BoardInv` (`ListingsStayFresh`). An update sends the whole item back as it was listed, so what
  was listed must be what is there. `ItemsInv` traces every item, wherever it is kept (on disk, in KiCad, in what a call
  has read, in what a commit would restore), to the steps that made and set it; `OnceInv` says that no place holds it
  twice; `FreshInv` that of what a job has listed nothing differs but what the job or the user has set since: who waits
  for the worker has listed nothing (`OthersWait`), and a job's own earlier steps change the same attribute or other
  items (`StepsApart`).
* `CommitsAlwaysHold`, from `CommitsInv` (`CommitsStayNoted`). `PlaceInv`: what the last steps of a job have looked up is
  still so. `BegunInv`: a call whose commit is open is between its begin and its push. `CommitInv`: as long as KiCad has
  the commit open too, what the call has done is there (`Done`), each item it marked is noted, and no note restores a mark
  of its own (`Noting`); so a push finds all that was asked, and a drop leaves nothing.

The last two assume that the user opens no board, and starts KiCad for none, while a job is under way
(`OpensBetweenJobs`). That is needed, as TLC shows (section 6), and nothing in the code prevents it: a job asks once
whether its board is open, and commands go to whatever KiCad has then. The user may do everything else at any time:
edit, save, close, quit KiCad.

Facts about concatenation in `AgentLoop_proofs` and `BoardReview_proofs`, and about filtering and sums in `Stores_proofs`,
are inductions over data in the form the prover takes: a least counterexample, from the well-foundedness of the numbers.

Only model-checked, and why:

* Liveness: `CallsReturn`, `KeysComeFree`, `CallsAnswered`, `TurnsEnd`, `ClientsConverge`. The prover has no fairness.
* What recursion computes: `PagesInOrder` and `LibrariesHold`, whose modules declare recursive operators.
* Of the rest no invariant has been found inductive yet: `CommandsHold`, `WiringHolds`, `ObjectsHold`.

## 5. What is left out, and what that means

* `tx_atomic` has no saves, no schematic open in KiCad and no calls cut short: `Recoverable` does not hold with them. A
  save does not look for journals and may rewrite a target of one that waits for recovery (the code promises nothing
  else); a call that fails after its journal is written leaves it to whoever scans the directory next, and one that has
  scanned it already starts regardless (section 6). Nor does it with a plan that undoes another, because a recovery, unlike
  a commit, may write without its journal.
* On a sheet: buses, sheet pins, no-connect marks, edits of a power symbol's value, symbols of several pins. The
  run pulls no wire aslant (section 6), and none is ever pulled to nothing.
* Library tables that cannot be read, and pins outside of a symbol's units.
* The text edits themselves, parsing, formatting, geometry off the grid, and KiCad's own objects.
* In a batch: the entry in the run journal, the task it is filed under, the diff and evidence in the reply.
* The ledger is in memory; a restart of the server empties it, and a key that is evicted can be applied again. The
  module's doc accepts both, and `NoDoubleApply` is checked where neither happens.
* Findings and diffs, the design graph and its queries: pure functions of one parsed document. Model providers: what a
  model answers is any plan. Transports: the concurrency they allow is what the models assume of their callers. The
  capability catalogue: static tables and text search.

## 6. Where the code and its words part

Shown by a run:

* `tx_two_commits`: a commit reads every journal in the directory before it takes a lock. One that belongs to a commit
  still running disappears meanwhile, and the call fails with an I/O error although nothing went wrong.
* `board_wrong`: a tool asks whether its board is among the open ones and then edits the first of them.

Stated in the modules but checked by no run, because the model, like the code, does not have them; each shows at once when
it is put in the place of a run's properties:

* Transactions. `WriteAhead`: a recovery that read a journal, then waited for the locks, applies it although its owner has
  finished and a later transaction undid the change. `JournalsDisjoint`: a commit that waited while another failed
  starts without recovering that one's journal (transaction.rs:267 says journals are recovered first).
  `DivergentNeverOverwritten`, and `EditsNotOverwritten` for a batch: an edit by KiCad between a comparison, or a capture,
  and the rename is overwritten (transaction.rs:6 and the repository's `README.md:127` promise more).
* Batches. `RetryReplays`: base revisions are checked before the key is looked up, so the retry of an applied batch is
  turned down as stale instead of being given its first answer. `ClaimsAreFinished`: a client that goes away leaves its
  key in flight for good. `UndoneIsClean`: a rollback lists the tracked files again, to find those the batch created. An
  error of that listing, a directory that cannot be read or more files than the limit, is thrown away (kam-state's
  snapshot.rs:282-290): what was created stays and the answer is a clean rollback, which snapshot.rs:122-124 forbids ("A
  rollback that half-worked must say so"). `UndoneStaysUndone` with two tasks: the second rollback puts back an edit the
  first had undone.
* Stores. `WithinCapacity`: with more keys in flight than its capacity the ledger holds more than that (ledger.rs:56 says
  "at most"). `BudgetOnDisk`, `EntriesSurvive`: two servers over one journal. `SingleToolsStay`: a tool admitted by
  `load_tools` is revoked with its toolset by another client, although that toolset was never loaded (router/mod.rs:137,
  :89).
* Plans. `FailedPlansAreUndone`: the agent leaves what a failed plan wrote (agent_loop.rs:104). `EscapesStayText`: an
  escaped reference comes back as one (refs.rs:19).
* Tools. `BoardEditsStay` and `PlacesOnceWhereAsked` when the user quits KiCad and starts it again, so that the board is
  read from disk, between a job's listing and its next command: `place_component` creates a second U2 beside the one
  that `delete_component` had removed and nobody had saved; `move_component` sends back what it listed over the value
  that `edit_component` had set and the user had saved (client.rs:1684-1726, :1308-1345).
  `AppendedOnce`: a placement KiCad made and did not live to confirm is appended to the file as well
  (client.rs:145-147, pcb_components.rs:1800-1870).
* Libraries and sheets. `RewritesStaySole`: the index in memory is never validated again (library.rs:475, :861-868).
  `RenumbersTheTree`: sheets are found by name (sch_hierarchy.rs:1105). `ProjectLinksLeadBack`: library.rs:1231 and
  pcb_components.rs:596-599 differ on the project's own nicknames. `ReadersAgreeThroughout`: konnect-core takes a relative
  path from the directory of the process (library.rs:1015-1018), the editor from that of the table (the editor's
  library.rs:130-135); and of a unit that a derived symbol draws again, get_symbol_info reports the parent's pins as well
  (library.rs:3023-3035), while the placed symbol has its own only (the editor's library.rs:258-261). `ReadersAgree` is
  stated of nicknames without relative paths and of symbols that redraw a unit with all of its pins.
* Wires. `ValidatorsAgree` (sch_batch.rs:1535-1551) and `SplitsJoinNothing`. `EndsAreDotted`: where a wire ends on
  another there should be a dot (wiring-patterns.md:88, "added automatically by Konnect at T-intersections");
  `connect_passthrough` (sch_batch.rs:1238-1249) and `move_connected` (sch_components.rs:1389-1402) put none, and
  `batch_delete` removes one that is needed. `PullsKeepConnections`: `move_connected` says that the connections survive
  the move (sch_components.rs:169-170); those of a wire that passes under the pin, of a label and of another pin there
  do not. `AnswersAreKiCads` where wires may be pulled aslant (`Slants`): `move_connected` can do so, which
  geometry.rs:157 and :164 take to be impossible; such a wire has no points for the tools, and the pin at its end is
  reported as isolated. All three show in two or three calls.
* Objects. `RegionsMoveOnce`: of the units of one symbol in a region the first is moved once for each
  (sch_components.rs:1448-1460). `SheetsMoveWhole`: a sheet's properties stay behind (sheet.rs:337, though :195 has them
  absolute). `MovesTheOnlyUnit`: the guard against moving one unit of several reads the document before it is loaded.
* Reviews and the viewer. `ReadyIsAlwaysEarned`: all DRCs of a board share one report file, and a kicad-cli that was
  given up on writes it late. `DatabaseIsWhole` with two downloads at once (integration.rs:389-392), and
  `NeverHalfWritten` even for one client: one that goes away while its archive is inflated leaves the thread running
  (integration.rs:478-485), and when it asks again, that thread may empty the temporary which the second call has
  validated and is about to rename into place. `CatchesUp`: the worker of a design publishes into the one opened after
  it (main.rs:752-757); a save between opening and the watcher's start, or in a directory nobody watches, is never
  shown; a refresh and a selection that cross leave a stale picture.

Seen while modelling, with no property:

* Library tables: a nickname a nested table has is appended and not seen; registering under a nested row's own name with
  `replace` rewrites its uri; a row with a variable only the environment lacks is understood by `get_symbol_info` and not
  when placing.
* Wires: a dot that `batch_delete` leaves behind (sch_batch.rs:609-707 prunes none) joins what is drawn across it later;
  `fix_connectivity` looks for `(start` and `(end` in a wire, which has `(pts`, and so changes nothing
  (sch_export.rs:616-635); a symbol moved onto the other end of its wire leaves one of no length;
  `extract_power_symbol_labels` (schematic.rs:246-275); `attached_at` in sch_analysis.rs contradicts sch_wiring.rs:424 on
  pins in the middle of a wire; `add_wire` dots every T of the sheet; `export_netlist_summary` reads local labels only.
* Object model: children of labels, texts, junctions, wires and sheet pins that the model does not name are dropped, in
  spite of mod.rs:28-34; elements that fail to load vanish on save; a `private` property loses its value; a wire of more
  than two points is cut to two; members of an alias or group are not expanded further.
* Sheets: renumbering refuses a child file shared by two sheets (transaction.rs:562-566).
* Boards: `save_project` bypasses the queue (project.rs:214-228); an error of `delete_footprint` counts as gone
  (client.rs:1441-1451); an update of a whole item takes back what the user set on it; `apply` ignores the policy
  "atomic".
* Blind writes with `write_atomic` lose what another wrote since the read (pcb_routing.rs:310); `move_connected` writes
  twice.
* Plans: documents a step reaches only through a reference are not among those validated (tools/plan.rs:181-209,
  :148-152); an ERC report without "sheets" counts as none found.
* Commands: undoing drops the requirement that the document is unchanged, and interleaved undos may swap items at the end.
* Reviews: sheets used twice are audited twice; audits follow no wire; a package exported while the board is edited mixes
  versions; its `files` lists leftovers; its bill of materials includes parts marked DNP.
* `mode.rs:91` calls narrowing commutative, which it is not for Write and Experimental; `task.rs:129` says a task started
  "cannot have been evicted".
## 7. Plan

Done: every component of the inventory that keeps state is modelled as far as section 5 says; transactions, batches, the
symbol index, updating a board from its schematic, the design tools, the parts database, the viewer, the plans with the
agent, the board reviews and the stores are proved about.

Next, most important first:

1. `CommandsHold`: what a command prepared from one text and committed onto another leaves of both, for any blocks.
2. The recursive operators of `LibraryTables` and `SheetPages` as functions, so that `LibrariesHold` and `PagesInOrder` can
   be proved about.
