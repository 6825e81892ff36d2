-------------------------- MODULE FileTransaction --------------------------
(***************************************************************************)
(* Durable transactions over several project files, as                     *)
(* konnect-sexp/src/transaction.rs runs them on top of the atomic writer   *)
(* of konnect-sexp/src/writer.rs.                                          *)
(*                                                                         *)
(* A commit recovers the journals it finds in the project directory, locks *)
(* its targets in path order, compares each with its recorded before       *)
(* image, persists a write-ahead journal, replaces the targets one rename  *)
(* at a time, reads them back and removes the journal.  Recovery replays   *)
(* that tail from a journal somebody else left; `abandon' sets a journal   *)
(* that can no longer be replayed aside; a save (write_atomic_if_unchanged)*)
(* replaces one document with no journal.  Every step below is one system  *)
(* call that another caller, the schematic editor or a crash can fall      *)
(* between.                                                                *)
(*                                                                         *)
(* A file's content is a value; the path order is the order of numbers,    *)
(* and so is the order of the journals' file names.  A rename and the sync *)
(* of its directory are one step: a power cut between the two leaves the   *)
(* directory as it was before or after that step.                          *)
(***************************************************************************)
EXTENDS Integers

CONSTANTS
    Procs,      \* callers: threads of a server, or command line processes
    NoProc,     \* nobody: the owner of a free document lock
    Files,      \* the targets, numbered in path order
    Schematics, \* the targets whose editor lock file the writer looks for
    Contents,   \* what a file may hold
    Absent,     \* the content of a file that does not exist
    Txns,       \* journal ids, numbered in file name order
    NoTxn,
    NoChange,   \* the entry of a file a plan leaves alone
    Requests,   \* the plans a caller may ask commit_file_transaction for
    NoRequest,  \* the request of a call that only recovers
    Disks,      \* what the project may hold to begin with
    Saves,      \* the one-file plans of write_atomic_if_unchanged
    Edits,      \* what applications that take no document lock may write
    Damageable, \* the journals something outside may damage
    MaxStops,   \* bound: calls cut short by an I/O error or by their process dying
    MaxHalts,   \* bound: machine restarts, which cut every call short
    MaxEdits    \* bound: edits by other applications

Change == [before : Contents \cup {Absent}, after : Contents]

\* A journal's entries: what becomes of each file (JournalEntry).
Plan == [Files -> Change \cup {NoChange}]

Targets(w) == {f \in Files : w[f] # NoChange}

NoPlan == [f \in Files |-> NoChange]

ASSUME FilesAssumption == Files \subseteq Nat
ASSUME TxnsAssumption == Txns \subseteq Nat /\ NoTxn \notin Txns
ASSUME NoProcAssumption == NoProc \notin Procs
ASSUME AbsentAssumption == Absent \notin Contents
ASSUME NoChangeAssumption == NoChange \notin Change
ASSUME SchematicsAssumption == Schematics \subseteq Files
ASSUME RequestsAssumption == Requests \subseteq Plan /\ NoRequest \notin Plan
ASSUME SavesAssumption ==
    \A w \in Saves : w \in Plan /\ \E f \in Files : Targets(w) = {f} /\ w[f].before \in Contents
ASSUME DisksAssumption == Disks \subseteq [Files -> Contents \cup {Absent}]
ASSUME EditsAssumption == Edits \subseteq Contents \cup {Absent}
ASSUME DamageableAssumption == Damageable \subseteq Txns
ASSUME BoundsAssumption == MaxStops \in Nat /\ MaxHalts \in Nat /\ MaxEdits \in Nat

VARIABLES
    \* what is on disk, and the locks
    disk,       \* disk[f]: the content of file f
    editor,     \* the schematics beside which KiCad's lock file stands
    owner,      \* owner[f]: the caller that holds f's document lock
    jstate,     \* jstate[t]: what has become of the journal with id t
    jentries,   \* jentries[t]: the entries that journal was written with
    \* the callers
    pc,         \* pc[p]: the step p is about to take
    call,       \* call[p]: the local state of p's call
    reply,      \* reply[p]: what p's last call returned
    \* the bounds' counters
    stops, halts, edits

vars == <<disk, editor, owner, jstate, jentries, pc, call, reply, stops, halts, edits>>
faults == <<stops, halts, edits>>

JournalStates == {"absent", "active", "invalid", "abandoned", "removed"}
Steps == {"idle", "journals", "read", "lock", "closed", "verify", "persist",
          "apply", "rename", "after", "remove", "archive"}
Modes == {"commit", "recover", "abandon", "save"}
Replies == {"none", "ok", "busy", "conflict", "invalid", "notfound", "stopped"}

(***************************************************************************)
(* A call's local state: which of the four procedures is running, on which *)
(* journal and entries; `left', the entries the current loop has still to  *)
(* visit; `pending', those the next write loop will visit (for abandon:    *)
(* the divergent ones); `todo', the journals the directory scan listed;    *)
(* `ask', the commit to run once they are recovered, and `id', its uuid.   *)
(***************************************************************************)
Call == [mode : Modes, txn : Txns \cup {NoTxn}, work : Plan,
         left : SUBSET Files, pending : SUBSET Files,
         todo : SUBSET Txns, ask : Requests \cup {NoRequest}, id : Txns \cup {NoTxn}]

NoCall == [mode |-> "recover", txn |-> NoTxn, work |-> NoPlan, left |-> {},
           pending |-> {}, todo |-> {}, ask |-> NoRequest, id |-> NoTxn]

Init ==
    /\ disk \in Disks
    /\ editor = {}
    /\ owner = [f \in Files |-> NoProc]
    /\ jstate = [t \in Txns |-> "absent"]
    /\ jentries = [t \in Txns |-> NoPlan]
    /\ pc = [p \in Procs |-> "idle"]
    /\ call = [p \in Procs |-> NoCall]
    /\ reply = [p \in Procs |-> "none"]
    /\ stops = 0 /\ halts = 0 /\ edits = 0

-----------------------------------------------------------------------------
(* The ways a call moves on.                                               *)

First(S, x) == x \in S /\ \A y \in S : x <= y

OnDisk(t) == jstate[t] \in {"active", "invalid"}

\* A fault to detect: the locks outlive the call.
UnlockedNever(p) == owner

Unlocked(p) == [f \in Files |-> IF owner[f] = p THEN NoProc ELSE owner[f]]

\* p's call returns r, dropping the locks it holds.
Return(p, r) ==
    /\ pc' = [pc EXCEPT ![p] = "idle"]
    /\ call' = [call EXCEPT ![p] = NoCall]
    /\ reply' = [reply EXCEPT ![p] = r]
    /\ owner' = Unlocked(p)

\* p's call goes on at step s with local state c.
Go(p, s, c) ==
    /\ pc' = [pc EXCEPT ![p] = s]
    /\ call' = [call EXCEPT ![p] = c]
    /\ UNCHANGED reply

\* The entries the loop at step s visits, for entries w of which pending are to be written.
LoopOver(s, w, pending) == IF s = "apply" THEN pending ELSE Targets(w)

\* A fault to detect: a loop that ends after its first entry.
VisitFirstOnly(p, f, pending, here, next) ==
    Go(p, next, [call[p] EXCEPT !.left = LoopOver(next, call[p].work, pending) \cap {f},
                                !.pending = pending])

\* p is done with entry f of the loop at step `here', and goes to `next' after the last one.
Visit(p, f, pending, here, next) ==
    LET c    == call[p]
        rest == c.left \ {f}
    IN  IF rest # {}
          THEN Go(p, here, [c EXCEPT !.left = rest, !.pending = pending])
          ELSE Go(p, next, [c EXCEPT !.left = LoopOver(next, c.work, pending),
                                     !.pending = pending])

\* A fault to detect: entries in the order they come (a hash map's, say).
AtEntryAnyOrder(p, s, f) == pc[p] = s /\ f \in call[p].left

\* The loop p stands in at step s is about to visit entry f.
AtEntry(p, s, f) == pc[p] = s /\ First(call[p].left, f)

-----------------------------------------------------------------------------
(* Starting a call.                                                        *)

Start(p, s, c) ==
    /\ pc[p] = "idle"
    /\ pc' = [pc EXCEPT ![p] = s]
    /\ call' = [call EXCEPT ![p] = c]
    /\ reply' = [reply EXCEPT ![p] = "none"]
    /\ UNCHANGED <<disk, editor, owner, jstate, jentries, faults>>

\* A new journal id is one that nobody uses or has used.
Fresh(t) == jstate[t] = "absent" /\ \A q \in Procs : call[q].id # t

\* commit_file_transaction: the directory scan of its recovery comes first.
StartCommit(p, e, t) ==
    /\ Fresh(t)
    /\ Start(p, "journals", [NoCall EXCEPT !.todo = {u \in Txns : OnDisk(u)}, !.ask = e, !.id = t])

\* recover_file_transactions
StartRecover(p) ==
    Start(p, "journals", [NoCall EXCEPT !.todo = {t \in Txns : OnDisk(t)}])

\* recover_file_transaction, by id
StartRecoverOne(p, t) ==
    OnDisk(t) /\ Start(p, "journals", [NoCall EXCEPT !.todo = {t}])

\* abandon_file_transaction
StartAbandon(p, t) ==
    OnDisk(t) /\ Start(p, "read", [NoCall EXCEPT !.mode = "abandon", !.txn = t])

\* write_atomic_if_unchanged
StartSave(p, w) ==
    Start(p, "lock", [NoCall EXCEPT !.mode = "save", !.work = w, !.left = Targets(w)])

-----------------------------------------------------------------------------
(* Choosing what to work on.                                               *)

\* The entries a call will lock: those of journal t, or those it was asked to commit as t.
Lockable(c, m, t, w) == [c EXCEPT !.mode = m, !.txn = t, !.work = w, !.left = Targets(w)]

\* recover_journal reads the journal before it takes any lock, and fails when
\* the journal is gone by then or cannot be trusted.
ReadJournal(p, t) ==
    LET c == [call[p] EXCEPT !.todo = @ \ {t}]
    IN  /\ pc[p] = "journals"
        /\ First(call[p].todo, t)
        /\ \/ /\ jstate[t] = "active"
              /\ Go(p, "lock", Lockable(c, "recover", t, jentries[t]))
              /\ UNCHANGED owner
           \/ jstate[t] = "invalid" /\ Return(p, "invalid")
           \/ ~OnDisk(t) /\ Return(p, "notfound")
        /\ UNCHANGED <<disk, editor, jstate, jentries, faults>>

\* Nothing is left to recover, and recovery was all there was to do.
RecoverDone(p) ==
    /\ pc[p] = "journals" /\ call[p].todo = {} /\ call[p].ask = NoRequest
    /\ Return(p, "ok")
    /\ UNCHANGED <<disk, editor, jstate, jentries, faults>>

\* normalize_transitions: something to change, and every entry changes it.
Normal(w) == Targets(w) # {} /\ \A f \in Targets(w) : w[f].before # w[f].after

\* Nothing is left to recover: the commit proper begins.
BeginCommit(p) ==
    /\ pc[p] = "journals" /\ call[p].todo = {} /\ call[p].ask # NoRequest
    /\ \/ /\ Normal(call[p].ask)
          /\ Go(p, "lock", Lockable(call[p], "commit", call[p].id, call[p].ask))
          /\ UNCHANGED owner
       \/ ~Normal(call[p].ask) /\ Return(p, "invalid")
    /\ UNCHANGED <<disk, editor, jstate, jentries, faults>>

\* abandon_file_transaction reads the journal; one it cannot trust is set
\* aside without a lock and without a look at the targets.
ReadAbandoned(p) ==
    LET t == call[p].txn
    IN  /\ pc[p] = "read"
        /\ \/ /\ jstate[t] = "active"
              /\ Go(p, "lock", Lockable(call[p], "abandon", t, jentries[t]))
              /\ UNCHANGED owner
           \/ jstate[t] = "invalid" /\ Go(p, "archive", call[p]) /\ UNCHANGED owner
           \/ ~OnDisk(t) /\ Return(p, "notfound")
        /\ UNCHANGED <<disk, editor, jstate, jentries, faults>>

-----------------------------------------------------------------------------
(* The loops over the entries, in path order.                              *)

\* A fault to detect: a lock that is taken whether or not it is free.
LockWithoutWaiting(p, f) ==
    /\ AtEntry(p, "lock", f)
    /\ owner' = [owner EXCEPT ![f] = p]
    /\ Visit(p, f, {}, "lock",
             IF call[p].mode \in {"commit", "recover"} THEN "closed" ELSE "verify")
    /\ UNCHANGED <<disk, editor, jstate, jentries, faults>>

\* lock_entries: blocks while somebody else holds the document lock.
Lock(p, f) ==
    /\ AtEntry(p, "lock", f)
    /\ owner[f] = NoProc
    /\ owner' = [owner EXCEPT ![f] = p]
    /\ Visit(p, f, {}, "lock",
             IF call[p].mode \in {"commit", "recover"} THEN "closed" ELSE "verify")
    /\ UNCHANGED <<disk, editor, jstate, jentries, faults>>

\* ensure_entries_are_closed
CheckClosed(p, f) ==
    /\ AtEntry(p, "closed", f)
    /\ \/ f \in editor /\ Return(p, "busy")
       \/ f \notin editor /\ Visit(p, f, {}, "closed", "verify") /\ UNCHANGED owner
    /\ UNCHANGED <<disk, editor, jstate, jentries, faults>>

\* A fault to detect: a commit that replaces its targets with no journal.
VerifyBeforeUnjournalled(p, f) ==
    /\ AtEntry(p, "verify", f)
    /\ call[p].mode \in {"commit", "save"}
    /\ disk[f] = call[p].work[f].before
    /\ Visit(p, f, call[p].pending \cup {f}, "verify", "apply")
    /\ UNCHANGED <<disk, editor, owner, jstate, jentries, faults>>

\* verify_before_images of a commit, and the comparison of a save.
VerifyBefore(p, f) ==
    LET e == call[p].work[f]
    IN  /\ AtEntry(p, "verify", f)
        /\ call[p].mode \in {"commit", "save"}
        /\ \/ /\ disk[f] = e.before
              /\ Visit(p, f, call[p].pending \cup {f}, "verify",
                       IF call[p].mode = "commit" THEN "persist" ELSE "apply")
              /\ UNCHANGED owner
           \/ disk[f] # e.before /\ Return(p, "conflict")
        /\ UNCHANGED <<disk, editor, jstate, jentries, faults>>

\* recover_journal: applied, still to be applied, or divergent.
Classify(p, f) ==
    LET e       == call[p].work[f]
        pending == IF disk[f] = e.after THEN call[p].pending ELSE call[p].pending \cup {f}
    IN  /\ AtEntry(p, "verify", f)
        /\ call[p].mode = "recover"
        /\ \/ /\ disk[f] \in {e.before, e.after}
              /\ Visit(p, f, pending, "verify", IF pending = {} THEN "after" ELSE "apply")
              /\ UNCHANGED owner
           \/ disk[f] \notin {e.before, e.after} /\ Return(p, "conflict")
        /\ UNCHANGED <<disk, editor, jstate, jentries, faults>>

\* A fault to detect: any journal may be abandoned.
InspectPermissive(p, f) ==
    /\ AtEntry(p, "verify", f)
    /\ call[p].mode = "abandon"
    /\ Visit(p, f, call[p].pending, "verify", "archive")
    /\ UNCHANGED <<disk, editor, owner, jstate, jentries, faults>>

\* inspect_journal for abandon: a journal with no divergent target stays.
Inspect(p, f) ==
    LET e         == call[p].work[f]
        divergent == IF disk[f] \in {e.before, e.after}
                       THEN call[p].pending ELSE call[p].pending \cup {f}
    IN  /\ AtEntry(p, "verify", f)
        /\ call[p].mode = "abandon"
        /\ \/ /\ call[p].left # {f} \/ divergent # {}
              /\ Visit(p, f, divergent, "verify", "archive")
              /\ UNCHANGED owner
           \/ call[p].left = {f} /\ divergent = {} /\ Return(p, "invalid")
        /\ UNCHANGED <<disk, editor, jstate, jentries, faults>>

\* persist_journal
Persist(p) ==
    /\ pc[p] = "persist"
    /\ jstate' = [jstate EXCEPT ![call[p].txn] = "active"]
    /\ jentries' = [jentries EXCEPT ![call[p].txn] = call[p].work]
    /\ Go(p, "apply", [call[p] EXCEPT !.left = call[p].pending])
    /\ UNCHANGED <<disk, editor, owner, faults>>

\* The writer's last look for the editor's lock file, after it staged the
\* content in a scratch file.
StageWrite(p, f) ==
    /\ AtEntry(p, "apply", f)
    /\ \/ f \in editor /\ Return(p, "busy")
       \/ f \notin editor /\ Go(p, "rename", call[p]) /\ UNCHANGED owner
    /\ UNCHANGED <<disk, editor, jstate, jentries, faults>>

\* The rename over the target, which nothing is compared with any more; only
\* a new file must not exist yet.
Rename(p, f) ==
    LET e == call[p].work[f]
    IN  /\ AtEntry(p, "rename", f)
        /\ \/ /\ e.before # Absent \/ disk[f] = Absent
              /\ disk' = [disk EXCEPT ![f] = e.after]
              /\ Visit(p, f, call[p].pending, "apply", "after")
              /\ UNCHANGED owner
           \/ /\ e.before = Absent /\ disk[f] # Absent
              /\ Return(p, "conflict")
              /\ UNCHANGED disk
        /\ UNCHANGED <<editor, jstate, jentries, faults>>

\* verify_after_images, and the read-back that ends a save.
VerifyAfter(p, f) ==
    /\ AtEntry(p, "after", f)
    /\ \/ disk[f] # call[p].work[f].after /\ Return(p, "conflict")
       \/ /\ disk[f] = call[p].work[f].after
          /\ call[p].mode # "save"
          /\ Visit(p, f, call[p].pending, "after", "remove")
          /\ UNCHANGED owner
       \/ /\ disk[f] = call[p].work[f].after
          /\ call[p].mode = "save"
          /\ Return(p, "ok")
    /\ UNCHANGED <<disk, editor, jstate, jentries, faults>>

-----------------------------------------------------------------------------
(* Disposing of the journal.                                               *)

\* remove_journal: a commit returns, a recovery goes on to the next journal.
RemoveJournal(p) ==
    LET t == call[p].txn
    IN  /\ pc[p] = "remove"
        /\ \/ /\ OnDisk(t)
              /\ jstate' = [jstate EXCEPT ![t] = "removed"]
              /\ \/ call[p].mode = "commit" /\ Return(p, "ok")
                 \/ /\ call[p].mode = "recover"
                    /\ Go(p, "journals", [NoCall EXCEPT !.todo = call[p].todo,
                                                   !.ask = call[p].ask, !.id = call[p].id])
                    /\ owner' = Unlocked(p)
           \/ ~OnDisk(t) /\ Return(p, "notfound") /\ UNCHANGED jstate
        /\ UNCHANGED <<disk, editor, jentries, faults>>

\* The rename to the .abandoned name.
Archive(p) ==
    LET t == call[p].txn
    IN  /\ pc[p] = "archive"
        /\ \/ OnDisk(t) /\ jstate' = [jstate EXCEPT ![t] = "abandoned"] /\ Return(p, "ok")
           \/ ~OnDisk(t) /\ Return(p, "notfound") /\ UNCHANGED jstate
        /\ UNCHANGED <<disk, editor, jentries, faults>>

-----------------------------------------------------------------------------
(* Faults and the world outside.                                           *)

\* A system call fails, or p's process dies: either way p's locks are gone
\* and the disk stays as it is.
Stop(p) ==
    /\ pc[p] # "idle" /\ stops < MaxStops
    /\ Return(p, "stopped")
    /\ stops' = stops + 1
    /\ UNCHANGED <<disk, editor, jstate, jentries, halts, edits>>

\* The machine restarts: no call survives, and no lock.
Halt ==
    /\ halts < MaxHalts
    /\ pc' = [p \in Procs |-> "idle"]
    /\ call' = [p \in Procs |-> NoCall]
    /\ reply' = [p \in Procs |-> IF pc[p] = "idle" THEN reply[p] ELSE "stopped"]
    /\ owner' = [f \in Files |-> NoProc]
    /\ halts' = halts + 1
    /\ UNCHANGED <<disk, editor, jstate, jentries, stops, edits>>

\* KiCad opens a schematic, or closes it.
EditorToggles(f) ==
    /\ editor' = IF f \in editor THEN editor \ {f} ELSE editor \cup {f}
    /\ UNCHANGED <<disk, owner, jstate, jentries, pc, call, reply, faults>>

\* An application that knows nothing of the document locks writes a file.
ForeignEdit(f, x) ==
    /\ edits < MaxEdits
    /\ disk[f] # x
    /\ disk' = [disk EXCEPT ![f] = x]
    /\ edits' = edits + 1
    /\ UNCHANGED <<editor, owner, jstate, jentries, pc, call, reply, stops, halts>>

\* Something damages a journal file, or replaces it by one this version cannot read.
ForeignDamage(t) ==
    /\ edits < MaxEdits
    /\ jstate[t] = "active"
    /\ jstate' = [jstate EXCEPT ![t] = "invalid"]
    /\ edits' = edits + 1
    /\ UNCHANGED <<disk, editor, owner, jentries, pc, call, reply, stops, halts>>

-----------------------------------------------------------------------------
Begin(p) ==
    \/ \E e \in Requests, t \in Txns : StartCommit(p, e, t)
    \/ StartRecover(p)
    \/ \E t \in Txns : StartRecoverOne(p, t) \/ StartAbandon(p, t)
    \/ \E w \in Saves : StartSave(p, w)

Acquire(p) == \E f \in Files : Lock(p, f)

Work(p) ==
    \/ RecoverDone(p) \/ BeginCommit(p) \/ ReadAbandoned(p) \/ Persist(p) \/ RemoveJournal(p) \/ Archive(p)
    \/ \E t \in Txns : ReadJournal(p, t)
    \/ \E f \in Files :
         \/ CheckClosed(p, f) \/ VerifyBefore(p, f) \/ Classify(p, f) \/ Inspect(p, f)
         \/ StageWrite(p, f) \/ Rename(p, f) \/ VerifyAfter(p, f)

Environment ==
    \/ Halt
    \/ \E f \in Schematics : EditorToggles(f)
    \/ \E f \in Files, x \in Edits : ForeignEdit(f, x)
    \/ \E t \in Damageable : ForeignDamage(t)

Next ==
    \/ \E p \in Procs : Begin(p) \/ Acquire(p) \/ Work(p) \/ Stop(p)
    \/ Environment

Spec == Init /\ [][Next]_vars

\* A running call goes on.  The kernel queues the waiters of a lock, so one
\* that keeps being free is had in the end.
FairSpec == Spec /\ \A p \in Procs : WF_vars(Work(p)) /\ SF_vars(Acquire(p))

-----------------------------------------------------------------------------
(* What the transactions promise.                                          *)

TypeOK ==
    /\ disk \in [Files -> Contents \cup {Absent}]
    /\ editor \subseteq Schematics
    /\ owner \in [Files -> Procs \cup {NoProc}]
    /\ jstate \in [Txns -> JournalStates]
    /\ jentries \in [Txns -> Plan]
    /\ pc \in [Procs -> Steps]
    /\ call \in [Procs -> Call]
    /\ reply \in [Procs -> Replies]
    /\ stops \in 0..MaxStops /\ halts \in 0..MaxHalts /\ edits \in 0..MaxEdits

\* The steps between the last lock taken and the locks' release.
CriticalSteps == {"closed", "verify", "persist", "apply", "rename", "after", "remove", "archive"}
Critical(p) == pc[p] \in CriticalSteps

\* Two calls that have taken their locks work on different files, although
\* one may have read its entries long before it got the locks (lock_entries).
WritersExclusive ==
    \A p, q \in Procs :
        p # q /\ Critical(p) /\ Critical(q) => Targets(call[p].work) \cap Targets(call[q].work) = {}

\* A call that waits for a lock holds only locks of smaller paths, so no set
\* of calls waits in a circle (commit_file_transaction's `stable path order').
NoCircularWait ==
    \A p \in Procs : pc[p] = "lock" =>
        \A f \in Files, g \in call[p].left : owner[f] = p => f < g

\* The writer replaces content e.before of f, and nothing else: whoever holds
\* f's lock still finds there what it compared.
ReplacesBeforeImage(f) ==
    \E p \in Procs : pc[p] = "rename" /\ owner[f] = p /\ disk[f] = call[p].work[f].before

\* What one of this project's own writers left in a file is never overwritten
\* by another that has not seen it (lock_entries held from comparison to rename).
NoKonnectWriteLost ==
    [][edits' = edits =>
         \A f \in Files : disk'[f] # disk[f] /\ disk[f] \notin Edits => ReplacesBeforeImage(f)]_vars

\* No content that differs from the recorded before image is ever overwritten,
\* whoever wrote it (transaction.rs:6, "Divergent content is never overwritten").
DivergentNeverOverwritten ==
    [][edits' = edits => \A f \in Files : disk'[f] # disk[f] => ReplacesBeforeImage(f)]_vars

\* Whoever changes a target of a transaction does so with that transaction's
\* journal on disk, so a crash at that point can be repaired.
WriteAhead ==
    [][\A p \in Procs :
         pc[p] = "rename" /\ call[p].mode # "save" /\ disk' # disk /\ pc'[p] # pc[p]
            => OnDisk(call[p].txn)]_vars

\* A commit replaces a target only while its own journal, with all its
\* entries, is on disk, whatever recoveries and abandonments of that journal
\* other callers have meanwhile begun (persist_journal before the first write).
CommitsWriteAhead ==
    [][\A p \in Procs :
         pc[p] = "rename" /\ call[p].mode = "commit" /\ disk' # disk /\ pc'[p] # pc[p]
            => OnDisk(call[p].txn) /\ jentries[call[p].txn] = call[p].work]_vars

\* A journal is deleted only when each of its targets holds its replacement.
RemovedOnlyWhenApplied ==
    [][\A t \in Txns : jstate[t] = "active" /\ jstate'[t] = "removed" =>
         \A f \in Targets(jentries[t]) : disk[f] = jentries[t][f].after]_vars

\* Both: a journal is on disk before a target is replaced and until all of them are.
JournalsLead == CommitsWriteAhead /\ RemovedOnlyWhenApplied

\* A journal that can still be rolled forward is never set aside.
AbandonedOnlyWhenDivergent ==
    [][\A t \in Txns : jstate[t] = "active" /\ jstate'[t] = "abandoned" =>
         \E f \in Targets(jentries[t]) :
            disk[f] \notin {jentries[t][f].before, jentries[t][f].after}]_vars

\* No file is the target of two journals on disk at a time: a transaction
\* starts only when those before it that touched its files are recovered.
JournalsDisjoint ==
    \A t, u \in Txns : t # u /\ OnDisk(t) /\ OnDisk(u) =>
        Targets(jentries[t]) \cap Targets(jentries[u]) = {}

\* A journal on disk can always be rolled forward: each of its targets holds
\* its before image or its replacement.
Recoverable ==
    \A t \in Txns : jstate[t] = "active" =>
        \A f \in Targets(jentries[t]) : disk[f] \in {jentries[t][f].before, jentries[t][f].after}

\* When nothing fails, no call trips over a journal that another call has
\* meanwhile finished with.
NoMissingJournal == \A p \in Procs : stops + halts + edits = 0 => reply[p] # "notfound"

\* Every call returns: nobody waits for a lock for ever.
CallsReturn == \A p \in Procs : pc[p] # "idle" ~> pc[p] = "idle"

(***************************************************************************)
(* Why the above holds: the inductive invariant.                           *)
(***************************************************************************)

\* Which procedure can stand at which step.
Fits(s, mode) ==
    /\ s \in {"read", "archive"} => mode = "abandon"
    /\ s = "persist" => mode = "commit"
    /\ s \in {"closed", "remove"} => mode \in {"commit", "recover"}
    /\ s \in {"apply", "rename", "after"} => mode # "abandon"

\* What a call knows at each step.
Shape(p) ==
    LET c == call[p]
    IN  /\ Fits(pc[p], c.mode)
        /\ c.ask # NoRequest => c.id \in Txns
        /\ pc[p] \notin {"idle", "journals"} /\ c.mode # "save" => c.txn \in Txns
        /\ pc[p] \in {"journals", "read"} => c.work = NoPlan
        /\ c.left \subseteq Targets(c.work) /\ c.pending \subseteq Targets(c.work)

\* Which locks p holds: none before the lock loop, in that loop those of the
\* smaller paths, after it those of every target.
HoldsItsLocks(p) ==
    LET c == call[p]
    IN  /\ pc[p] \in {"idle", "journals", "read"} => \A f \in Files : owner[f] # p
        /\ pc[p] = "lock" =>
             \A f \in Files : /\ owner[f] = p <=> f \in Targets(c.work) \ c.left
                              /\ owner[f] = p => \A g \in c.left : f < g
        /\ Critical(p) => \A f \in Targets(c.work) : owner[f] = p

\* The entries p has compared and will still write.
Awaiting(p) ==
    CASE pc[p] \in {"verify", "persist"} /\ call[p].mode # "abandon" -> call[p].pending
      [] pc[p] \in {"apply", "rename"} -> call[p].left
      [] OTHER -> {}

\* What p has compared stays as it was, but for edits that take no lock.
ComparisonStands(p) ==
    \A f \in Awaiting(p) : disk[f] = call[p].work[f].before \/ disk[f] \in Edits

IInv ==
    /\ TypeOK
    /\ \A p \in Procs : Shape(p) /\ HoldsItsLocks(p) /\ ComparisonStands(p)

(***************************************************************************)
(* The files as a reader that knows the journals sees them: a target still *)
(* at its before image counts as replaced, for it will be rolled forward.  *)
(***************************************************************************)
View == [f \in Files |->
    IF \E t \in Txns : OnDisk(t) /\ f \in Targets(jentries[t]) /\ disk[f] = jentries[t][f].before
      THEN LET t == CHOOSE u \in Txns : /\ OnDisk(u) /\ f \in Targets(jentries[u])
                                        /\ disk[f] = jentries[u][f].before
           IN  jentries[t][f].after
      ELSE disk[f]]

Atomic == INSTANCE AtomicStore WITH store <- View

\* Each transaction happens at once and entirely or not at all, crashes
\* included: persisting the journal is the commit, everything else is invisible.
ImplementsAtomicStore == Atomic!Spec
=============================================================================
