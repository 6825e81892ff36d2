---------------------------- MODULE KicadInvoke ----------------------------
(***************************************************************************)
(* Batches of tool calls: handle_kicad_invoke and its BatchGuard in        *)
(* konnect-core/src/router/meta_tools.rs, over the idempotency ledger and  *)
(* the directory snapshot of kam-state.                                    *)
(*                                                                         *)
(* A request is compiled by a client against the documents it has read,    *)
(* may be sent more than once, and is served by a task of its own: over    *)
(* stdio there is one task, over http one per connection.  A task checks   *)
(* the base revisions, claims the operation key, captures the documents,   *)
(* runs the calls one by one, writes the captured documents back if one    *)
(* failed, may wait for KiCad's validators, and records its answer.  Tasks *)
(* interleave at every read or write of a document or of the ledger.       *)
(*                                                                         *)
(* A document is the sequence of texts the edits left in it, and its       *)
(* revision (a hash of its bytes) is that sequence.  A tool's conditional  *)
(* write is one step here; FileTransaction opens it up.                    *)
(***************************************************************************)
EXTENDS Integers, Sequences, FiniteSets

CONSTANTS
    Tasks,
    Docs,       \* the tracked documents, numbered in path order
    Texts,      \* what edits leave in a document
    Absent,     \* the content of a document that does not exist
    Foreign,    \* what an application other than Konnect leaves in a document
    Ids, NoId,  \* operation keys
    Unknown, InFlight, Capacity,  \* see IdempotencyLedger
    Requests,   \* what clients may send
    NoBase,     \* the base of a request that is not compiled yet
    Disks,      \* what the documents may hold to begin with
    MaxReceived,  \* bound: requests received
    MaxDrops,     \* bound: requests whose client goes away, or whose handler panics
    MaxFails,     \* bound: tools, captures and write-backs that fail
    MaxEdits      \* bound: edits by other applications

Contents == Seq(Texts \cup {Foreign}) \cup {Absent}

\* One call of a batch: an edit of an existing document, the creation of a
\* new one, or a call that is refused before its handler runs (no tool name,
\* unknown tool, refused by the operating mode).
Calls == [kind : {"edit", "create", "refused"}, doc : Docs, text : Texts]

\* op: the operation key; based: whether base_revisions are sent along, those
\* of the documents in roots; roots: the documents under the directories the
\* batch is seen to touch; stop, atomic, diff and verify as in the request.
RequestType == [op : Ids \cup {NoId}, based : BOOLEAN, calls : Seq(Calls), roots : SUBSET Docs,
                stop : BOOLEAN, atomic : BOOLEAN, diff : BOOLEAN, verify : {"none", "auto", "bad"}]

ASSUME DocsAssumption == Docs \subseteq Nat
ASSUME RequestsAssumption == Requests # {} /\ Requests \subseteq RequestType
ASSUME NoIdAssumption == NoId \notin Ids
ASSUME AbsentAssumption == Absent \notin Seq(Texts \cup {Foreign})
ASSUME ForeignAssumption == Foreign \notin Texts
ASSUME DisksAssumption == Disks \subseteq [Docs -> Contents]
ASSUME BoundsAssumption ==
    MaxReceived \in Nat /\ MaxDrops \in Nat /\ MaxFails \in Nat /\ MaxEdits \in Nat

\* What a batch that ran answers: every call succeeded; one failed and what
\* the others did stands; it was written back; or not all of it could be.
Outcomes == {"applied", "failed", "undone", "partial"}

ASSUME EntriesAssumption == Unknown # InFlight /\ {Unknown, InFlight} \cap Outcomes = {}

VARIABLES
    entries, order,  \* the ledger
    disk,            \* disk[d]: the content of document d
    base,            \* base[r]: the documents as request r was compiled against them
    pc,              \* pc[p]: the step task p is about to take
    task,            \* task[p]: the local state of task p
    reply,           \* reply[p]: what the last request of task p was answered
    missed,          \* history: missed[r] are the documents that a rollback of request r
                     \* should have removed, but its listing was cut short before them
    received, drops, fails, edits

ledger == <<entries, order>>
bounds == <<missed, received, drops, fails, edits>>
vars == <<entries, order, disk, base, pc, task, reply, missed, received, drops, fails, edits>>

Ledger == INSTANCE IdempotencyLedger WITH Results <- Outcomes

Steps == {"idle", "base", "claim", "verify", "scan", "capture", "call", "write",
          "restore", "delete", "validate", "complete"}
Replies == Outcomes \cup {"none", "stale", "inflight", "invalid", "dropped"}

(***************************************************************************)
(* req: the request; todo: the documents the current loop has still to     *)
(* visit; at: the number of the current call; seen: what its tool read;    *)
(* net: whether snap, the captured documents, is complete; failed: a call  *)
(* failed; torn: a write-back failed; outcome: the answer once it is known.*)
(***************************************************************************)
Task == [req : Requests, todo : SUBSET Docs, at : Nat \ {0}, seen : Contents,
         net : BOOLEAN, snap : [Docs -> Contents], failed : BOOLEAN, torn : BOOLEAN,
         outcome : Outcomes]

NewTask(r) == [req |-> r, todo |-> {}, at |-> 1, seen |-> Absent, net |-> FALSE,
               snap |-> [d \in Docs |-> Absent], failed |-> FALSE, torn |-> FALSE,
               outcome |-> "applied"]

\* The local state of a task that serves nobody.
Rest == NewTask(CHOOSE r \in Requests : TRUE)

Init ==
    /\ Ledger!LedgerInit
    /\ disk \in Disks
    /\ base = [r \in Requests |-> NoBase]
    /\ pc = [p \in Tasks |-> "idle"]
    /\ task = [p \in Tasks |-> Rest]
    /\ reply = [p \in Tasks |-> "none"]
    /\ missed = [r \in Requests |-> {}]
    /\ received = 0 /\ drops = 0 /\ fails = 0 /\ edits = 0

-----------------------------------------------------------------------------
(* The ways a task moves on.                                               *)

First(S, d) == d \in S /\ \A e \in S : d <= e

Go(p, s, c) ==
    /\ pc' = [pc EXCEPT ![p] = s]
    /\ task' = [task EXCEPT ![p] = c]
    /\ UNCHANGED reply

Return(p, answer) ==
    /\ pc' = [pc EXCEPT ![p] = "idle"]
    /\ task' = [task EXCEPT ![p] = Rest]
    /\ reply' = [reply EXCEPT ![p] = answer]

\* The loop at step `here' is done with document d of local state c.
Visit(p, d, c, here, next) ==
    LET rest == c.todo \ {d}
    IN  Go(p, IF rest = {} THEN next ELSE here, [c EXCEPT !.todo = rest])

CallAt(p) == task[p].req.calls[task[p].at]

\* The calls are over: all have run, or one failed and the batch stops there.
CallsOver(p) ==
    LET c == task[p]
    IN  pc[p] = "call" /\ (c.at > Len(c.req.calls) \/ (c.failed /\ c.req.stop))

\* The call at hand is over.
CallDone(p, ok) ==
    Go(p, "call", [task[p] EXCEPT !.at = @ + 1, !.seen = Absent, !.failed = @ \/ ~ok])

Failing == fails < MaxFails /\ fails' = fails + 1

-----------------------------------------------------------------------------
(* The clients.                                                            *)

\* A client reads the documents and builds a request on what it read.
Compile(r) ==
    /\ r.based /\ base[r] = NoBase
    /\ base' = [base EXCEPT ![r] = disk]
    /\ UNCHANGED <<ledger, disk, pc, task, reply, bounds>>

\* A request arrives, for the first time or as the retry of one whose answer
\* the client has not seen.
Receive(p, r) ==
    /\ pc[p] = "idle" /\ received < MaxReceived
    /\ r.based => base[r] # NoBase
    /\ pc' = [pc EXCEPT ![p] = IF r.based /\ r.roots # {} THEN "base" ELSE "claim"]
    /\ task' = [task EXCEPT ![p] = [NewTask(r) EXCEPT !.todo = IF r.based THEN r.roots ELSE {}]]
    /\ reply' = [reply EXCEPT ![p] = "none"]
    /\ received' = received + 1
    /\ UNCHANGED <<ledger, disk, base, missed, drops, fails, edits>>

-----------------------------------------------------------------------------
(* Before anything runs.                                                   *)

\* check_base_revisions, one document at a time, before the key is claimed.
CheckBase(p, d) ==
    LET c == task[p]
    IN  /\ pc[p] = "base" /\ First(c.todo, d)
        /\ \/ disk[d] = base[c.req][d] /\ Visit(p, d, c, "base", "claim")
           \/ disk[d] # base[c.req][d] /\ Return(p, "stale")
        /\ UNCHANGED <<ledger, disk, base, bounds>>

\* A fault to detect: a key in flight is taken over.
ClaimTakingOver(p) ==
    LET id == task[p].req.op
    IN  /\ pc[p] = "claim"
        /\ \/ id \in Ids /\ entries[id] = Unknown /\ Ledger!ClaimFresh(id) /\ Go(p, "verify", task[p])
           \/ id \in Ids /\ entries[id] \in Outcomes /\ Return(p, entries[id]) /\ UNCHANGED ledger
           \/ id = NoId /\ Go(p, "verify", task[p]) /\ UNCHANGED ledger
           \/ id \in Ids /\ entries[id] = InFlight /\ Go(p, "verify", task[p]) /\ UNCHANGED ledger
        /\ UNCHANGED <<disk, base, bounds>>

\* The operation key: claimed, already answered, or being worked on.
Claim(p) ==
    LET id == task[p].req.op
    IN  /\ pc[p] = "claim"
        /\ \/ id = NoId /\ Go(p, "verify", task[p]) /\ UNCHANGED ledger
           \/ id \in Ids /\ Ledger!ClaimFresh(id) /\ Go(p, "verify", task[p])
           \/ id \in Ids /\ entries[id] \in Outcomes /\ Return(p, entries[id]) /\ UNCHANGED ledger
           \/ id \in Ids /\ entries[id] = InFlight /\ Return(p, "inflight") /\ UNCHANGED ledger
        /\ UNCHANGED <<disk, base, bounds>>

\* Verify::from_args turns a request down only now, and gives the key back.
ParseVerify(p) ==
    LET r == task[p].req
    IN  /\ pc[p] = "verify"
        /\ \/ /\ r.verify = "bad"
              /\ Return(p, "invalid")
              /\ IF r.op = NoId THEN UNCHANGED ledger ELSE Ledger!Abandon(r.op)
           \/ /\ r.verify # "bad"
              /\ Go(p, IF (r.atomic \/ r.diff) /\ r.roots # {} THEN "scan" ELSE "call", task[p])
              /\ UNCHANGED ledger
        /\ UNCHANGED <<disk, base, bounds>>

\* Snapshot::capture lists the documents ...
Scan(p) ==
    LET found == {d \in task[p].req.roots : disk[d] # Absent}
    IN  /\ pc[p] = "scan"
        /\ IF found = {} THEN Go(p, "call", [task[p] EXCEPT !.net = TRUE])
                         ELSE Go(p, "capture", [task[p] EXCEPT !.todo = found])
        /\ UNCHANGED <<ledger, disk, base, bounds>>

\* ... and reads them; one that is gone by then leaves the batch without a net.
Capture(p, d) ==
    LET c == task[p]
    IN  /\ pc[p] = "capture" /\ First(c.todo, d)
        /\ IF disk[d] = Absent
             THEN Go(p, "call", [c EXCEPT !.todo = {}, !.snap = NewTask(c.req).snap])
             ELSE Visit(p, d, [c EXCEPT !.snap[d] = disk[d], !.net = c.todo = {d}], "capture", "call")
        /\ UNCHANGED <<ledger, disk, base, bounds>>

\* Too many files, too many bytes, or an I/O error: the batch runs without a net.
CaptureFails(p) ==
    /\ pc[p] \in {"scan", "capture"} /\ Failing
    /\ Go(p, "call", NewTask(task[p].req))
    /\ UNCHANGED <<ledger, disk, base, missed, received, drops, edits>>

-----------------------------------------------------------------------------
(* The calls.                                                              *)

\* A call without a tool name, of an unknown tool, or refused by the mode.
RefuseCall(p) ==
    /\ pc[p] = "call" /\ ~CallsOver(p) /\ CallAt(p).kind = "refused"
    /\ CallDone(p, FALSE)
    /\ UNCHANGED <<ledger, disk, base, bounds>>

\* A tool reads its document, which must exist, or must not if it is to be created.
ReadDocument(p) ==
    LET d == CallAt(p).doc
    IN  /\ pc[p] = "call" /\ ~CallsOver(p) /\ CallAt(p).kind # "refused"
        /\ IF (CallAt(p).kind = "create") = (disk[d] = Absent)
             THEN Go(p, "write", [task[p] EXCEPT !.seen = disk[d]])
             ELSE CallDone(p, FALSE)
        /\ UNCHANGED <<ledger, disk, base, bounds>>

\* It writes what it computed, unless the document has changed meanwhile.
WriteDocument(p) ==
    LET d == CallAt(p).doc
        t == CallAt(p).text
    IN  /\ pc[p] = "write"
        /\ \/ /\ disk[d] = task[p].seen
              /\ disk' = [disk EXCEPT ![d] = IF @ = Absent THEN <<t>> ELSE Append(@, t)]
              /\ CallDone(p, TRUE)
           \/ disk[d] # task[p].seen /\ CallDone(p, FALSE) /\ UNCHANGED disk
        /\ UNCHANGED <<ledger, base, bounds>>

\* A tool gives up before it writes.
HandlerFails(p) ==
    /\ pc[p] = "write" /\ Failing
    /\ CallDone(p, FALSE)
    /\ UNCHANGED <<ledger, disk, base, missed, received, drops, edits>>

-----------------------------------------------------------------------------
(* BatchGuard::finish and the answer.                                      *)

\* A fault to detect: the guard is finished as if no call had failed.
FinishWithoutRollback(p) ==
    LET c == task[p]
    IN  /\ CallsOver(p)
        /\ Go(p, "complete", [c EXCEPT !.outcome = IF c.failed THEN "undone" ELSE "applied"])
        /\ UNCHANGED <<ledger, disk, base, bounds>>

\* The documents under the roots that were not captured.
Created(c) == {d \in c.req.roots : disk[d] # Absent /\ c.snap[d] = Absent}

\* Roll back, or look at what changed and have it validated.
Finish(p) ==
    LET c       == task[p]
        changed == c.net /\ \E d \in c.req.roots : disk[d] # c.snap[d]
        undo    == c.net /\ c.failed /\ c.req.atomic
    IN  /\ CallsOver(p)
        /\ \/ undo /\ Go(p, "restore", [c EXCEPT !.todo = {d \in Docs : c.snap[d] # Absent}])
           \/ ~undo /\ Go(p, IF changed /\ c.req.verify = "auto" THEN "validate" ELSE "complete",
                          [c EXCEPT !.outcome = IF c.failed THEN "failed" ELSE "applied"])
        /\ UNCHANGED <<ledger, disk, base, bounds>>

\* Snapshot::changed swallows the error of a listing that is cut short: documents
\* the batch created are then neither reported nor validated.
ChangesOverlooked(p) ==
    LET c == task[p]
    IN  /\ CallsOver(p) /\ c.net /\ ~(c.failed /\ c.req.atomic) /\ Created(c) # {}
        /\ \A d \in c.req.roots : c.snap[d] # Absent => disk[d] = c.snap[d]
        /\ Failing
        /\ Go(p, "complete", [c EXCEPT !.outcome = IF c.failed THEN "failed" ELSE "applied"])
        /\ UNCHANGED <<ledger, disk, base, missed, received, drops, edits>>

\* Snapshot::restore writes the captured documents back, whatever is there.
RestoreDocument(p, d) ==
    LET c == task[p]
    IN  /\ pc[p] = "restore" /\ First(c.todo, d)
        /\ \/ /\ disk' = [disk EXCEPT ![d] = c.snap[d]]
              /\ Visit(p, d, c, "restore", "restore")
              /\ UNCHANGED fails
           \/ /\ disk[d] # c.snap[d] /\ Failing
              /\ Visit(p, d, [c EXCEPT !.torn = TRUE], "restore", "restore")
              /\ UNCHANGED disk
        /\ UNCHANGED <<ledger, base, missed, received, drops, edits>>

\* A fault to detect: documents the batch created stay.
RescanNothing(p) ==
    /\ pc[p] = "restore" /\ task[p].todo = {}
    /\ Go(p, "delete", task[p])
    /\ UNCHANGED <<ledger, disk, base, bounds>>

\* It lists the documents again, for those that were not captured ...
Rescan(p) ==
    LET c == task[p]
    IN  /\ pc[p] = "restore" /\ c.todo = {}
        /\ Go(p, "delete", [c EXCEPT !.todo = Created(c)])
        /\ UNCHANGED <<ledger, disk, base, bounds>>

\* ... and swallows the error of a directory it cannot read or of too many
\* files: the report does not name what it never came to (current_tracked_files).
RescanCutShort(p) ==
    LET c == task[p]
    IN  /\ pc[p] = "restore" /\ c.todo = {} /\ Failing
        /\ \E part \in SUBSET Created(c) \ {Created(c)} :
             /\ Go(p, "delete", [c EXCEPT !.todo = part])
             /\ missed' = [missed EXCEPT ![c.req] = @ \cup (Created(c) \ part)]
        /\ UNCHANGED <<ledger, disk, base, received, drops, edits>>

\* It removes them.
DeleteDocument(p, d) ==
    LET c == task[p]
    IN  /\ pc[p] = "delete" /\ First(c.todo, d)
        /\ \/ /\ disk' = [disk EXCEPT ![d] = Absent]
              /\ Visit(p, d, c, "delete", "delete")
              /\ UNCHANGED fails
           \/ /\ disk[d] # Absent /\ Failing
              /\ Visit(p, d, [c EXCEPT !.torn = TRUE], "delete", "delete")
              /\ UNCHANGED disk
        /\ UNCHANGED <<ledger, base, missed, received, drops, edits>>

\* The report says whether all of it was written back.
RolledBack(p) ==
    LET c == task[p]
    IN  /\ pc[p] = "delete" /\ c.todo = {}
        /\ Go(p, "complete", [c EXCEPT !.outcome = IF c.torn THEN "partial" ELSE "undone"])
        /\ UNCHANGED <<ledger, disk, base, bounds>>

\* KiCad's validators have answered (report_validators).
Validated(p) ==
    /\ pc[p] = "validate"
    /\ Go(p, "complete", task[p])
    /\ UNCHANGED <<ledger, disk, base, bounds>>

\* A fault to detect: only a success is recorded.
CompleteSuccessOnly(p) ==
    LET c == task[p]
    IN  /\ pc[p] = "complete"
        /\ IF c.req.op = NoId \/ c.outcome # "applied" THEN UNCHANGED ledger
                                                       ELSE Ledger!Complete(c.req.op, c.outcome)
        /\ Return(p, c.outcome)
        /\ UNCHANGED <<disk, base, bounds>>

\* A fault to detect: a batch that failed gives its key back.
CompleteOrAbandon(p) ==
    LET c == task[p]
    IN  /\ pc[p] = "complete"
        /\ IF c.req.op = NoId THEN UNCHANGED ledger
           ELSE IF c.outcome = "applied" THEN Ledger!Complete(c.req.op, c.outcome)
           ELSE Ledger!Abandon(c.req.op)
        /\ Return(p, c.outcome)
        /\ UNCHANGED <<disk, base, bounds>>

\* The answer is recorded under the key and returned.
CompleteBatch(p) ==
    LET c == task[p]
    IN  /\ pc[p] = "complete"
        /\ IF c.req.op = NoId THEN UNCHANGED ledger ELSE Ledger!Complete(c.req.op, c.outcome)
        /\ Return(p, c.outcome)
        /\ UNCHANGED <<disk, base, bounds>>

-----------------------------------------------------------------------------
(* The world outside.                                                      *)

\* The client goes away, and the server drops the task at an await; or a
\* handler panics.  Nothing of the batch is run any more, not even its end.
Drop(p) ==
    /\ pc[p] \in {"call", "write", "validate"} /\ drops < MaxDrops
    /\ Return(p, "dropped")
    /\ drops' = drops + 1
    /\ UNCHANGED <<ledger, disk, base, missed, received, fails, edits>>

\* Another application, KiCad say, adds to a document or creates it.
ForeignEdit(d) ==
    /\ edits < MaxEdits
    /\ disk' = [disk EXCEPT ![d] = IF @ = Absent THEN <<Foreign>> ELSE Append(@, Foreign)]
    /\ edits' = edits + 1
    /\ UNCHANGED <<ledger, base, pc, task, reply, missed, received, drops, fails>>

-----------------------------------------------------------------------------
Work(p) ==
    \/ Claim(p) \/ ParseVerify(p) \/ Scan(p) \/ RefuseCall(p) \/ ReadDocument(p) \/ WriteDocument(p)
    \/ Finish(p) \/ Rescan(p) \/ RolledBack(p) \/ Validated(p) \/ CompleteBatch(p)
    \/ \E d \in Docs : CheckBase(p, d) \/ Capture(p, d) \/ RestoreDocument(p, d) \/ DeleteDocument(p, d)

Next ==
    \/ \E r \in Requests : Compile(r) \/ \E p \in Tasks : Receive(p, r)
    \/ \E p \in Tasks : \/ Work(p) \/ CaptureFails(p) \/ HandlerFails(p) \/ Drop(p)
                       \/ ChangesOverlooked(p) \/ RescanCutShort(p)
    \/ \E d \in Docs : ForeignEdit(d)

Spec == Init /\ [][Next]_vars

\* The runtime polls every task that can go on.
FairSpec == Spec /\ \A p \in Tasks : WF_vars(Work(p))

-----------------------------------------------------------------------------
TasksOK ==
    /\ disk \in [Docs -> Contents]
    /\ base \in [Requests -> [Docs -> Contents] \cup {NoBase}]
    /\ pc \in [Tasks -> Steps]
    /\ task \in [Tasks -> Task]
    /\ reply \in [Tasks -> Replies]
    /\ missed \in [Requests -> SUBSET Docs]
    /\ received \in 0..MaxReceived /\ drops \in 0..MaxDrops
    /\ fails \in 0..MaxFails /\ edits \in 0..MaxEdits

TypeOK == Ledger!LedgerOK /\ TasksOK

\* The steps between the claim of the key and its completion.
Running(p) == pc[p] \in Steps \ {"idle", "base", "claim"}

\* p works on the operation with key id.
Runs(p, id) == Running(p) /\ task[p].req.op = id

\* At most one task at a time works on an operation, and while it does the
\* key is in flight, however many others retry it and however full the ledger
\* is (the claim in handle_kicad_invoke).
OneRunPerKey ==
    \A id \in Ids, p \in Tasks : Runs(p, id) =>
        /\ entries[id] = InFlight
        /\ \A q \in Tasks : Runs(q, id) => q = p

\* A tool that is about to write belongs to a call of the batch.
WritesForACall == \A p \in Tasks : pc[p] = "write" => task[p].at <= Len(task[p].req.calls)

\* The inductive invariant behind it: the types of everything but the queue,
\* and which call a tool works for.
IInv == Ledger!EntriesOK /\ TasksOK /\ WritesForACall /\ OneRunPerKey

\* What a key once answered, it goes on answering until it is forgotten.
AnswersStable ==
    [][\A id \in Ids : entries[id] \in Outcomes => entries'[id] \in {entries[id], Unknown}]_vars

\* The calls of request r that reach a handler.
EditsOf(r) == {r.calls[i] : i \in {j \in DOMAIN r.calls : r.calls[j].kind # "refused"}}

\* How often text t is in document d.
Occurrences(d, t) ==
    IF disk[d] = Absent THEN 0 ELSE Cardinality({i \in DOMAIN disk[d] : disk[d][i] = t})

\* No edit of a request with a key is in a document twice, however often the
\* request is sent, cut short or rolled back; the ledger must be large enough
\* for its keys (`a replay returns the first result, it does not apply twice').
NoDoubleApply ==
    \A r \in Requests : r.op # NoId => \A e \in EditsOf(r) : Occurrences(e.doc, e.text) <= 1

Answers(p) == pc[p] = "complete" /\ pc'[p] = "idle"

\* An atomic batch with a net, alone on the server, leaves all of its edits or
\* the documents as they were, and answers truthfully which: all but those that
\* the listing of the rollback did not come to (UndoneIsClean).
BatchAtomic ==
    [][\A p \in Tasks :
         LET c == task[p]
         IN  Answers(p) /\ c.req.atomic /\ c.net =>
               /\ c.outcome # "failed"
               /\ c.outcome = "applied" => \A e \in EditsOf(c.req) : Occurrences(e.doc, e.text) > 0
               /\ c.outcome = "undone" /\ edits = 0 =>
                    \A d \in c.req.roots \ missed[c.req] : disk[d] = c.snap[d]]_vars

\* The answer that a batch was undone is given for a clean rollback only
\* (snapshot.rs:122, `A rollback that half-worked must say so').
UndoneIsClean ==
    [][\A p \in Tasks :
         LET c == task[p]
         IN  Answers(p) /\ c.req.atomic /\ c.net /\ c.outcome = "undone" /\ edits = 0 =>
               \A d \in c.req.roots : disk[d] = c.snap[d]]_vars

\* What the roll-backs of the operation with key id did not come to.
MissedOf(id) == UNION {missed[r] : r \in {r \in Requests : r.op = id}}

\* Once a batch has answered that it was undone, none of its edits is in a
\* document (meta_tools.rs:136, `every KiCAD file it touched is restored'), but
\* for the documents that the listing of its rollback did not come to.
UndoneStaysUndone ==
    \A r \in Requests : r.op # NoId /\ entries[r.op] = "undone" =>
        \A e \in EditsOf(r) : e.doc \notin MissedOf(r.op) => Occurrences(e.doc, e.text) = 0

\* A retry of an operation that has been answered is never turned down as
\* stale (`a retried batch returns its first result').
RetryReplays ==
    [][\A p \in Tasks :
         LET id == task[p].req.op
         IN  pc[p] = "base" /\ pc'[p] = "idle" /\ id # NoId => entries[id] \notin Outcomes]_vars

\* A claimed key has somebody who will complete or abandon it (Claim::Fresh:
\* `the caller owns it and must finish').
ClaimsAreFinished == \A id \in Ids : entries[id] = InFlight => \E p \in Tasks : Runs(p, id)

\* What another application left in a document stays there (`an edit made in
\* another window is detected instead of overwritten').
EditsNotOverwritten ==
    [][\A d \in Docs : Occurrences(d, Foreign) > 0 =>
          disk'[d] # Absent /\ \E i \in DOMAIN disk'[d] : disk'[d][i] = Foreign]_vars

\* A key in flight comes free again: its operation ends.
KeysComeFree == \A id \in Ids : entries[id] = InFlight ~> entries[id] # InFlight
=============================================================================
