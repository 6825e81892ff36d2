------------------------- MODULE KicadInvoke_proofs -------------------------
(***************************************************************************)
(* For any number of tasks, documents, keys and requests, any capacity of  *)
(* the ledger and any bounds: no operation is worked on by two tasks, an   *)
(* answer once recorded is not replaced, and a batch with a key is applied *)
(* at most once, however often its request is retried, cut short or undone,*)
(* as long as the ledger forgets no answer.                                *)
(*                                                                         *)
(* For a server with one task, as over stdio: an atomic batch leaves all   *)
(* of its edits or the documents as they were, and what a batch has undone *)
(* stays undone.  Both leave out the created documents that the listing of *)
(* a roll-back did not come to, which the code passes over in silence.     *)
(***************************************************************************)
EXTENDS KicadInvoke, FiniteSetTheorems, TLAPS

\* The part of the state that belongs to the tasks, ...
ServersOK ==
    /\ pc \in [Tasks -> Steps]
    /\ task \in [Tasks -> Task]
    /\ reply \in [Tasks -> Replies]

\* ... and the rest of it.
WorldOK ==
    /\ disk \in [Docs -> Contents]
    /\ base \in [Requests -> [Docs -> Contents] \cup {NoBase}]
    /\ missed \in [Requests -> SUBSET Docs]
    /\ received \in 0..MaxReceived /\ drops \in 0..MaxDrops
    /\ fails \in 0..MaxFails /\ edits \in 0..MaxEdits

\* What a step of a task has to keep, the world apart.
Safe == ServersOK /\ Ledger!EntriesOK /\ WritesForACall /\ OneRunPerKey

LEMMA InvariantParts == IInv <=> WorldOK /\ Safe
  BY DEF IInv, TasksOK, WorldOK, Safe, ServersOK

LEMMA NewTaskIsTask == \A r \in Requests : NewTask(r) \in Task
  BY DEF NewTask, Task, Contents, Outcomes

LEMMA RestIsTask == Rest \in Task
  <1>1. (CHOOSE r \in Requests : TRUE) \in Requests
    BY RequestsAssumption
  <1> QED
    BY <1>1, NewTaskIsTask DEF Rest

-----------------------------------------------------------------------------
(* How a task moves, and what that keeps.                                  *)

\* A task that takes a step leaves the others alone; the keys they work on
\* must stay in flight, and its own must be in flight and nobody else's.
LEMMA OneRunKept ==
  ASSUME OneRunPerKey, NEW p \in Tasks,
         \A q \in Tasks \ {p} : pc'[q] = pc[q] /\ task'[q] = task[q],
         \A q \in Tasks \ {p}, id \in Ids : Runs(q, id) => entries'[id] = InFlight,
         \A id \in Ids : Runs(p, id)' => entries'[id] = InFlight /\ \A q \in Tasks \ {p} : ~Runs(q, id)
  PROVE  OneRunPerKey'
  <1>1. \A q \in Tasks \ {p}, id \in Ids : Runs(q, id)' <=> Runs(q, id)
    BY DEF Runs, Running
  <1> QED
    BY <1>1 DEF OneRunPerKey

\* A task that goes on with its request keeps everything.
LEMMA GoKeeps ==
  ASSUME Safe, NEW p \in Tasks, NEW s \in Steps, NEW c \in Task, Go(p, s, c), UNCHANGED ledger,
         c.req = task[p].req,
         s \in {"base", "claim"} \/ Running(p),
         s = "write" => c.at <= Len(c.req.calls)
  PROVE  Safe'
  <1>1. ServersOK'
    BY DEF Safe, ServersOK, Go
  <1>2. pc'[p] = s /\ task'[p] = c /\ \A q \in Tasks \ {p} : pc'[q] = pc[q] /\ task'[q] = task[q]
    BY DEF Safe, ServersOK, Go
  <1>3. WritesForACall'
    BY <1>2 DEF Safe, WritesForACall
  <1>4. Ledger!EntriesOK' /\ entries' = entries
    BY DEF Safe, Ledger!EntriesOK, ledger
  <1>5. \A id \in Ids : Runs(p, id)' => Runs(p, id)
    BY <1>2 DEF Runs, Running
  <1>6. OneRunPerKey'
    BY <1>2, <1>4, <1>5, OneRunKept DEF Safe, OneRunPerKey
  <1> QED
    BY <1>1, <1>3, <1>4, <1>6 DEF Safe

\* So does one that answers and rests, if it leaves the keys of others alone.
LEMMA ReturnKeeps ==
  ASSUME Safe, NEW p \in Tasks, NEW a \in Replies, Return(p, a), Ledger!EntriesOK',
         \A id \in Ids : id # task[p].req.op \/ ~Running(p) => entries'[id] = entries[id]
  PROVE  Safe'
  <1>1. ServersOK'
    BY RestIsTask DEF Safe, ServersOK, Return, Steps
  <1>2. pc'[p] = "idle" /\ \A q \in Tasks \ {p} : pc'[q] = pc[q] /\ task'[q] = task[q]
    BY DEF Safe, ServersOK, Return
  <1>3. WritesForACall'
    BY <1>2 DEF Safe, WritesForACall
  <1>4. \A id \in Ids : ~Runs(p, id)'
    BY <1>2 DEF Runs, Running
  <1>5. \A q \in Tasks \ {p}, id \in Ids : Runs(q, id) => entries'[id] = InFlight
    <2> TAKE q \in Tasks \ {p}, id \in Ids
    <2> HAVE Runs(q, id)
    <2>1. entries[id] = InFlight /\ ~Runs(p, id)
      BY DEF Safe, OneRunPerKey
    <2> QED
      BY <2>1 DEF Runs
  <1>6. OneRunPerKey'
    BY <1>2, <1>4, <1>5, OneRunKept DEF Safe
  <1> QED
    BY <1>1, <1>3, <1>6 DEF Safe

\* The tools' way on.
LEMMA CallDoneKeeps ==
  ASSUME Safe, NEW p \in Tasks, NEW ok \in BOOLEAN, CallDone(p, ok), UNCHANGED ledger, Running(p)
  PROVE  Safe'
  <1> DEFINE b == task[p].failed \/ ~ok
             n == task[p].at + 1
             c == [task[p] EXCEPT !.at = n, !.seen = Absent, !.failed = b]
  <1>1. task[p] \in Task
    BY DEF Safe, ServersOK
  <1>2. b \in BOOLEAN
    OBVIOUS
  <1>3. n \in Nat \ {0}
    BY <1>1 DEF Task
  <1>4. Go(p, "call", c)
    BY DEF CallDone
  <1> HIDE DEF b, n
  <1>5. c \in Task /\ c.req = task[p].req
    BY <1>1, <1>2, <1>3 DEF Task, Contents
  <1> HIDE DEF c
  <1> QED
    BY <1>4, <1>5, GoKeeps DEF Steps

\* The loops' way on.
LEMMA VisitKeeps ==
  ASSUME Safe, NEW p \in Tasks, NEW d, NEW c \in Task, NEW here \in Steps, NEW next \in Steps,
         Visit(p, d, c, here, next), UNCHANGED ledger, c.req = task[p].req,
         {here, next} \subseteq {"base", "claim"} \/ Running(p),
         here # "write" /\ next # "write"
  PROVE  Safe'
  <1> DEFINE rest == c.todo \ {d}
             s == IF rest = {} THEN next ELSE here
             e == [c EXCEPT !.todo = rest]
  <1>1. e \in Task /\ e.req = task[p].req
    BY DEF Task
  <1>2. s \in Steps /\ s # "write" /\ (s \in {"base", "claim"} \/ Running(p))
    OBVIOUS
  <1>3. Go(p, s, e)
    BY DEF Visit
  <1> HIDE DEF e, s
  <1> QED
    BY <1>1, <1>2, <1>3, GoKeeps

-----------------------------------------------------------------------------
(* The ledger, whatever its queue holds.                                   *)

LEMMA EvictedAreDone ==
  ASSUME NEW e, NEW o, NEW id \in Ledger!Evicted(e, o)
  PROVE  e[id] \in Outcomes
  BY DEF Ledger!Evicted

\* A claim puts its key in flight, forgets answers only, and changes no other key.
LEMMA ClaimFreshKeeps ==
  ASSUME Ledger!EntriesOK, NEW id \in Ids, Ledger!ClaimFresh(id)
  PROVE  /\ Ledger!EntriesOK'
         /\ entries[id] = Unknown /\ entries'[id] = InFlight
         /\ \A k \in Ids : entries[k] = InFlight => entries'[k] = InFlight
         /\ \A k \in Ids \ {id} : entries'[k] \in {entries[k], Unknown}
  <1> DEFINE e == [entries EXCEPT ![id] = InFlight]
             gone == Ledger!Evicted(e, Append(order, id))
  <1>1. entries[id] = Unknown /\ entries' = [k \in Ids |-> IF k \in gone THEN Unknown ELSE e[k]]
    BY DEF Ledger!ClaimFresh
  <1>2. \A k \in gone : e[k] \in Outcomes
    BY EvictedAreDone
  <1>3. e \in [Ids -> Outcomes \cup {Unknown, InFlight}] /\ e[id] = InFlight /\ \A k \in Ids \ {id} : e[k] = entries[k]
    BY DEF Ledger!EntriesOK
  <1> HIDE DEF e, gone
  <1>4. \A k \in Ids : e[k] = InFlight => k \notin gone
    BY <1>2, EntriesAssumption
  <1> QED
    BY <1>1, <1>3, <1>4, EntriesAssumption DEF Ledger!EntriesOK

LEMMA CompleteKeeps ==
  ASSUME Ledger!EntriesOK, NEW id \in Ids, NEW r \in Outcomes, Ledger!Complete(id, r)
  PROVE  /\ Ledger!EntriesOK'
         /\ \A k \in Ids \ {id} : entries'[k] = entries[k]
  BY DEF Ledger!EntriesOK, Ledger!Complete

LEMMA AbandonKeeps ==
  ASSUME Ledger!EntriesOK, NEW id \in Ids, Ledger!Abandon(id)
  PROVE  /\ Ledger!EntriesOK'
         /\ \A k \in Ids \ {id} : entries'[k] = entries[k]
  BY DEF Ledger!EntriesOK, Ledger!Abandon

-----------------------------------------------------------------------------
(* The steps of a task that leave the world alone.                         *)

LEMMA CurrentTask == ASSUME Safe, NEW p \in Tasks PROVE task[p] \in Task /\ pc[p] \in Steps /\ task[p].req \in RequestType
  <1>1. task[p] \in Task /\ pc[p] \in Steps
    BY DEF Safe, ServersOK
  <1> QED
    BY <1>1, RequestsAssumption DEF Task

LEMMA CheckBaseSafe ==
  ASSUME Safe, NEW p \in Tasks, NEW d \in Docs, CheckBase(p, d)
  PROVE  Safe'
  <1>1. CASE Visit(p, d, task[p], "base", "claim")
    BY <1>1, CurrentTask, VisitKeeps DEF CheckBase, Steps
  <1>2. CASE Return(p, "stale")
    BY <1>2, ReturnKeeps DEF CheckBase, Replies, ledger, Safe, Ledger!EntriesOK
  <1> QED
    BY <1>1, <1>2 DEF CheckBase

LEMMA ClaimSafe ==
  ASSUME Safe, NEW p \in Tasks, Claim(p)
  PROVE  Safe'
  <1> DEFINE id == task[p].req.op
  <1>1. pc[p] = "claim" /\ ~Running(p) /\ task[p] \in Task
    BY CurrentTask DEF Claim, Running
  <1>2. ASSUME id = NoId, Go(p, "verify", task[p]), UNCHANGED ledger PROVE Safe'
    <2>1. pc'[p] = "verify" /\ task'[p] = task[p] /\ \A q \in Tasks \ {p} : pc'[q] = pc[q] /\ task'[q] = task[q]
      BY <1>2 DEF Safe, ServersOK, Go
    <2>2. ServersOK' /\ WritesForACall' /\ Ledger!EntriesOK' /\ entries' = entries
      BY <1>2, <2>1 DEF Safe, ServersOK, WritesForACall, Ledger!EntriesOK, Go, Steps, ledger
    <2>3. \A k \in Ids : ~Runs(p, k)'
      BY <1>2, <2>1, NoIdAssumption DEF Runs
    <2>4. OneRunPerKey'
      BY <2>1, <2>2, <2>3, OneRunKept DEF Safe, OneRunPerKey
    <2> QED
      BY <2>2, <2>4 DEF Safe
  <1>3. ASSUME id \in Ids, Ledger!ClaimFresh(id), Go(p, "verify", task[p]) PROVE Safe'
    <2>1. pc'[p] = "verify" /\ task'[p] = task[p] /\ \A q \in Tasks \ {p} : pc'[q] = pc[q] /\ task'[q] = task[q]
      BY <1>3 DEF Safe, ServersOK, Go
    <2>2. ServersOK' /\ WritesForACall'
      BY <1>3, <2>1 DEF Safe, ServersOK, WritesForACall, Go, Steps
    <2>3. /\ Ledger!EntriesOK' /\ entries[id] = Unknown /\ entries'[id] = InFlight
          /\ \A k \in Ids : entries[k] = InFlight => entries'[k] = InFlight
      BY <1>3, ClaimFreshKeeps DEF Safe
    <2>4. \A q \in Tasks \ {p}, k \in Ids : Runs(q, k) => entries'[k] = InFlight
      BY <2>3 DEF Safe, OneRunPerKey
    <2>5. \A q \in Tasks \ {p} : ~Runs(q, id)
      BY <1>3, <2>3, EntriesAssumption DEF Safe, OneRunPerKey
    <2>6. \A k \in Ids : Runs(p, k)' => k = id
      BY <2>1 DEF Runs
    <2>7. OneRunPerKey'
      BY <2>1, <2>3, <2>4, <2>5, <2>6, OneRunKept DEF Safe
    <2> QED
      BY <2>2, <2>3, <2>7 DEF Safe
  <1>4. ASSUME id \in Ids, entries[id] \in Outcomes, Return(p, entries[id]), UNCHANGED ledger PROVE Safe'
    BY <1>4, ReturnKeeps DEF Replies, ledger, Safe, Ledger!EntriesOK
  <1>5. ASSUME Return(p, "inflight"), UNCHANGED ledger PROVE Safe'
    BY <1>5, ReturnKeeps DEF Replies, ledger, Safe, Ledger!EntriesOK
  <1> QED
    BY <1>2, <1>3, <1>4, <1>5 DEF Claim

LEMMA ParseVerifySafe ==
  ASSUME Safe, NEW p \in Tasks, ParseVerify(p)
  PROVE  Safe'
  <1>1. Running(p) /\ task[p] \in Task
    BY CurrentTask DEF ParseVerify, Running, Steps
  <1>2. CASE Return(p, "invalid") /\ UNCHANGED ledger
    BY <1>2, ReturnKeeps DEF Replies, ledger, Safe, Ledger!EntriesOK
  <1>3. CASE Return(p, "invalid") /\ task[p].req.op # NoId /\ Ledger!Abandon(task[p].req.op)
    <2>1. task[p].req.op \in Ids
      BY <1>3, CurrentTask DEF RequestType
    <2>2. Ledger!EntriesOK' /\ \A k \in Ids \ {task[p].req.op} : entries'[k] = entries[k]
      BY <1>3, <2>1, AbandonKeeps DEF Safe
    <2> QED
      BY <1>1, <1>3, <2>2, ReturnKeeps DEF Replies
  <1>4. CASE UNCHANGED ledger /\ \E s \in {"scan", "call"} : Go(p, s, task[p])
    BY <1>1, <1>4, GoKeeps DEF Steps
  <1> QED
    BY <1>2, <1>3, <1>4 DEF ParseVerify

LEMMA ScanSafe ==
  ASSUME Safe, NEW p \in Tasks, Scan(p)
  PROVE  Safe'
  <1> DEFINE found == {d \in task[p].req.roots : disk[d] # Absent}
             bare == [task[p] EXCEPT !.net = TRUE]
             full == [task[p] EXCEPT !.todo = found]
  <1>1. Running(p) /\ task[p] \in Task /\ UNCHANGED ledger
    BY CurrentTask DEF Scan, Running, Steps
  <1>2. found \in SUBSET Docs
    BY CurrentTask DEF RequestType
  <1>3. Go(p, "call", bare) \/ Go(p, "capture", full)
    BY DEF Scan
  <1> HIDE DEF found
  <1>4. bare \in Task /\ bare.req = task[p].req /\ full \in Task /\ full.req = task[p].req
    BY <1>1, <1>2 DEF Task
  <1> HIDE DEF bare, full
  <1> QED
    BY <1>1, <1>3, <1>4, GoKeeps DEF Steps

LEMMA CaptureSafe ==
  ASSUME IInv, NEW p \in Tasks, NEW d \in Docs, Capture(p, d)
  PROVE  Safe'
  <1> DEFINE c == task[p]
             none == NewTask(c.req).snap
             bare == [c EXCEPT !.todo = {}, !.snap = none]
             b == c.todo = {d}
             s == [c.snap EXCEPT ![d] = disk[d]]
             full == [c EXCEPT !.snap = s, !.net = b]
  <1>1. Safe /\ disk[d] \in Contents
    BY InvariantParts DEF WorldOK
  <1>2. Running(p) /\ c \in Task /\ UNCHANGED ledger
    BY <1>1, CurrentTask DEF Capture, Running, Steps
  <1>3. none \in [Docs -> Contents] /\ s \in [Docs -> Contents] /\ b \in BOOLEAN
    BY <1>1, <1>2 DEF NewTask, Contents, Task
  <1>4. Go(p, "call", bare) \/ Visit(p, d, full, "capture", "call")
    BY DEF Capture
  <1> HIDE DEF none, b, s
  <1>5. bare \in Task /\ bare.req = c.req /\ full \in Task /\ full.req = c.req
    BY <1>2, <1>3 DEF Task
  <1> HIDE DEF bare, full
  <1>6. CASE Go(p, "call", bare)
    BY <1>1, <1>2, <1>5, <1>6, GoKeeps DEF Steps
  <1>7. CASE Visit(p, d, full, "capture", "call")
    BY <1>1, <1>2, <1>5, <1>7, VisitKeeps DEF Steps
  <1> QED
    BY <1>4, <1>6, <1>7

LEMMA CaptureFailsSafe ==
  ASSUME Safe, NEW p \in Tasks, CaptureFails(p)
  PROVE  Safe'
  <1> DEFINE c == NewTask(task[p].req)
  <1>1. Running(p) /\ Go(p, "call", c) /\ UNCHANGED ledger
    BY CurrentTask DEF CaptureFails, Running, Steps
  <1>2. c \in Task /\ c.req = task[p].req
    BY CurrentTask, NewTaskIsTask DEF Task, NewTask
  <1> HIDE DEF c
  <1> QED
    BY <1>1, <1>2, GoKeeps DEF Steps

\* A call whose tool gives up, before or after it has read, keeps everything.
LEMMA CallsSafe ==
  ASSUME Safe, NEW p \in Tasks, RefuseCall(p) \/ WriteDocument(p) \/ HandlerFails(p)
  PROVE  Safe'
  <1>1. Running(p) /\ UNCHANGED ledger /\ \E ok \in BOOLEAN : CallDone(p, ok)
    BY CurrentTask DEF RefuseCall, WriteDocument, HandlerFails, Running, Steps
  <1> QED
    BY <1>1, CallDoneKeeps

LEMMA ReadDocumentSafe ==
  ASSUME IInv, NEW p \in Tasks, ReadDocument(p)
  PROVE  Safe'
  <1> DEFINE x == disk[CallAt(p).doc]
             c == [task[p] EXCEPT !.seen = x]
  <1>1. Safe /\ disk \in [Docs -> Contents]
    BY InvariantParts DEF WorldOK
  <1>2. Running(p) /\ task[p] \in Task /\ task[p].req \in RequestType /\ UNCHANGED ledger
    BY <1>1, CurrentTask DEF ReadDocument, Running, Steps
  <1>3. task[p].at \in 1..Len(task[p].req.calls)
    BY <1>2 DEF ReadDocument, CallsOver, Task, RequestType
  <1>4. x \in Contents
    <2>1. task[p].req.calls \in Seq(Calls)
      BY <1>2 DEF RequestType
    <2>2. CallAt(p) \in Calls
      BY <1>3, <2>1 DEF CallAt
    <2> QED
      BY <1>1, <2>2 DEF Calls
  <1>5. Go(p, "write", c) \/ CallDone(p, FALSE)
    BY DEF ReadDocument
  <1> HIDE DEF x
  <1>6. c \in Task /\ c.req = task[p].req /\ c.at = task[p].at
    BY <1>2, <1>4 DEF Task
  <1> HIDE DEF c
  <1>7. CASE Go(p, "write", c)
    BY <1>1, <1>2, <1>3, <1>6, <1>7, GoKeeps DEF Steps
  <1>8. CASE CallDone(p, FALSE)
    BY <1>1, <1>2, <1>8, CallDoneKeeps
  <1> QED
    BY <1>5, <1>7, <1>8

LEMMA FinishSafe ==
  ASSUME Safe, NEW p \in Tasks, Finish(p)
  PROVE  Safe'
  <1> DEFINE c == task[p]
             back == {d \in Docs : c.snap[d] # Absent}
             o == IF c.failed THEN "failed" ELSE "applied"
             undone == [c EXCEPT !.todo = back]
             kept == [c EXCEPT !.outcome = o]
  <1>1. Running(p) /\ c \in Task /\ UNCHANGED ledger
    BY CurrentTask DEF Finish, CallsOver, Running, Steps
  <1>2. back \in SUBSET Docs /\ o \in Outcomes
    BY DEF Outcomes
  <1>3. Go(p, "restore", undone) \/ \E s \in {"validate", "complete"} : Go(p, s, kept)
    BY DEF Finish
  <1> HIDE DEF back, o
  <1>4. undone \in Task /\ undone.req = c.req /\ kept \in Task /\ kept.req = c.req
    BY <1>1, <1>2 DEF Task
  <1> HIDE DEF undone, kept
  <1> QED
    BY <1>1, <1>3, <1>4, GoKeeps DEF Steps

\* The two loops of the rollback.
LEMMA RollbackSafe ==
  ASSUME Safe, NEW p \in Tasks, NEW d \in Docs, RestoreDocument(p, d) \/ DeleteDocument(p, d)
  PROVE  Safe'
  <1> DEFINE c == task[p]
             torn == [c EXCEPT !.torn = TRUE]
  <1>1. Running(p) /\ c \in Task /\ UNCHANGED ledger
    BY CurrentTask DEF RestoreDocument, DeleteDocument, Running, Steps
  <1>2. \E s \in {"restore", "delete"} : Visit(p, d, c, s, s) \/ Visit(p, d, torn, s, s)
    BY DEF RestoreDocument, DeleteDocument
  <1>3. torn \in Task /\ torn.req = c.req
    BY <1>1 DEF Task
  <1> HIDE DEF torn
  <1>4. {"restore", "delete"} \subseteq Steps \ {"write"}
    BY DEF Steps
  <1> QED
    BY <1>1, <1>2, <1>3, <1>4, VisitKeeps

LEMMA RescanSafe ==
  ASSUME Safe, NEW p \in Tasks, Rescan(p)
  PROVE  Safe'
  <1> DEFINE c == task[p]
             new == {d \in c.req.roots : disk[d] # Absent /\ c.snap[d] = Absent}
             next == [c EXCEPT !.todo = new]
  <1>1. Running(p) /\ c \in Task /\ UNCHANGED ledger /\ Go(p, "delete", next)
    BY CurrentTask DEF Rescan, Created, Running, Steps
  <1>2. new \in SUBSET Docs
    BY CurrentTask DEF RequestType
  <1> HIDE DEF new
  <1>3. next \in Task /\ next.req = c.req
    BY <1>1, <1>2 DEF Task
  <1> HIDE DEF next
  <1> QED
    BY <1>1, <1>3, GoKeeps DEF Steps

LEMMA CutShortSafe ==
  ASSUME Safe, NEW p \in Tasks, ChangesOverlooked(p) \/ RescanCutShort(p)
  PROVE  Safe'
  <1> DEFINE c == task[p]
             o == IF c.failed THEN "failed" ELSE "applied"
             kept == [c EXCEPT !.outcome = o]
  <1>1. Running(p) /\ c \in Task /\ c.req \in RequestType /\ UNCHANGED ledger
    BY CurrentTask DEF ChangesOverlooked, RescanCutShort, CallsOver, Running, Steps
  <1>2. CASE Go(p, "complete", kept)
    <2>1. o \in Outcomes
      BY DEF Outcomes
    <2> HIDE DEF o
    <2>2. kept \in Task /\ kept.req = c.req
      BY <1>1, <2>1 DEF Task
    <2> HIDE DEF kept
    <2> QED
      BY <1>1, <1>2, <2>2, GoKeeps DEF Steps
  <1>3. ASSUME NEW part \in SUBSET Created(c), Go(p, "delete", [c EXCEPT !.todo = part])
        PROVE  Safe'
    <2> DEFINE next == [c EXCEPT !.todo = part]
    <2>1. part \in SUBSET Docs
      BY <1>1 DEF Created, RequestType
    <2>2. next \in Task /\ next.req = c.req
      BY <1>1, <2>1 DEF Task
    <2> HIDE DEF next
    <2> QED
      BY <1>1, <1>3, <2>2, GoKeeps DEF next, Steps
  <1> QED
    BY <1>2, <1>3 DEF ChangesOverlooked, RescanCutShort

LEMMA RolledBackSafe ==
  ASSUME Safe, NEW p \in Tasks, RolledBack(p)
  PROVE  Safe'
  <1> DEFINE c == task[p]
             o == IF c.torn THEN "partial" ELSE "undone"
             next == [c EXCEPT !.outcome = o]
  <1>1. Running(p) /\ c \in Task /\ UNCHANGED ledger /\ Go(p, "complete", next)
    BY CurrentTask DEF RolledBack, Running, Steps
  <1>2. o \in Outcomes
    BY DEF Outcomes
  <1> HIDE DEF o
  <1>3. next \in Task /\ next.req = c.req
    BY <1>1, <1>2 DEF Task
  <1> HIDE DEF next
  <1> QED
    BY <1>1, <1>3, GoKeeps DEF Steps

LEMMA ValidatedSafe ==
  ASSUME Safe, NEW p \in Tasks, Validated(p)
  PROVE  Safe'
  <1>1. Running(p) /\ UNCHANGED ledger /\ Go(p, "complete", task[p])
    BY CurrentTask DEF Validated, Running, Steps
  <1> QED
    BY <1>1, CurrentTask, GoKeeps DEF Steps

LEMMA CompleteBatchSafe ==
  ASSUME Safe, NEW p \in Tasks, CompleteBatch(p)
  PROVE  Safe'
  <1> DEFINE id == task[p].req.op
  <1>1. Running(p) /\ task[p] \in Task /\ Return(p, task[p].outcome)
    BY CurrentTask DEF CompleteBatch, Running, Steps
  <1>2. task[p].outcome \in Outcomes /\ task[p].outcome \in Replies
    BY <1>1 DEF Task, Replies
  <1>3. CASE UNCHANGED ledger
    BY <1>1, <1>2, <1>3, ReturnKeeps DEF ledger, Safe, Ledger!EntriesOK
  <1>4. CASE id # NoId /\ Ledger!Complete(id, task[p].outcome)
    <2>1. id \in Ids
      BY <1>4, CurrentTask DEF RequestType
    <2>2. Ledger!EntriesOK' /\ \A k \in Ids \ {id} : entries'[k] = entries[k]
      BY <1>2, <1>4, <2>1, CompleteKeeps DEF Safe
    <2> QED
      BY <1>1, <1>2, <2>2, ReturnKeeps
  <1> QED
    BY <1>3, <1>4 DEF CompleteBatch

LEMMA DropSafe ==
  ASSUME Safe, NEW p \in Tasks, Drop(p)
  PROVE  Safe'
  BY ReturnKeeps DEF Drop, Replies, ledger, Safe, Ledger!EntriesOK

LEMMA ReceiveSafe ==
  ASSUME Safe, NEW p \in Tasks, NEW r \in Requests, Receive(p, r)
  PROVE  Safe'
  <1> DEFINE roots == IF r.based THEN r.roots ELSE {}
             s == IF r.based /\ r.roots # {} THEN "base" ELSE "claim"
             c == [NewTask(r) EXCEPT !.todo = roots]
  <1>1. r \in RequestType /\ NewTask(r) \in Task
    BY RequestsAssumption, NewTaskIsTask
  <1>2. roots \in SUBSET Docs /\ s \in {"base", "claim"}
    BY <1>1 DEF RequestType
  <1>3. pc' = [pc EXCEPT ![p] = s] /\ task' = [task EXCEPT ![p] = c] /\ reply' = [reply EXCEPT ![p] = "none"] /\ UNCHANGED ledger
    BY DEF Receive
  <1> HIDE DEF roots, s
  <1>4. c \in Task
    BY <1>1, <1>2 DEF Task
  <1> HIDE DEF c
  <1>5. pc'[p] = s /\ \A q \in Tasks \ {p} : pc'[q] = pc[q] /\ task'[q] = task[q]
    BY <1>3 DEF Safe, ServersOK
  <1>6. ServersOK' /\ Ledger!EntriesOK' /\ entries' = entries
    BY <1>2, <1>3, <1>4 DEF Safe, ServersOK, Steps, Replies, Ledger!EntriesOK, ledger
  <1>7. WritesForACall'
    BY <1>2, <1>5 DEF Safe, WritesForACall
  <1>8. \A id \in Ids : ~Runs(p, id)'
    BY <1>2, <1>5 DEF Runs, Running
  <1>9. OneRunPerKey'
    BY <1>5, <1>6, <1>8, OneRunKept DEF Safe, OneRunPerKey
  <1> QED
    BY <1>6, <1>7, <1>9 DEF Safe

\* What changes neither the tasks nor the ledger.
LEMMA OutsideSafe ==
  ASSUME Safe, UNCHANGED <<ledger, pc, task, reply>>
  PROVE  Safe'
  BY DEF Safe, ServersOK, Ledger!EntriesOK, WritesForACall, OneRunPerKey, Runs, Running, ledger

-----------------------------------------------------------------------------
(* The world.                                                              *)

LEMMA DiskWritten ==
  ASSUME WorldOK, NEW d, NEW x \in Contents, disk' = [disk EXCEPT ![d] = x]
  PROVE  disk' \in [Docs -> Contents]
  BY DEF WorldOK

\* What an edit leaves in a document.
LEMMA Edited ==
  ASSUME WorldOK, NEW d \in Docs, NEW t \in Texts \cup {Foreign}
  PROVE  (IF disk[d] = Absent THEN <<t>> ELSE Append(disk[d], t)) \in Contents
  <1>1. disk[d] \in Contents
    BY DEF WorldOK
  <1>2. <<t>> \in Seq(Texts \cup {Foreign})
    OBVIOUS
  <1>3. disk[d] # Absent => Append(disk[d], t) \in Seq(Texts \cup {Foreign})
    BY <1>1 DEF Contents
  <1> QED
    BY <1>2, <1>3 DEF Contents

LEMMA FailingTyped == ASSUME WorldOK, Failing PROVE fails' \in 0..MaxFails
  BY BoundsAssumption DEF WorldOK, Failing

LEMMA WorldKept ==
  ASSUME WorldOK, disk' \in [Docs -> Contents], UNCHANGED <<base, missed, received, drops, edits>>,
         fails' \in 0..MaxFails
  PROVE  WorldOK'
  BY DEF WorldOK

LEMMA WorkWorld ==
  ASSUME IInv, NEW p \in Tasks,
         Work(p) \/ CaptureFails(p) \/ HandlerFails(p) \/ ChangesOverlooked(p) \/ RescanCutShort(p)
  PROVE  WorldOK'
  <1>1. Safe /\ WorldOK
    BY InvariantParts
  <1>2. task[p] \in Task /\ task[p].req \in RequestType
    BY <1>1, CurrentTask
  <1>3. CASE WriteDocument(p)
    <2> DEFINE d == CallAt(p).doc
               t == CallAt(p).text
               x == IF disk[d] = Absent THEN <<t>> ELSE Append(disk[d], t)
    <2>1. task[p].at \in 1..Len(task[p].req.calls)
      BY <1>2, <1>3 DEF WriteDocument, IInv, WritesForACall, Task, RequestType
    <2>2. task[p].req.calls \in Seq(Calls)
      BY <1>2 DEF RequestType
    <2>3. CallAt(p) \in Calls
      BY <2>1, <2>2 DEF CallAt
    <2>4. x \in Contents
      BY <1>1, <2>3, Edited DEF Calls
    <2>5. disk' = [disk EXCEPT ![d] = x] \/ disk' = disk
      BY <1>3 DEF WriteDocument
    <2> HIDE DEF x
    <2>6. disk' \in [Docs -> Contents]
      BY <1>1, <2>4, <2>5, DiskWritten DEF WorldOK
    <2> QED
      BY <1>1, <1>3, <2>6, WorldKept DEF WriteDocument, bounds, WorldOK
  <1>4. ASSUME NEW d \in Docs, RestoreDocument(p, d) PROVE WorldOK'
    <2>1. task[p].snap[d] \in Contents
      BY <1>2 DEF Task
    <2>2. disk' \in [Docs -> Contents]
      BY <1>1, <1>4, <2>1, DiskWritten DEF RestoreDocument, WorldOK
    <2>3. fails' \in 0..MaxFails
      BY <1>1, <1>4, FailingTyped DEF RestoreDocument, WorldOK
    <2> QED
      BY <1>1, <1>4, <2>2, <2>3, WorldKept DEF RestoreDocument
  <1>5. ASSUME NEW d \in Docs, DeleteDocument(p, d) PROVE WorldOK'
    <2>1. disk' \in [Docs -> Contents]
      BY <1>1, <1>5, DiskWritten DEF DeleteDocument, WorldOK, Contents
    <2>2. fails' \in 0..MaxFails
      BY <1>1, <1>5, FailingTyped DEF DeleteDocument, WorldOK
    <2> QED
      BY <1>1, <1>5, <2>1, <2>2, WorldKept DEF DeleteDocument
  <1>6. CASE CaptureFails(p) \/ HandlerFails(p)
    BY <1>1, <1>6, FailingTyped, WorldKept DEF CaptureFails, HandlerFails, WorldOK
  <1>9. CASE ChangesOverlooked(p)
    BY <1>1, <1>9, FailingTyped, WorldKept DEF ChangesOverlooked, WorldOK
  <1>10. CASE RescanCutShort(p)
    <2>1. fails' \in 0..MaxFails
      BY <1>1, <1>10, FailingTyped DEF RescanCutShort
    <2>2. PICK part \in SUBSET Docs :
             missed' = [missed EXCEPT ![task[p].req] = @ \cup (Created(task[p]) \ part)]
      BY <1>2, <1>10 DEF RescanCutShort, Created, RequestType
    <2>3. Created(task[p]) \subseteq Docs
      BY <1>2 DEF Created, RequestType
    <2>4. missed' \in [Requests -> SUBSET Docs]
      BY <1>1, <2>2, <2>3 DEF WorldOK
    <2> QED
      BY <1>1, <1>10, <2>1, <2>4 DEF RescanCutShort, WorldOK
  <1>7. CASE UNCHANGED <<disk, base, bounds>>
    BY <1>1, <1>7 DEF WorldOK, bounds
  <1>8. Work(p) => \/ UNCHANGED <<disk, base, bounds>> \/ WriteDocument(p)
                   \/ \E d \in Docs : RestoreDocument(p, d) \/ DeleteDocument(p, d)
    BY DEF Work, Claim, ParseVerify, Scan, RefuseCall, ReadDocument, Finish, Rescan, RolledBack,
           Validated, CompleteBatch, CheckBase, Capture
  <1> QED
    BY <1>3, <1>4, <1>5, <1>6, <1>7, <1>8, <1>9, <1>10

-----------------------------------------------------------------------------
(* The invariant.                                                          *)

LEMMA InvariantHoldsInitially == Init => IInv
  <1> SUFFICES ASSUME Init PROVE IInv
    OBVIOUS
  <1>1. ServersOK
    BY RestIsTask DEF Init, ServersOK, Steps, Replies
  <1>2. WorldOK
    BY DisksAssumption, BoundsAssumption DEF Init, WorldOK
  <1>3. Ledger!EntriesOK
    BY DEF Init, Ledger!LedgerInit, Ledger!EntriesOK
  <1>4. WritesForACall /\ OneRunPerKey
    BY DEF Init, WritesForACall, OneRunPerKey, Runs, Running
  <1> QED
    BY <1>1, <1>2, <1>3, <1>4, InvariantParts DEF Safe

LEMMA WorkSafe ==
  ASSUME IInv, NEW p \in Tasks,
         \/ Work(p) \/ CaptureFails(p) \/ HandlerFails(p) \/ Drop(p)
         \/ ChangesOverlooked(p) \/ RescanCutShort(p)
  PROVE  Safe'
  <1>1. Safe
    BY InvariantParts
  <1>2. ASSUME NEW d \in Docs, CheckBase(p, d) \/ Capture(p, d) \/ RestoreDocument(p, d) \/ DeleteDocument(p, d)
        PROVE  Safe'
    BY <1>1, <1>2, CheckBaseSafe, CaptureSafe, RollbackSafe
  <1>3. CASE Claim(p) \/ ParseVerify(p) \/ Scan(p) \/ CaptureFails(p)
    BY <1>1, <1>3, ClaimSafe, ParseVerifySafe, ScanSafe, CaptureFailsSafe
  <1>4. CASE RefuseCall(p) \/ ReadDocument(p) \/ WriteDocument(p) \/ HandlerFails(p)
    BY <1>1, <1>4, CallsSafe, ReadDocumentSafe
  <1>5. CASE Finish(p) \/ Rescan(p) \/ RolledBack(p) \/ Validated(p) \/ CompleteBatch(p) \/ Drop(p)
    BY <1>1, <1>5, FinishSafe, RescanSafe, RolledBackSafe, ValidatedSafe, CompleteBatchSafe, DropSafe
  <1>6. CASE ChangesOverlooked(p) \/ RescanCutShort(p)
    BY <1>1, <1>6, CutShortSafe
  <1> QED
    BY <1>2, <1>3, <1>4, <1>5, <1>6 DEF Work

LEMMA InvariantIsKept == IInv /\ [Next]_vars => IInv'
  <1> SUFFICES ASSUME IInv, [Next]_vars PROVE IInv'
    OBVIOUS
  <1>1. Safe /\ WorldOK
    BY InvariantParts
  <1>2. ASSUME NEW r \in Requests, Compile(r) PROVE Safe' /\ WorldOK'
    <2>1. Safe'
      BY <1>1, <1>2, OutsideSafe DEF Compile
    <2>2. WorldOK'
      BY <1>1, <1>2 DEF Compile, WorldOK, bounds
    <2> QED
      BY <2>1, <2>2
  <1>3. ASSUME NEW p \in Tasks, NEW r \in Requests, Receive(p, r) PROVE Safe' /\ WorldOK'
    <2>1. WorldOK'
      BY <1>1, <1>3, BoundsAssumption DEF Receive, WorldOK
    <2> QED
      BY <1>1, <1>3, <2>1, ReceiveSafe
  <1>4. ASSUME NEW p \in Tasks,
               Work(p) \/ CaptureFails(p) \/ HandlerFails(p) \/ ChangesOverlooked(p) \/ RescanCutShort(p)
        PROVE  Safe' /\ WorldOK'
    BY <1>4, WorkSafe, WorkWorld
  <1>5. ASSUME NEW p \in Tasks, Drop(p) PROVE Safe' /\ WorldOK'
    <2>1. WorldOK'
      BY <1>1, <1>5, BoundsAssumption DEF Drop, WorldOK
    <2> QED
      BY <1>5, <2>1, WorkSafe
  <1>6. ASSUME NEW d \in Docs, ForeignEdit(d) PROVE Safe' /\ WorldOK'
    <2>1. Safe'
      BY <1>1, <1>6, OutsideSafe DEF ForeignEdit
    <2>2. disk' \in [Docs -> Contents]
      <3> DEFINE x == IF disk[d] = Absent THEN <<Foreign>> ELSE Append(disk[d], Foreign)
      <3>1. x \in Contents
        BY <1>1, Edited
      <3>2. disk' = [disk EXCEPT ![d] = x]
        BY <1>6 DEF ForeignEdit
      <3> HIDE DEF x
      <3> QED
        BY <1>1, <3>1, <3>2, DiskWritten
    <2>3. WorldOK'
      BY <1>1, <1>6, <2>2, BoundsAssumption DEF ForeignEdit, WorldOK
    <2> QED
      BY <2>1, <2>3
  <1>7. ASSUME UNCHANGED vars PROVE Safe' /\ WorldOK'
    <2>1. Safe'
      BY <1>1, <1>7, OutsideSafe DEF vars, ledger
    <2> QED
      BY <1>1, <1>7, <2>1 DEF vars, WorldOK
  <1>8. Safe' /\ WorldOK'
    BY <1>2, <1>3, <1>4, <1>5, <1>6, <1>7 DEF Next
  <1> QED
    BY <1>8, InvariantParts DEF IInv, TasksOK, Safe, ServersOK, WorldOK

\* Types, and that an operation has one run, in every reachable state.
THEOREM InductiveInvariant == Spec => []IInv
  BY InvariantHoldsInitially, InvariantIsKept, PTL DEF Spec

\* However many clients retry an operation, and however full the ledger is,
\* at most one task works on it at a time (claim in handle_kicad_invoke).
THEOREM OneRunOfAnOperation == Spec => []OneRunPerKey
  <1>1. IInv => OneRunPerKey
    BY DEF IInv
  <1> QED
    BY <1>1, InductiveInvariant, PTL

\* A task that goes about its work leaves every recorded answer as it is, or
\* makes room for another key.
LEMMA WorkKeepsAnswers ==
  ASSUME IInv, NEW p \in Tasks, Work(p), NEW id \in Ids, entries[id] \in Outcomes
  PROVE  entries'[id] \in {entries[id], Unknown}
  <1>1. Safe /\ Ledger!EntriesOK
    BY InvariantParts DEF Safe
  <1>2. task[p] \in Task /\ task[p].req \in RequestType
    BY <1>1, CurrentTask
  <1>3. ASSUME NEW k \in Ids, Ledger!ClaimFresh(k) PROVE entries'[id] \in {entries[id], Unknown}
    <2>1. entries[k] = Unknown /\ \A j \in Ids \ {k} : entries'[j] \in {entries[j], Unknown}
      BY <1>1, <1>3, ClaimFreshKeeps
    <2> QED
      BY <2>1, EntriesAssumption
  <1>4. ASSUME NEW k \in Ids, Ledger!Abandon(k) PROVE entries'[id] \in {entries[id], Unknown}
    BY <1>1, <1>4 DEF Ledger!Abandon, Ledger!EntriesOK
  <1>5. ASSUME CompleteBatch(p), task[p].req.op # NoId, Ledger!Complete(task[p].req.op, task[p].outcome)
        PROVE  entries'[id] \in {entries[id], Unknown}
    <2> DEFINE k == task[p].req.op
    <2>1. k \in Ids /\ task[p].outcome \in Outcomes
      BY <1>2, <1>5 DEF RequestType, Task
    <2>2. entries[k] = InFlight
      BY <1>1, <1>5, <2>1 DEF CompleteBatch, Safe, OneRunPerKey, Runs, Running, Steps
    <2>3. id # k
      BY <2>2, EntriesAssumption
    <2> QED
      BY <1>1, <1>5, <2>1, <2>3, CompleteKeeps
  <1>6. CASE UNCHANGED ledger
    BY <1>6 DEF ledger
  <1>7. CASE Claim(p)
    BY <1>3, <1>6, <1>7 DEF Claim
  <1>8. CASE ParseVerify(p)
    <2>1. task[p].req.op # NoId => task[p].req.op \in Ids
      BY <1>2 DEF RequestType
    <2> QED
      BY <1>4, <1>6, <1>8, <2>1 DEF ParseVerify
  <1>9. CASE CompleteBatch(p)
    BY <1>5, <1>6, <1>9 DEF CompleteBatch
  <1>10. Work(p) => Claim(p) \/ ParseVerify(p) \/ CompleteBatch(p) \/ UNCHANGED ledger
    BY DEF Work, Scan, RefuseCall, ReadDocument, WriteDocument, Finish, Rescan, RolledBack, Validated,
           CheckBase, Capture, RestoreDocument, DeleteDocument
  <1> QED
    BY <1>6, <1>7, <1>8, <1>9, <1>10

\* What a batch answered is what every later retry of it is answered, until
\* the ledger forgets the key (AnswersStable).
THEOREM AnswersAreStable == Spec => AnswersStable
  <1> DEFINE Stable == \A id \in Ids : entries[id] \in Outcomes => entries'[id] \in {entries[id], Unknown}
  <1>1. IInv /\ [Next]_vars => Stable
    <2> SUFFICES ASSUME IInv, [Next]_vars PROVE Stable
      OBVIOUS
    <2>1. ASSUME NEW p \in Tasks, Work(p) PROVE Stable
      BY <2>1, WorkKeepsAnswers
    <2>2. CASE UNCHANGED entries
      BY <2>2
    <2>3. Next => UNCHANGED entries \/ \E p \in Tasks : Work(p)
      BY DEF Next, Compile, Receive, CaptureFails, HandlerFails, ChangesOverlooked, RescanCutShort, Drop,
             ForeignEdit, ledger
    <2> QED
      BY <2>1, <2>2, <2>3 DEF vars
  <1> QED
    BY <1>1, InductiveInvariant, PTL DEF Spec, AnswersStable

-----------------------------------------------------------------------------
(* No batch is applied twice.  The texts label the edits: an edit that two    *)
(* requests share is one of one operation, and no document holds its text to  *)
(* begin with.                                                                *)

\* Call i of request r belongs to an operation and reaches a handler.
Keyed(r, i) == r.op # NoId /\ i \in DOMAIN r.calls /\ r.calls[i].kind # "refused"

TextsLabelEdits ==
    /\ \A r, s \in Requests : \A i \in DOMAIN r.calls, j \in DOMAIN s.calls :
         /\ Keyed(r, i) /\ s.calls[j].kind # "refused"
         /\ r.calls[i].doc = s.calls[j].doc /\ r.calls[i].text = s.calls[j].text
         => s.op = r.op /\ (s = r => i = j)
    /\ \A x \in Disks, r \in Requests : \A i \in DOMAIN r.calls :
         LET e == r.calls[i]
         IN  Keyed(r, i) /\ x[e.doc] # Absent => \A k \in DOMAIN x[e.doc] : x[e.doc][k] # e.text

\* The ledger goes on holding every answer it has recorded.
NeverForgets == [][\A id \in Ids : entries[id] \in Outcomes => entries'[id] # Unknown]_vars

(***************************************************************************)
(* The invariant.  A content, wherever it is kept, holds the text of an    *)
(* edit once at most, and not at all while the edit can still be made: as  *)
(* long as its key is not known, or its task has not come to it.           *)
(***************************************************************************)
Kept(d) == {disk[d]} \cup {task[p].snap[d] : p \in Tasks}

Once(x, t) == x # Absent => \A i, j \in DOMAIN x : x[i] = t /\ x[j] = t => i = j
Clean(x, t) == x # Absent => \A i \in DOMAIN x : x[i] # t

\* The task has done nothing for its request yet.
Early == {"base", "claim", "verify", "scan", "capture"}

ToCome(r, i) ==
    \/ entries[r.op] = Unknown
    \/ \E p \in Tasks : Runs(p, r.op) /\ (pc[p] = "verify" \/ (task[p].req = r /\ task[p].at <= i))

OnTrack(p) ==
    /\ pc[p] \in Early => task[p].at = 1
    /\ pc[p] = "write" => CallAt(p).kind # "refused"

LabelInv ==
    /\ IInv
    /\ \A p \in Tasks : OnTrack(p)
    /\ \A r \in Requests : \A i \in DOMAIN r.calls : Keyed(r, i) =>
         \A x \in Kept(r.calls[i].doc) :
            Once(x, r.calls[i].text) /\ (ToCome(r, i) => Clean(x, r.calls[i].text))

-----------------------------------------------------------------------------
(* Contents.                                                               *)

Appended(x, t) == IF x = Absent THEN <<t>> ELSE Append(x, t)

LEMMA AppendedReads ==
  ASSUME NEW x \in Contents, NEW t, Appended(x, t) # Absent
  PROVE  /\ x = Absent => Appended(x, t) = <<t>>
         /\ x # Absent => /\ DOMAIN Appended(x, t) = 1 .. Len(x) + 1
                          /\ \A i \in 1 .. Len(x) : Appended(x, t)[i] = x[i]
                          /\ Appended(x, t)[Len(x) + 1] = t
                          /\ Len(x) \in Nat /\ DOMAIN x = 1 .. Len(x)
  BY DEF Appended, Contents

\* Appending another text changes nothing for t.
LEMMA AppendOther ==
  ASSUME NEW x \in Contents, NEW u, NEW t, t # u
  PROVE  /\ Once(x, t) => Once(Appended(x, u), t)
         /\ Clean(x, t) => Clean(Appended(x, u), t)
<1> SUFFICES ASSUME Appended(x, u) # Absent
             PROVE  /\ Once(x, t) => Once(Appended(x, u), t)
                    /\ Clean(x, t) => Clean(Appended(x, u), t)
  BY DEF Once, Clean
<1>1. CASE x = Absent
  BY <1>1, AppendedReads DEF Once, Clean
<1>2. CASE x # Absent
  BY <1>2, AppendedReads DEF Once, Clean
<1>3. QED
  BY <1>1, <1>2

LEMMA AppendFirst ==
  ASSUME NEW x \in Contents, NEW t, Clean(x, t)
  PROVE  Once(Appended(x, t), t)
<1> SUFFICES ASSUME Appended(x, t) # Absent PROVE Once(Appended(x, t), t)
  BY DEF Once
<1>1. CASE x = Absent
  BY <1>1, AppendedReads DEF Once
<1>2. CASE x # Absent
  BY <1>2, AppendedReads DEF Once, Clean
<1>3. QED
  BY <1>1, <1>2

-----------------------------------------------------------------------------
(* Steps that write nothing new.                                           *)

\* No edit becomes possible again.
NothingReturns ==
    \A r \in Requests : \A i \in DOMAIN r.calls : Keyed(r, i) /\ ToCome(r, i)' => ToCome(r, i)

\* Every content is one that was kept before.
NothingNew == \A d \in Docs : Kept(d)' \subseteq Kept(d) \cup {Absent}

Alone(p) == \A q \in Tasks \ {p} : pc'[q] = pc[q] /\ task'[q] = task[q]

Labelled ==
    \A r \in Requests : \A i \in DOMAIN r.calls : Keyed(r, i) =>
       \A x \in Kept(r.calls[i].doc) :
          Once(x, r.calls[i].text) /\ (ToCome(r, i) => Clean(x, r.calls[i].text))

LEMMA InvParts == LabelInv <=> IInv /\ Labelled /\ \A p \in Tasks : OnTrack(p)
  BY DEF LabelInv, Labelled

\* What a call names.
LEMMA CallNames ==
  ASSUME NEW r \in Requests, NEW i \in DOMAIN r.calls
  PROVE  /\ i \in Nat \ {0} /\ r.calls[i] \in Calls
         /\ r.calls[i].doc \in Docs /\ r.calls[i].text \in Texts
         /\ Keyed(r, i) => r.op \in Ids
<1>1. r.calls \in Seq(Calls) /\ r.op \in Ids \cup {NoId}
  BY RequestsAssumption DEF RequestType
<1>2. i \in Nat \ {0} /\ r.calls[i] \in Calls
  BY <1>1
<1>3. QED
  BY <1>1, <1>2 DEF Calls, Keyed

LEMMA QuietKeepsLabels ==
  ASSUME Labelled, NothingReturns, NothingNew
  PROVE  Labelled'
<1> SUFFICES ASSUME NEW r \in Requests, NEW i \in DOMAIN r.calls, Keyed(r, i),
                    NEW x \in Kept(r.calls[i].doc)'
             PROVE  Once(x, r.calls[i].text) /\ (ToCome(r, i)' => Clean(x, r.calls[i].text))
  BY DEF Labelled, Once, Clean, Keyed
<1>1. x \in Kept(r.calls[i].doc) \cup {Absent}
  BY CallNames DEF NothingNew
<1>2. CASE x = Absent
  BY <1>2 DEF Once, Clean
<1>3. CASE x \in Kept(r.calls[i].doc)
  BY <1>3 DEF Labelled, NothingReturns
<1>4. QED
  BY <1>1, <1>2, <1>3

LEMMA KeptMoves ==
  ASSUME NEW p \in Tasks, Alone(p),
         \A d \in Docs : task'[p].snap[d] \in Kept(d) \cup {Absent} /\ disk'[d] \in Kept(d) \cup {Absent}
  PROVE  NothingNew
<1> SUFFICES ASSUME NEW d \in Docs, NEW x \in Kept(d)' PROVE x \in Kept(d) \cup {Absent}
  BY DEF NothingNew
<1>1. CASE x = disk'[d]
  BY <1>1
<1>2. ASSUME NEW q \in Tasks, x = task'[q].snap[d] PROVE x \in Kept(d) \cup {Absent}
  BY <1>2 DEF Alone, Kept
<1>3. QED
  BY <1>1, <1>2 DEF Kept

LEMMA OthersOnTrack ==
  ASSUME NEW p \in Tasks, Alone(p), \A q \in Tasks : OnTrack(q), OnTrack(p)'
  PROVE  \A q \in Tasks : OnTrack(q)'
<1> SUFFICES ASSUME NEW q \in Tasks \ {p} PROVE OnTrack(q)'
  OBVIOUS
<1>1. QED
  BY DEF Alone, OnTrack, CallAt

LEMMA InvTypes ==
  ASSUME IInv, NEW p \in Tasks
  PROVE  /\ pc \in [Tasks -> Steps] /\ task \in [Tasks -> Task] /\ disk \in [Docs -> Contents]
         /\ task[p] \in Task /\ task[p].req \in Requests /\ task[p].at \in Nat \ {0}
         /\ entries \in [Ids -> Outcomes \cup {Unknown, InFlight}]
  BY DEF IInv, TasksOK, Task, Ledger!EntriesOK

\* A task that goes on with its request makes no edit possible again.
LEMMA GoReturnsNothing ==
  ASSUME IInv, NEW p \in Tasks, NEW s \in Steps \ {"verify"}, NEW c \in Task, Go(p, s, c),
         UNCHANGED ledger, c.req = task[p].req, task[p].at <= c.at,
         s \in {"base", "claim"} \/ Running(p)
  PROVE  NothingReturns /\ Alone(p) /\ pc'[p] = s /\ task'[p] = c
<1>1. Alone(p) /\ pc'[p] = s /\ task'[p] = c
  BY InvTypes DEF Go, Alone
<1>2. ASSUME NEW r \in Requests, NEW i \in DOMAIN r.calls, ToCome(r, i)' PROVE ToCome(r, i)
  <2>1. entries' = entries
    BY DEF ledger
  <2>2. CASE entries[r.op] = Unknown
    BY <2>2 DEF ToCome
  <2>3. ASSUME NEW q \in Tasks \ {p}, Runs(q, r.op)',
               pc'[q] = "verify" \/ (task'[q].req = r /\ task'[q].at <= i)
        PROVE  ToCome(r, i)
    BY <1>1, <2>3 DEF Alone, ToCome, Runs, Running
  <2>4. ASSUME Runs(p, r.op)', pc'[p] = "verify" \/ (task'[p].req = r /\ task'[p].at <= i)
        PROVE  ToCome(r, i)
    <3>1. Runs(p, r.op) /\ c.req = r /\ c.at <= i
      BY <1>1, <2>4 DEF Runs, Running
    <3>2. task[p].at <= i
      BY <3>1, InvTypes, CallNames DEF Task
    <3>3. QED
      BY <3>1, <3>2 DEF ToCome
  <2>5. QED
    BY <1>2, <2>1, <2>2, <2>3, <2>4 DEF ToCome
<1>3. QED
  BY <1>1, <1>2 DEF NothingReturns

\* Nor does one that writes nothing new keep anything new.
LEMMA GoQuiet ==
  ASSUME LabelInv, IInv', NEW p \in Tasks, NEW s \in Steps \ {"verify"}, NEW c \in Task, Go(p, s, c),
         UNCHANGED ledger, c.req = task[p].req, task[p].at <= c.at,
         s \in {"base", "claim"} \/ Running(p),
         \A d \in Docs : c.snap[d] \in Kept(d) \cup {Absent} /\ disk'[d] \in Kept(d) \cup {Absent},
         s \in Early => c.at = 1,
         s = "write" => c.req.calls[c.at].kind # "refused"
  PROVE  LabelInv'
<1>1. NothingReturns /\ Alone(p) /\ pc'[p] = s /\ task'[p] = c
  BY GoReturnsNothing DEF LabelInv
<1>2. NothingNew
  BY <1>1, KeptMoves
<1>3. OnTrack(p)'
  BY <1>1 DEF OnTrack, CallAt
<1>4. QED
  BY <1>1, <1>2, <1>3, QuietKeepsLabels, OthersOnTrack, InvParts DEF LabelInv, Labelled

\* A task that answers, without touching a document, and keeps its key in
\* flight, answers it, or gives it back before anything was done.
LEMMA ReturnQuiet ==
  ASSUME LabelInv, IInv', NEW p \in Tasks, NEW a, Return(p, a), UNCHANGED disk,
         \A id \in Ids : entries'[id] = Unknown =>
            entries[id] = Unknown \/ (Runs(p, id) /\ pc[p] = "verify")
  PROVE  LabelInv'
<1>1. Alone(p) /\ pc'[p] = "idle" /\ task'[p] = Rest
  BY InvTypes DEF Return, Alone, LabelInv
<1>2. NothingReturns
  <2> SUFFICES ASSUME NEW r \in Requests, NEW i \in DOMAIN r.calls, Keyed(r, i), ToCome(r, i)'
               PROVE  ToCome(r, i)
    BY DEF NothingReturns
  <2>1. CASE entries'[r.op] = Unknown
    <3>1. entries[r.op] = Unknown \/ (Runs(p, r.op) /\ pc[p] = "verify")
      BY <2>1, CallNames
    <3>2. QED
      BY <3>1 DEF ToCome
  <2>2. ASSUME NEW q \in Tasks, Runs(q, r.op)',
               pc'[q] = "verify" \/ (task'[q].req = r /\ task'[q].at <= i)
        PROVE  ToCome(r, i)
    <3>1. q # p
      BY <1>1, <2>2 DEF Runs, Running
    <3>2. QED
      BY <1>1, <2>2, <3>1 DEF Alone, ToCome, Runs, Running
  <2>3. QED
    BY <2>1, <2>2 DEF ToCome
<1>3. NothingNew
  <2>1. \A d \in Docs : Rest.snap[d] = Absent
    BY DEF Rest, NewTask
  <2>2. QED
    BY <1>1, <2>1, KeptMoves DEF Kept
<1>4. OnTrack(p)'
  BY <1>1 DEF OnTrack, Early
<1>5. QED
  BY <1>1, <1>2, <1>3, <1>4, QuietKeepsLabels, OthersOnTrack, InvParts DEF LabelInv, Labelled

\* The contents a task keeps.
LEMMA OwnSnap ==
  ASSUME NEW p \in Tasks, NEW d
  PROVE  task[p].snap[d] \in Kept(d) /\ disk[d] \in Kept(d)
  BY DEF Kept

\* A step with the same documents and the same captured contents.
LEMMA GoOn ==
  ASSUME LabelInv, IInv', NEW p \in Tasks, NEW s \in Steps \ {"verify", "write"}, NEW c \in Task, Go(p, s, c),
         UNCHANGED <<ledger, disk>>, c.req = task[p].req, c.snap = task[p].snap, task[p].at <= c.at,
         s \in {"base", "claim"} \/ Running(p),
         s \in Early => c.at = 1
  PROVE  LabelInv'
  BY GoQuiet, OwnSnap

-----------------------------------------------------------------------------
(* The steps of a task.                                                    *)

LEMMA VisitOn ==
  ASSUME LabelInv, IInv', NEW p \in Tasks, NEW d \in Docs, NEW c \in Task,
         NEW here \in Steps \ {"verify", "write"}, NEW next \in Steps \ {"verify", "write"},
         Visit(p, d, c, here, next), UNCHANGED ledger, c.req = task[p].req, c.at = task[p].at,
         {here, next} \subseteq {"base", "claim"} \/ Running(p),
         {here, next} \cap Early # {} => c.at = 1,
         \A e \in Docs : c.snap[e] \in Kept(e) \cup {Absent} /\ disk'[e] \in Kept(e) \cup {Absent}
  PROVE  LabelInv'
<1> DEFINE rest == c.todo \ {d}
           s == IF rest = {} THEN next ELSE here
           b == [c EXCEPT !.todo = rest]
<1>1. /\ b \in Task /\ b.req = task[p].req /\ b.at = task[p].at /\ b.snap = c.snap
      /\ task[p].at <= b.at
  BY InvTypes DEF Task, LabelInv
<1>2. /\ s \in Steps \ {"verify", "write"} /\ (s \in {"base", "claim"} \/ Running(p))
      /\ (s \in Early => b.at = 1)
  BY <1>1
<1>3. Go(p, s, b)
  BY DEF Visit
<1> HIDE DEF b, s
<1>4. QED
  BY <1>1, <1>2, <1>3, GoQuiet

LEMMA CheckBaseLabels ==
  ASSUME LabelInv, IInv', NEW p \in Tasks, NEW d \in Docs, CheckBase(p, d)
  PROVE  LabelInv'
<1>1. CASE Visit(p, d, task[p], "base", "claim")
  BY <1>1, VisitOn, InvTypes, OwnSnap DEF CheckBase, Steps, Early, LabelInv, OnTrack
<1>2. CASE Return(p, "stale")
  BY <1>2, ReturnQuiet DEF CheckBase, ledger
<1>3. QED
  BY <1>1, <1>2 DEF CheckBase

LEMMA ClaimLabels ==
  ASSUME LabelInv, IInv', NEW p \in Tasks, Claim(p),
         \A id \in Ids : entries[id] \in Outcomes => entries'[id] # Unknown
  PROVE  LabelInv'
<1> DEFINE id == task[p].req.op
<1>t. IInv /\ Ledger!EntriesOK /\ pc[p] = "claim" /\ UNCHANGED disk
  BY DEF LabelInv, IInv, Claim
<1>1. ASSUME Go(p, "verify", task[p]),
             \A k \in Ids : entries'[k] = Unknown => entries[k] = Unknown,
             id \in Ids => entries[id] = Unknown
      PROVE  LabelInv'
  <2>1. Alone(p) /\ pc'[p] = "verify" /\ task'[p] = task[p]
    BY <1>t, <1>1, InvTypes DEF Go, Alone
  <2>2. NothingReturns
    <3> SUFFICES ASSUME NEW r \in Requests, NEW i \in DOMAIN r.calls, Keyed(r, i), ToCome(r, i)'
                 PROVE  ToCome(r, i)
      BY DEF NothingReturns
    <3>1. CASE entries'[r.op] = Unknown
      BY <1>1, <3>1, CallNames DEF ToCome
    <3>2. ASSUME NEW q \in Tasks, Runs(q, r.op)',
                 pc'[q] = "verify" \/ (task'[q].req = r /\ task'[q].at <= i)
          PROVE  ToCome(r, i)
      <4>1. CASE q = p
        BY <1>1, <2>1, <3>2, <4>1, CallNames DEF Runs, ToCome
      <4>2. CASE q # p
        BY <2>1, <3>2, <4>2 DEF Alone, ToCome, Runs, Running
      <4>3. QED
        BY <4>1, <4>2
    <3>3. QED
      BY <3>1, <3>2 DEF ToCome
  <2>3. NothingNew
    BY <1>t, <2>1, KeptMoves, OwnSnap
  <2>4. OnTrack(p)'
    BY <1>t, <2>1 DEF OnTrack, Early, LabelInv
  <2>5. QED
    BY <2>1, <2>2, <2>3, <2>4, QuietKeepsLabels, OthersOnTrack, InvParts DEF LabelInv, Labelled
<1>2. CASE id = NoId /\ Go(p, "verify", task[p]) /\ UNCHANGED ledger
  BY <1>1, <1>2, NoIdAssumption DEF ledger
<1>3. CASE id \in Ids /\ Ledger!ClaimFresh(id) /\ Go(p, "verify", task[p])
  <2>1. /\ entries[id] = Unknown
        /\ \A k \in Ids : entries[k] = InFlight => entries'[k] = InFlight
    BY <1>3, <1>t, ClaimFreshKeeps
  <2>2. \A k \in Ids : entries'[k] = Unknown => entries[k] = Unknown
    BY <2>1, <1>t, EntriesAssumption DEF Ledger!EntriesOK
  <2>3. QED
    BY <1>1, <1>3, <2>1, <2>2
<1>4. CASE UNCHANGED ledger /\ \E a : Return(p, a)
  BY <1>t, <1>4, ReturnQuiet DEF ledger
<1>5. QED
  BY <1>2, <1>3, <1>4 DEF Claim

LEMMA ParseVerifyLabels ==
  ASSUME LabelInv, IInv', NEW p \in Tasks, ParseVerify(p)
  PROVE  LabelInv'
<1>t. /\ IInv /\ Ledger!EntriesOK /\ pc[p] = "verify" /\ UNCHANGED disk /\ Running(p)
      /\ task[p].at = 1 /\ task[p].req \in RequestType
  BY InvTypes, RequestsAssumption DEF LabelInv, IInv, ParseVerify, Running, Steps, OnTrack, Early
<1>1. CASE UNCHANGED ledger /\ \E s \in {"scan", "call"} : Go(p, s, task[p])
  BY <1>t, <1>1, GoOn, InvTypes DEF Steps
<1>2. CASE Return(p, "invalid") /\ UNCHANGED ledger
  BY <1>t, <1>2, ReturnQuiet DEF ledger
<1>3. CASE Return(p, "invalid") /\ task[p].req.op # NoId /\ Ledger!Abandon(task[p].req.op)
  <2>1. task[p].req.op \in Ids /\ Runs(p, task[p].req.op)
    BY <1>t, <1>3 DEF RequestType, Runs
  <2>2. \A id \in Ids : entries'[id] = Unknown => entries[id] = Unknown \/ Runs(p, id)
    BY <1>t, <1>3, <2>1, AbandonKeeps
  <2>3. QED
    BY <1>t, <1>3, <2>2, ReturnQuiet
<1>4. QED
  BY <1>1, <1>2, <1>3 DEF ParseVerify

LEMMA CaptureLabels ==
  ASSUME LabelInv, IInv', NEW p \in Tasks,
         Scan(p) \/ CaptureFails(p) \/ \E d \in Docs : Capture(p, d)
  PROVE  LabelInv'
<1> DEFINE c == task[p]
           new == NewTask(c.req)
<1>t. /\ IInv /\ UNCHANGED ledger /\ Running(p) /\ c \in Task /\ c.at = 1 /\ c.req \in RequestType
      /\ disk \in [Docs -> Contents] /\ UNCHANGED disk
  BY InvTypes, RequestsAssumption
  DEF LabelInv, Scan, CaptureFails, Capture, Running, Steps, OnTrack, Early
<1>n. new \in Task /\ new.req = c.req /\ new.at = 1 /\ \A d \in Docs : new.snap[d] = Absent
  BY <1>t, NewTaskIsTask, InvTypes DEF NewTask
<1>1. CASE Scan(p)
  <2> DEFINE found == {d \in c.req.roots : disk[d] # Absent}
             bare == [c EXCEPT !.net = TRUE]
             full == [c EXCEPT !.todo = found]
  <2>1. found \in SUBSET Docs
    BY <1>t DEF RequestType
  <2>2. Go(p, "call", bare) \/ Go(p, "capture", full)
    BY <1>1 DEF Scan
  <2> HIDE DEF found
  <2>3. /\ bare \in Task /\ bare.req = c.req /\ bare.snap = c.snap /\ bare.at = 1
        /\ full \in Task /\ full.req = c.req /\ full.snap = c.snap /\ full.at = 1
    BY <1>t, <2>1 DEF Task
  <2> HIDE DEF bare, full
  <2>4. QED
    BY <1>t, <2>2, <2>3, GoOn DEF Steps
<1>2. CASE CaptureFails(p)
  <2>1. Go(p, "call", new)
    BY <1>2 DEF CaptureFails
  <2> HIDE DEF new
  <2>2. QED
    BY <1>t, <1>n, <2>1, GoQuiet, OwnSnap DEF Steps, Early
<1>3. ASSUME NEW d \in Docs, Capture(p, d) PROVE LabelInv'
  <2> DEFINE none == new.snap
             bare == [c EXCEPT !.todo = {}, !.snap = none]
             b == c.todo = {d}
             s == [c.snap EXCEPT ![d] = disk[d]]
             full == [c EXCEPT !.snap = s, !.net = b]
  <2>1. none \in [Docs -> Contents] /\ s \in [Docs -> Contents] /\ b \in BOOLEAN
    BY <1>t, <1>n DEF Task
  <2>2. \A e \in Docs : s[e] \in Kept(e)
    BY <1>t, OwnSnap DEF Task
  <2>3. Go(p, "call", bare) \/ Visit(p, d, full, "capture", "call")
    BY <1>3 DEF Capture
  <2>4. \A e \in Docs : none[e] = Absent
    BY <1>n
  <2> HIDE DEF none, b, s
  <2>5. /\ bare \in Task /\ bare.req = c.req /\ bare.at = 1 /\ bare.snap = none
        /\ full \in Task /\ full.req = c.req /\ full.at = 1 /\ full.snap = s
    BY <1>t, <2>1 DEF Task
  <2> HIDE DEF bare, full
  <2>6. CASE Go(p, "call", bare)
    BY <1>t, <2>4, <2>5, <2>6, GoQuiet, OwnSnap DEF Steps, Early
  <2>7. CASE Visit(p, d, full, "capture", "call")
    BY <1>t, <2>2, <2>5, <2>7, VisitOn, OwnSnap DEF Steps
  <2>8. QED
    BY <2>3, <2>6, <2>7
<1>4. QED
  BY <1>1, <1>2, <1>3

\* A call that is over, whatever it has left in the documents.
LEMMA CallOver ==
  ASSUME IInv, NEW p \in Tasks, NEW ok \in BOOLEAN, CallDone(p, ok), Running(p), UNCHANGED ledger
  PROVE  /\ NothingReturns /\ Alone(p) /\ pc'[p] = "call"
         /\ task'[p].req = task[p].req /\ task'[p].at = task[p].at + 1
         /\ task'[p].snap = task[p].snap
<1> DEFINE b == task[p].failed \/ ~ok
           n == task[p].at + 1
           c == [task[p] EXCEPT !.at = n, !.seen = Absent, !.failed = b]
<1>1. task[p] \in Task /\ task[p].at \in Nat \ {0} /\ b \in BOOLEAN
  BY InvTypes
<1>2. n \in Nat \ {0} /\ task[p].at <= n
  BY <1>1
<1>3. Go(p, "call", c)
  BY DEF CallDone
<1> HIDE DEF b
<1>4. c \in Task /\ c.req = task[p].req /\ c.at = n /\ c.snap = task[p].snap
  BY <1>1, <1>2 DEF Task, Contents
<1> HIDE DEF c
<1>5. NothingReturns /\ Alone(p) /\ pc'[p] = "call" /\ task'[p] = c
  BY <1>2, <1>3, <1>4, GoReturnsNothing DEF Steps
<1>6. QED
  BY <1>4, <1>5

LEMMA CallOverLabels ==
  ASSUME LabelInv, IInv', NEW p \in Tasks, NEW ok \in BOOLEAN, CallDone(p, ok), Running(p),
         UNCHANGED <<ledger, disk>>
  PROVE  LabelInv'
<1>1. /\ NothingReturns /\ Alone(p) /\ pc'[p] = "call" /\ task'[p].snap = task[p].snap
  BY CallOver DEF LabelInv
<1>2. NothingNew
  BY <1>1, KeptMoves, OwnSnap
<1>3. OnTrack(p)'
  BY <1>1 DEF OnTrack, Early
<1>4. QED
  BY <1>1, <1>2, <1>3, QuietKeepsLabels, OthersOnTrack, InvParts DEF LabelInv, Labelled

LEMMA ReadLabels ==
  ASSUME LabelInv, IInv', NEW p \in Tasks, ReadDocument(p)
  PROVE  LabelInv'
<1> DEFINE x == disk[CallAt(p).doc]
           c == [task[p] EXCEPT !.seen = x]
<1>t. /\ IInv /\ UNCHANGED <<ledger, disk>> /\ Running(p) /\ task[p] \in Task
      /\ task[p].req \in Requests /\ disk \in [Docs -> Contents]
      /\ CallAt(p).kind # "refused"
  BY InvTypes DEF LabelInv, ReadDocument, Running, Steps
<1>1. task[p].at \in DOMAIN task[p].req.calls
  BY <1>t, RequestsAssumption DEF ReadDocument, CallsOver, Task, RequestType
<1>2. x \in Contents
  BY <1>t, <1>1, CallNames DEF CallAt
<1>3. Go(p, "write", c) \/ CallDone(p, FALSE)
  BY DEF ReadDocument
<1> HIDE DEF x
<1>4. c \in Task /\ c.req = task[p].req /\ c.at = task[p].at /\ c.snap = task[p].snap
  BY <1>t, <1>2 DEF Task
<1>5. CASE Go(p, "write", c)
  <2>1. c.req.calls[c.at].kind # "refused" /\ task[p].at <= c.at
    BY <1>t, <1>4, InvTypes DEF CallAt
  <2> HIDE DEF c
  <2>2. QED
    BY <1>t, <1>4, <1>5, <2>1, GoQuiet, OwnSnap DEF Steps, Early
<1>6. CASE CallDone(p, FALSE)
  BY <1>t, <1>6, CallOverLabels
<1>7. QED
  BY <1>3, <1>5, <1>6

\* A tool writes its text where no content has it yet, and never again.
LEMMA WriteLabels ==
  ASSUME TextsLabelEdits, LabelInv, IInv', NEW p \in Tasks, WriteDocument(p)
  PROVE  LabelInv'
<1> DEFINE s == task[p].req
           j == task[p].at
           d == CallAt(p).doc
           t == CallAt(p).text
           y == Appended(disk[d], t)
<1>t. /\ IInv /\ Labelled /\ OneRunPerKey /\ UNCHANGED ledger /\ Running(p) /\ task[p] \in Task
      /\ s \in Requests /\ s \in RequestType /\ disk \in [Docs -> Contents]
      /\ CallAt(p).kind # "refused" /\ CallAt(p) = s.calls[j]
  BY InvTypes, RequestsAssumption, InvParts
  DEF LabelInv, IInv, WriteDocument, Running, Steps, OnTrack, CallAt
<1>1. j \in DOMAIN s.calls /\ j \in Nat
  <2>1. j \in Nat \ {0} /\ s.calls \in Seq(Calls)
    BY <1>t, InvTypes DEF RequestType
  <2>2. j <= Len(s.calls)
    BY <1>t DEF IInv, WritesForACall, WriteDocument
  <2>3. QED
    BY <2>1, <2>2
<1>2. d \in Docs /\ t \in Texts /\ disk[d] \in Contents
  BY <1>t, <1>1, CallNames
<1>3. CASE CallDone(p, FALSE) /\ UNCHANGED disk
  BY <1>t, <1>3, CallOverLabels
<1>4. CASE CallDone(p, TRUE) /\ disk' = [disk EXCEPT ![d] = IF @ = Absent THEN <<t>> ELSE Append(@, t)]
  <2>1. /\ NothingReturns /\ Alone(p) /\ pc'[p] = "call"
        /\ task'[p].req = s /\ task'[p].at = j + 1 /\ task'[p].snap = task[p].snap
    BY <1>t, <1>4, CallOver
  <2>2. disk'[d] = y /\ \A e \in Docs \ {d} : disk'[e] = disk[e]
    BY <1>t, <1>2, <1>4 DEF Appended
  <2>3. ASSUME NEW e \in Docs, NEW x \in Kept(e)' PROVE x \in Kept(e) \/ (e = d /\ x = y)
    <3>1. CASE x = disk'[e]
      BY <2>2, <3>1, OwnSnap DEF Kept
    <3>2. ASSUME NEW q \in Tasks, x = task'[q].snap[e] PROVE x \in Kept(e)
      BY <2>1, <3>2 DEF Alone, Kept
    <3>3. QED
      BY <3>1, <3>2 DEF Kept
  <2>4. ASSUME NEW r \in Requests, NEW i \in DOMAIN r.calls, Keyed(r, i), r.calls[i].doc = d
        PROVE  Once(y, r.calls[i].text) /\ (ToCome(r, i)' => Clean(y, r.calls[i].text))
    <3> DEFINE u == r.calls[i].text
    <3>1. Once(disk[d], u) /\ (ToCome(r, i) => Clean(disk[d], u))
      BY <1>t, <2>4 DEF Labelled, Kept
    <3>2. CASE u # t
      BY <1>2, <2>1, <2>4, <3>1, <3>2, AppendOther DEF NothingReturns
    <3>3. CASE u = t
      <4>1. s.op = r.op /\ (s = r => i = j)
        BY <1>t, <1>1, <2>4, <3>3 DEF TextsLabelEdits
      <4>2. Keyed(s, j) /\ r.op \in Ids /\ Runs(p, r.op)
        BY <1>t, <1>1, <2>4, <4>1, CallNames DEF Keyed, Runs
      <4>3. ToCome(s, j)
        BY <1>1, <4>1, <4>2 DEF ToCome
      <4>4. Clean(disk[d], t)
        BY <1>t, <1>1, <4>2, <4>3 DEF Labelled, Kept
      <4>5. ~ToCome(r, i)'
        <5>1. entries'[r.op] # Unknown
          BY <1>t, <4>2, EntriesAssumption DEF OneRunPerKey, ledger
        <5>2. ASSUME NEW q \in Tasks, Runs(q, r.op)' PROVE q = p
          BY <1>t, <2>1, <4>2, <5>2 DEF Alone, Runs, Running, OneRunPerKey
        <5>3. ~(task'[p].req = r /\ task'[p].at <= i)
          BY <1>1, <2>1, <4>1
        <5>4. QED
          BY <2>1, <5>1, <5>2, <5>3 DEF ToCome
      <4>6. QED
        BY <1>2, <3>3, <4>4, <4>5, AppendFirst
    <3>4. QED
      BY <3>2, <3>3
  <2>5. Labelled'
    <3> SUFFICES ASSUME NEW r \in Requests, NEW i \in DOMAIN r.calls, Keyed(r, i),
                        NEW x \in Kept(r.calls[i].doc)'
                 PROVE  Once(x, r.calls[i].text) /\ (ToCome(r, i)' => Clean(x, r.calls[i].text))
      BY DEF Labelled, Once, Clean, Keyed
    <3>1. CASE x \in Kept(r.calls[i].doc)
      BY <1>t, <2>1, <3>1 DEF Labelled, NothingReturns
    <3>2. CASE r.calls[i].doc = d /\ x = y
      BY <2>4, <3>2
    <3>3. QED
      BY <2>3, <3>1, <3>2, CallNames
  <2>6. OnTrack(p)'
    BY <2>1 DEF OnTrack, Early
  <2>7. QED
    BY <2>1, <2>5, <2>6, OthersOnTrack, InvParts DEF LabelInv, Labelled
<1>5. QED
  BY <1>3, <1>4 DEF WriteDocument

LEMMA EndLabels ==
  ASSUME LabelInv, IInv', NEW p \in Tasks,
         \/ Finish(p) \/ Rescan(p) \/ RolledBack(p) \/ Validated(p)
         \/ ChangesOverlooked(p) \/ RescanCutShort(p)
  PROVE  LabelInv'
<1> DEFINE c == task[p]
           back == {d \in Docs : c.snap[d] # Absent}
           o == IF c.failed THEN "failed" ELSE "applied"
           undone == [c EXCEPT !.todo = back]
           kept == [c EXCEPT !.outcome = o]
           v == IF c.torn THEN "partial" ELSE "undone"
           over == [c EXCEPT !.outcome = v]
<1>t. /\ IInv /\ UNCHANGED <<ledger, disk>> /\ Running(p) /\ c \in Task /\ c.req \in RequestType
      /\ c.at <= c.at
  BY InvTypes, RequestsAssumption
  DEF LabelInv, Finish, CallsOver, Rescan, RolledBack, Validated, ChangesOverlooked, RescanCutShort, Running, Steps
<1>1. back \in SUBSET Docs /\ o \in Outcomes /\ v \in Outcomes
  BY <1>t DEF RequestType, Outcomes
<1>n. PICK new \in SUBSET Docs :
        \/ Go(p, "restore", undone) \/ Go(p, "validate", kept) \/ Go(p, "complete", kept)
        \/ Go(p, "delete", [c EXCEPT !.todo = new]) \/ Go(p, "complete", over) \/ Go(p, "complete", c)
  <2>1. Created(c) \in SUBSET Docs
    BY <1>t DEF RequestType, Created
  <2>2. \A part \in SUBSET Created(c) : part \in SUBSET Docs
    BY <2>1
  <2> HIDE DEF back, o, v, undone, kept, over
  <2>3. ASSUME Rescan(p) \/ RescanCutShort(p)
        PROVE  \E part \in SUBSET Docs : Go(p, "delete", [c EXCEPT !.todo = part])
    BY <2>1, <2>2, <2>3 DEF Rescan, RescanCutShort
  <2>4. CASE Rescan(p) \/ RescanCutShort(p)
    BY <2>3, <2>4
  <2>5. CASE Finish(p) \/ RolledBack(p) \/ Validated(p) \/ ChangesOverlooked(p)
    BY <2>5 DEF Finish, RolledBack, Validated, ChangesOverlooked, back, o, v, undone, kept, over
  <2> QED
    BY <2>4, <2>5
<1> DEFINE next == [c EXCEPT !.todo = new]
<1>2. \/ Go(p, "restore", undone) \/ Go(p, "validate", kept) \/ Go(p, "complete", kept)
      \/ Go(p, "delete", next) \/ Go(p, "complete", over) \/ Go(p, "complete", c)
  BY <1>n
<1> HIDE DEF back, o, v
<1>3. \A b \in {undone, kept, next, over, c} :
        b \in Task /\ b.req = c.req /\ b.snap = c.snap /\ b.at = c.at
  BY <1>t, <1>1, <1>n DEF Task
<1> HIDE DEF undone, kept, next, over
<1>4. QED
  BY <1>t, <1>2, <1>3, GoOn DEF Steps, Early

\* A rollback writes back what its task has kept.
LEMMA RollbackLabels ==
  ASSUME LabelInv, IInv', NEW p \in Tasks, NEW d \in Docs, RestoreDocument(p, d) \/ DeleteDocument(p, d)
  PROVE  LabelInv'
<1> DEFINE c == task[p]
           torn == [c EXCEPT !.torn = TRUE]
<1>t. /\ IInv /\ UNCHANGED ledger /\ Running(p) /\ c \in Task /\ disk \in [Docs -> Contents]
  BY InvTypes DEF LabelInv, RestoreDocument, DeleteDocument, Running, Steps
<1>1. \E s \in {"restore", "delete"} : Visit(p, d, c, s, s) \/ Visit(p, d, torn, s, s)
  BY DEF RestoreDocument, DeleteDocument
<1>2. \A e \in Docs : disk'[e] \in Kept(e) \cup {Absent}
  BY <1>t, OwnSnap DEF RestoreDocument, DeleteDocument
<1>3. torn \in Task /\ torn.req = c.req /\ torn.at = c.at /\ torn.snap = c.snap
  BY <1>t DEF Task
<1> HIDE DEF torn
<1>4. {"restore", "delete"} \subseteq Steps \ {"verify", "write"} /\ {"restore", "delete"} \cap Early = {}
  BY DEF Steps, Early
<1>5. QED
  BY <1>t, <1>1, <1>2, <1>3, <1>4, VisitOn, OwnSnap

LEMMA AnswerLabels ==
  ASSUME LabelInv, IInv', NEW p \in Tasks, CompleteBatch(p) \/ Drop(p)
  PROVE  LabelInv'
<1>t. IInv /\ Ledger!EntriesOK /\ task[p] \in Task /\ task[p].req \in RequestType /\ UNCHANGED disk
  BY InvTypes, RequestsAssumption DEF LabelInv, IInv, CompleteBatch, Drop
<1>1. CASE UNCHANGED ledger /\ \E a : Return(p, a)
  BY <1>t, <1>1, ReturnQuiet DEF ledger
<1>2. CASE /\ task[p].req.op # NoId /\ Ledger!Complete(task[p].req.op, task[p].outcome)
           /\ Return(p, task[p].outcome)
  <2>1. task[p].req.op \in Ids /\ task[p].outcome \in Outcomes
    BY <1>t, <1>2 DEF RequestType, Task
  <2>2. \A id \in Ids : entries'[id] = Unknown => entries[id] = Unknown
    BY <1>t, <1>2, <2>1, EntriesAssumption DEF Ledger!Complete, Ledger!EntriesOK
  <2>3. QED
    BY <1>t, <1>2, <2>2, ReturnQuiet
<1>3. QED
  BY <1>1, <1>2 DEF CompleteBatch, Drop

-----------------------------------------------------------------------------
(* The clients and the world outside.                                      *)

LEMMA ReceiveLabels ==
  ASSUME LabelInv, IInv', NEW p \in Tasks, NEW r \in Requests, Receive(p, r)
  PROVE  LabelInv'
<1> DEFINE roots == IF r.based THEN r.roots ELSE {}
           s == IF r.based /\ r.roots # {} THEN "base" ELSE "claim"
           c == [NewTask(r) EXCEPT !.todo = roots]
<1>1. /\ pc' = [pc EXCEPT ![p] = s] /\ task' = [task EXCEPT ![p] = c] /\ s \in {"base", "claim"}
      /\ UNCHANGED <<ledger, disk>>
  BY DEF Receive
<1>2. c.at = 1 /\ \A d \in Docs : c.snap[d] = Absent
  BY DEF NewTask
<1> HIDE DEF s, c
<1>3. pc'[p] = s /\ task'[p] = c /\ Alone(p)
  BY <1>1, InvTypes DEF LabelInv, Alone
<1>4. NothingReturns
  BY <1>1, <1>3 DEF NothingReturns, ToCome, Runs, Running, Alone, ledger
<1>5. NothingNew
  BY <1>1, <1>2, <1>3, KeptMoves, OwnSnap
<1>6. OnTrack(p)'
  BY <1>1, <1>2, <1>3 DEF OnTrack
<1>7. QED
  BY <1>3, <1>4, <1>5, <1>6, QuietKeepsLabels, OthersOnTrack, InvParts DEF LabelInv, Labelled

\* Steps of nobody.
LEMMA SameTasks ==
  ASSUME LabelInv, IInv', UNCHANGED <<ledger, pc, task>>, Labelled'
  PROVE  LabelInv'
<1>1. \A q \in Tasks : OnTrack(q)'
  BY DEF LabelInv, OnTrack, CallAt
<1>2. QED
  BY <1>1, InvParts DEF LabelInv, Labelled

LEMMA StillLabels ==
  ASSUME LabelInv, IInv', UNCHANGED <<ledger, pc, task, disk>>
  PROVE  LabelInv'
<1>1. NothingNew /\ NothingReturns
  BY DEF NothingNew, NothingReturns, Kept, ToCome, Runs, Running, ledger
<1>2. QED
  BY <1>1, SameTasks, QuietKeepsLabels, InvParts

\* Another application writes no text of ours.
LEMMA ForeignLabels ==
  ASSUME LabelInv, IInv', NEW d \in Docs, ForeignEdit(d)
  PROVE  LabelInv'
<1> DEFINE y == Appended(disk[d], Foreign)
<1>t. /\ IInv /\ Labelled /\ UNCHANGED <<ledger, pc, task>>
      /\ disk \in [Docs -> Contents]
  BY InvParts DEF LabelInv, IInv, TasksOK, ForeignEdit
<1>1. disk[d] \in Contents
  BY <1>t
<1>2. disk'[d] = y /\ \A e \in Docs \ {d} : disk'[e] = disk[e]
  BY <1>t DEF ForeignEdit, Appended
<1>3. NothingReturns
  BY <1>t DEF NothingReturns, ToCome, Runs, Running, ledger
<1>4. Labelled'
  <2> SUFFICES ASSUME NEW r \in Requests, NEW i \in DOMAIN r.calls, Keyed(r, i),
                      NEW x \in Kept(r.calls[i].doc)'
               PROVE  Once(x, r.calls[i].text) /\ (ToCome(r, i)' => Clean(x, r.calls[i].text))
    BY DEF Labelled, Once, Clean, Keyed
  <2> DEFINE e == r.calls[i].doc
             t == r.calls[i].text
  <2>1. e \in Docs /\ t # Foreign
    BY CallNames, ForeignAssumption
  <2>2. CASE x \in Kept(e)
    BY <1>t, <1>3, <2>2 DEF Labelled, NothingReturns
  <2>3. CASE e = d /\ x = y
    <3>1. Once(disk[d], t) /\ (ToCome(r, i) => Clean(disk[d], t))
      BY <1>t, <2>3 DEF Labelled, Kept
    <3>2. QED
      BY <1>1, <1>3, <2>1, <2>3, <3>1, AppendOther DEF NothingReturns
  <2>4. x \in Kept(e) \/ (e = d /\ x = y)
    <3>1. CASE x = disk'[e]
      BY <1>2, <2>1, <3>1 DEF Kept
    <3>2. ASSUME NEW q \in Tasks, x = task'[q].snap[e] PROVE x \in Kept(e)
      BY <1>t, <3>2 DEF Kept
    <3>3. QED
      BY <3>1, <3>2 DEF Kept
  <2>5. QED
    BY <2>2, <2>3, <2>4
<1>5. QED
  BY <1>t, <1>4, SameTasks

-----------------------------------------------------------------------------
(* The invariant, and the theorem.                                         *)

LEMMA LabelInvInit ==
  ASSUME TextsLabelEdits
  PROVE  Init => LabelInv
<1> SUFFICES ASSUME Init PROVE LabelInv
  OBVIOUS
<1>1. IInv
  BY InvariantHoldsInitially
<1>2. \A p \in Tasks : OnTrack(p)
  BY DEF Init, OnTrack, Rest, NewTask
<1>3. ASSUME NEW r \in Requests, NEW i \in DOMAIN r.calls, Keyed(r, i), NEW x \in Kept(r.calls[i].doc)
      PROVE  Clean(x, r.calls[i].text)
  <2>1. r.calls[i].doc \in Docs
    BY CallNames
  <2>2. CASE x = disk[r.calls[i].doc]
    BY <1>3, <2>2 DEF Init, TextsLabelEdits, Clean
  <2>3. ASSUME NEW p \in Tasks, x = task[p].snap[r.calls[i].doc] PROVE x = Absent
    BY <2>1, <2>3 DEF Init, Rest, NewTask
  <2>4. QED
    BY <1>3, <2>2, <2>3 DEF Kept, Clean
<1>4. Labelled
  BY <1>3 DEF Labelled, Clean, Once
<1>5. QED
  BY <1>1, <1>2, <1>4, InvParts

LEMMA LabelInvNext ==
  ASSUME TextsLabelEdits
  PROVE  /\ LabelInv /\ IInv' /\ [Next]_vars
         /\ [\A id \in Ids : entries[id] \in Outcomes => entries'[id] # Unknown]_vars
         => LabelInv'
<1> SUFFICES ASSUME LabelInv, IInv', [Next]_vars,
                    [\A id \in Ids : entries[id] \in Outcomes => entries'[id] # Unknown]_vars
             PROVE  LabelInv'
  OBVIOUS
<1>1. CASE UNCHANGED vars
  BY <1>1, StillLabels DEF vars, ledger
<1>2. CASE ~UNCHANGED vars
  <2>1. \A id \in Ids : entries[id] \in Outcomes => entries'[id] # Unknown
    BY <1>2
  <2>2. ASSUME NEW r \in Requests, Compile(r) PROVE LabelInv'
    BY <2>2, StillLabels DEF Compile
  <2>3. ASSUME NEW p \in Tasks, NEW r \in Requests, Receive(p, r) PROVE LabelInv'
    BY <2>3, ReceiveLabels
  <2>4. ASSUME NEW d \in Docs, ForeignEdit(d) PROVE LabelInv'
    BY <2>4, ForeignLabels
  <2>5. ASSUME NEW p \in Tasks, NEW d \in Docs,
               CheckBase(p, d) \/ Capture(p, d) \/ RestoreDocument(p, d) \/ DeleteDocument(p, d)
        PROVE  LabelInv'
    BY <2>5, CheckBaseLabels, CaptureLabels, RollbackLabels
  <2>6. ASSUME NEW p \in Tasks, Claim(p) PROVE LabelInv'
    BY <2>1, <2>6, ClaimLabels
  <2>7. ASSUME NEW p \in Tasks, RefuseCall(p) \/ HandlerFails(p) PROVE LabelInv'
    <3>1. CallDone(p, FALSE) /\ Running(p) /\ UNCHANGED <<ledger, disk>>
      BY <2>7 DEF RefuseCall, HandlerFails, Running, Steps
    <3>2. QED
      BY <3>1, CallOverLabels
  <2>8. ASSUME NEW p \in Tasks,
               \/ ParseVerify(p) \/ Scan(p) \/ CaptureFails(p) \/ ReadDocument(p) \/ WriteDocument(p)
               \/ Finish(p) \/ Rescan(p) \/ RolledBack(p) \/ Validated(p) \/ CompleteBatch(p) \/ Drop(p)
               \/ ChangesOverlooked(p) \/ RescanCutShort(p)
        PROVE  LabelInv'
    BY <2>8, ParseVerifyLabels, CaptureLabels, ReadLabels, WriteLabels, EndLabels, AnswerLabels
  <2>9. QED
    BY <1>2, <2>2, <2>3, <2>4, <2>5, <2>6, <2>7, <2>8 DEF Next, Work
<1>3. QED
  BY <1>1, <1>2

\* What Once says in the terms of NoDoubleApply.
LEMMA OnceIsCounted ==
  ASSUME NEW d, NEW t, Once(disk[d], t)
  PROVE  Occurrences(d, t) <= 1
<1> DEFINE S == {i \in DOMAIN disk[d] : disk[d][i] = t}
<1>1. CASE disk[d] = Absent
  BY <1>1 DEF Occurrences
<1>2. CASE disk[d] # Absent
  <2>1. S = {} \/ \E i : S = {i}
    BY <1>2 DEF Once
  <2>2. Cardinality(S) \in {0, 1}
    BY <2>1, FS_EmptySet, FS_Singleton
  <2>3. QED
    BY <1>2, <2>2 DEF Occurrences
<1>3. QED
  BY <1>1, <1>2

LEMMA LabelsCount == LabelInv => NoDoubleApply
<1> SUFFICES ASSUME LabelInv, NEW r \in Requests, r.op # NoId, NEW e \in EditsOf(r)
             PROVE  Occurrences(e.doc, e.text) <= 1
  BY DEF NoDoubleApply
<1>1. PICK i \in DOMAIN r.calls : r.calls[i] = e /\ Keyed(r, i)
  BY DEF EditsOf, Keyed
<1>2. Once(disk[e.doc], e.text)
  BY <1>1, OwnSnap DEF LabelInv, Kept
<1>3. QED
  BY <1>2, OnceIsCounted

\* However often a batch with an operation key is sent, by however many
\* clients, and whatever fails or is undone meanwhile, none of its edits is
\* made twice, as long as the ledger forgets no answer.
THEOREM NoOperationAppliesTwice ==
  ASSUME TextsLabelEdits
  PROVE  Spec /\ NeverForgets => []NoDoubleApply
<1> DEFINE Remembers == \A id \in Ids : entries[id] \in Outcomes => entries'[id] # Unknown
<1>1. Init => LabelInv
  BY LabelInvInit
<1>2. LabelInv /\ IInv' /\ [Next]_vars /\ [Remembers]_vars => LabelInv'
  BY LabelInvNext
<1>3. LabelInv => NoDoubleApply
  BY LabelsCount
<1>4. QED
  BY <1>1, <1>2, <1>3, InductiveInvariant, PTL DEF Spec, NeverForgets

-----------------------------------------------------------------------------
(* A batch that is alone on the server.                                      *)

Has(x, t) == x # Absent /\ \E i \in DOMAIN x : x[i] = t

\* The calls up to number n were made, and what they left is in the documents x.
DoneUpTo(c, n, x) ==
    \A i \in DOMAIN c.req.calls : i <= n =>
       c.req.calls[i].kind # "refused" /\ Has(x[c.req.calls[i].doc], c.req.calls[i].text)

(***************************************************************************)
(* What task c knows at step s of the documents x, after e edits from      *)
(* outside: as long as no call has failed, that all so far have been made; *)
(* when it rolls back, that what it has visited is as it was captured; but *)
(* for the documents that it missed, m.                                    *)
(***************************************************************************)
AloneOK(s, c, x, e, m) ==
    /\ s \in Early => c.at = 1 /\ ~c.failed
    /\ s \in Early \cup {"call", "write"} => ~c.torn /\ (~c.failed => DoneUpTo(c, c.at - 1, x))
    /\ s = "write" => c.req.calls[c.at].kind # "refused"
    /\ s \in {"validate", "complete"} =>
         /\ c.outcome = "failed" => ~(c.req.atomic /\ c.net)
         /\ c.outcome = "applied" => DoneUpTo(c, Len(c.req.calls), x)
    /\ s = "validate" => c.outcome \in {"applied", "failed"}
    /\ s = "restore" /\ ~c.torn /\ e = 0 => \A d \in Docs \ c.todo : c.snap[d] # Absent => x[d] = c.snap[d]
    /\ s = "delete" =>
         /\ \A d \in c.todo : c.snap[d] = Absent
         /\ ~c.torn /\ e = 0 => \A d \in c.req.roots \ (c.todo \cup m[c.req]) : x[d] = c.snap[d]
    /\ s = "complete" /\ c.outcome = "undone" /\ e = 0 =>
         \A d \in c.req.roots \ m[c.req] : x[d] = c.snap[d]

AloneInv == \A p \in Tasks : AloneOK(pc[p], task[p], disk, edits, missed)

LEMMA HasAppended ==
  ASSUME NEW x \in Contents, NEW u, NEW t, Has(x, t) \/ t = u, Appended(x, u) # Absent
  PROVE  Has(Appended(x, u), t)
<1>1. CASE x = Absent
  BY <1>1, AppendedReads DEF Has
<1>2. CASE x # Absent
  <2>1. /\ DOMAIN Appended(x, u) = 1 .. Len(x) + 1
        /\ \A i \in 1 .. Len(x) : Appended(x, u)[i] = x[i]
        /\ Appended(x, u)[Len(x) + 1] = u
        /\ Len(x) \in Nat /\ DOMAIN x = 1 .. Len(x)
    BY <1>2, AppendedReads
  <2>2. 1 .. Len(x) \subseteq 1 .. Len(x) + 1 /\ Len(x) + 1 \in 1 .. Len(x) + 1
    BY <2>1
  <2>3. QED
    BY <1>2, <2>1, <2>2 DEF Has
<1>3. QED
  BY <1>1, <1>2

LEMMA AppendedIsContent ==
  ASSUME NEW x \in Contents, NEW u \in Texts \cup {Foreign}
  PROVE  Appended(x, u) \in Contents \ {Absent}
<1>1. CASE x = Absent
  <2>1. <<u>> \in Seq(Texts \cup {Foreign})
    OBVIOUS
  <2>2. QED
    BY <1>1, <2>1, AbsentAssumption DEF Appended, Contents
<1>2. CASE x # Absent
  <2>1. x \in Seq(Texts \cup {Foreign})
    BY <1>2 DEF Contents
  <2>2. Append(x, u) \in Seq(Texts \cup {Foreign})
    BY <2>1
  <2>3. QED
    BY <1>2, <2>2, AbsentAssumption DEF Appended, Contents
<1>3. QED
  BY <1>1, <1>2

\* An edit appended to a document takes no other away.
LEMMA DoneStays ==
  ASSUME NEW x \in [Docs -> Contents], NEW y, NEW d \in Docs, NEW u \in Texts \cup {Foreign},
         y = [x EXCEPT ![d] = Appended(x[d], u)],
         NEW c \in Task, NEW n, DoneUpTo(c, n, x)
  PROVE  DoneUpTo(c, n, y)
<1> SUFFICES ASSUME NEW i \in DOMAIN c.req.calls, i <= n
             PROVE  c.req.calls[i].kind # "refused" /\ Has(y[c.req.calls[i].doc], c.req.calls[i].text)
  BY DEF DoneUpTo
<1> DEFINE b == c.req.calls[i].doc
           t == c.req.calls[i].text
<1>1. c.req.calls[i].kind # "refused" /\ Has(x[b], t)
  BY DEF DoneUpTo
<1>2. b \in Docs
  BY CallNames DEF Task
<1>3. CASE b = d
  <2>1. y[b] = Appended(x[b], u) /\ x[b] \in Contents
    BY <1>2, <1>3
  <2>2. QED
    BY <1>1, <2>1, HasAppended, AppendedIsContent
<1>4. CASE b # d
  BY <1>1, <1>2, <1>4
<1>5. QED
  BY <1>1, <1>3, <1>4

\* The only task goes on.
LEMMA GoAlone ==
  ASSUME IInv, NEW p, Tasks = {p}, NEW s, NEW c, Go(p, s, c), AloneOK(s, c, disk', edits', missed')
  PROVE  AloneInv'
<1>1. pc'[p] = s /\ task'[p] = c
  BY InvTypes DEF Go
<1>2. QED
  BY <1>1 DEF AloneInv

LEMMA ReturnAlone ==
  ASSUME IInv, NEW p, Tasks = {p}, NEW a, Return(p, a)
  PROVE  AloneInv'
<1>1. pc'[p] = "idle"
  BY InvTypes DEF Return
<1>2. QED
  BY <1>1 DEF AloneInv, AloneOK, Early

\* The calls up to the first have been made.
LEMMA NoneDone == \A c \in Task : \A x : DoneUpTo(c, 0, x)
<1> SUFFICES ASSUME NEW c \in Task, NEW x, NEW i \in DOMAIN c.req.calls, i <= 0 PROVE FALSE
  BY DEF DoneUpTo
<1>1. i \in Nat \ {0}
  BY CallNames DEF Task
<1>2. QED
  BY <1>1

LEMMA ReceiveAlone ==
  ASSUME IInv, NEW p, Tasks = {p}, NEW r \in Requests, Receive(p, r)
  PROVE  AloneInv'
<1> DEFINE roots == IF r.based THEN r.roots ELSE {}
           s == IF r.based /\ r.roots # {} THEN "base" ELSE "claim"
           c == [NewTask(r) EXCEPT !.todo = roots]
<1>1. pc' = [pc EXCEPT ![p] = s] /\ task' = [task EXCEPT ![p] = c] /\ s \in {"base", "claim"}
  BY DEF Receive
<1>2. roots \in SUBSET Docs
  BY RequestsAssumption DEF RequestType
<1> HIDE DEF roots
<1>3. c \in Task /\ c.at = 1 /\ c.failed = FALSE /\ c.torn = FALSE
  BY <1>2, NewTaskIsTask DEF NewTask, Task
<1> HIDE DEF s, c
<1>4. DoneUpTo(c, c.at - 1, disk')
  BY <1>3, NoneDone
<1>5. AloneOK(s, c, disk', edits', missed')
  BY <1>1, <1>3, <1>4 DEF AloneOK, Early
<1>6. pc'[p] = s /\ task'[p] = c
  BY <1>1, InvTypes
<1>7. QED
  BY <1>5, <1>6 DEF AloneInv

\* What AloneOK looks at, when only the documents still to visit are others.
LEMMA TodoOnly ==
  ASSUME NEW c \in Task, NEW S \in SUBSET Docs
  PROVE  LET b == [c EXCEPT !.todo = S]
         IN  /\ b \in Task /\ b.req = c.req /\ b.todo = S /\ b.at = c.at /\ b.net = c.net
             /\ b.snap = c.snap /\ b.failed = c.failed /\ b.torn = c.torn /\ b.outcome = c.outcome
  BY DEF Task

\* Before the calls.
LEMMA EarlyAlone ==
  ASSUME IInv, AloneInv, NEW p, Tasks = {p}, NEW s \in Early \cup {"call"}, NEW c \in Task, Go(p, s, c),
         UNCHANGED disk, pc[p] \in Early,
         c.req = task[p].req, c.at = task[p].at, c.failed = task[p].failed, c.torn = task[p].torn
  PROVE  AloneInv'
<1>1. AloneOK(pc[p], task[p], disk, edits, missed) /\ p \in Tasks /\ task[p] \in Task
  BY InvTypes DEF AloneInv
<1>2. c.at = 1 /\ ~c.failed /\ ~c.torn
  BY <1>1 DEF AloneOK
<1>3. DoneUpTo(c, c.at - 1, disk')
  BY <1>2, NoneDone
<1>4. AloneOK(s, c, disk', edits', missed')
  BY <1>2, <1>3 DEF AloneOK, Early
<1>5. QED
  BY <1>4, GoAlone

LEMMA BeforeAlone ==
  ASSUME IInv, AloneInv, NEW p, Tasks = {p},
         \/ Claim(p) \/ ParseVerify(p) \/ Scan(p) \/ CaptureFails(p)
         \/ \E d \in Docs : CheckBase(p, d) \/ Capture(p, d)
  PROVE  AloneInv'
<1> DEFINE c == task[p]
           new == NewTask(c.req)
<1>t. /\ c \in Task /\ c.req \in RequestType /\ disk \in [Docs -> Contents] /\ AloneOK(pc[p], c, disk, edits, missed)
      /\ new \in Task /\ new.req = c.req /\ new.at = 1 /\ new.failed = FALSE /\ new.torn = FALSE
      /\ \A d \in Docs : new.snap[d] = Absent
      /\ c.todo \subseteq Docs /\ UNCHANGED disk
  BY InvTypes, RequestsAssumption, NewTaskIsTask
  DEF AloneInv, NewTask, Task, Claim, ParseVerify, Scan, CaptureFails, CheckBase, Capture
<1>1. CASE Claim(p) \/ ParseVerify(p)
  BY <1>t, <1>1, ReturnAlone, EarlyAlone DEF Claim, ParseVerify, Early
<1>2. CASE Scan(p)
  <2> DEFINE found == {d \in c.req.roots : disk[d] # Absent}
             bare == [c EXCEPT !.net = TRUE]
             full == [c EXCEPT !.todo = found]
  <2>1. found \in SUBSET Docs
    BY <1>t DEF RequestType
  <2>2. (Go(p, "call", bare) \/ Go(p, "capture", full)) /\ pc[p] \in Early
    BY <1>2 DEF Scan, Early
  <2> HIDE DEF found
  <2>3. /\ bare \in Task /\ bare.req = c.req /\ bare.at = c.at /\ bare.failed = c.failed /\ bare.torn = c.torn
        /\ full \in Task /\ full.req = c.req /\ full.at = c.at /\ full.failed = c.failed /\ full.torn = c.torn
    BY <1>t, <2>1 DEF Task
  <2> HIDE DEF bare, full
  <2>4. QED
    BY <1>t, <2>2, <2>3, EarlyAlone DEF Early
<1>3. CASE CaptureFails(p)
  <2>1. c.at = 1 /\ c.failed = FALSE /\ c.torn = FALSE
    BY <1>t, <1>3 DEF CaptureFails, AloneOK, Early, Task
  <2>2. Go(p, "call", new) /\ pc[p] \in Early
    BY <1>3 DEF CaptureFails, Early
  <2> HIDE DEF new
  <2>3. QED
    BY <1>t, <2>1, <2>2, EarlyAlone
<1>4. ASSUME NEW d \in Docs, Capture(p, d) PROVE AloneInv'
  <2> DEFINE none == new.snap
             bare == [c EXCEPT !.todo = {}, !.snap = none]
             n == c.todo = {d}
             s == [c.snap EXCEPT ![d] = disk[d]]
             rest == c.todo \ {d}
             full == [c EXCEPT !.snap = s, !.net = n]
             next == [full EXCEPT !.todo = rest]
  <2>1. none \in [Docs -> Contents] /\ s \in [Docs -> Contents] /\ n \in BOOLEAN /\ rest \in SUBSET Docs
    BY <1>t DEF Task
  <2>2. pc[p] \in Early /\ (Go(p, "call", bare) \/ Go(p, IF full.todo \ {d} = {} THEN "call" ELSE "capture", [full EXCEPT !.todo = full.todo \ {d}]))
    BY <1>4 DEF Capture, Visit, Early
  <2> HIDE DEF none, n, s, rest
  <2>3. /\ bare \in Task /\ bare.req = c.req /\ bare.at = c.at /\ bare.failed = c.failed /\ bare.torn = c.torn
        /\ full \in Task /\ full.req = c.req /\ full.at = c.at /\ full.failed = c.failed /\ full.torn = c.torn
        /\ full.todo = c.todo
    BY <1>t, <2>1 DEF Task
  <2> HIDE DEF bare, full
  <2>4. /\ next \in Task /\ next.req = c.req /\ next.at = c.at /\ next.failed = c.failed /\ next.torn = c.torn
    BY <2>1, <2>3, TodoOnly
  <2>5. pc[p] \in Early /\ (Go(p, "call", bare) \/ Go(p, "call", next) \/ Go(p, "capture", next))
    BY <2>2, <2>3 DEF rest
  <2> HIDE DEF next
  <2>6. QED
    BY <1>t, <2>3, <2>4, <2>5, EarlyAlone DEF Early
<1>5. ASSUME NEW d \in Docs, CheckBase(p, d) PROVE AloneInv'
  <2> DEFINE rest == c.todo \ {d}
             next == [c EXCEPT !.todo = rest]
  <2>1. next \in Task /\ next.req = c.req /\ next.at = c.at /\ next.failed = c.failed /\ next.torn = c.torn
    BY <1>t, TodoOnly
  <2>2. pc[p] \in Early /\ (Go(p, "base", next) \/ Go(p, "claim", next) \/ Return(p, "stale"))
    BY <1>5 DEF CheckBase, Visit, Early
  <2> HIDE DEF next
  <2>3. QED
    BY <1>t, <2>1, <2>2, EarlyAlone, ReturnAlone DEF Early
<1>6. QED
  BY <1>1, <1>2, <1>3, <1>4, <1>5

\* A call is over, and the documents hold what it has left.
LEMMA CallOverAlone ==
  ASSUME IInv, AloneInv, NEW p, Tasks = {p}, NEW ok \in BOOLEAN, CallDone(p, ok), pc[p] \in {"call", "write"},
         ok => CallAt(p).kind # "refused" /\ Has(disk'[CallAt(p).doc], CallAt(p).text)
               /\ (DoneUpTo(task[p], task[p].at - 1, disk) => DoneUpTo(task[p], task[p].at - 1, disk'))
  PROVE  AloneInv'
<1> DEFINE f == task[p].failed \/ ~ok
           n == task[p].at + 1
           c == [task[p] EXCEPT !.at = n, !.seen = Absent, !.failed = f]
<1>1. task[p] \in Task /\ task[p].at \in Nat \ {0} /\ f \in BOOLEAN /\ AloneOK(pc[p], task[p], disk, edits, missed)
  BY InvTypes DEF AloneInv
<1>2. n \in Nat \ {0}
  BY <1>1
<1>3. Go(p, "call", c)
  BY DEF CallDone
<1> HIDE DEF f
<1>4. c.req = task[p].req /\ c.at = n /\ c.failed = f /\ c.torn = task[p].torn
  BY <1>1, <1>2 DEF Task, Contents
<1> HIDE DEF c
<1>5. ~c.torn
  BY <1>1, <1>4 DEF AloneOK
<1>6. ASSUME ~f PROVE DoneUpTo(c, n - 1, disk')
  <2>1. ok /\ ~task[p].failed
    BY <1>6 DEF f
  <2>2. DoneUpTo(task[p], task[p].at - 1, disk')
    BY <1>1, <2>1 DEF AloneOK
  <2>3. ASSUME NEW i \in DOMAIN c.req.calls, i <= n - 1
        PROVE  c.req.calls[i].kind # "refused" /\ Has(disk'[c.req.calls[i].doc], c.req.calls[i].text)
    <3>1. i \in Nat
      BY <1>1, <1>4, <2>3, CallNames DEF Task
    <3>2. i = task[p].at \/ i <= task[p].at - 1
      BY <1>1, <2>3, <3>1
    <3>3. CASE i = task[p].at
      BY <1>4, <2>1, <3>3 DEF CallAt
    <3>4. CASE i <= task[p].at - 1
      BY <1>4, <2>2, <2>3, <3>4 DEF DoneUpTo
    <3>5. QED
      BY <3>2, <3>3, <3>4
  <2>4. QED
    BY <2>3 DEF DoneUpTo
<1>7. AloneOK("call", c, disk', edits', missed')
  BY <1>4, <1>5, <1>6 DEF AloneOK, Early
<1>8. QED
  BY <1>3, <1>7, GoAlone

LEMMA CallsAlone ==
  ASSUME IInv, AloneInv, NEW p, Tasks = {p},
         RefuseCall(p) \/ ReadDocument(p) \/ WriteDocument(p) \/ HandlerFails(p)
  PROVE  AloneInv'
<1> DEFINE c == task[p]
           d == CallAt(p).doc
           t == CallAt(p).text
<1>t. /\ c \in Task /\ c.req \in Requests /\ disk \in [Docs -> Contents] /\ AloneOK(pc[p], c, disk, edits, missed)
      /\ pc[p] \in {"call", "write"} /\ CallAt(p) = c.req.calls[c.at]
  BY InvTypes DEF AloneInv, RefuseCall, ReadDocument, WriteDocument, HandlerFails, CallsOver, CallAt
<1>1. CASE CallDone(p, FALSE)
  BY <1>t, <1>1, CallOverAlone
<1>2. ASSUME Go(p, "write", [c EXCEPT !.seen = disk[d]]), UNCHANGED disk, CallAt(p).kind # "refused", pc[p] = "call"
      PROVE  AloneInv'
  <2> DEFINE x == disk[d]
             b == [c EXCEPT !.seen = x]
  <2>1. b.req = c.req /\ b.at = c.at /\ b.failed = c.failed /\ b.torn = c.torn
    BY <1>t DEF Task
  <2>2. Go(p, "write", b)
    BY <1>2
  <2> HIDE DEF x, b
  <2>3. AloneOK("write", b, disk', edits', missed')
    BY <1>t, <1>2, <2>1 DEF AloneOK, Early, DoneUpTo
  <2>4. QED
    BY <2>2, <2>3, GoAlone
<1>3. ASSUME CallDone(p, TRUE), pc[p] = "write", disk[d] = c.seen,
             disk' = [disk EXCEPT ![d] = IF @ = Absent THEN <<t>> ELSE Append(@, t)]
      PROVE  AloneInv'
  <2>1. c.at \in DOMAIN c.req.calls /\ CallAt(p).kind # "refused"
    <3>1. c.req.calls \in Seq(Calls) /\ c.at \in Nat \ {0}
      BY <1>t, RequestsAssumption DEF Task, RequestType
    <3>2. c.at <= Len(c.req.calls)
      BY <1>3 DEF IInv, WritesForACall
    <3>3. CallAt(p).kind # "refused"
      BY <1>t, <1>3 DEF AloneOK
    <3>4. QED
      BY <3>1, <3>2, <3>3
  <2>2. d \in Docs /\ t \in Texts /\ disk[d] \in Contents
    BY <1>t, <2>1, CallNames
  <2>3. disk' = [disk EXCEPT ![d] = Appended(disk[d], t)]
    BY <1>3 DEF Appended
  <2>4. Has(disk'[d], t)
    BY <1>t, <2>2, <2>3, HasAppended, AppendedIsContent
  <2>5. DoneUpTo(c, c.at - 1, disk) => DoneUpTo(c, c.at - 1, disk')
    BY <1>t, <2>2, <2>3, DoneStays
  <2>6. QED
    BY <1>3, <2>1, <2>4, <2>5, CallOverAlone
<1>4. QED
  BY <1>1, <1>2, <1>3 DEF RefuseCall, ReadDocument, WriteDocument, HandlerFails

LEMMA FinishAlone ==
  ASSUME IInv, AloneInv, NEW p, Tasks = {p}, Finish(p) \/ ChangesOverlooked(p) \/ Validated(p)
  PROVE  AloneInv'
<1> DEFINE c == task[p]
           back == {d \in Docs : c.snap[d] # Absent}
           o == IF c.failed THEN "failed" ELSE "applied"
           undone == [c EXCEPT !.todo = back]
           kept == [c EXCEPT !.outcome = o]
<1>t. /\ c \in Task /\ c.req \in RequestType /\ AloneOK(pc[p], c, disk, edits, missed) /\ UNCHANGED <<disk, edits>>
  BY InvTypes, RequestsAssumption DEF AloneInv, Finish, ChangesOverlooked, Validated, bounds
<1>1. CASE Finish(p) \/ ChangesOverlooked(p)
  <2>1. pc[p] = "call" /\ (c.at > Len(c.req.calls) \/ (c.failed /\ c.req.stop))
    BY <1>1 DEF Finish, ChangesOverlooked, CallsOver
  <2>2. \/ Go(p, "restore", undone)
        \/ /\ ~(c.net /\ c.failed /\ c.req.atomic)
           /\ Go(p, "validate", kept) \/ Go(p, "complete", kept)
    BY <1>1 DEF Finish, ChangesOverlooked
  <2>3. back \in SUBSET Docs /\ o \in Outcomes
    BY DEF Outcomes
  <2>4. /\ undone.todo = back /\ undone.snap = c.snap
        /\ kept.outcome = o /\ kept.req = c.req /\ kept.net = c.net
    BY <1>t, <2>3 DEF Task
  <2>5. AloneOK("restore", undone, disk', edits', missed')
    BY <1>t, <2>4 DEF AloneOK, Early
  <2>6. ASSUME ~c.failed PROVE DoneUpTo(c, Len(c.req.calls), disk')
    <3>1. c.at > Len(c.req.calls) /\ DoneUpTo(c, c.at - 1, disk)
      BY <1>t, <2>1, <2>6 DEF AloneOK
    <3>2. c.at \in Nat /\ Len(c.req.calls) \in Nat
      BY <1>t DEF Task, RequestType
    <3>3. \A i \in DOMAIN c.req.calls : i <= Len(c.req.calls) => i <= c.at - 1
      <4>1. \A i \in DOMAIN c.req.calls : i \in Nat
        BY <1>t, CallNames DEF Task
      <4>2. QED
        BY <3>1, <3>2, <4>1
    <3>4. QED
      BY <1>t, <3>1, <3>3 DEF DoneUpTo
  <2>7. ASSUME NEW s \in {"validate", "complete"}, ~(c.net /\ c.failed /\ c.req.atomic)
        PROVE  AloneOK(s, kept, disk', edits', missed')
    <3>1. o \in {"failed", "applied"} /\ (o = "failed" <=> c.failed)
      OBVIOUS
    <3> HIDE DEF o, kept
    <3>2. kept.outcome = "failed" => ~(kept.req.atomic /\ kept.net)
      BY <2>4, <2>7, <3>1
    <3>3. kept.outcome = "applied" => DoneUpTo(kept, Len(kept.req.calls), disk')
      BY <2>4, <2>6, <3>1 DEF DoneUpTo
    <3>4. QED
      BY <2>4, <3>1, <3>2, <3>3 DEF AloneOK, Early
  <2> HIDE DEF undone, kept
  <2>8. QED
    BY <2>2, <2>5, <2>7, GoAlone
<1>2. CASE Validated(p)
  <2>1. AloneOK("complete", c, disk', edits', missed')
    BY <1>t, <1>2 DEF Validated, AloneOK, Early
  <2>2. QED
    BY <1>2, <2>1, GoAlone DEF Validated
<1>3. QED
  BY <1>1, <1>2

\* What is visited is as it was captured, or the batch says that it is torn.
LEMMA RestoreAlone ==
  ASSUME IInv, AloneInv, NEW p, Tasks = {p}, NEW d \in Docs, RestoreDocument(p, d)
  PROVE  AloneInv'
<1> DEFINE c == task[p]
           rest == c.todo \ {d}
           next == [c EXCEPT !.todo = rest]
           hurt == [c EXCEPT !.torn = TRUE]
           bad == [hurt EXCEPT !.todo = rest]
<1>t. /\ c \in Task /\ disk \in [Docs -> Contents] /\ AloneOK("restore", c, disk, edits, missed) /\ UNCHANGED edits
      /\ rest \in SUBSET Docs
  BY InvTypes DEF AloneInv, RestoreDocument, Task
<1>1. hurt \in Task /\ hurt.todo = c.todo
  BY <1>t DEF Task
<1>2. /\ next.todo = rest /\ next.snap = c.snap /\ next.torn = c.torn
  BY <1>t, TodoOnly
<1>3. bad.torn
  <2>1. hurt.torn
    BY <1>t DEF Task
  <2> HIDE DEF hurt
  <2>2. QED
    BY <1>t, <1>1, <2>1, TodoOnly
<1>4. CASE disk' = [disk EXCEPT ![d] = c.snap[d]] /\ Visit(p, d, c, "restore", "restore")
  <2>1. Go(p, "restore", next)
    BY <1>4 DEF Visit
  <2> HIDE DEF next
  <2>2. ASSUME ~c.torn, edits = 0, NEW e \in Docs \ rest, c.snap[e] # Absent
        PROVE  disk'[e] = c.snap[e]
    <3>1. CASE e = d
      BY <1>t, <1>4, <3>1
    <3>2. CASE e # d
      BY <1>t, <1>4, <2>2, <3>2 DEF AloneOK
    <3>3. QED
      BY <3>1, <3>2
  <2>3. AloneOK("restore", next, disk', edits', missed')
    BY <1>t, <1>2, <2>2 DEF AloneOK, Early
  <2>4. QED
    BY <2>1, <2>3, GoAlone
<1>5. CASE Visit(p, d, hurt, "restore", "restore")
  <2>1. Go(p, "restore", bad)
    BY <1>1, <1>5 DEF Visit
  <2>2. AloneOK("restore", bad, disk', edits', missed')
    <3> HIDE DEF bad
    <3>1. QED
      BY <1>3 DEF AloneOK, Early
  <2> HIDE DEF bad
  <2>3. QED
    BY <2>1, <2>2, GoAlone
<1>6. QED
  BY <1>4, <1>5 DEF RestoreDocument

LEMMA RescanAlone ==
  ASSUME IInv, AloneInv, NEW p, Tasks = {p}, Rescan(p)
  PROVE  AloneInv'
<1> DEFINE c == task[p]
           new == {d \in c.req.roots : disk[d] # Absent /\ c.snap[d] = Absent}
           next == [c EXCEPT !.todo = new]
<1>t. /\ c \in Task /\ c.req \in RequestType /\ AloneOK("restore", c, disk, edits, missed) /\ c.todo = {}
      /\ UNCHANGED <<disk, edits, missed>> /\ Go(p, "delete", next)
  BY InvTypes, RequestsAssumption DEF AloneInv, Rescan, Created, bounds
<1>1. new \in SUBSET Docs /\ c.req.roots \subseteq Docs
  BY <1>t DEF RequestType
<1>2. next.todo = new /\ next.snap = c.snap /\ next.torn = c.torn /\ next.req = c.req
  BY <1>t, <1>1, TodoOnly
<1>3. \A d \in new : c.snap[d] = Absent
  OBVIOUS
<1>4. ASSUME ~c.torn, edits = 0, NEW d \in c.req.roots \ new PROVE disk[d] = c.snap[d]
  BY <1>t, <1>1, <1>4 DEF AloneOK
<1> HIDE DEF new, next
<1>5. AloneOK("delete", next, disk', edits', missed')
  BY <1>t, <1>2, <1>3, <1>4 DEF AloneOK, Early
<1>6. QED
  BY <1>t, <1>5, GoAlone

\* What a listing that is cut short did not come to is missed.
LEMMA CutShortAlone ==
  ASSUME IInv, AloneInv, NEW p, Tasks = {p}, RescanCutShort(p)
  PROVE  AloneInv'
<1> DEFINE c == task[p]
<1>t. /\ c \in Task /\ c.req \in Requests /\ c.req \in RequestType /\ AloneOK("restore", c, disk, edits, missed)
      /\ c.todo = {} /\ UNCHANGED <<disk, edits>> /\ missed \in [Requests -> SUBSET Docs]
  BY InvTypes, RequestsAssumption DEF AloneInv, RescanCutShort, IInv, TasksOK
<1>1. PICK part \in SUBSET Created(c) :
        /\ Go(p, "delete", [c EXCEPT !.todo = part])
        /\ missed' = [missed EXCEPT ![c.req] = @ \cup (Created(c) \ part)]
  BY DEF RescanCutShort
<1>2. Created(c) \subseteq Docs /\ c.req.roots \subseteq Docs /\ \A d \in Created(c) : c.snap[d] = Absent
  BY <1>t DEF RequestType, Created
<1> DEFINE next == [c EXCEPT !.todo = part]
<1>3. next.todo = part /\ next.snap = c.snap /\ next.torn = c.torn /\ next.req = c.req
  BY <1>t, <1>1, <1>2, TodoOnly
<1>4. ASSUME ~c.torn, edits = 0, NEW d \in c.req.roots \ Created(c) PROVE disk[d] = c.snap[d]
  BY <1>t, <1>2, <1>4 DEF AloneOK, Created
<1>5. Created(c) \ part \subseteq missed'[c.req]
  BY <1>t, <1>1
<1>6. Go(p, "delete", next)
  BY <1>1
<1> HIDE DEF next
<1>7. AloneOK("delete", next, disk', edits', missed')
  BY <1>t, <1>1, <1>2, <1>3, <1>4, <1>5 DEF AloneOK, Early
<1>8. QED
  BY <1>6, <1>7, GoAlone

LEMMA DeleteAlone ==
  ASSUME IInv, AloneInv, NEW p, Tasks = {p}, NEW d \in Docs, DeleteDocument(p, d)
  PROVE  AloneInv'
<1> DEFINE c == task[p]
           rest == c.todo \ {d}
           next == [c EXCEPT !.todo = rest]
           hurt == [c EXCEPT !.torn = TRUE]
           bad == [hurt EXCEPT !.todo = rest]
<1>t. /\ c \in Task /\ disk \in [Docs -> Contents] /\ AloneOK("delete", c, disk, edits, missed) /\ UNCHANGED <<edits, missed>>
      /\ rest \in SUBSET Docs /\ d \in c.todo /\ c.req \in RequestType
  BY InvTypes, RequestsAssumption DEF AloneInv, DeleteDocument, Task, First
<1>s. c.snap[d] = Absent /\ \A e \in rest : c.snap[e] = Absent
  BY <1>t DEF AloneOK
<1>1. hurt \in Task /\ hurt.todo = c.todo /\ hurt.snap = c.snap /\ hurt.torn
  BY <1>t DEF Task
<1>2. /\ next.todo = rest /\ next.snap = c.snap /\ next.torn = c.torn /\ next.req = c.req
  BY <1>t, TodoOnly
<1>3. bad.torn /\ bad.todo = rest /\ bad.snap = c.snap
  <2> HIDE DEF hurt
  <2>1. QED
    BY <1>t, <1>1, TodoOnly
<1>4. CASE disk' = [disk EXCEPT ![d] = Absent] /\ Visit(p, d, c, "delete", "delete")
  <2>1. Go(p, "delete", next)
    BY <1>4 DEF Visit
  <2> HIDE DEF next
  <2>2. ASSUME ~c.torn, edits = 0, NEW e \in c.req.roots \ (rest \cup missed[c.req])
        PROVE  disk'[e] = c.snap[e]
    <3>1. CASE e = d
      BY <1>t, <1>s, <1>4, <3>1
    <3>2. CASE e # d
      BY <1>t, <1>4, <2>2, <3>2 DEF AloneOK, RequestType
    <3>3. QED
      BY <3>1, <3>2
  <2>3. AloneOK("delete", next, disk', edits', missed')
    BY <1>t, <1>s, <1>2, <2>2 DEF AloneOK, Early
  <2>4. QED
    BY <2>1, <2>3, GoAlone
<1>5. CASE Visit(p, d, hurt, "delete", "delete")
  <2>1. Go(p, "delete", bad)
    BY <1>1, <1>5 DEF Visit
  <2> HIDE DEF bad
  <2>2. AloneOK("delete", bad, disk', edits', missed')
    BY <1>s, <1>3 DEF AloneOK, Early
  <2>3. QED
    BY <2>1, <2>2, GoAlone
<1>6. QED
  BY <1>4, <1>5 DEF DeleteDocument

LEMMA RolledBackAlone ==
  ASSUME IInv, AloneInv, NEW p, Tasks = {p}, RolledBack(p)
  PROVE  AloneInv'
<1> DEFINE c == task[p]
           o == IF c.torn THEN "partial" ELSE "undone"
           next == [c EXCEPT !.outcome = o]
<1>t. /\ c \in Task /\ AloneOK("delete", c, disk, edits, missed) /\ c.todo = {}
      /\ UNCHANGED <<disk, edits, missed>> /\ Go(p, "complete", next)
  BY InvTypes DEF AloneInv, RolledBack, bounds
<1>1. o \in {"partial", "undone"} /\ (o = "undone" => ~c.torn)
  OBVIOUS
<1> HIDE DEF o
<1>2. next.outcome = o /\ next.snap = c.snap /\ next.req = c.req
  BY <1>t, <1>1 DEF Task, Outcomes
<1> HIDE DEF next
<1>3. AloneOK("complete", next, disk', edits', missed')
  BY <1>t, <1>1, <1>2 DEF AloneOK, Early
<1>4. QED
  BY <1>t, <1>3, GoAlone

\* Another application's edit takes nothing away; what a roll-back then finds it
\* does not vouch for.
LEMMA ForeignAlone ==
  ASSUME IInv, AloneInv, NEW p, Tasks = {p}, NEW d \in Docs, ForeignEdit(d)
  PROVE  AloneInv'
<1> DEFINE c == task[p]
<1>t. /\ c \in Task /\ disk \in [Docs -> Contents] /\ AloneOK(pc[p], c, disk, edits, missed)
      /\ UNCHANGED <<pc, task, missed>> /\ edits' # 0
  BY InvTypes, BoundsAssumption DEF AloneInv, ForeignEdit, IInv, TasksOK
<1>1. disk' = [disk EXCEPT ![d] = Appended(disk[d], Foreign)]
  BY DEF ForeignEdit, Appended
<1>2. \A n : DoneUpTo(c, n, disk) => DoneUpTo(c, n, disk')
  BY <1>t, <1>1, DoneStays
<1> HIDE DEF c
<1>3. AloneOK(pc[p], c, disk', edits', missed')
  BY <1>t, <1>2 DEF AloneOK
<1>4. QED
  BY <1>t, <1>3 DEF AloneInv, c

LEMMA AloneInvStays ==
  ASSUME NEW p, Tasks = {p}, IInv, AloneInv, [Next]_vars
  PROVE  AloneInv'
<1>1. CASE UNCHANGED <<disk, pc, task, edits, missed>>
  BY <1>1 DEF AloneInv
<1>2. ASSUME NEW r \in Requests, Receive(p, r) PROVE AloneInv'
  BY <1>2, ReceiveAlone
<1>3. ASSUME NEW d \in Docs, ForeignEdit(d) PROVE AloneInv'
  BY <1>3, ForeignAlone
<1>4. CASE CompleteBatch(p) \/ Drop(p)
  BY <1>4, ReturnAlone DEF CompleteBatch, Drop
<1>5. CASE Work(p) /\ ~CompleteBatch(p)
  BY <1>5, BeforeAlone, CallsAlone, FinishAlone, RestoreAlone, RescanAlone, DeleteAlone, RolledBackAlone DEF Work
<1>6. CASE CaptureFails(p) \/ HandlerFails(p) \/ ChangesOverlooked(p) \/ RescanCutShort(p)
  BY <1>6, BeforeAlone, CallsAlone, FinishAlone, CutShortAlone
<1>7. \A r : Compile(r) => UNCHANGED <<disk, pc, task, edits, missed>>
  BY DEF Compile, bounds
<1>8. QED
  BY <1>1, <1>2, <1>3, <1>4, <1>5, <1>6, <1>7 DEF Next, vars

LEMMA HasIsCounted ==
  ASSUME NEW d \in Docs, NEW t, Has(disk[d], t), disk \in [Docs -> Contents]
  PROVE  Occurrences(d, t) > 0
<1> DEFINE S == {i \in DOMAIN disk[d] : disk[d][i] = t}
<1>1. disk[d] # Absent /\ S # {}
  BY DEF Has
<1>2. IsFiniteSet(DOMAIN disk[d])
  <2>1. DOMAIN disk[d] = 1 .. Len(disk[d]) /\ Len(disk[d]) \in Nat
    BY <1>1 DEF Contents
  <2>2. QED
    BY <2>1, FS_Interval
<1>3. IsFiniteSet(S) /\ S \subseteq DOMAIN disk[d]
  BY <1>2, FS_Subset
<1>4. Cardinality(S) \in Nat /\ Cardinality(S) # 0
  BY <1>1, <1>3, FS_CardinalityType, FS_EmptySet
<1>5. QED
  BY <1>1, <1>4 DEF Occurrences

\* A batch that is alone on the server, asked to be atomic and has its net leaves all
\* of its edits or the documents as they were, and says which: whatever fails, in
\* whatever call, document or write-back, and whatever is edited from outside. What is
\* not so is left out by name: a document it created, in a directory that the listing of
\* its roll-back could not read to the end, stays behind the answer that it was undone.
THEOREM AloneBatchesAreAtomic ==
  ASSUME NEW s, Tasks = {s}
  PROVE  Spec => BatchAtomic
<1> DEFINE Told == \A p \in Tasks :
                     LET c == task[p]
                     IN  Answers(p) /\ c.req.atomic /\ c.net =>
                           /\ c.outcome # "failed"
                           /\ c.outcome = "applied" => \A e \in EditsOf(c.req) : Occurrences(e.doc, e.text) > 0
                           /\ c.outcome = "undone" /\ edits = 0 =>
                                \A d \in c.req.roots \ missed[c.req] : disk[d] = c.snap[d]
<1>1. Init => AloneInv
  BY DEF Init, AloneInv, AloneOK, Early
<1>2. IInv /\ AloneInv /\ [Next]_vars => AloneInv'
  BY AloneInvStays
<1>3. IInv /\ AloneInv => Told
  <2> DEFINE c == task[s]
  <2> SUFFICES ASSUME IInv, AloneInv, pc[s] = "complete", c.req.atomic, c.net
               PROVE  /\ c.outcome # "failed"
                      /\ c.outcome = "applied" => \A e \in EditsOf(c.req) : Occurrences(e.doc, e.text) > 0
                      /\ c.outcome = "undone" /\ edits = 0 =>
                           \A d \in c.req.roots \ missed[c.req] : disk[d] = c.snap[d]
    BY DEF Answers
  <2>1. AloneOK("complete", c, disk, edits, missed) /\ c \in Task /\ disk \in [Docs -> Contents]
    BY InvTypes DEF AloneInv
  <2>2. ASSUME c.outcome = "applied", NEW e \in EditsOf(c.req) PROVE Occurrences(e.doc, e.text) > 0
    <3>1. PICK i \in DOMAIN c.req.calls : e = c.req.calls[i]
      BY DEF EditsOf
    <3>2. c.req.calls \in Seq(Calls)
      BY <2>1, RequestsAssumption DEF Task, RequestType
    <3>3. i <= Len(c.req.calls) /\ e.doc \in Docs
      BY <2>1, <3>1, <3>2, CallNames DEF Task
    <3>4. Has(disk[e.doc], e.text)
      BY <2>1, <2>2, <3>1, <3>3 DEF AloneOK, DoneUpTo
    <3>5. QED
      BY <2>1, <3>3, <3>4, HasIsCounted
  <2>3. QED
    BY <2>1, <2>2 DEF AloneOK
<1>4. IInv /\ AloneInv => [Told]_vars
  BY <1>3
<1>5. QED
  BY <1>1, <1>2, <1>4, InductiveInvariant, PTL DEF Spec, BatchAtomic

-----------------------------------------------------------------------------
(* What has been undone stays undone.  Two requests with one key are the      *)
(* same operation: the documents it edits are among those each captures.      *)

\* The document of call i of request r is none that a roll-back has missed.
Found(r, i) == r.calls[i].doc \notin MissedOf(r.op)

RootsHoldEdits ==
    \A r, q \in Requests : \A i \in DOMAIN r.calls :
        Keyed(r, i) /\ q.op = r.op => r.calls[i].doc \in q.roots

(***************************************************************************)
(* What task c knows at step s of edit i of request r, whose key has entry *)
(* e: that what it would write back does not hold the edit, if that has    *)
(* been undone or belongs to the operation it works on; that it finds no   *)
(* such edit before its calls; and, when it rolls back, that it has left   *)
(* none in the documents it has visited.                                   *)
(***************************************************************************)
UndoneOK(s, c, x, e, r, i) ==
    LET d == r.calls[i].doc
        t == r.calls[i].text
    IN  /\ e = "undone" => Clean(x[d], t) /\ Clean(c.snap[d], t)
        /\ s \in Steps \ {"idle", "base", "claim"} /\ c.req.op = r.op =>
             /\ Clean(c.snap[d], t)
             /\ s \in Early => Clean(x[d], t)
             /\ s = "restore" /\ ~c.torn /\ d \notin c.todo /\ c.snap[d] # Absent => Clean(x[d], t)
             /\ s = "delete" /\ ~c.torn /\ d \notin c.todo => Clean(x[d], t)
             /\ s = "complete" /\ c.outcome = "undone" => Clean(x[d], t)

UndoneInv ==
    \A p \in Tasks, r \in Requests : \A i \in DOMAIN r.calls :
        Keyed(r, i) /\ Found(r, i) => UndoneOK(pc[p], task[p], disk, entries[r.op], r, i)

\* The only task goes on, and every edit is accounted for.
LEMMA GoUndone ==
  ASSUME IInv, NEW p, Tasks = {p}, NEW s, NEW c, Go(p, s, c), UNCHANGED missed,
         \A r \in Requests : \A i \in DOMAIN r.calls : Keyed(r, i) /\ Found(r, i) => UndoneOK(s, c, disk', entries'[r.op], r, i)
  PROVE  UndoneInv'
<1>1. pc'[p] = s /\ task'[p] = c
  BY InvTypes DEF Go
<1>2. QED
  BY <1>1 DEF UndoneInv, Keyed, Found, MissedOf

\* It rests, and no key is newly undone.
LEMMA ReturnUndone ==
  ASSUME IInv, UndoneInv, NEW p, Tasks = {p}, NEW a, Return(p, a), UNCHANGED missed,
         \A r \in Requests : \A i \in DOMAIN r.calls : Keyed(r, i) /\ Found(r, i) /\ entries'[r.op] = "undone" =>
            Clean(disk'[r.calls[i].doc], r.calls[i].text)
  PROVE  UndoneInv'
<1>1. pc'[p] = "idle" /\ task'[p] = Rest
  BY InvTypes DEF Return
<1>2. \A d \in Docs : Rest.snap[d] = Absent
  BY DEF Rest, NewTask
<1> SUFFICES ASSUME NEW r \in Requests, NEW i \in DOMAIN r.calls, Keyed(r, i), Found(r, i)
             PROVE  UndoneOK("idle", Rest, disk', entries'[r.op], r, i)
  BY <1>1 DEF UndoneInv, Keyed, Found, MissedOf
<1>3. r.calls[i].doc \in Docs
  BY CallNames
<1>4. QED
  BY <1>2, <1>3 DEF UndoneOK, Clean, Early

\* A step that leaves documents and captured contents alone, and comes to no
\* roll-back and no answer.
LEMMA QuietUndone ==
  ASSUME IInv, UndoneInv, NEW p, Tasks = {p}, NEW s, NEW c, Go(p, s, c), UNCHANGED <<disk, ledger, missed>>,
         c.req = task[p].req, \A d \in Docs : c.snap[d] \in {task[p].snap[d], Absent},
         s \in {"base", "claim"} \/ Running(p),
         s \in Early \ {"base", "claim"} => pc[p] \in Early,
         s \notin {"restore", "delete"}, s = "complete" => c.outcome # "undone"
  PROVE  UndoneInv'
<1> SUFFICES ASSUME NEW r \in Requests, NEW i \in DOMAIN r.calls, Keyed(r, i), Found(r, i)
             PROVE  UndoneOK(s, c, disk', entries'[r.op], r, i)
  BY GoUndone
<1>1. UndoneOK(pc[p], task[p], disk, entries[r.op], r, i) /\ r.calls[i].doc \in Docs
  BY CallNames DEF UndoneInv
<1>2. disk' = disk /\ entries' = entries
  BY DEF ledger
<1>3. Clean(Absent, r.calls[i].text)
  BY DEF Clean
<1>4. pc[p] \in Steps
  BY InvTypes
<1>5. QED
  BY <1>1, <1>2, <1>3, <1>4 DEF UndoneOK, Running, Early

LEMMA ReceiveUndone ==
  ASSUME IInv, UndoneInv, NEW p, Tasks = {p}, NEW r \in Requests, Receive(p, r),
         UNCHANGED missed
  PROVE  UndoneInv'
<1> DEFINE roots == IF r.based THEN r.roots ELSE {}
           s == IF r.based /\ r.roots # {} THEN "base" ELSE "claim"
           c == [NewTask(r) EXCEPT !.todo = roots]
<1>1. /\ pc' = [pc EXCEPT ![p] = s] /\ task' = [task EXCEPT ![p] = c] /\ s \in {"base", "claim"}
      /\ UNCHANGED <<ledger, disk>>
  BY DEF Receive
<1>2. \A d \in Docs : c.snap[d] = Absent
  BY DEF NewTask
<1> HIDE DEF s, c
<1>3. pc'[p] = s /\ task'[p] = c
  BY <1>1, InvTypes
<1> SUFFICES ASSUME NEW q \in Requests, NEW i \in DOMAIN q.calls, Keyed(q, i), Found(q, i)
             PROVE  UndoneOK(s, c, disk', entries'[q.op], q, i)
  BY <1>3 DEF UndoneInv, Keyed, Found, MissedOf
<1>4. q.calls[i].doc \in Docs /\ UndoneOK(pc[p], task[p], disk, entries[q.op], q, i)
  BY CallNames DEF UndoneInv
<1>5. QED
  BY <1>1, <1>2, <1>4 DEF UndoneOK, Clean, ledger

LEMMA ClaimUndone ==
  ASSUME LabelInv, UndoneInv, NEW p, Tasks = {p}, Claim(p),
         UNCHANGED missed
  PROVE  UndoneInv'
<1> DEFINE id == task[p].req.op
<1>t. IInv /\ Labelled /\ Ledger!EntriesOK /\ pc[p] = "claim" /\ UNCHANGED disk
  BY InvParts DEF LabelInv, IInv, Claim
<1>1. CASE UNCHANGED ledger /\ \E a : Return(p, a)
  BY <1>t, <1>1, ReturnUndone DEF UndoneInv, UndoneOK, ledger
<1>2. ASSUME Go(p, "verify", task[p]),
             \A k \in Ids : entries'[k] = "undone" => entries[k] = "undone",
             id \in Ids => entries[id] = Unknown
      PROVE  UndoneInv'
  <2> SUFFICES ASSUME NEW r \in Requests, NEW i \in DOMAIN r.calls, Keyed(r, i), Found(r, i)
               PROVE  UndoneOK("verify", task[p], disk', entries'[r.op], r, i)
    BY <1>t, <1>2, GoUndone
  <2> DEFINE d == r.calls[i].doc
             t == r.calls[i].text
  <2>1. r.op \in Ids /\ UndoneOK("claim", task[p], disk, entries[r.op], r, i)
    BY <1>t, CallNames DEF UndoneInv
  <2>2. entries'[r.op] = "undone" => Clean(disk[d], t) /\ Clean(task[p].snap[d], t)
    BY <1>2, <2>1 DEF UndoneOK
  <2>3. ASSUME id = r.op PROVE Clean(disk[d], t) /\ Clean(task[p].snap[d], t)
    BY <1>t, <1>2, <2>1, <2>3 DEF ToCome, Labelled, Kept
  <2>4. QED
    BY <1>t, <2>2, <2>3 DEF UndoneOK, Early
<1>3. CASE id = NoId /\ Go(p, "verify", task[p]) /\ UNCHANGED ledger
  BY <1>2, <1>3, NoIdAssumption DEF ledger
<1>4. CASE id \in Ids /\ Ledger!ClaimFresh(id) /\ Go(p, "verify", task[p])
  <2>1. /\ entries[id] = Unknown /\ entries'[id] = InFlight
        /\ \A k \in Ids \ {id} : entries'[k] \in {entries[k], Unknown}
    BY <1>4, <1>t, ClaimFreshKeeps
  <2>2. \A k \in Ids : entries'[k] = "undone" => entries[k] = "undone"
    BY <2>1, EntriesAssumption DEF Outcomes
  <2>3. QED
    BY <1>2, <1>4, <2>1, <2>2
<1>5. QED
  BY <1>1, <1>3, <1>4 DEF Claim

\* Capturing copies documents that hold no edit of the operation yet.
LEMMA BeforeUndone ==
  ASSUME IInv, UndoneInv, NEW p, Tasks = {p},
         \/ ParseVerify(p) \/ Scan(p) \/ CaptureFails(p)
         \/ \E d \in Docs : CheckBase(p, d) \/ Capture(p, d),
         UNCHANGED missed
  PROVE  UndoneInv'
<1> DEFINE c == task[p]
           new == NewTask(c.req)
<1>t. /\ c \in Task /\ c.req \in RequestType /\ disk \in [Docs -> Contents] /\ Ledger!EntriesOK
      /\ new.req = c.req /\ (\A d \in Docs : new.snap[d] = Absent) /\ new.snap \in [Docs -> Contents]
      /\ c.todo \subseteq Docs /\ UNCHANGED disk
  BY InvTypes, RequestsAssumption
  DEF IInv, NewTask, Task, Contents, Claim, ParseVerify, Scan, CaptureFails, CheckBase, Capture
<1>u. \A r \in Requests : \A i \in DOMAIN r.calls : Keyed(r, i) /\ Found(r, i) /\ entries[r.op] = "undone" =>
         Clean(disk[r.calls[i].doc], r.calls[i].text)
  BY DEF UndoneInv, UndoneOK
<1>1. CASE ParseVerify(p)
  <2>1. pc[p] = "verify" /\ Running(p)
    BY <1>1 DEF ParseVerify, Running, Steps
  <2>2. CASE UNCHANGED ledger /\ \E s \in {"scan", "call"} : Go(p, s, task[p])
    BY <1>t, <2>1, <2>2, QuietUndone DEF Early
  <2>3. CASE Return(p, "invalid") /\ UNCHANGED ledger
    BY <1>t, <1>u, <2>3, ReturnUndone DEF ledger
  <2>4. CASE Return(p, "invalid") /\ c.req.op # NoId /\ Ledger!Abandon(c.req.op)
    <3>1. \A k \in Ids : entries'[k] = "undone" => entries[k] = "undone"
      BY <1>t, <2>4, EntriesAssumption DEF Ledger!Abandon, Ledger!EntriesOK, Outcomes
    <3>2. QED
      BY <1>t, <1>u, <2>4, <3>1, ReturnUndone, CallNames
  <2>5. QED
    BY <1>1, <2>2, <2>3, <2>4 DEF ParseVerify
<1>2. CASE Scan(p)
  <2> DEFINE found == {d \in c.req.roots : disk[d] # Absent}
             bare == [c EXCEPT !.net = TRUE]
             full == [c EXCEPT !.todo = found]
  <2>1. found \in SUBSET Docs
    BY <1>t DEF RequestType
  <2>2. (Go(p, "call", bare) \/ Go(p, "capture", full)) /\ pc[p] = "scan" /\ Running(p) /\ UNCHANGED ledger
    BY <1>2 DEF Scan, Running, Steps
  <2> HIDE DEF found
  <2>3. bare.req = c.req /\ bare.snap = c.snap /\ full.req = c.req /\ full.snap = c.snap
    BY <1>t, <2>1 DEF Task
  <2> HIDE DEF bare, full
  <2>4. QED
    BY <1>t, <2>2, <2>3, QuietUndone DEF Early
<1>3. CASE CaptureFails(p)
  <2>1. Go(p, "call", new) /\ pc[p] \in Early /\ Running(p) /\ UNCHANGED ledger
    BY <1>3 DEF CaptureFails, Early, Running, Steps
  <2> HIDE DEF new
  <2>2. QED
    BY <1>t, <2>1, QuietUndone DEF Early
<1>4. ASSUME NEW b \in Docs, Capture(p, b) PROVE UndoneInv'
  <2> DEFINE none == new.snap
             bare == [c EXCEPT !.todo = {}, !.snap = none]
             n == c.todo = {b}
             copy == [c.snap EXCEPT ![b] = disk[b]]
             rest == c.todo \ {b}
             full == [c EXCEPT !.snap = copy, !.net = n]
             next == [full EXCEPT !.todo = rest]
  <2>1. copy \in [Docs -> Contents] /\ n \in BOOLEAN /\ rest \in SUBSET Docs
    BY <1>t DEF Task
  <2>2. \A d \in Docs : copy[d] \in {c.snap[d], disk[d]}
    BY <1>t DEF Task
  <2>3. /\ pc[p] = "capture" /\ Running(p) /\ UNCHANGED ledger
        /\ \/ Go(p, "call", bare)
           \/ Go(p, IF full.todo \ {b} = {} THEN "call" ELSE "capture", [full EXCEPT !.todo = full.todo \ {b}])
    BY <1>4 DEF Capture, Visit, Running, Steps
  <2> HIDE DEF none, n, copy, rest
  <2>4. /\ bare.req = c.req /\ bare.snap = none
        /\ full \in Task /\ full.req = c.req /\ full.snap = copy /\ full.todo = c.todo
    BY <1>t, <2>1 DEF Task, none
  <2> HIDE DEF bare, full
  <2>5. next.req = c.req /\ next.snap = copy
    BY <2>1, <2>4, TodoOnly
  <2>6. Go(p, "call", bare) \/ \E s \in {"call", "capture"} : Go(p, s, next)
    BY <2>3, <2>4 DEF rest
  <2> HIDE DEF next
  <2>7. CASE Go(p, "call", bare)
    BY <1>t, <2>3, <2>4, <2>7, QuietUndone DEF none, Early
  <2>8. ASSUME NEW s \in {"call", "capture"}, Go(p, s, next) PROVE UndoneInv'
    <3> SUFFICES ASSUME NEW r \in Requests, NEW i \in DOMAIN r.calls, Keyed(r, i), Found(r, i)
                 PROVE  UndoneOK(s, next, disk', entries'[r.op], r, i)
      BY <2>8, GoUndone
    <3> DEFINE d == r.calls[i].doc
               t == r.calls[i].text
    <3>1. d \in Docs /\ UndoneOK("capture", c, disk, entries[r.op], r, i) /\ entries' = entries
      BY <2>3, CallNames DEF UndoneInv, ledger
    <3>2. entries[r.op] = "undone" \/ c.req.op = r.op => Clean(disk[d], t) /\ Clean(c.snap[d], t)
      BY <3>1 DEF UndoneOK, Early, Steps
    <3>3. entries[r.op] = "undone" \/ c.req.op = r.op => Clean(disk[d], t) /\ Clean(next.snap[d], t)
      BY <2>2, <2>5, <3>1, <3>2
    <3>4. QED
      BY <1>t, <2>5, <2>8, <3>1, <3>3 DEF UndoneOK
  <2>9. QED
    BY <2>6, <2>7, <2>8
<1>5. ASSUME NEW d \in Docs, CheckBase(p, d) PROVE UndoneInv'
  <2> DEFINE rest == c.todo \ {d}
             next == [c EXCEPT !.todo = rest]
  <2>1. next.req = c.req /\ next.snap = c.snap
    BY <1>t, TodoOnly
  <2>2. UNCHANGED ledger /\ (Go(p, "base", next) \/ Go(p, "claim", next) \/ Return(p, "stale"))
    BY <1>5 DEF CheckBase, Visit
  <2> HIDE DEF next
  <2>3. QED
    BY <1>t, <1>u, <2>1, <2>2, QuietUndone, ReturnUndone DEF ledger
<1>6. QED
  BY <1>1, <1>2, <1>3, <1>4, <1>5

\* A call writes no text of an operation that has been undone: its own key is in flight.
LEMMA CallsUndone ==
  ASSUME TextsLabelEdits, IInv, AloneInv, UndoneInv, NEW p, Tasks = {p},
         RefuseCall(p) \/ ReadDocument(p) \/ WriteDocument(p) \/ HandlerFails(p),
         UNCHANGED missed
  PROVE  UndoneInv'
<1> DEFINE c == task[p]
           b == CallAt(p).doc
           u == CallAt(p).text
<1>t. /\ c \in Task /\ c.req \in Requests /\ disk \in [Docs -> Contents] /\ AloneOK(pc[p], c, disk, edits, missed)
      /\ pc[p] \in {"call", "write"} /\ Running(p) /\ CallAt(p) = c.req.calls[c.at] /\ UNCHANGED ledger
  BY InvTypes DEF AloneInv, RefuseCall, ReadDocument, WriteDocument, HandlerFails, CallsOver, CallAt, Running, Steps
<1>1. ASSUME NEW ok \in BOOLEAN, CallDone(p, ok)
      PROVE  \E next : Go(p, "call", next) /\ next.req = c.req /\ next.snap = c.snap
  <2> DEFINE f == c.failed \/ ~ok
             n == c.at + 1
             next == [c EXCEPT !.at = n, !.seen = Absent, !.failed = f]
  <2>1. Go(p, "call", next)
    BY <1>1 DEF CallDone
  <2> HIDE DEF f, n
  <2>2. next.req = c.req /\ next.snap = c.snap
    BY <1>t DEF Task
  <2>3. QED
    BY <2>1, <2>2
<1>2. CASE CallDone(p, FALSE) /\ UNCHANGED disk
  BY <1>t, <1>1, <1>2, QuietUndone DEF Early
<1>3. ASSUME Go(p, "write", [c EXCEPT !.seen = disk[b]]), UNCHANGED disk
      PROVE  UndoneInv'
  <2> DEFINE x == disk[b]
             next == [c EXCEPT !.seen = x]
  <2>1. next.req = c.req /\ next.snap = c.snap
    BY <1>t DEF Task
  <2>2. Go(p, "write", next)
    BY <1>3
  <2> HIDE DEF x, next
  <2>3. \A d \in Docs : next.snap[d] \in {c.snap[d], Absent}
    BY <2>1
  <2>4. UNCHANGED <<disk, ledger>> /\ Running(p)
    BY <1>t, <1>3
  <2>5. QED
    BY <2>1, <2>2, <2>3, <2>4, QuietUndone DEF Early
<1>4. ASSUME CallDone(p, TRUE), pc[p] = "write",
             disk' = [disk EXCEPT ![b] = IF @ = Absent THEN <<u>> ELSE Append(@, u)]
      PROVE  UndoneInv'
  <2>1. c.at \in DOMAIN c.req.calls /\ CallAt(p).kind # "refused"
    <3>1. c.req.calls \in Seq(Calls) /\ c.at \in Nat \ {0}
      BY <1>t, RequestsAssumption DEF Task, RequestType
    <3>2. c.at <= Len(c.req.calls)
      BY <1>4 DEF IInv, WritesForACall
    <3>3. CallAt(p).kind # "refused"
      BY <1>t, <1>4 DEF AloneOK
    <3>4. QED
      BY <3>1, <3>2, <3>3
  <2>2. b \in Docs /\ u \in Texts /\ disk[b] \in Contents
    BY <1>t, <2>1, CallNames
  <2>3. disk' = [disk EXCEPT ![b] = Appended(disk[b], u)]
    BY <1>4 DEF Appended
  <2>4. PICK next : Go(p, "call", next) /\ next.req = c.req /\ next.snap = c.snap
    BY <1>1, <1>4
  <2> SUFFICES ASSUME NEW r \in Requests, NEW i \in DOMAIN r.calls, Keyed(r, i), Found(r, i)
               PROVE  UndoneOK("call", next, disk', entries'[r.op], r, i)
    BY <2>4, GoUndone
  <2> DEFINE d == r.calls[i].doc
             t == r.calls[i].text
  <2>5. d \in Docs /\ r.op \in Ids /\ UndoneOK("write", c, disk, entries[r.op], r, i) /\ entries' = entries
    BY <1>t, <1>4, CallNames DEF UndoneInv, ledger
  <2>6. c.req.op = r.op => Clean(next.snap[d], t)
    BY <2>4, <2>5 DEF UndoneOK, Steps
  <2>7. ASSUME entries[r.op] = "undone" PROVE Clean(disk'[d], t) /\ Clean(next.snap[d], t)
    <3>1. Clean(disk[d], t) /\ Clean(next.snap[d], t)
      BY <2>4, <2>5, <2>7 DEF UndoneOK
    <3>2. ~Runs(p, r.op)
      BY <2>5, <2>7, EntriesAssumption DEF IInv, OneRunPerKey, Outcomes
    <3>3. ~(d = b /\ t = u)
      BY <1>t, <2>1, <3>2 DEF TextsLabelEdits, Runs
    <3>4. CASE d = b
      BY <2>2, <2>3, <3>1, <3>3, <3>4, AppendOther
    <3>5. CASE d # b
      BY <1>t, <2>3, <2>5, <3>1, <3>5
    <3>6. QED
      BY <3>1, <3>4, <3>5
  <2>8. QED
    BY <2>4, <2>5, <2>6, <2>7 DEF UndoneOK, Early
<1>5. QED
  BY <1>2, <1>3, <1>4 DEF RefuseCall, ReadDocument, WriteDocument, HandlerFails

\* A roll-back starts with every captured document to visit; any other end does not
\* call the batch undone.
LEMMA FinishUndone ==
  ASSUME IInv, AloneInv, UndoneInv, NEW p, Tasks = {p}, Finish(p) \/ ChangesOverlooked(p) \/ Validated(p),
         UNCHANGED missed
  PROVE  UndoneInv'
<1> DEFINE c == task[p]
           back == {d \in Docs : c.snap[d] # Absent}
           o == IF c.failed THEN "failed" ELSE "applied"
           undone == [c EXCEPT !.todo = back]
           kept == [c EXCEPT !.outcome = o]
<1>t. /\ c \in Task /\ AloneOK(pc[p], c, disk, edits, missed) /\ UNCHANGED <<disk, ledger>>
      /\ pc[p] \in {"call", "validate"} /\ Running(p)
  BY InvTypes DEF AloneInv, Finish, ChangesOverlooked, Validated, CallsOver, Running, Steps
<1>1. CASE Finish(p) \/ ChangesOverlooked(p)
  <2>1. Go(p, "restore", undone) \/ \E s \in {"validate", "complete"} : Go(p, s, kept)
    BY <1>1 DEF Finish, ChangesOverlooked
  <2>2. back \in SUBSET Docs /\ o \in Outcomes /\ o # "undone"
    BY DEF Outcomes
  <2>3. \A d \in Docs : c.snap[d] # Absent => d \in back
    OBVIOUS
  <2> HIDE DEF back, o
  <2>4. /\ undone.todo = back /\ undone.snap = c.snap /\ undone.req = c.req
        /\ kept.outcome = o /\ kept.req = c.req /\ kept.snap = c.snap
    BY <1>t, <2>2 DEF Task
  <2> HIDE DEF undone, kept
  <2>5. CASE Go(p, "restore", undone)
    <3> SUFFICES ASSUME NEW r \in Requests, NEW i \in DOMAIN r.calls, Keyed(r, i), Found(r, i)
                 PROVE  UndoneOK("restore", undone, disk', entries'[r.op], r, i)
      BY <2>5, GoUndone
    <3>1. UndoneOK(pc[p], c, disk, entries[r.op], r, i) /\ r.calls[i].doc \in Docs /\ entries' = entries
      BY <1>t, CallNames DEF UndoneInv, ledger
    <3>2. QED
      BY <1>t, <2>3, <2>4, <3>1 DEF UndoneOK, Early, Steps
  <2>6. ASSUME NEW s \in {"validate", "complete"}, Go(p, s, kept) PROVE UndoneInv'
    BY <1>t, <2>2, <2>4, <2>6, QuietUndone DEF Early
  <2>7. QED
    BY <2>1, <2>5, <2>6
<1>2. CASE Validated(p)
  <2>1. c.outcome # "undone" /\ Go(p, "complete", c)
    BY <1>t, <1>2 DEF Validated, AloneOK
  <2>2. QED
    BY <1>t, <2>1, QuietUndone DEF Early
<1>3. QED
  BY <1>1, <1>2

\* What is written back holds no edit of the operation, and none of one undone.
LEMMA RestoreUndone ==
  ASSUME IInv, UndoneInv, NEW p, Tasks = {p}, NEW b \in Docs, RestoreDocument(p, b),
         UNCHANGED missed
  PROVE  UndoneInv'
<1> DEFINE c == task[p]
           rest == c.todo \ {b}
           hurt == [c EXCEPT !.torn = TRUE]
           next == [c EXCEPT !.todo = rest]
           bad == [hurt EXCEPT !.todo = rest]
<1>t. /\ c \in Task /\ disk \in [Docs -> Contents] /\ rest \in SUBSET Docs /\ pc[p] = "restore"
      /\ entries' = entries
  BY InvTypes DEF RestoreDocument, Task, ledger
<1>1. hurt \in Task /\ hurt.todo = c.todo /\ hurt.snap = c.snap /\ hurt.req = c.req /\ hurt.torn
  BY <1>t DEF Task
<1>2. next.todo = rest /\ next.snap = c.snap /\ next.torn = c.torn /\ next.req = c.req
  BY <1>t, TodoOnly
<1>3. bad.torn /\ bad.todo = rest /\ bad.snap = c.snap /\ bad.req = c.req
  <2> HIDE DEF hurt
  <2>1. QED
    BY <1>t, <1>1, TodoOnly
<1>4. CASE disk' = [disk EXCEPT ![b] = c.snap[b]] /\ Visit(p, b, c, "restore", "restore")
  <2>1. Go(p, "restore", next)
    BY <1>4 DEF Visit
  <2> HIDE DEF next
  <2> SUFFICES ASSUME NEW r \in Requests, NEW i \in DOMAIN r.calls, Keyed(r, i), Found(r, i)
               PROVE  UndoneOK("restore", next, disk', entries'[r.op], r, i)
    BY <2>1, GoUndone
  <2> DEFINE d == r.calls[i].doc
             t == r.calls[i].text
  <2>2. d \in Docs /\ UndoneOK("restore", c, disk, entries[r.op], r, i)
    BY <1>t, CallNames DEF UndoneInv
  <2>3. disk'[d] = IF d = b THEN c.snap[d] ELSE disk[d]
    BY <1>t, <1>4, <2>2
  <2>4. d # b => (d \notin rest => d \notin c.todo)
    OBVIOUS
  <2> HIDE DEF rest
  <2>5. QED
    BY <1>t, <1>2, <2>2, <2>3, <2>4 DEF UndoneOK, Early, Steps
<1>5. CASE Visit(p, b, hurt, "restore", "restore") /\ UNCHANGED disk
  <2>1. Go(p, "restore", bad)
    BY <1>1, <1>5 DEF Visit
  <2> HIDE DEF bad
  <2> SUFFICES ASSUME NEW r \in Requests, NEW i \in DOMAIN r.calls, Keyed(r, i), Found(r, i)
               PROVE  UndoneOK("restore", bad, disk', entries'[r.op], r, i)
    BY <2>1, GoUndone
  <2>2. UndoneOK("restore", c, disk, entries[r.op], r, i)
    BY <1>t DEF UndoneInv
  <2>3. QED
    BY <1>t, <1>3, <1>5, <2>2 DEF UndoneOK, Early, Steps
<1>6. QED
  BY <1>4, <1>5 DEF RestoreDocument

\* What was not captured and is there now is still to be removed.
LEMMA RescanUndone ==
  ASSUME RootsHoldEdits, IInv, UndoneInv, NEW p, Tasks = {p}, Rescan(p),
         UNCHANGED missed
  PROVE  UndoneInv'
<1> DEFINE c == task[p]
           new == {d \in c.req.roots : disk[d] # Absent /\ c.snap[d] = Absent}
           next == [c EXCEPT !.todo = new]
<1>t. /\ c \in Task /\ c.req \in Requests /\ c.req \in RequestType /\ pc[p] = "restore" /\ c.todo = {}
      /\ UNCHANGED <<disk, ledger>> /\ Go(p, "delete", next)
  BY InvTypes, RequestsAssumption DEF Rescan, Created
<1>1. new \in SUBSET Docs
  BY <1>t DEF RequestType
<1>2. next.todo = new /\ next.snap = c.snap /\ next.torn = c.torn /\ next.req = c.req
  BY <1>t, <1>1, TodoOnly
<1> HIDE DEF next
<1> SUFFICES ASSUME NEW r \in Requests, NEW i \in DOMAIN r.calls, Keyed(r, i), Found(r, i)
             PROVE  UndoneOK("delete", next, disk', entries'[r.op], r, i)
  BY <1>t, GoUndone
<1> DEFINE d == r.calls[i].doc
           t == r.calls[i].text
<1>3. UndoneOK("restore", c, disk, entries[r.op], r, i) /\ entries' = entries
  BY <1>t DEF UndoneInv, ledger
<1>4. c.req.op = r.op => d \in c.req.roots
  BY <1>t DEF RootsHoldEdits
<1>5. c.req.op = r.op /\ ~c.torn /\ d \notin new => Clean(disk[d], t)
  BY <1>t, <1>3, <1>4 DEF UndoneOK, Clean, Steps
<1> HIDE DEF new
<1>6. QED
  BY <1>t, <1>2, <1>3, <1>5 DEF UndoneOK, Early, Steps

\* ... unless the listing was cut short, and then it is missed from now on.
LEMMA CutShortUndone ==
  ASSUME RootsHoldEdits, IInv, UndoneInv, NEW p, Tasks = {p}, RescanCutShort(p)
  PROVE  UndoneInv'
<1> DEFINE c == task[p]
<1>t. /\ c \in Task /\ c.req \in Requests /\ c.req \in RequestType /\ pc[p] = "restore" /\ c.todo = {}
      /\ UNCHANGED <<disk, ledger>> /\ missed \in [Requests -> SUBSET Docs]
  BY InvTypes, RequestsAssumption DEF RescanCutShort, IInv, TasksOK
<1>1. PICK part \in SUBSET Created(c) :
        /\ Go(p, "delete", [c EXCEPT !.todo = part])
        /\ missed' = [missed EXCEPT ![c.req] = @ \cup (Created(c) \ part)]
  BY DEF RescanCutShort
<1>2. Created(c) \subseteq Docs
  BY <1>t DEF RequestType, Created
<1> DEFINE next == [c EXCEPT !.todo = part]
<1>3. next.todo = part /\ next.snap = c.snap /\ next.torn = c.torn /\ next.req = c.req
  BY <1>t, <1>1, <1>2, TodoOnly
<1>4. pc'[p] = "delete" /\ task'[p] = next
  BY <1>1, InvTypes DEF Go
<1> HIDE DEF next
<1> SUFFICES ASSUME NEW r \in Requests, NEW i \in DOMAIN r.calls, Keyed(r, i), Found(r, i)'
             PROVE  UndoneOK("delete", next, disk', entries'[r.op], r, i)
  BY <1>4 DEF UndoneInv, Keyed, Found
<1> DEFINE d == r.calls[i].doc
           t == r.calls[i].text
<1>5. MissedOf(r.op) \subseteq MissedOf(r.op)'
  <2>1. \A q \in Requests : missed[q] \subseteq missed'[q]
    BY <1>t, <1>1
  <2> QED
    BY <2>1 DEF MissedOf
<1>6. UndoneOK("restore", c, disk, entries[r.op], r, i) /\ entries' = entries
  BY <1>t, <1>5 DEF UndoneInv, Found, ledger
<1>7. c.req.op = r.op => d \in c.req.roots /\ d \notin Created(c) \ part
  <2>1. Created(c) \ part \subseteq missed'[c.req]
    BY <1>t, <1>1
  <2> QED
    BY <1>t, <2>1 DEF RootsHoldEdits, Found, MissedOf
<1>8. c.req.op = r.op /\ ~c.torn /\ d \notin part => Clean(disk[d], t)
  BY <1>t, <1>6, <1>7 DEF UndoneOK, Clean, Created, Steps
<1>9. QED
  BY <1>t, <1>3, <1>6, <1>8 DEF UndoneOK, Early, Steps

LEMMA DeleteUndone ==
  ASSUME IInv, UndoneInv, NEW p, Tasks = {p}, NEW b \in Docs, DeleteDocument(p, b),
         UNCHANGED missed
  PROVE  UndoneInv'
<1> DEFINE c == task[p]
           rest == c.todo \ {b}
           hurt == [c EXCEPT !.torn = TRUE]
           next == [c EXCEPT !.todo = rest]
           bad == [hurt EXCEPT !.todo = rest]
<1>t. /\ c \in Task /\ disk \in [Docs -> Contents] /\ rest \in SUBSET Docs /\ pc[p] = "delete"
      /\ entries' = entries
  BY InvTypes DEF DeleteDocument, Task, ledger
<1>1. hurt \in Task /\ hurt.todo = c.todo /\ hurt.snap = c.snap /\ hurt.req = c.req /\ hurt.torn
  BY <1>t DEF Task
<1>2. next.todo = rest /\ next.snap = c.snap /\ next.torn = c.torn /\ next.req = c.req
  BY <1>t, TodoOnly
<1>3. bad.torn /\ bad.todo = rest /\ bad.snap = c.snap /\ bad.req = c.req
  <2> HIDE DEF hurt
  <2>1. QED
    BY <1>t, <1>1, TodoOnly
<1>4. CASE disk' = [disk EXCEPT ![b] = Absent] /\ Visit(p, b, c, "delete", "delete")
  <2>1. Go(p, "delete", next)
    BY <1>4 DEF Visit
  <2> HIDE DEF next
  <2> SUFFICES ASSUME NEW r \in Requests, NEW i \in DOMAIN r.calls, Keyed(r, i), Found(r, i)
               PROVE  UndoneOK("delete", next, disk', entries'[r.op], r, i)
    BY <2>1, GoUndone
  <2> DEFINE d == r.calls[i].doc
             t == r.calls[i].text
  <2>2. d \in Docs /\ UndoneOK("delete", c, disk, entries[r.op], r, i)
    BY <1>t, CallNames DEF UndoneInv
  <2>3. d # b => disk'[d] = disk[d] /\ (d \notin rest => d \notin c.todo)
    BY <1>t, <1>4, <2>2
  <2>4. d = b => Clean(disk'[d], t)
    BY <1>t, <1>4 DEF Clean
  <2> HIDE DEF rest
  <2>5. QED
    BY <1>t, <1>2, <2>2, <2>3, <2>4 DEF UndoneOK, Early, Steps
<1>5. CASE Visit(p, b, hurt, "delete", "delete") /\ UNCHANGED disk
  <2>1. Go(p, "delete", bad)
    BY <1>1, <1>5 DEF Visit
  <2> HIDE DEF bad
  <2> SUFFICES ASSUME NEW r \in Requests, NEW i \in DOMAIN r.calls, Keyed(r, i), Found(r, i)
               PROVE  UndoneOK("delete", bad, disk', entries'[r.op], r, i)
    BY <2>1, GoUndone
  <2>2. UndoneOK("delete", c, disk, entries[r.op], r, i)
    BY <1>t DEF UndoneInv
  <2>3. QED
    BY <1>t, <1>3, <1>5, <2>2 DEF UndoneOK, Early, Steps
<1>6. QED
  BY <1>4, <1>5 DEF DeleteDocument

\* A batch calls itself undone when it is not torn and has nothing left to remove.
LEMMA RolledBackUndone ==
  ASSUME IInv, UndoneInv, NEW p, Tasks = {p}, RolledBack(p),
         UNCHANGED missed
  PROVE  UndoneInv'
<1> DEFINE c == task[p]
           o == IF c.torn THEN "partial" ELSE "undone"
           next == [c EXCEPT !.outcome = o]
<1>t. /\ c \in Task /\ pc[p] = "delete" /\ c.todo = {} /\ UNCHANGED <<disk, ledger>> /\ Go(p, "complete", next)
  BY InvTypes DEF RolledBack
<1>1. o \in Outcomes /\ (o = "undone" => ~c.torn)
  BY DEF Outcomes
<1> HIDE DEF o
<1>2. next.outcome = o /\ next.snap = c.snap /\ next.req = c.req
  BY <1>t, <1>1 DEF Task
<1> HIDE DEF next
<1> SUFFICES ASSUME NEW r \in Requests, NEW i \in DOMAIN r.calls, Keyed(r, i), Found(r, i)
             PROVE  UndoneOK("complete", next, disk', entries'[r.op], r, i)
  BY <1>t, GoUndone
<1>3. UndoneOK("delete", c, disk, entries[r.op], r, i) /\ entries' = entries
  BY <1>t DEF UndoneInv, ledger
<1>4. QED
  BY <1>t, <1>1, <1>2, <1>3 DEF UndoneOK, Early, Steps

\* It says so only then, and a batch that is dropped leaves its key in flight.
LEMMA AnswerUndone ==
  ASSUME IInv, UndoneInv, NEW p, Tasks = {p}, CompleteBatch(p) \/ Drop(p),
         UNCHANGED missed
  PROVE  UndoneInv'
<1> DEFINE c == task[p]
<1>t. c \in Task /\ c.req \in RequestType /\ Ledger!EntriesOK /\ UNCHANGED disk
  BY InvTypes, RequestsAssumption DEF IInv, CompleteBatch, Drop
<1>1. PICK a : Return(p, a)
  BY DEF CompleteBatch, Drop
<1> SUFFICES ASSUME NEW r \in Requests, NEW i \in DOMAIN r.calls, Keyed(r, i), Found(r, i), entries'[r.op] = "undone"
             PROVE  Clean(disk[r.calls[i].doc], r.calls[i].text)
  BY <1>t, <1>1, ReturnUndone
<1>2. r.op \in Ids /\ UndoneOK(pc[p], c, disk, entries[r.op], r, i)
  BY CallNames DEF UndoneInv
<1>3. CASE entries[r.op] = "undone"
  BY <1>2, <1>3 DEF UndoneOK
<1>4. CASE entries[r.op] # "undone"
  <2>1. pc[p] = "complete" /\ c.req.op # NoId /\ Ledger!Complete(c.req.op, c.outcome)
    BY <1>4 DEF CompleteBatch, Drop, ledger
  <2>2. c.req.op \in Ids /\ c.outcome \in Outcomes
    BY <1>t, <2>1 DEF Task, RequestType
  <2>3. r.op = c.req.op
    BY <1>t, <1>2, <1>4, <2>1, <2>2, CompleteKeeps
  <2>4. c.outcome = "undone"
    BY <1>t, <1>2, <2>1, <2>3, EntriesAssumption DEF Ledger!Complete, Ledger!EntriesOK, Outcomes
  <2>5. QED
    BY <1>2, <2>1, <2>3, <2>4 DEF UndoneOK, Steps
<1>5. QED
  BY <1>3, <1>4

LEMMA ForeignUndone ==
  ASSUME IInv, UndoneInv, NEW p, Tasks = {p}, NEW b \in Docs, ForeignEdit(b),
         UNCHANGED missed
  PROVE  UndoneInv'
<1>t. disk \in [Docs -> Contents] /\ UNCHANGED <<pc, task>> /\ entries' = entries
  BY InvTypes DEF ForeignEdit, ledger
<1>1. disk' = [disk EXCEPT ![b] = Appended(disk[b], Foreign)]
  BY DEF ForeignEdit, Appended
<1> SUFFICES ASSUME NEW r \in Requests, NEW i \in DOMAIN r.calls, Keyed(r, i), Found(r, i)
             PROVE  UndoneOK(pc[p], task[p], disk', entries[r.op], r, i)
  BY <1>t DEF UndoneInv, Keyed, Found, MissedOf
<1> DEFINE d == r.calls[i].doc
           t == r.calls[i].text
<1>2. d \in Docs /\ t # Foreign /\ UndoneOK(pc[p], task[p], disk, entries[r.op], r, i)
  BY CallNames, ForeignAssumption DEF UndoneInv
<1>3. Clean(disk[d], t) => Clean(disk'[d], t)
  BY <1>t, <1>1, <1>2, AppendOther
<1>4. QED
  BY <1>2, <1>3 DEF UndoneOK

\* Only a listing that is cut short misses anything.
LEMMA MissedKept ==
  ASSUME NEW p,
         \/ Work(p) \/ CaptureFails(p) \/ HandlerFails(p) \/ Drop(p) \/ ChangesOverlooked(p)
  PROVE  UNCHANGED missed
  BY DEF Work, Claim, ParseVerify, Scan, RefuseCall, ReadDocument, WriteDocument, Finish, Rescan, RolledBack,
         Validated, CompleteBatch, CheckBase, Capture, RestoreDocument, DeleteDocument, CaptureFails,
         HandlerFails, Drop, ChangesOverlooked, bounds

LEMMA UndoneInvStays ==
  ASSUME TextsLabelEdits, RootsHoldEdits, NEW p, Tasks = {p}, LabelInv, AloneInv, UndoneInv, [Next]_vars
  PROVE  UndoneInv'
<1>t. IInv
  BY DEF LabelInv
<1>1. CASE UNCHANGED <<disk, pc, task, entries, missed>>
  BY <1>1 DEF UndoneInv, UndoneOK, Keyed, Found, MissedOf
<1>2. ASSUME NEW r \in Requests, Receive(p, r) PROVE UndoneInv'
  BY <1>t, <1>2, ReceiveUndone DEF Receive
<1>3. ASSUME NEW d \in Docs, ForeignEdit(d) PROVE UndoneInv'
  BY <1>t, <1>3, ForeignUndone DEF ForeignEdit
<1>4. CASE CompleteBatch(p) \/ Drop(p)
  BY <1>t, <1>4, MissedKept, AnswerUndone DEF Work
<1>5. CASE Work(p) /\ ~CompleteBatch(p)
  BY <1>t, <1>5, MissedKept, ClaimUndone, BeforeUndone, CallsUndone, FinishUndone, RestoreUndone, RescanUndone,
     DeleteUndone, RolledBackUndone DEF Work
<1>6. CASE CaptureFails(p) \/ HandlerFails(p) \/ ChangesOverlooked(p)
  BY <1>t, <1>6, MissedKept, BeforeUndone, CallsUndone, FinishUndone
<1>9. CASE RescanCutShort(p)
  BY <1>t, <1>9, CutShortUndone
<1>7. \A r : Compile(r) => UNCHANGED <<disk, pc, task, entries, missed>>
  BY DEF Compile, ledger, bounds
<1>8. QED
  BY <1>1, <1>2, <1>3, <1>4, <1>5, <1>6, <1>7, <1>9 DEF Next, vars, bounds

LEMMA CleanIsCounted ==
  ASSUME NEW d \in Docs, NEW t, Clean(disk[d], t)
  PROVE  Occurrences(d, t) = 0
<1>1. CASE disk[d] = Absent
  BY <1>1 DEF Occurrences
<1>2. CASE disk[d] # Absent
  <2>1. {i \in DOMAIN disk[d] : disk[d][i] = t} = {}
    BY <1>2 DEF Clean
  <2>2. QED
    BY <1>2, <2>1, FS_EmptySet DEF Occurrences
<1>3. QED
  BY <1>1, <1>2

\* Once a batch that was alone on the server has answered that it was undone, none of
\* its edits is in a document: no later request, retry, write-back or edit from outside
\* brings one back, but for the documents that the listing of a roll-back did not come
\* to. It takes that edits can be told apart, that the server remembers its answers, and
\* that a request captures what the operation of its key edits.
THEOREM UndoneIsGone ==
  ASSUME NEW s, Tasks = {s}, TextsLabelEdits, RootsHoldEdits
  PROVE  Spec /\ NeverForgets => []UndoneStaysUndone
<1> DEFINE Remembers == \A id \in Ids : entries[id] \in Outcomes => entries'[id] # Unknown
<1>1. Init => AloneInv /\ UndoneInv
  <2> SUFFICES ASSUME Init PROVE AloneInv /\ UndoneInv
    OBVIOUS
  <2>1. AloneInv
    BY DEF Init, AloneInv, AloneOK, Early
  <2> SUFFICES ASSUME NEW r \in Requests, NEW i \in DOMAIN r.calls, Keyed(r, i), Found(r, i)
               PROVE  UndoneOK("idle", Rest, disk, entries[r.op], r, i)
    BY <2>1 DEF Init, UndoneInv
  <2>2. r.op \in Ids /\ entries[r.op] = Unknown
    BY CallNames DEF Init, Ledger!LedgerInit
  <2>3. QED
    BY <2>2, EntriesAssumption DEF UndoneOK, Outcomes, Early
<1>2. LabelInv /\ AloneInv /\ [Next]_vars => AloneInv'
  BY AloneInvStays DEF LabelInv
<1>3. LabelInv /\ AloneInv /\ UndoneInv /\ [Next]_vars => UndoneInv'
  BY UndoneInvStays
<1>4. LabelInv /\ UndoneInv => UndoneStaysUndone
  <2> SUFFICES ASSUME LabelInv, UndoneInv, NEW r \in Requests, r.op # NoId, entries[r.op] = "undone",
                      NEW e \in EditsOf(r), e.doc \notin MissedOf(r.op)
               PROVE  Occurrences(e.doc, e.text) = 0
    BY DEF UndoneStaysUndone
  <2>1. PICK i \in DOMAIN r.calls : e = r.calls[i] /\ Keyed(r, i) /\ Found(r, i)
    BY DEF EditsOf, Keyed, Found
  <2>2. Clean(disk[e.doc], e.text) /\ e.doc \in Docs
    BY <2>1, CallNames DEF UndoneInv, UndoneOK
  <2>3. QED
    BY <2>2, CleanIsCounted
<1>5. Init => LabelInv
  BY LabelInvInit
<1>6. LabelInv /\ IInv' /\ [Next]_vars /\ [Remembers]_vars => LabelInv'
  BY LabelInvNext
<1>7. QED
  BY <1>1, <1>2, <1>3, <1>4, <1>5, <1>6, InductiveInvariant, PTL DEF Spec, NeverForgets
=============================================================================
