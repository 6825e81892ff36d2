----------------------------- MODULE DesignTools -----------------------------
(***************************************************************************)
(* The design tools at work: callers run the programs of the catalogue     *)
(* (ToolCatalogue) while a user works in KiCad and in Eeschema.            *)
(*                                                                         *)
(* One worker thread serves the jobs sent to KiCad's address, in the order *)
(* in which they were submitted (ipc_queue.rs); a job's commands go out    *)
(* one by one, and between two of them the user may do anything, KiCad may *)
(* stop, and a command may be refused, or be obeyed and its answer lost.   *)
(* Steps on files are not queued: any two of them interleave.  A write is  *)
(* one step here; FileTransaction shows what is inside.                    *)
(*                                                                         *)
(* An item is the mark of who last set each of its two attributes: "0" for *)
(* what was there, User, or a caller.  Its id says who made it, and how.   *)
(***************************************************************************)
EXTENDS ToolPrograms, FiniteSets, SequencesExt

CONSTANTS
  Callers, User,
  Boards, Sheets, Files,   \* documents: boards, schematics, all others
  Days,                    \* what every caller may ask for, the documents on disk, the boards KiCad has open
  MaxFaults, MaxMoves      \* bounds: what goes wrong, what the user does

ASSUME ToolsAssumption ==
  /\ {User, "0"} \cap Callers = {} /\ User # "0" /\ Project \in Files
  /\ Boards \cap (Sheets \cup Files) = {} /\ Sheets \cap Files = {} /\ NoDoc \notin Boards \cup Sheets \cup Files
  /\ MaxFaults \in Nat /\ MaxMoves \in Nat

Docs == Boards \cup Sheets \cup Files

VARIABLES
  file,    \* the documents on disk; one without its root is missing
  kicad,   \* "down", "silent" (no API), "up"
  open,    \* the boards KiCad holds, in the order it lists them
  mem,     \* what it holds of them
  undo,    \* the commit KiCad has open and what it would restore
  held,    \* what Eeschema holds of a schematic; empty: it is not open
  queue,   \* callers whose job waits for the worker, its own first
  call,    \* each caller's tool call
  faults, moves

vars == <<file, kicad, open, mem, undo, held, queue, call, faults, moves>>

NewItem(c, r, via) == [id |-> <<c, r, via>>, ref |-> r, at |-> c, val |-> c]
OldItem(r) == [id |-> <<"0", r, "file">>, ref |-> r, at |-> "0", val |-> "0"]
Refs(S) == {x.ref : x \in S}
Named(S, refs) == {x \in S : x.ref \in refs}

\* A document after an edit of caller c.
Edited(S, e, c, via) ==
  (S \ Named(S, e.drop \cup e.set))
    \cup {[x EXCEPT ![e.attr] = c] : x \in Named(S, e.set)}
    \cup {NewItem(c, r, via) : r \in e.add \ (e.set \cap Refs(S))}
-----------------------------------------------------------------------------
(* A tool call.                                                            *)

NothingSeen == [d \in Docs |-> {}]
NoCall == [at |-> "idle", req |-> NoDoc, phase |-> 1, pc |-> 1, doc |-> NoDoc, seen |-> NothingSeen,
           peeks |-> {}, commit |-> FALSE, gone |-> FALSE, answer |-> "none"]
NoCommit == [open |-> FALSE, was |-> {}]

PhaseOf(c) == call[c].req.run[call[c].phase]
AtStep(c) == PhaseOf(c).steps[call[c].pc]
IsJob(r) == r.at \in {"work", "drop"} /\ r.req.run[r.phase].kind = "job"
Entering(r, k) == [r EXCEPT !.at = "work", !.phase = k, !.pc = 1, !.doc = NoDoc, !.seen = NothingSeen,
                            !.peeks = {}, !.commit = FALSE]
Answered(r, a) == [NoCall EXCEPT !.at = "done", !.req = r.req, !.gone = r.gone, !.answer = IF r.gone THEN "gone" ELSE a]

\* A fault to detect: a phase that fails is tried again.
TriesAgain(r, verdict) ==
  IF verdict = "error" THEN Entering(r, r.phase)
  ELSE IF verdict = "next" /\ r.phase < Len(r.req.run) /\ ~r.gone THEN Entering(r, r.phase + 1)
  ELSE Answered(r, IF verdict = "refuse" THEN "error" ELSE IF verdict \in {"next", "answer"} THEN "ok" ELSE verdict)

\* After a phase the handler goes on to the next, unless its client is gone.
AfterPhase(r, verdict) ==
  IF verdict = "next" /\ r.phase < Len(r.req.run) /\ ~r.gone
    THEN Entering(r, r.phase + 1)
    ELSE Answered(r, IF verdict = "refuse" THEN "error" ELSE IF verdict \in {"next", "answer"} THEN "ok" ELSE verdict)

\* The job that ends is the one the worker is at; a handler's own thread has none.
JobsAfter(c) == IF queue # <<>> /\ Head(queue) = c THEN Tail(queue) ELSE queue
Finish(c, r, verdict) ==
  LET next == AfterPhase(r, verdict)
  IN /\ call' = [call EXCEPT ![c] = next]
     /\ queue' = IF IsJob(next) THEN Append(JobsAfter(c), c) ELSE JobsAfter(c)

Advance(c, r) ==
  IF r.pc < Len(PhaseOf(c).steps)
    THEN call' = [call EXCEPT ![c] = [r EXCEPT !.pc = @ + 1]] /\ UNCHANGED queue
    ELSE Finish(c, r, PhaseOf(c).then)

\* A fault to detect: a failure inside a commit is passed over.
PassesOver(c, why) ==
  IF call[c].commit THEN Advance(c, call[c]) ELSE Finish(c, call[c], "error")

\* A step failed.  Inside a commit the commit is dropped first; out of reach is
\* the one failure after which a handler may turn to the file.
Fail(c, why) ==
  IF AtStep(c).soft /\ why # "mismatch" THEN Advance(c, call[c])
  ELSE IF call[c].commit THEN call' = [call EXCEPT ![c].at = "drop"] /\ UNCHANGED queue
  ELSE LET goesOn == \/ PhaseOf(c).else = "fallback" /\ why = "unreachable"
                     \/ PhaseOf(c).else = "next" /\ why # "panic"
       IN Finish(c, call[c], IF goesOn THEN "next" ELSE "error")

\* A fault to detect: the worker serves whoever waits.
TurnOfAny(c) == c \in ToSet(queue)
Turn(c) == queue # <<>> /\ Head(queue) = c

Working(c, kinds) == call[c].at = "work" /\ PhaseOf(c).kind \in kinds
Commanding(c) == Working(c, {"job", "direct"}) /\ (PhaseOf(c).kind = "job" => Turn(c))

Ask(c) == /\ call[c].at = "idle"
          /\ LET r == Entering(call[c], 1)
             IN /\ call' = [call EXCEPT ![c] = r]
                /\ queue' = IF IsJob(r) THEN Append(queue, c) ELSE queue
          /\ UNCHANGED <<file, kicad, open, mem, undo, held, faults, moves>>

\* Arguments the handler cannot read.
Refuse(c) == /\ call[c].at = "idle"
             /\ call' = [call EXCEPT ![c] = Answered(call[c], "error")]
             /\ UNCHANGED <<file, kicad, open, mem, undo, held, queue, faults, moves>>

\* The client hangs up: the job it waits for runs to its end all the same.
Leave(c) == /\ IsJob(call[c]) /\ ~call[c].gone /\ moves > 0
            /\ call' = [call EXCEPT ![c].gone = TRUE]
            /\ moves' = moves - 1
            /\ UNCHANGED <<file, kicad, open, mem, undo, held, queue, faults>>
-----------------------------------------------------------------------------
(* Commands to KiCad, from the worker or, for save_project, past it.       *)

\* The board a command acts on: the one it names, the first, or the one found.
Target(c) == LET s == AtStep(c)
             IN CASE s.op \in {"ensure", "find"} -> s.doc
                  [] s.op = "first" -> IF open = <<>> THEN NoDoc ELSE Head(open)
                  [] OTHER -> call[c].doc
Known(d) == d \in ToSet(open)

\* Does KiCad, or the client with KiCad's answer in hand, accept the step?
Accepts(c) ==
  LET s == AtStep(c)  d == Target(c)
  IN CASE s.op = "begin" -> open # <<>>
       [] s.op = "push" -> undo.open
       [] OTHER -> /\ Known(d)
                   /\ s.op = "list" => s.has \subseteq Refs(mem[d]) /\ s.lacks \cap Refs(mem[d]) = {}
                   /\ s.op = "update" => \E x \in Named(call[c].seen[d], s.set) : x.id \in {y.id : y \in mem[d]}
                   /\ s.op = "delete" => Named(mem[d], s.drop) # {}

\* What the open board becomes.  An update sends the whole item as it was listed.
Obeyed(c) ==
  LET s == AtStep(c)  d == Target(c)
      sent == {x \in Named(call[c].seen[d], s.set) : x.id \in {y.id : y \in mem[d]}}
  IN CASE s.op = "create" -> mem[d] \cup {NewItem(c, r, "kicad") : r \in s.add}
       [] s.op = "delete" -> mem[d] \ Named(mem[d], s.drop)
       [] s.op = "update" -> {x \in mem[d] : x.id \notin {y.id : y \in sent}} \cup {[x EXCEPT ![s.attr] = c] : x \in sent}

\* An open commit notes every item before its first change.
Noted(d, after) ==
  LET touched == {x.id : x \in (mem[d] \ after) \cup (after \ mem[d])}
      new == {i \in touched : ~\E n \in undo.was : n.doc = d /\ n.id = i}
  IN [undo EXCEPT !.was = @ \cup {[doc |-> d, id |-> i, old |-> {x \in mem[d] : x.id = i}] : i \in new}]

Effect(c) ==
  LET s == AtStep(c)  d == Target(c)
  IN /\ IF s.op \in {"create", "delete", "update"}
          THEN mem' = [mem EXCEPT ![d] = Obeyed(c)]
               /\ undo' = IF undo.open THEN Noted(d, Obeyed(c)) ELSE undo
          ELSE UNCHANGED mem
               /\ undo' = CASE s.op = "begin" -> [open |-> TRUE, was |-> {}]
                            [] s.op = "push" -> NoCommit
                            [] OTHER -> undo
     /\ file' = IF s.op = "save" THEN [file EXCEPT ![d] = mem[d]] ELSE file
NoEffect == UNCHANGED <<file, mem, undo>>

\* What the caller knows after the step.
Informed(c) ==
  LET s == AtStep(c)  d == Target(c)  r == call[c]
  IN CASE s.op \in {"find", "first"} -> [r EXCEPT !.doc = d]
       [] s.op = "list" -> [r EXCEPT !.seen[d] = mem[d]]
       [] s.op = "begin" -> [r EXCEPT !.commit = TRUE]
       [] s.op = "push" -> [r EXCEPT !.commit = FALSE]
       [] OTHER -> r

Executed(c) == /\ Commanding(c) /\ kicad = "up" /\ Accepts(c)
               /\ Effect(c) /\ Advance(c, Informed(c))
               /\ UNCHANGED <<kicad, open, held, faults, moves>>
Declined(c) == /\ Commanding(c) /\ kicad = "up" /\ ~Accepts(c)
               /\ NoEffect /\ Fail(c, IF AtStep(c).op = "list" THEN "mismatch" ELSE "rejected")
               /\ UNCHANGED <<kicad, open, held, faults, moves>>
Unreachable(c) == /\ Commanding(c) /\ kicad # "up"
                  /\ NoEffect /\ Fail(c, "unreachable")
                  /\ UNCHANGED <<kicad, open, held, faults, moves>>

\* KiCad refuses although it could; obeys and its answer is lost; says it deleted
\* and did not; or the job panics.
Fault(c) == Commanding(c) /\ kicad = "up" /\ Accepts(c) /\ faults > 0 /\ faults' = faults - 1
Refused(c) == Fault(c) /\ NoEffect /\ Fail(c, "rejected") /\ UNCHANGED <<kicad, open, held, moves>>
ReplyLost(c) == Fault(c) /\ Effect(c) /\ Fail(c, "rejected") /\ UNCHANGED <<kicad, open, held, moves>>
Skipped(c) == /\ Fault(c) /\ AtStep(c).op = "delete"
              /\ NoEffect /\ Advance(c, call[c]) /\ UNCHANGED <<kicad, open, held, moves>>
Panics(c) == Fault(c) /\ ~AtStep(c).soft /\ NoEffect /\ Fail(c, "panic") /\ UNCHANGED <<kicad, open, held, moves>>

\* drop_commit: KiCad puts back every item the commit touched.
Restored == [d \in Boards |->
  LET notes == {n \in undo.was : n.doc = d}
  IN {x \in mem[d] : x.id \notin {n.id : n \in notes}} \cup UNION {n.old : n \in notes}]
Drop(c) ==
  /\ call[c].at = "drop" /\ Turn(c)
  /\ \/ /\ kicad = "up" /\ undo.open
        /\ mem' = Restored /\ undo' = NoCommit /\ Finish(c, call[c], "dropped")
        /\ UNCHANGED faults
     \/ /\ kicad # "up" \/ ~undo.open
        /\ Finish(c, call[c], "error") /\ UNCHANGED <<mem, undo, faults>>
     \/ /\ faults > 0 /\ faults' = faults - 1
        /\ Finish(c, call[c], "error") /\ UNCHANGED <<mem, undo>>
  /\ UNCHANGED <<file, kicad, open, held, moves>>

Command(c) == \/ Executed(c) \/ Declined(c) \/ Unreachable(c) \/ Refused(c) \/ ReplyLost(c)
              \/ Skipped(c) \/ Panics(c) \/ Drop(c)
-----------------------------------------------------------------------------
(* Steps on documents.                                                     *)

Exists(d) == Root \in Refs(file[d])
Reads == {"read", "readany", "reread", "peek"}
Blind == {"write", "overwrite", "restore"}

Finds(s) == LET d == s.doc
            IN /\ s.op \in {"read", "reread"} => Exists(d)
               /\ s.op # "peek" => s.has \subseteq Refs(file[d]) /\ s.lacks \cap Refs(file[d]) = {}

Look(c) == LET s == AtStep(c)
           IN /\ s.op \in Reads
              /\ \/ /\ Finds(s)
                    /\ Advance(c, CASE s.op \in {"read", "readany"} -> [call[c] EXCEPT !.seen[s.doc] = file[s.doc]]
                                    [] s.op = "peek" -> [call[c] EXCEPT !.peeks = @ \cup {file[s.doc]}]
                                    [] OTHER -> call[c])
                 \/ /\ ~Finds(s)
                    /\ Finish(c, call[c], IF s.soft THEN PhaseOf(c).then ELSE "error")
              /\ UNCHANGED file

\* Either what was written is there and the phase is over, or the next step
\* puts the old document back.
LookBack(c) == LET s == AtStep(c)  now == file[s.doc]
               IN /\ s.op = "readback"
                  /\ IF s.has \subseteq Refs(now) /\ \A x \in Named(now, s.set) : x[s.attr] = c
                       THEN Finish(c, call[c], PhaseOf(c).then)
                       ELSE Advance(c, call[c])
                  /\ UNCHANGED file

\* KiCad's own lock file beside a schematic.
\* A fault to detect: nobody looks for it.
LocksIgnored(d) == FALSE
EditorHolds(d) == d \in Sheets /\ held[d] # {}
Targets(s) == {s.doc, s.also} \ {NoDoc}
Locked(c) == LET s == AtStep(c)
             IN /\ s.op \notin Reads \cup {"readback"}
                /\ \E d \in Targets(s) : EditorHolds(d)
                /\ Finish(c, call[c], "error") /\ UNCHANGED file

\* May the write go ahead?  Whole documents are compared, or the items concerned.
Unchanged(c) == LET s == AtStep(c)  seen == call[c].seen
                IN CASE s.op \in {"writeif", "transact"} -> \A d \in Targets(s) : file[d] = seen[d]
                     [] s.op = "commit" -> Named(file[s.doc], s.drop \cup s.set) = Named(seen[s.doc], s.drop \cup s.set)
                     [] s.op = "new" -> ~Exists(s.doc)
                     [] OTHER -> TRUE

Written(c, d) == LET s == AtStep(c)
                     base == CASE s.op = "commit" -> file[d]
                               [] s.op \in {"new", "overwrite"} -> {}
                               [] OTHER -> call[c].seen[d]
                 IN Edited(base, s, c, "file") \cup IF s.op = "restore" \/ Root \in Refs(base) THEN {} ELSE {OldItem(Root)}

Store(c) == LET s == AtStep(c)
            IN /\ s.op \notin Reads \cup {"readback"}
               /\ \A d \in Targets(s) : ~EditorHolds(d)
               /\ \/ /\ Unchanged(c)
                     /\ file' = [d \in Docs |-> IF d \in Targets(s) THEN Written(c, d) ELSE file[d]]
                     /\ IF s.op = "restore" THEN Finish(c, call[c], "error") ELSE Advance(c, call[c])
                  \/ /\ ~Unchanged(c)
                     /\ Finish(c, call[c], "error") /\ UNCHANGED file

FileStep(c) == /\ Working(c, {"file"})
               /\ Look(c) \/ LookBack(c) \/ Locked(c) \/ Store(c)
               /\ UNCHANGED <<kicad, open, mem, undo, held, faults, moves>>

\* The disk refuses; a read of the pins that fails counts as no pins.
FileFails(c) == /\ Working(c, {"file"}) /\ AtStep(c).op # "peek"
                /\ faults > 0 /\ faults' = faults - 1
                /\ Finish(c, call[c], "error")
                /\ UNCHANGED <<file, kicad, open, mem, undo, held, moves>>
-----------------------------------------------------------------------------
(* What a caller may ask for: how the programs of the catalogue are made.  *)

Changing == {"create", "update", "delete"}
Sparing == Reads \cup {"readback", "new", "writeif", "commit", "transact"}
StepFields == {"op", "doc", "also", "has", "lacks", "add", "drop", "set", "attr", "soft"}

\* A job deletes and changes only what the call names; only jobs change what
\* KiCad holds; and only a write that compares touches a schematic.
SoundStep(q, kind, s) ==
  /\ DOMAIN s = StepFields /\ s.attr \in {"at", "val"} /\ Root \notin s.add \cup s.drop \cup s.set
  /\ kind = "job" => s.drop \cup s.set \subseteq {q.ref, q.to}
  /\ kind = "direct" => s.op \notin Changing \cup {"begin", "push"}
  /\ kind = "file" /\ {s.doc, s.also} \cap Sheets # {} => s.op \in Sparing
  /\ s.op = "new" => s.also = NoDoc

\* A call creates an item once in KiCad and once in the file.  In KiCad it changes
\* one attribute, nothing that it creates, and deletes nothing that it creates or changes.
CreatesOnce(q) ==
  \A p, p2 \in DOMAIN q.run : \A k \in DOMAIN q.run[p].steps, k2 \in DOMAIN q.run[p2].steps :
    LET s == q.run[p].steps[k]  other == q.run[p2].steps[k2]
    IN (q.run[p].kind = "file") = (q.run[p2].kind = "file") =>
         /\ s.add \cap other.add # {} => p = p2 /\ k = k2
         /\ q.run[p].kind # "file" => s.add \cap other.set = {} /\ (s.add \cup s.set) \cap other.drop = {}
         /\ q.run[p].kind # "file" /\ s.op = "update" /\ other.op = "update" => s.attr = other.attr

\* A placement creates right after it has seen that the board it names lacks the item.
PlacesNamed(q) ==
  \A p \in DOMAIN q.run : \A k \in DOMAIN q.run[p].steps :
    LET steps == q.run[p].steps
    IN steps[k].op \in Changing /\ q.run[p].kind = "job" =>
         /\ k > 2 /\ steps[k].op = "create"
         /\ steps[k - 2].op = "find" /\ steps[k - 2].doc = q.doc /\ ~steps[k - 2].soft
         /\ steps[k - 1].op = "list" /\ steps[k].add \subseteq steps[k - 1].lacks /\ ~steps[k - 1].soft

\* A call that commits does nothing else: it changes only what KiCad holds, between
\* beginning and pushing, all that it was asked for, and stops at the first failure.
Sets(s, r) == s.op = "update" /\ s.attr = "at" /\ s.set = {r}
Adds(s, r) == s.op = "create" /\ r \in s.add
CommitsAll(q) ==
  LET steps == q.run[1].steps
  IN /\ Len(q.run) = 1 /\ q.run[1].kind = "job"
     /\ q.tool \in {"modify_trace", "place_component_array", "align_components"}
     /\ \E first, last \in DOMAIN steps :
          /\ \A k \in DOMAIN steps : /\ steps[k].op = "begin" <=> k = first
                                     /\ steps[k].op = "push" <=> k = last
                                     /\ steps[k].op \in Changing => first < k /\ k < last
                                     /\ k \in first..last => ~steps[k].soft
          /\ CASE q.tool = "modify_trace" -> \E k \in 1..last : Adds(steps[k], q.to)
               [] q.tool = "place_component_array" -> \A r \in {q.ref, q.to} : \E k \in 1..last : Adds(steps[k], r)
               [] q.tool = "align_components" -> \A r \in {q.ref, q.to} : \E k \in 1..last : Sets(steps[k], r)

SoundRequest(q) ==
  /\ DOMAIN q.run = 1..Len(q.run) /\ Len(q.run) \in Nat \ {0}
  /\ \A p \in DOMAIN q.run :
       /\ q.run[p].kind \in {"job", "direct", "file"} /\ q.run[p].then \in {"next", "answer", "refuse"}
       /\ DOMAIN q.run[p].steps = 1..Len(q.run[p].steps) /\ Len(q.run[p].steps) \in Nat \ {0}
       /\ \A k \in DOMAIN q.run[p].steps : SoundStep(q, q.run[p].kind, q.run[p].steps[k])
  /\ CreatesOnce(q)
  /\ q.tool \in {"place_component", "duplicate_component"} => PlacesNamed(q)
  /\ (\E p \in DOMAIN q.run : \E k \in DOMAIN q.run[p].steps : q.run[p].steps[k].op = "begin") => CommitsAll(q)

ASSUME DaysAssumption == \A day \in Days :
  /\ DOMAIN day.asks = Callers /\ \A c \in Callers : SoundRequest(day.asks[c])
  /\ DOMAIN day.file = Docs /\ \A d \in Docs : \A x \in day.file[d] : x = OldItem(x.ref) /\ Root \in Refs(day.file[d])
  /\ day.open \in Seq(Boards)
-----------------------------------------------------------------------------
(* The user, in KiCad and in Eeschema.                                     *)

Move == moves > 0 /\ moves' = moves - 1 /\ UNCHANGED <<queue, call, faults>>

StartKicad == /\ Move /\ kicad = "down"
              /\ kicad' \in {"up", "silent"}
              /\ \E b \in Boards : Exists(b) /\ open' = <<b>> /\ mem' = [mem EXCEPT ![b] = file[b]]
              /\ UNCHANGED <<file, undo, held>>
QuitKicad == /\ Move /\ kicad # "down"
             /\ kicad' = "down" /\ open' = <<>> /\ mem' = [b \in Boards |-> {}] /\ undo' = NoCommit
             /\ UNCHANGED <<file, held>>
OpenBoard(b) == /\ Move /\ kicad # "down" /\ ~Known(b) /\ Exists(b)
                /\ open' = Append(open, b) /\ mem' = [mem EXCEPT ![b] = file[b]]
                /\ UNCHANGED <<file, kicad, undo, held>>
CloseBoard(b) == /\ Move /\ Known(b)
                 /\ \E k \in DOMAIN open : open[k] = b /\ open' = RemoveAt(open, k)
                 /\ mem' = [mem EXCEPT ![b] = {}] /\ undo' = NoCommit
                 /\ UNCHANGED <<file, kicad, held>>
SaveBoard(b) == /\ Move /\ Known(b)
                /\ file' = [file EXCEPT ![b] = mem[b]]
                /\ UNCHANGED <<kicad, open, mem, undo, held>>
EditBoard(b) == /\ Move /\ Known(b)
                /\ \E x \in mem[b] : x.ref # Root /\ mem' = [mem EXCEPT ![b] = (@ \ {x}) \cup {[x EXCEPT !.val = User]}]
                /\ UNCHANGED <<file, kicad, open, undo, held>>

OpenSheet(d) == /\ Move /\ ~EditorHolds(d) /\ Exists(d)
                /\ held' = [held EXCEPT ![d] = file[d]]
                /\ UNCHANGED <<file, kicad, open, mem, undo>>
EditSheetByHand(d) == /\ Move /\ held[d] # {}
                      /\ \E x \in held[d] : x.ref # Root /\ held' = [held EXCEPT ![d] = (@ \ {x}) \cup {[x EXCEPT !.at = User]}]
                      /\ UNCHANGED <<file, kicad, open, mem, undo>>
SaveSheet(d) == /\ Move /\ held[d] # {}
                /\ file' = [file EXCEPT ![d] = held[d]]
                /\ UNCHANGED <<kicad, open, mem, undo, held>>
CloseSheet(d) == /\ Move /\ held[d] # {}
                 /\ held' = [held EXCEPT ![d] = {}]
                 /\ UNCHANGED <<file, kicad, open, mem, undo>>

UserInKicad == StartKicad \/ QuitKicad \/ \E b \in Boards : OpenBoard(b) \/ CloseBoard(b) \/ SaveBoard(b) \/ EditBoard(b)
UserInEeschema == \E d \in Sheets : OpenSheet(d) \/ EditSheetByHand(d) \/ SaveSheet(d) \/ CloseSheet(d)
-----------------------------------------------------------------------------
Init == /\ \E day \in Days :
             /\ file = day.file /\ open = day.open
             /\ call = [c \in Callers |-> [NoCall EXCEPT !.req = day.asks[c]]]
             /\ kicad = IF open = <<>> THEN "down" ELSE "up"
             /\ mem = [b \in Boards |-> IF Known(b) THEN file[b] ELSE {}]
        /\ undo = NoCommit
        /\ held = [d \in Sheets |-> {}]
        /\ queue = <<>>
        /\ faults = MaxFaults /\ moves = MaxMoves

Work(c) == Command(c) \/ FileStep(c) \/ FileFails(c)
Next == \/ \E c \in Callers : Ask(c) \/ Refuse(c) \/ Leave(c) \/ Work(c)
        \/ UserInKicad \/ UserInEeschema
Spec == Init /\ [][Next]_vars

\* As long as the worker or a handler's own thread can run, one of them does.
FairSpec == Spec /\ WF_vars(\E c \in Callers : Work(c))
-----------------------------------------------------------------------------
(* What may be relied upon.                                                *)

Steps(c) == call'[c] # call[c]
Acts(c) == Steps(c) /\ call[c].at = "work"
Body(S) == {x \in S : x.ref # Root}

\* No schematic edit is lost: what a tool writes is the schematic as it is at
\* that moment with the tool's edit and nothing else, and what Eeschema saves
\* differs from it only in what the user set (command.rs commit_command,
\* writer.rs write_atomic_if_unchanged and ensure_kicad_schematic_is_closed).
SheetEditsStay == [][\A d \in Sheets : file'[d] # file[d] =>
  \/ \E c \in Callers : Acts(c) /\ Body(file'[d]) = Edited(Body(file[d]), AtStep(c), c, "file")
  \/ /\ \A c \in Callers : ~Steps(c)
     /\ \A x \in file[d] : \E y \in file'[d] : y.id = x.id /\ (y = x \/ y.at = User)]_vars

\* A command to KiCad takes away nothing its call does not name, and of what it
\* changes it takes back no other setting another caller's command made: the
\* queue keeps a command out of another's reading and sending, as long as nobody
\* reads the board from disk again in between (client.rs move_footprint,
\* set_footprint_value; ipc_queue.rs).
OnlyCommands(k) == k \in Callers /\ \A p \in DOMAIN call[k].req.run : call[k].req.run[p].kind # "file"
BoardEditsStay == [][\A c \in Callers, b \in Boards : Acts(c) => \A x \in mem[b] \ mem'[b] :
  /\ x.ref \in {call[c].req.ref, call[c].req.to}
  /\ \A y \in mem'[b] : y.id = x.id =>
       \A a \in {"at", "val"} \ {AtStep(c).attr} : OnlyCommands(x[a]) => y[a] = x[a]]_vars

\* What an edit of a document or of an open board leaves alone.
EditsStay == SheetEditsStay /\ BoardEditsStay

\* place_component and duplicate_component create a footprint once, in the board
\* they name and in no other, however many boards are open and whoever else
\* places one of that name, as long as nobody reads the board from disk again in
\* between (client.rs place_footprint).
PlacesOnceWhereAsked == [][\A c \in Callers, b \in Boards :
  Acts(c) /\ call[c].req.tool \in {"place_component", "duplicate_component"} /\ mem'[b] # mem[b] =>
    b = call[c].req.doc /\ AtStep(c).add \cap Refs(mem[b]) = {}]_vars

\* A commit is pushed with all its call asked for in it, or what the call did is
\* gone from KiCad when the commit has been dropped (client.rs run_commit).
Asked(q, c) == LET all == UNION {mem[b] : b \in Boards}
  IN CASE q.tool = "modify_trace" -> NewItem(c, q.to, "kicad").id \in {x.id : x \in all}
       [] q.tool = "place_component_array" -> {NewItem(c, r, "kicad").id : r \in {q.ref, q.to}} \subseteq {x.id : x \in all}
       [] q.tool = "align_components" -> \A r \in {q.ref, q.to} : \E x \in Named(all, {r}) : x.at = c
CommitsAreWhole == [][\A c \in Callers : Steps(c) =>
  /\ call[c].commit /\ call[c].at = "work" /\ AtStep(c).op = "push" /\ undo.open /\ ~undo'.open => Asked(call[c].req, c)
  /\ call'[c].answer = "dropped" => \A b \in Boards : \A x \in mem'[b] : c \notin {x.at, x.val}]_vars

\* Both: a commit does what its call asked, once, where it asked for it.
CommitsHold == PlacesOnceWhereAsked /\ CommitsAreWhole

\* Every call is answered, whatever KiCad, the disk and the other callers do
\* (ipc_queue.rs submit).
CallsAnswered == \A c \in Callers : call[c].at = "work" ~> call[c].at = "done"

\* Docs and tests say more than the code does.
\* ipc_boundary.rs: an edit goes to the board it names.
EditsTheNamedBoard == [][\A c \in Callers, b \in Boards :
  Acts(c) /\ mem'[b] # mem[b] => b = call[c].req.doc]_vars

\* client.rs allows_file_fallback: the file is edited only if KiCad did not.
AppendedOnce == \A b \in Boards, c \in Callers : Cardinality({x \in file[b] : x.id[1] = c /\ x.ref = call[c].req.ref}) <= 1
=============================================================================
