------------------------- MODULE DesignTools_proofs -------------------------
(***************************************************************************)
(* What a tool's edit leaves alone, for any callers, documents, faults and *)
(* deeds of the user, and any requests that are made as SoundRequest says. *)
(* First how a call goes on after each outcome of a step, then the types,  *)
(* then the schematics, then the boards.                                   *)
(***************************************************************************)
EXTENDS DesignTools, TLAPS

-----------------------------------------------------------------------------
(* What every state is like.                                               *)

\* The user opens no board, and starts KiCad for none, while a job is under way.
OpensBetweenJobs == [][\A b \in Boards : Known(b)' => Known(b) \/ queue = <<>>]_vars

ItemFields == {"id", "ref", "at", "val"}
CallFields == {"at", "req", "phase", "pc", "doc", "seen", "peeks", "commit", "gone", "answer"}
Run(c) == call[c].req.run
StepsOf(c, p) == Run(c)[p].steps
OnTurn(c) == call[c].at \in {"work", "drop"}

\* A call is at a step of its program; one that waits for its turn has seen and begun nothing.
CallOK(c) ==
  /\ DOMAIN call[c] = CallFields /\ DOMAIN call[c].seen = Docs /\ SoundRequest(call[c].req)
  /\ call[c].at \in {"idle", "work", "drop", "done"}
  /\ OnTurn(c) => call[c].phase \in DOMAIN Run(c) /\ call[c].pc \in DOMAIN StepsOf(c, call[c].phase)
  /\ ~OnTurn(c) \/ (IsJob(call[c]) /\ ~Turn(c)) => call[c].seen = NothingSeen /\ ~call[c].commit /\ call[c].pc = 1
  /\ call[c].commit => PhaseOf(c).kind = "job"
  /\ call[c].at = "drop" => call[c].commit
  /\ call[c].at # "done" => call[c].answer = "none"

TypeOK ==
  /\ DOMAIN file = Docs /\ DOMAIN mem = Boards /\ DOMAIN held = Sheets /\ DOMAIN call = Callers
  /\ open \in Seq(Boards) /\ queue \in Seq(Callers)
  /\ \A c \in Callers : CallOK(c)

\* Schematics: one that is there has its root; what Eeschema holds is what is on
\* disk but for what the user has set.
SheetOK(S) == (\A x \in S : DOMAIN x = ItemFields) /\ (S # {} => Root \in Refs(S))
HeldOK(d) == held[d] # {} => \A x \in file[d] : \E y \in held[d] : y.id = x.id /\ (y = x \/ y.at = User)
SheetsInv == \A d \in Sheets :
  /\ SheetOK(file[d]) /\ SheetOK(held[d]) /\ HeldOK(d)
  /\ \A c \in Callers : SheetOK(call[c].seen[d])

\* Has the call been through a step?
Passed(c, p, k) ==
  \/ call[c].at = "done"
  \/ OnTurn(c) /\ (p < call[c].phase \/ (p = call[c].phase /\ (k < call[c].pc \/ call[c].at = "drop")))

\* Everything that boards hold or may come to hold again.
Kept(b) == file[b] \cup mem[b] \cup UNION {call[c].seen[b] : c \in Callers}
Items == (UNION {Kept(b) : b \in Boards}) \cup (UNION {n.old : n \in undo.was})

\* An item tells who made it, in a step that creates it; and who set it, in a step
\* that changes it.
InFile(c, p) == Run(c)[p].kind = "file"
Traced(x, c) == x.id[1] = c =>
  \E p \in DOMAIN Run(c) : \E k \in DOMAIN StepsOf(c, p) :
    /\ Passed(c, p, k) /\ x.ref \in StepsOf(c, p)[k].add /\ InFile(c, p) = (x.id[3] = "file")
Marked(x, c) == \A a \in {"at", "val"} : x[a] = c =>
  \E p \in DOMAIN Run(c) : \E k \in DOMAIN StepsOf(c, p) :
    /\ Passed(c, p, k)
    /\ \/ InFile(c, p)
       \/ StepsOf(c, p)[k].op \in Changing /\ (x.id[1] = c \/ (StepsOf(c, p)[k].op = "update" /\ StepsOf(c, p)[k].attr = a))
ItemOK(x) == DOMAIN x = ItemFields /\ x.id[2] = x.ref /\ \A c \in Callers : Traced(x, c) /\ Marked(x, c)
ItemsInv == \A x \in Items : ItemOK(x)

\* A board holds an item once.
Once(S) == \A x, y \in S : x.id = y.id => x = y
NotesOK ==
  /\ \A n \in undo.was : n.doc \in Boards /\ \A x, y \in n.old : x.id = n.id /\ x = y
  /\ \A n, m \in undo.was : n.doc = m.doc /\ n.id = m.id => n = m
OnceInv ==
  /\ \A b \in Boards : Once(file[b]) /\ Once(mem[b]) /\ \A c \in Callers : Once(call[c].seen[b])
  /\ NotesOK

\* What a job has listed is what is there, but for its own settings and the user's.
FreshInv == \A c \in Callers, b \in Boards : IsJob(call[c]) =>
  \A z \in call[c].seen[b], x \in mem[b] : z.id = x.id =>
    \A a \in {"at", "val"} : x[a] \in Callers \ {c} => z[a] = x[a]

\* KiCad's own state.
KicadOK == DOMAIN undo = {"open", "was"} /\ (kicad = "down" => open = <<>>)

\* What a job has just looked up, and no failure is passed over, is so.
LookedUp(c) == call[c].at = "work" /\ IsJob(call[c]) =>
  \A k \in DOMAIN PhaseOf(c).steps :
    LET s == PhaseOf(c).steps[k]
    IN ~s.soft =>
         /\ k = call[c].pc - 1 /\ s.op = "list" /\ call[c].doc \in Boards => s.lacks \cap Refs(mem[call[c].doc]) = {}
         /\ k = call[c].pc - 1 /\ s.op = "find" => call[c].doc = s.doc
         /\ k = call[c].pc - 2 /\ s.op = "find" /\ PhaseOf(c).steps[k + 1].op = "list" => call[c].doc = s.doc
PlaceInv == \A c \in Callers : LookedUp(c)

\* A commit under way has been begun and not yet pushed.
Begun(c) == call[c].commit =>
  \E first \in 1..call[c].pc - 1 : /\ PhaseOf(c).steps[first].op = "begin"
                                  /\ \A k \in first..call[c].pc - 1 : PhaseOf(c).steps[k].op # "push"
BegunInv == \A c \in Callers : Begun(c)

\* As long as KiCad has it open too, what it has done is there, and noted.
Done(c, s, M) ==
  /\ s.op = "create" => \A r \in s.add : \E b \in Boards : \E x \in M[b] : x.id = <<c, r, "kicad">>
  /\ \A r : Sets(s, r) => \E b \in Boards : \E x \in M[b] : x.ref = r /\ x.at = c
Noting(c) ==
  /\ \A b \in Boards : \A x \in mem[b] : c \in {x.at, x.val} => \E n \in undo.was : n.doc = b /\ n.id = x.id
  /\ \A n \in undo.was : \A x \in n.old : c \notin {x.at, x.val}
Performed(c) == call[c].at = "work" => \A k \in 1..call[c].pc - 1 : Done(c, PhaseOf(c).steps[k], mem)
Committed(c) == call[c].commit /\ undo.open => Noting(c) /\ Performed(c)
CommitInv == \A c \in Callers : Committed(c)
-----------------------------------------------------------------------------
(* How a call moves on.                                                    *)

\* Only call c moves, and asks for what it has asked for.
Alone(c) ==
  /\ DOMAIN call' = Callers /\ \A k \in Callers : k # c => call'[k] = call[k]
  /\ DOMAIN call'[c] = CallFields /\ call'[c].req = call[c].req
\* It goes on to the next step, knowing what r knows; it drops its commit; it is done with its phase.
Goes(c, r) ==
  /\ call'[c].at = "work" /\ call'[c].phase = r.phase /\ call'[c].pc = r.pc + 1 /\ r.pc < Len(PhaseOf(c).steps)
  /\ call'[c].doc = r.doc /\ call'[c].seen = r.seen /\ call'[c].commit = r.commit /\ call'[c].answer = r.answer
  /\ UNCHANGED queue
Drops(c) ==
  /\ call'[c].at = "drop" /\ call'[c].phase = call[c].phase /\ call'[c].pc = call[c].pc /\ call'[c].doc = call[c].doc
  /\ call'[c].seen = call[c].seen /\ call'[c].commit = call[c].commit /\ call'[c].answer = call[c].answer
  /\ call[c].commit /\ UNCHANGED queue
Ends(c) ==
  /\ call'[c].pc = 1 /\ call'[c].seen = NothingSeen /\ ~call'[c].commit
  /\ \/ /\ call'[c].at = "work" /\ call'[c].phase = call[c].phase + 1 /\ call'[c].phase \in DOMAIN Run(c)
        /\ call'[c].answer = call[c].answer
     \/ call'[c].at = "done"
  /\ queue' \in {JobsAfter(c), Append(JobsAfter(c), c)}

\* r is what the call may know after its step.
Follows(c, r) ==
  /\ DOMAIN r = CallFields /\ DOMAIN r.seen = Docs
  /\ r.at = call[c].at /\ r.req = call[c].req /\ r.phase = call[c].phase /\ r.pc = call[c].pc /\ r.answer = call[c].answer

LEMMA FinishGives ==
    ASSUME TypeOK, NEW c \in Callers, OnTurn(c), NEW r, Follows(c, r), NEW verdict, Finish(c, r, verdict)
    PROVE  Alone(c) /\ Ends(c) /\ (call'[c].at = "done" /\ call'[c].answer = "dropped" => verdict = "dropped")
  <1>1. DOMAIN r = CallFields /\ DOMAIN NoCall = CallFields /\ DOMAIN Run(c) = 1..Len(Run(c)) /\ r.req.run = Run(c)
        /\ r.phase \in DOMAIN Run(c) /\ Len(Run(c)) \in Nat
    BY DEF TypeOK, CallOK, SoundRequest, Run, Follows, NoCall, CallFields
  <1>2. call' = [call EXCEPT ![c] = AfterPhase(r, verdict)] /\ queue' \in {JobsAfter(c), Append(JobsAfter(c), c)}
    BY DEF Finish
  <1>3. DOMAIN call = Callers
    BY DEF TypeOK
  <1>4. DOMAIN call' = Callers /\ (\A k \in Callers : k # c => call'[k] = call[k]) /\ call'[c] = AfterPhase(r, verdict)
    BY <1>2, <1>3
  <1>5. CASE verdict = "next" /\ r.phase < Len(r.req.run) /\ ~r.gone
    <2>1. call'[c] = Entering(r, r.phase + 1)
      BY <1>4, <1>5 DEF AfterPhase
    <2>2. r.phase + 1 \in DOMAIN Run(c)
      BY <1>1, <1>5
    <2>3. DOMAIN call'[c] = CallFields /\ call'[c].req = r.req /\ call'[c].pc = 1 /\ call'[c].seen = NothingSeen
          /\ ~call'[c].commit /\ call'[c].at = "work" /\ call'[c].phase = r.phase + 1 /\ call'[c].answer = r.answer
      BY <1>1, <2>1 DEF Entering, CallFields
    <2> QED BY <1>2, <1>4, <2>2, <2>3 DEF Alone, Ends, Follows
  <1>6. CASE ~(verdict = "next" /\ r.phase < Len(r.req.run) /\ ~r.gone)
    <2> DEFINE a == IF verdict = "refuse" THEN "error" ELSE IF verdict \in {"next", "answer"} THEN "ok" ELSE verdict
    <2>1. call'[c] = Answered(r, a)
      BY <1>4, <1>6 DEF AfterPhase
    <2>2. a = "dropped" => verdict = "dropped"
      OBVIOUS
    <2> HIDE DEF a
    <2>3. DOMAIN call'[c] = CallFields /\ call'[c].req = r.req /\ call'[c].pc = 1 /\ call'[c].seen = NothingSeen
          /\ ~call'[c].commit /\ call'[c].at = "done" /\ (call'[c].answer = "dropped" => a = "dropped")
      BY <1>1, <2>1 DEF Answered, NoCall, CallFields
    <2> QED BY <1>2, <1>4, <2>2, <2>3 DEF Alone, Ends, Follows
  <1> QED BY <1>5, <1>6

LEMMA AdvanceGives ==
    ASSUME TypeOK, NEW c \in Callers, call[c].at = "work", NEW r, Follows(c, r), Advance(c, r)
    PROVE  Alone(c) /\ (Goes(c, r) \/ Ends(c))
  <1>1. CASE r.pc < Len(PhaseOf(c).steps)
    <2>1. call' = [call EXCEPT ![c] = [r EXCEPT !.pc = @ + 1]] /\ UNCHANGED queue
      BY <1>1 DEF Advance
    <2>2. DOMAIN call = Callers /\ DOMAIN r = CallFields /\ r.at = "work" /\ r.req = call[c].req
      BY DEF TypeOK, Follows
    <2>3. DOMAIN call' = Callers /\ (\A k \in Callers : k # c => call'[k] = call[k]) /\ call'[c] = [r EXCEPT !.pc = @ + 1]
      BY <2>1, <2>2
    <2> QED BY <1>1, <2>1, <2>2, <2>3 DEF Alone, Goes, CallFields
  <1>2. CASE ~(r.pc < Len(PhaseOf(c).steps))
    BY <1>2, FinishGives DEF Advance, OnTurn
  <1> QED BY <1>1, <1>2

LEMMA SameFollows ==
    ASSUME TypeOK, NEW c \in Callers PROVE Follows(c, call[c])
  BY DEF TypeOK, CallOK, Follows

LEMMA FailGives ==
    ASSUME TypeOK, NEW c \in Callers, call[c].at = "work", NEW why, Fail(c, why)
    PROVE  /\ Alone(c)
           /\ \/ Goes(c, call[c]) /\ AtStep(c).soft /\ why # "mismatch"
              \/ Drops(c) \/ Ends(c)
  <1>1. Follows(c, call[c]) /\ OnTurn(c)
    BY SameFollows DEF OnTurn
  <1>2. CASE AtStep(c).soft /\ why # "mismatch"
    BY <1>1, <1>2, AdvanceGives DEF Fail
  <1>3. CASE ~(AtStep(c).soft /\ why # "mismatch") /\ call[c].commit
    <2>1. call' = [call EXCEPT ![c].at = "drop"] /\ UNCHANGED queue
      BY <1>3 DEF Fail
    <2>2. DOMAIN call = Callers /\ DOMAIN call[c] = CallFields
      BY DEF TypeOK, CallOK
    <2> QED BY <1>3, <2>1, <2>2 DEF Alone, Drops, CallFields
  <1>4. CASE ~(AtStep(c).soft /\ why # "mismatch") /\ ~call[c].commit
    <2>1. Finish(c, call[c], "next") \/ Finish(c, call[c], "error")
      BY <1>4 DEF Fail
    <2> QED BY <1>1, <2>1, FinishGives
  <1> QED BY <1>2, <1>3, <1>4

\* Who is at the worker stays there while others come and go.
LEMMA TurnStays ==
    ASSUME queue \in Seq(Callers), NEW c \in Callers, NEW k \in Callers, k # c, Turn(k),
           queue' \in {queue, Append(queue, c), JobsAfter(c), Append(JobsAfter(c), c)}
    PROVE  Turn(k)'
  <1>1. queue # <<>> /\ Head(queue) = k /\ JobsAfter(c) = queue
    BY DEF Turn, JobsAfter
  <1>2. queue' = queue \/ queue' = Append(queue, c)
    BY <1>1
  <1>3. queue' # <<>> /\ Head(queue') = k
    BY <1>1, <1>2
  <1> QED BY <1>3 DEF Turn

LEMMA QueueStays ==
    ASSUME queue \in Seq(Callers), NEW c \in Callers
    PROVE  {queue, Append(queue, c), JobsAfter(c), Append(JobsAfter(c), c)} \subseteq Seq(Callers)
  <1>1. JobsAfter(c) \in Seq(Callers)
    BY DEF JobsAfter
  <1> QED BY <1>1

LEMMA OtherCallOK ==
    ASSUME TypeOK, NEW c \in Callers, NEW k \in Callers, k # c, call'[k] = call[k],
           queue' \in {queue, Append(queue, c), JobsAfter(c), Append(JobsAfter(c), c)}
    PROVE  CallOK(k)'
  <1>1. Turn(k) => Turn(k)'
    BY TurnStays DEF TypeOK
  <1>2. CallOK(k)
    BY DEF TypeOK
  <1>3. (OnTurn(k)' <=> OnTurn(k)) /\ Run(k)' = Run(k) /\ (\A p : StepsOf(k, p)' = StepsOf(k, p)) /\ PhaseOf(k)' = PhaseOf(k)
        /\ (IsJob(call[k]))' = IsJob(call[k])
    BY DEF OnTurn, Run, StepsOf, PhaseOf, IsJob
  <1> QED BY <1>1, <1>2, <1>3 DEF CallOK

LEMMA CallStays ==
    ASSUME TypeOK, NEW c \in Callers, Alone(c), NEW r, Follows(c, r), OnTurn(c), r.commit => PhaseOf(c).kind = "job",
           PhaseOf(c).kind = "job" => Turn(c), (Goes(c, r) /\ call[c].at = "work") \/ Drops(c) \/ Ends(c)
    PROVE  CallOK(c)'
  <1>1. CallOK(c)
    BY DEF TypeOK
  <1>2. Run(c)' = Run(c) /\ SoundRequest(call'[c].req) /\ DOMAIN call'[c] = CallFields
    BY <1>1 DEF Run, Alone, CallOK
  <1>3. DOMAIN Run(c) = 1..Len(Run(c)) /\ Len(Run(c)) \in Nat
        /\ \A p \in DOMAIN Run(c) : DOMAIN StepsOf(c, p) = 1..Len(StepsOf(c, p)) /\ Len(StepsOf(c, p)) \in Nat \ {0}
    BY <1>1 DEF CallOK, SoundRequest, Run, StepsOf
  <1>4. DOMAIN NothingSeen = Docs
    BY DEF NothingSeen
  <1>5. call[c].phase \in DOMAIN Run(c) /\ call[c].pc \in DOMAIN StepsOf(c, call[c].phase)
    BY <1>1 DEF CallOK
  <1>6. CASE Goes(c, r) /\ call[c].at = "work"
    <2>1. call'[c].at = "work" /\ call'[c].phase = call[c].phase /\ call'[c].pc = call[c].pc + 1 /\ queue' = queue
          /\ call'[c].seen = r.seen /\ call'[c].commit = r.commit /\ call'[c].answer = "none"
      BY <1>1, <1>6 DEF Goes, Follows, CallOK
    <2>2. PhaseOf(c)' = PhaseOf(c) /\ Turn(c)' = Turn(c) /\ StepsOf(c, call[c].phase)' = StepsOf(c, call[c].phase)
          /\ PhaseOf(c).steps = StepsOf(c, call[c].phase)
      BY <1>2, <2>1 DEF PhaseOf, Turn, Run, StepsOf
    <2>3. call'[c].pc \in DOMAIN StepsOf(c, call[c].phase)
      BY <1>3, <1>5, <1>6, <2>1, <2>2 DEF Goes, Follows
    <2>4. IsJob(call'[c]) => PhaseOf(c).kind = "job"
      BY <2>1, <2>2 DEF IsJob, PhaseOf
    <2>5. OnTurn(c)' /\ (call'[c].commit => PhaseOf(c)'.kind = "job") /\ ((IsJob(call[c]))' => Turn(c)')
      BY <2>1, <2>2, <2>4 DEF OnTurn
    <2> QED BY <1>2, <1>5, <2>1, <2>2, <2>3, <2>5 DEF CallOK, Follows
  <1>7. CASE Drops(c)
    <2>1. PhaseOf(c)' = PhaseOf(c) /\ Turn(c)' = Turn(c) /\ StepsOf(c, call[c].phase)' = StepsOf(c, call[c].phase)
      BY <1>2, <1>7 DEF PhaseOf, Turn, Run, StepsOf, Drops
    <2>2. (IsJob(call[c]))' => PhaseOf(c).kind = "job"
      BY <1>7, <2>1 DEF IsJob, PhaseOf, Drops
    <2>3. call[c].answer = "none"
      BY <1>1 DEF CallOK, OnTurn
    <2> QED BY <1>1, <1>2, <1>5, <1>7, <2>1, <2>2, <2>3 DEF CallOK, Drops, OnTurn
  <1>8. CASE Ends(c)
    <2>1. call'[c].pc = 1 /\ call'[c].seen = NothingSeen /\ ~call'[c].commit /\ (call'[c].at = "work" \/ call'[c].at = "done")
      BY <1>8 DEF Ends
    <2>2. CASE call'[c].at = "work"
      <3>1. call'[c].phase \in DOMAIN Run(c) /\ call'[c].answer = "none"
        BY <1>1, <1>8, <2>2 DEF Ends, CallOK, OnTurn
      <3>2. 1 \in DOMAIN StepsOf(c, call'[c].phase)
        BY <1>3, <3>1
      <3>3. StepsOf(c, call'[c].phase) = StepsOf(c, call[c].phase)'
        BY <1>2 DEF StepsOf
      <3> QED BY <1>2, <1>4, <2>1, <2>2, <3>1, <3>2, <3>3 DEF CallOK, OnTurn
    <2>3. CASE call'[c].at = "done"
      BY <1>2, <1>4, <2>1, <2>3 DEF CallOK, OnTurn
    <2> QED BY <2>1, <2>2, <2>3
  <1> QED BY <1>6, <1>7, <1>8

\* A step of a call leaves every call sound, and the queue.
LEMMA StepCallsOK ==
    ASSUME TypeOK, NEW c \in Callers, Alone(c), NEW r, Follows(c, r), OnTurn(c), r.commit => PhaseOf(c).kind = "job",
           PhaseOf(c).kind = "job" => Turn(c), (Goes(c, r) /\ call[c].at = "work") \/ Drops(c) \/ Ends(c)
    PROVE  DOMAIN call' = Callers /\ queue' \in Seq(Callers) /\ \A k \in Callers : CallOK(k)'
  <1>1. queue' \in {queue, Append(queue, c), JobsAfter(c), Append(JobsAfter(c), c)}
    BY DEF Goes, Drops, Ends
  <1>2. queue' \in Seq(Callers)
    BY <1>1, QueueStays DEF TypeOK
  <1>3. ASSUME NEW k \in Callers PROVE CallOK(k)'
    <2>1. CASE k = c
      BY <2>1, CallStays
    <2>2. CASE k # c
      BY <1>1, <2>2, OtherCallOK DEF Alone
    <2> QED BY <2>1, <2>2
  <1> QED BY <1>2, <1>3 DEF Alone

\* The step a call is at is one of a sound request.
LEMMA StepIsSound ==
    ASSUME TypeOK, NEW c \in Callers, OnTurn(c)
    PROVE  /\ AtStep(c) = StepsOf(c, call[c].phase)[call[c].pc] /\ PhaseOf(c) = Run(c)[call[c].phase]
           /\ SoundStep(call[c].req, PhaseOf(c).kind, AtStep(c)) /\ PhaseOf(c).kind \in {"job", "direct", "file"}
           /\ SoundRequest(call[c].req) /\ call[c].phase \in DOMAIN Run(c) /\ call[c].pc \in DOMAIN StepsOf(c, call[c].phase)
  BY DEF TypeOK, CallOK, SoundRequest, AtStep, PhaseOf, Run, StepsOf

\* What a call knows after a command.
LEMMA InformedFollows ==
    ASSUME TypeOK, NEW c \in Callers, OnTurn(c), PhaseOf(c).kind # "file"
    PROVE  Follows(c, Informed(c)) /\ (Informed(c).commit => PhaseOf(c).kind = "job")
  <1>1. DOMAIN call[c] = CallFields /\ DOMAIN call[c].seen = Docs /\ (call[c].commit => PhaseOf(c).kind = "job")
    BY DEF TypeOK, CallOK
  <1>2. AtStep(c).op = "begin" => PhaseOf(c).kind = "job"
    BY StepIsSound DEF SoundStep
  <1>3. CASE AtStep(c).op \in {"find", "first"}
    <2>1. Informed(c) = [call[c] EXCEPT !.doc = Target(c)]
      BY <1>3 DEF Informed
    <2> QED BY <1>1, <2>1 DEF Follows, CallFields
  <1>4. CASE AtStep(c).op = "list"
    <2>1. Informed(c) = [call[c] EXCEPT !.seen[Target(c)] = mem[Target(c)]]
      BY <1>4 DEF Informed
    <2> QED BY <1>1, <2>1 DEF Follows, CallFields
  <1>5. CASE AtStep(c).op = "begin"
    <2>1. Informed(c) = [call[c] EXCEPT !.commit = TRUE]
      BY <1>5 DEF Informed
    <2> QED BY <1>1, <1>2, <1>5, <2>1 DEF Follows, CallFields
  <1>6. CASE AtStep(c).op = "push"
    <2>1. Informed(c) = [call[c] EXCEPT !.commit = FALSE]
      BY <1>6 DEF Informed
    <2> QED BY <1>1, <2>1 DEF Follows, CallFields
  <1>7. CASE AtStep(c).op \notin {"find", "first", "list", "begin", "push"}
    <2>1. Informed(c) = call[c]
      BY <1>7 DEF Informed
    <2> QED BY <1>1, <2>1 DEF Follows
  <1> QED BY <1>3, <1>4, <1>5, <1>6, <1>7

\* What may come of a command: KiCad obeys, or it does not.
Obeys(c) == Commanding(c) /\ kicad = "up" /\ Accepts(c) /\ Effect(c)
Misses(c) == Commanding(c) /\ NoEffect
Restores(c) == call[c].at = "drop" /\ Turn(c) /\ undo.open /\ mem' = Restored /\ undo' = NoCommit /\ UNCHANGED file
GivesUp(c) == call[c].at = "drop" /\ Turn(c) /\ NoEffect

LEMMA CommandGives ==
    ASSUME TypeOK, NEW c \in Callers, Command(c)
    PROVE  /\ Alone(c) /\ OnTurn(c) /\ UNCHANGED <<kicad, open, held>> /\ (PhaseOf(c).kind = "job" => Turn(c))
           /\ PhaseOf(c).kind \in {"job", "direct"}
           /\ \/ Obeys(c) /\ Goes(c, Informed(c))
              \/ Obeys(c) /\ Goes(c, call[c]) /\ AtStep(c).soft
              \/ Misses(c) /\ Goes(c, call[c]) /\ (AtStep(c).soft \/ AtStep(c).op = "delete")
              \/ (Obeys(c) \/ Misses(c)) /\ (Drops(c) \/ Ends(c))
              \/ (Restores(c) \/ GivesUp(c)) /\ Ends(c)
           /\ call[c].at = "work" \/ Restores(c) \/ GivesUp(c)
  <1>1. ASSUME Commanding(c)
        PROVE  call[c].at = "work" /\ OnTurn(c) /\ (PhaseOf(c).kind = "job" => Turn(c)) /\ PhaseOf(c).kind \in {"job", "direct"}
    BY <1>1 DEF Commanding, Working, OnTurn
  <1>2. ASSUME Commanding(c) PROVE Follows(c, call[c]) /\ Follows(c, Informed(c))
    BY <1>1, <1>2, SameFollows, InformedFollows
  <1>3. CASE Executed(c)
    <2>1. Commanding(c) /\ kicad = "up" /\ Accepts(c) /\ Effect(c) /\ Advance(c, Informed(c)) /\ UNCHANGED <<kicad, open, held>>
      BY <1>3 DEF Executed
    <2>2. Alone(c) /\ (Goes(c, Informed(c)) \/ Ends(c))
      BY <1>1, <1>2, <2>1, AdvanceGives
    <2> QED BY <1>1, <2>1, <2>2 DEF Obeys
  <1>4. CASE Declined(c)
    <2>1. Commanding(c) /\ NoEffect /\ Fail(c, IF AtStep(c).op = "list" THEN "mismatch" ELSE "rejected") /\ UNCHANGED <<kicad, open, held>>
      BY <1>4 DEF Declined
    <2> QED BY <1>1, <2>1, FailGives DEF Misses
  <1>5. CASE Unreachable(c)
    <2>1. Commanding(c) /\ NoEffect /\ Fail(c, "unreachable") /\ UNCHANGED <<kicad, open, held>>
      BY <1>5 DEF Unreachable
    <2> QED BY <1>1, <2>1, FailGives DEF Misses
  <1>6. CASE Refused(c)
    <2>1. Commanding(c) /\ NoEffect /\ Fail(c, "rejected") /\ UNCHANGED <<kicad, open, held>>
      BY <1>6 DEF Refused, Fault
    <2> QED BY <1>1, <2>1, FailGives DEF Misses
  <1>7. CASE ReplyLost(c)
    <2>1. Commanding(c) /\ kicad = "up" /\ Accepts(c) /\ Effect(c) /\ Fail(c, "rejected") /\ UNCHANGED <<kicad, open, held>>
      BY <1>7 DEF ReplyLost, Fault
    <2>2. Obeys(c)
      BY <2>1 DEF Obeys
    <2> QED BY <1>1, <2>1, <2>2, FailGives
  <1>8. CASE Skipped(c)
    <2>1. Commanding(c) /\ NoEffect /\ Advance(c, call[c]) /\ AtStep(c).op = "delete" /\ UNCHANGED <<kicad, open, held>>
      BY <1>8 DEF Skipped, Fault
    <2> QED BY <1>1, <1>2, <2>1, AdvanceGives DEF Misses
  <1>9. CASE Panics(c)
    <2>1. Commanding(c) /\ NoEffect /\ Fail(c, "panic") /\ UNCHANGED <<kicad, open, held>>
      BY <1>9 DEF Panics, Fault
    <2> QED BY <1>1, <2>1, FailGives DEF Misses
  <1>10. CASE Drop(c)
    <2>1. OnTurn(c) /\ Turn(c) /\ PhaseOf(c).kind = "job" /\ UNCHANGED <<kicad, open, held>>
      BY <1>10 DEF Drop, OnTurn, TypeOK, CallOK
    <2>2. Follows(c, call[c])
      BY SameFollows
    <2>3. \/ Restores(c) /\ Finish(c, call[c], "dropped")
          \/ GivesUp(c) /\ Finish(c, call[c], "error")
      BY <1>10 DEF Drop, Restores, GivesUp, NoEffect
    <2>4. Alone(c) /\ Ends(c)
      BY <2>1, <2>2, <2>3, FinishGives
    <2> QED BY <2>1, <2>3, <2>4
  <1> QED BY <1>3, <1>4, <1>5, <1>6, <1>7, <1>8, <1>9, <1>10 DEF Command

\* What may come of a step on documents.
Notices(c) == [call[c] EXCEPT !.seen[AtStep(c).doc] = file[AtStep(c).doc]]
Peeks(c) == [call[c] EXCEPT !.peeks = @ \cup {file[AtStep(c).doc]}]
Stores(c) ==
  /\ AtStep(c).op \notin Reads \cup {"readback"} /\ Unchanged(c) /\ \A d \in Targets(AtStep(c)) : ~EditorHolds(d)
  /\ file' = [d \in Docs |-> IF d \in Targets(AtStep(c)) THEN Written(c, d) ELSE file[d]]

LEMMA PeeksFollow ==
    ASSUME TypeOK, NEW c \in Callers
    PROVE  Follows(c, Notices(c)) /\ Follows(c, Peeks(c)) /\ Notices(c).commit = call[c].commit /\ Peeks(c).commit = call[c].commit
           /\ Peeks(c).seen = call[c].seen /\ Notices(c).seen = [call[c].seen EXCEPT ![AtStep(c).doc] = file[AtStep(c).doc]]
  <1>1. DOMAIN call[c] = CallFields /\ DOMAIN call[c].seen = Docs
    BY DEF TypeOK, CallOK
  <1>2. Follows(c, Notices(c)) /\ Notices(c).commit = call[c].commit
        /\ Notices(c).seen = [call[c].seen EXCEPT ![AtStep(c).doc] = file[AtStep(c).doc]]
    BY <1>1 DEF Notices, Follows, CallFields
  <1>3. Follows(c, Peeks(c)) /\ Peeks(c).commit = call[c].commit /\ Peeks(c).seen = call[c].seen
    BY <1>1 DEF Peeks, Follows, CallFields
  <1> QED BY <1>2, <1>3

LEMMA FileGives ==
    ASSUME TypeOK, NEW c \in Callers, FileStep(c) \/ FileFails(c)
    PROVE  /\ Alone(c) /\ call[c].at = "work" /\ PhaseOf(c).kind = "file" /\ UNCHANGED <<kicad, open, mem, undo, held>>
           /\ \/ UNCHANGED file /\ (Goes(c, call[c]) \/ Goes(c, Peeks(c)) \/ Goes(c, Notices(c)) \/ Ends(c))
              \/ Stores(c) /\ (Goes(c, call[c]) \/ Ends(c))
  <1>1. call[c].at = "work" /\ OnTurn(c) /\ PhaseOf(c).kind = "file" /\ UNCHANGED <<kicad, open, mem, undo, held>>
    BY DEF FileStep, FileFails, Working, OnTurn
  <1>2. Follows(c, call[c]) /\ Follows(c, Notices(c)) /\ Follows(c, Peeks(c))
    BY SameFollows, PeeksFollow
  <1>3. CASE FileFails(c)
    <2>1. UNCHANGED file /\ Finish(c, call[c], "error")
      BY <1>3 DEF FileFails
    <2> QED BY <1>1, <1>2, <2>1, FinishGives
  <1>4. CASE Look(c)
    <2>1. UNCHANGED file
      BY <1>4 DEF Look
    <2>2. \/ Advance(c, Notices(c)) \/ Advance(c, Peeks(c)) \/ Advance(c, call[c])
          \/ Finish(c, call[c], IF AtStep(c).soft THEN PhaseOf(c).then ELSE "error")
      BY <1>4 DEF Look, Notices, Peeks, Reads
    <2> QED BY <1>1, <1>2, <2>1, <2>2, FinishGives, AdvanceGives
  <1>5. CASE LookBack(c)
    <2>1. UNCHANGED file /\ (Advance(c, call[c]) \/ Finish(c, call[c], PhaseOf(c).then))
      BY <1>5 DEF LookBack
    <2> QED BY <1>1, <1>2, <2>1, FinishGives, AdvanceGives
  <1>6. CASE Locked(c)
    <2>1. UNCHANGED file /\ Finish(c, call[c], "error")
      BY <1>6 DEF Locked
    <2> QED BY <1>1, <1>2, <2>1, FinishGives
  <1>7. CASE Store(c)
    <2>1. \/ UNCHANGED file /\ Finish(c, call[c], "error")
          \/ Stores(c) /\ (Advance(c, call[c]) \/ Finish(c, call[c], "error"))
      BY <1>7 DEF Store, Stores
    <2> QED BY <1>1, <1>2, <2>1, FinishGives, AdvanceGives
  <1> QED BY <1>3, <1>4, <1>5, <1>6, <1>7 DEF FileStep

-----------------------------------------------------------------------------
(* Types.                                                                  *)

LEMMA WorkKeepsCalls ==
    ASSUME TypeOK, NEW c \in Callers, Work(c)
    PROVE  DOMAIN call' = Callers /\ queue' \in Seq(Callers) /\ \A k \in Callers : CallOK(k)'
  <1>1. Follows(c, call[c]) /\ Follows(c, Notices(c)) /\ Follows(c, Peeks(c)) /\ (call[c].commit => PhaseOf(c).kind = "job")
        /\ (Notices(c).commit => PhaseOf(c).kind = "job") /\ (Peeks(c).commit => PhaseOf(c).kind = "job")
    BY SameFollows, PeeksFollow DEF TypeOK, CallOK
  <1>2. CASE Command(c)
    <2>1. Alone(c) /\ OnTurn(c) /\ (PhaseOf(c).kind = "job" => Turn(c)) /\ PhaseOf(c).kind \in {"job", "direct"}
      BY <1>2, CommandGives
    <2>2. Follows(c, Informed(c)) /\ (Informed(c).commit => PhaseOf(c).kind = "job")
      BY <2>1, InformedFollows
    <2>3. (Goes(c, Informed(c)) /\ call[c].at = "work") \/ (Goes(c, call[c]) /\ call[c].at = "work") \/ Drops(c) \/ Ends(c)
      BY <1>2, CommandGives DEF Obeys, Misses, Commanding, Working
    <2> QED BY <1>1, <2>1, <2>2, <2>3, StepCallsOK
  <1>3. CASE FileStep(c) \/ FileFails(c)
    <2>1. Alone(c) /\ OnTurn(c) /\ (PhaseOf(c).kind = "job" => Turn(c)) /\ call[c].at = "work"
      BY <1>3, FileGives DEF OnTurn
    <2>2. Goes(c, call[c]) \/ Goes(c, Peeks(c)) \/ Goes(c, Notices(c)) \/ Ends(c)
      BY <1>3, FileGives
    <2> QED BY <1>1, <2>1, <2>2, StepCallsOK
  <1> QED BY <1>2, <1>3 DEF Work

\* A call that begins, or is refused, or whose client leaves.
Begins(c) ==
  /\ call[c].at = "idle"
  /\ call'[c].at \in {"work", "done"} /\ call'[c].pc = 1 /\ call'[c].seen = NothingSeen /\ ~call'[c].commit
  /\ call'[c].at = "work" => call'[c].phase = 1 /\ call'[c].answer = "none"
  /\ call'[c].answer # "dropped"
Hangs(c) ==
  /\ OnTurn(c) /\ UNCHANGED queue
  /\ \A field \in CallFields \ {"gone"} : call'[c][field] = call[c][field]

LEMMA AskGives ==
    ASSUME TypeOK, NEW c \in Callers, Ask(c) \/ Refuse(c) \/ Leave(c)
    PROVE  /\ Alone(c) /\ (Begins(c) \/ Hangs(c)) /\ queue' \in {queue, Append(queue, c)}
           /\ UNCHANGED <<file, kicad, open, mem, undo, held>>
  <1>1. DOMAIN call = Callers /\ DOMAIN call[c] = CallFields /\ DOMAIN NoCall = CallFields
    BY DEF TypeOK, CallOK, NoCall, CallFields
  <1>2. CASE Ask(c)
    <2>1. call' = [call EXCEPT ![c] = Entering(call[c], 1)] /\ queue' \in {queue, Append(queue, c)} /\ call[c].at = "idle"
          /\ UNCHANGED <<file, kicad, open, mem, undo, held>>
      BY <1>2 DEF Ask
    <2>2. call[c].answer = "none"
      BY <2>1 DEF TypeOK, CallOK
    <2>3. DOMAIN call' = Callers /\ (\A k \in Callers : k # c => call'[k] = call[k]) /\ call'[c] = Entering(call[c], 1)
      BY <1>1, <2>1
    <2>4. DOMAIN call'[c] = CallFields /\ call'[c].req = call[c].req /\ call'[c].at = "work" /\ call'[c].pc = 1
          /\ call'[c].seen = NothingSeen /\ ~call'[c].commit /\ call'[c].phase = 1 /\ call'[c].answer = "none"
      BY <1>1, <2>2, <2>3 DEF Entering, CallFields
    <2> QED BY <2>1, <2>3, <2>4 DEF Alone, Begins
  <1>3. CASE Refuse(c)
    <2>1. call' = [call EXCEPT ![c] = Answered(call[c], "error")] /\ UNCHANGED queue /\ call[c].at = "idle"
          /\ UNCHANGED <<file, kicad, open, mem, undo, held>>
      BY <1>3 DEF Refuse
    <2>2. DOMAIN call' = Callers /\ (\A k \in Callers : k # c => call'[k] = call[k]) /\ call'[c] = Answered(call[c], "error")
      BY <1>1, <2>1
    <2>3. DOMAIN call'[c] = CallFields /\ call'[c].req = call[c].req /\ call'[c].at = "done" /\ call'[c].pc = 1
          /\ call'[c].seen = NothingSeen /\ ~call'[c].commit /\ call'[c].answer # "dropped"
      BY <1>1, <2>2 DEF Answered, NoCall, CallFields
    <2> QED BY <2>1, <2>2, <2>3 DEF Alone, Begins
  <1>4. CASE Leave(c)
    <2>1. call' = [call EXCEPT ![c].gone = TRUE] /\ UNCHANGED queue /\ OnTurn(c)
          /\ UNCHANGED <<file, kicad, open, mem, undo, held>>
      BY <1>4 DEF Leave, IsJob, OnTurn
    <2>2. DOMAIN call' = Callers /\ (\A k \in Callers : k # c => call'[k] = call[k])
          /\ call'[c] = [call[c] EXCEPT !.gone = TRUE]
      BY <1>1, <2>1
    <2> QED BY <1>1, <2>1, <2>2 DEF Alone, Hangs, CallFields
  <1> QED BY <1>2, <1>3, <1>4

LEMMA AskKeepsCalls ==
    ASSUME TypeOK, NEW c \in Callers, Ask(c) \/ Refuse(c) \/ Leave(c)
    PROVE  DOMAIN call' = Callers /\ queue' \in Seq(Callers) /\ \A k \in Callers : CallOK(k)'
  <1>1. Alone(c) /\ (Begins(c) \/ Hangs(c)) /\ queue' \in {queue, Append(queue, c)}
    BY AskGives
  <1>2. queue' \in Seq(Callers)
    BY <1>1, QueueStays DEF TypeOK
  <1>3. CallOK(c) /\ DOMAIN NothingSeen = Docs
    BY DEF TypeOK, NothingSeen
  <1>4. Run(c)' = Run(c) /\ StepsOf(c, call[c].phase)' = StepsOf(c, call'[c].phase)
        /\ DOMAIN call'[c] = CallFields /\ SoundRequest(call'[c].req)
    BY <1>1, <1>3 DEF Run, StepsOf, Alone, CallOK
  <1>5. ASSUME Begins(c), call'[c].at = "work" PROVE CallOK(c)'
    <2>1. 1 \in DOMAIN Run(c) /\ 1 \in DOMAIN StepsOf(c, 1)
      BY <1>3 DEF CallOK, SoundRequest, Run, StepsOf
    <2> QED BY <1>3, <1>4, <1>5, <2>1 DEF CallOK, Begins, OnTurn
  <1>6. ASSUME Begins(c), call'[c].at # "work" PROVE CallOK(c)'
    BY <1>3, <1>4, <1>6 DEF CallOK, Begins, OnTurn
  <1>7. ASSUME Hangs(c) PROVE CallOK(c)'
    <2>1. call'[c].at = call[c].at /\ call'[c].phase = call[c].phase /\ call'[c].pc = call[c].pc /\ call'[c].seen = call[c].seen
          /\ call'[c].commit = call[c].commit /\ call'[c].answer = call[c].answer /\ call'[c].req = call[c].req /\ queue' = queue
      BY <1>7 DEF Hangs, CallFields
    <2>2. (OnTurn(c)' <=> OnTurn(c)) /\ PhaseOf(c)' = PhaseOf(c) /\ (IsJob(call[c]))' = IsJob(call[c]) /\ Turn(c)' = Turn(c)
      BY <2>1 DEF OnTurn, PhaseOf, IsJob, Turn
    <2>3. StepsOf(c, call[c].phase)' = StepsOf(c, call[c].phase)
      BY <1>4, <2>1
    <2> QED BY <1>3, <1>4, <2>1, <2>2, <2>3 DEF CallOK
  <1>8. ASSUME NEW k \in Callers, k # c PROVE CallOK(k)'
    BY <1>1, <1>8, OtherCallOK DEF Alone
  <1> QED BY <1>1, <1>2, <1>5, <1>6, <1>7, <1>8 DEF Alone

LEMMA SameCallsOK ==
    ASSUME TypeOK, UNCHANGED <<call, queue>>
    PROVE  DOMAIN call' = Callers /\ queue' \in Seq(Callers) /\ \A k \in Callers : CallOK(k)'
  <1>1. ASSUME NEW k \in Callers PROVE CallOK(k)'
    BY <1>1 DEF TypeOK, CallOK, OnTurn, Run, StepsOf, IsJob, Turn, PhaseOf
  <1> QED BY <1>1 DEF TypeOK

\* What a command makes of what KiCad holds, and of the documents.
LEMMA EffectTypes ==
    ASSUME TypeOK, NEW c \in Callers, Effect(c) \/ NoEffect \/ Restores(c) \/ GivesUp(c)
    PROVE  DOMAIN file' = Docs /\ DOMAIN mem' = Boards
  <1>1. DOMAIN file = Docs /\ DOMAIN mem = Boards
    BY DEF TypeOK
  <1>2. CASE Effect(c)
    <2>1. DOMAIN mem' = Boards
      BY <1>1, <1>2 DEF Effect
    <2>2. DOMAIN file' = Docs
      BY <1>1, <1>2 DEF Effect
    <2> QED BY <2>1, <2>2
  <1>3. CASE NoEffect \/ GivesUp(c)
    BY <1>1, <1>3 DEF NoEffect, GivesUp
  <1>4. CASE Restores(c)
    BY <1>1, <1>4 DEF Restores, Restored
  <1> QED BY <1>2, <1>3, <1>4

LEMMA RemovedIsSeq ==
    ASSUME NEW s \in Seq(Boards), NEW k \in DOMAIN s PROVE RemoveAt(s, k) \in Seq(Boards)
  BY DEF RemoveAt

LEMMA UserTypes ==
    ASSUME TypeOK, UserInKicad \/ UserInEeschema
    PROVE  UNCHANGED <<call, queue, faults>> /\ DOMAIN file' = Docs /\ DOMAIN mem' = Boards /\ DOMAIN held' = Sheets /\ open' \in Seq(Boards)
  <1> USE DEF TypeOK, Move
  <1>1. CASE StartKicad
    BY <1>1 DEF StartKicad
  <1>2. CASE QuitKicad
    BY <1>2 DEF QuitKicad
  <1>3. ASSUME NEW b \in Boards, OpenBoard(b) \/ CloseBoard(b) \/ SaveBoard(b) \/ EditBoard(b)
        PROVE  UNCHANGED <<call, queue, faults>> /\ DOMAIN file' = Docs /\ DOMAIN mem' = Boards /\ DOMAIN held' = Sheets /\ open' \in Seq(Boards)
    <2>1. CASE OpenBoard(b)
      BY <2>1 DEF OpenBoard
    <2>2. CASE CloseBoard(b)
      BY <2>2, RemovedIsSeq DEF CloseBoard
    <2>3. CASE SaveBoard(b)
      BY <2>3 DEF SaveBoard
    <2>4. CASE EditBoard(b)
      BY <2>4 DEF EditBoard
    <2> QED BY <1>3, <2>1, <2>2, <2>3, <2>4
  <1>4. ASSUME NEW d \in Sheets, OpenSheet(d) \/ EditSheetByHand(d) \/ SaveSheet(d) \/ CloseSheet(d)
        PROVE  UNCHANGED <<call, queue, faults>> /\ DOMAIN file' = Docs /\ DOMAIN mem' = Boards /\ DOMAIN held' = Sheets /\ open' \in Seq(Boards)
    BY <1>4 DEF OpenSheet, EditSheetByHand, SaveSheet, CloseSheet
  <1> QED BY <1>1, <1>2, <1>3, <1>4 DEF UserInKicad, UserInEeschema

LEMMA TypesStay ==
    ASSUME TypeOK, [Next]_vars PROVE TypeOK'
  <1>1. ASSUME NEW c \in Callers, Work(c) PROVE TypeOK'
    <2>1. DOMAIN call' = Callers /\ queue' \in Seq(Callers) /\ \A k \in Callers : CallOK(k)'
      BY <1>1, WorkKeepsCalls
    <2>2. CASE Command(c)
      <3>1. UNCHANGED <<kicad, open, held>> /\ (Effect(c) \/ NoEffect \/ Restores(c) \/ GivesUp(c))
        BY <2>2, CommandGives DEF Obeys, Misses
      <3> QED BY <2>1, <3>1, EffectTypes DEF TypeOK
    <2>3. CASE FileStep(c) \/ FileFails(c)
      <3>1. UNCHANGED <<open, mem, held>> /\ (UNCHANGED file \/ Stores(c))
        BY <2>3, FileGives
      <3>2. DOMAIN file' = Docs
        BY <3>1 DEF TypeOK, Stores
      <3> QED BY <2>1, <3>1, <3>2 DEF TypeOK
    <2> QED BY <1>1, <2>2, <2>3 DEF Work
  <1>2. ASSUME NEW c \in Callers, Ask(c) \/ Refuse(c) \/ Leave(c) PROVE TypeOK'
    <2>1. DOMAIN call' = Callers /\ queue' \in Seq(Callers) /\ \A k \in Callers : CallOK(k)'
      BY <1>2, AskKeepsCalls
    <2>2. UNCHANGED <<file, open, mem, held>>
      BY <1>2, AskGives
    <2> QED BY <2>1, <2>2 DEF TypeOK
  <1>3. CASE UserInKicad \/ UserInEeschema
    <2>1. UNCHANGED <<call, queue>> /\ DOMAIN file' = Docs /\ DOMAIN mem' = Boards /\ DOMAIN held' = Sheets /\ open' \in Seq(Boards)
      BY <1>3, UserTypes
    <2> QED BY <2>1, SameCallsOK DEF TypeOK
  <1>4. CASE UNCHANGED vars
    <2>1. UNCHANGED <<call, queue, file, mem, held, open>>
      BY <1>4 DEF vars
    <2> QED BY <2>1, SameCallsOK DEF TypeOK
  <1> QED BY <1>1, <1>2, <1>3, <1>4 DEF Next

LEMMA InitTypes == Init => TypeOK
  <1> SUFFICES ASSUME Init PROVE TypeOK
    OBVIOUS
  <1>1. PICK day \in Days : file = day.file /\ open = day.open /\ call = [c \in Callers |-> [NoCall EXCEPT !.req = day.asks[c]]]
                            /\ mem = [b \in Boards |-> IF Known(b) THEN file[b] ELSE {}]
    BY DEF Init
  <1>2. DOMAIN file = Docs /\ open \in Seq(Boards) /\ DOMAIN mem = Boards
    BY <1>1, DaysAssumption
  <1>3. DOMAIN held = Sheets /\ queue \in Seq(Callers) /\ DOMAIN call = Callers
    BY <1>1 DEF Init
  <1>4. ASSUME NEW c \in Callers PROVE CallOK(c)
    <2>1. call[c] = [NoCall EXCEPT !.req = day.asks[c]]
      BY <1>1
    <2>2. DOMAIN call[c] = CallFields /\ call[c].req = day.asks[c] /\ call[c].at = "idle" /\ call[c].seen = NothingSeen
          /\ ~call[c].commit /\ call[c].pc = 1 /\ call[c].answer = "none"
      BY <2>1 DEF NoCall, CallFields
    <2>3. SoundRequest(call[c].req) /\ DOMAIN NothingSeen = Docs
      BY <2>2, DaysAssumption DEF NothingSeen
    <2> QED BY <2>2, <2>3 DEF CallOK, OnTurn
  <1> QED BY <1>2, <1>3, <1>4 DEF TypeOK

-----------------------------------------------------------------------------
(* Schematics.                                                             *)

\* A call's step is seen in its call.
LEMMA MovedOn ==
    ASSUME TypeOK, NEW c \in Callers, OnTurn(c), NEW r, Follows(c, r),
           (Goes(c, r) /\ call[c].at = "work") \/ (Drops(c) /\ call[c].at = "work") \/ Ends(c)
    PROVE  Steps(c)
  <1>1. call[c].pc \in Nat /\ call[c].phase \in Nat
    BY DEF TypeOK, CallOK, SoundRequest, Run, StepsOf
  <1> QED BY <1>1 DEF Goes, Drops, Ends, Follows, Steps, OnTurn

LEMMA OpenAreBoards ==
    ASSUME TypeOK, NEW d, Known(d) PROVE d \in Boards
  BY DEF TypeOK, Known, ToSet

\* A command acts on a board.
LEMMA ObeyedOnBoards ==
    ASSUME TypeOK, NEW c \in Callers, Obeys(c)
    PROVE  /\ AtStep(c).op \notin {"begin", "push"} => Target(c) \in Boards /\ Known(Target(c))
           /\ \A d \in Sheets : file'[d] = file[d]
  <1>1. AtStep(c).op \notin {"begin", "push"} => Known(Target(c))
    BY DEF Obeys, Accepts
  <1>2. AtStep(c).op \notin {"begin", "push"} => Target(c) \in Boards
    BY <1>1, OpenAreBoards
  <1>3. ASSUME NEW d \in Sheets PROVE file'[d] = file[d]
    <2>1. CASE AtStep(c).op = "save"
      <3>1. file' = [file EXCEPT ![Target(c)] = mem[Target(c)]] /\ Target(c) # d
        BY <1>2, <2>1, ToolsAssumption DEF Obeys, Effect
      <3> QED BY <3>1
    <2>2. CASE AtStep(c).op # "save"
      BY <2>2 DEF Obeys, Effect
    <2> QED BY <2>1, <2>2
  <1> QED BY <1>1, <1>2, <1>3

LEMMA EditedItems ==
    ASSUME NEW S, \A x \in S : DOMAIN x = ItemFields, NEW e, e.attr \in {"at", "val"}, NEW c, NEW via
    PROVE  \A y \in Edited(S, e, c, via) : DOMAIN y = ItemFields
  <1>1. ASSUME NEW x \in S PROVE DOMAIN [x EXCEPT ![e.attr] = c] = ItemFields
    BY <1>1
  <1>2. ASSUME NEW r PROVE DOMAIN NewItem(c, r, via) = ItemFields
    BY DEF NewItem, ItemFields
  <1> QED BY <1>1, <1>2 DEF Edited, Named

LEMMA EditedBody ==
    ASSUME NEW S, \A x \in S : DOMAIN x = ItemFields, NEW e, e.attr \in {"at", "val"}, Root \notin e.add \cup e.drop \cup e.set,
           NEW c, NEW via
    PROVE  /\ Body(Edited(S, e, c, via)) = Edited(Body(S), e, c, via)
           /\ Root \in Refs(S) => Root \in Refs(Edited(S, e, c, via))
  <1>1. ASSUME NEW x \in S PROVE [x EXCEPT ![e.attr] = c].ref = x.ref
    BY <1>1 DEF ItemFields
  <1>2. ASSUME NEW r PROVE NewItem(c, r, via).ref = r
    BY DEF NewItem
  <1>3. e.set \cap Refs(S) = e.set \cap Refs(Body(S))
    BY DEF Refs, Body
  <1>4. ASSUME NEW y \in Body(Edited(S, e, c, via)) PROVE y \in Edited(Body(S), e, c, via)
    <2>1. CASE y \in S \ Named(S, e.drop \cup e.set)
      BY <1>4, <2>1 DEF Body, Edited, Named
    <2>2. CASE \E x \in Named(S, e.set) : y = [x EXCEPT ![e.attr] = c]
      BY <1>1, <1>4, <2>2 DEF Body, Edited, Named
    <2>3. CASE \E r \in e.add \ (e.set \cap Refs(S)) : y = NewItem(c, r, via)
      BY <1>3, <2>3 DEF Edited
    <2> QED BY <1>4, <2>1, <2>2, <2>3 DEF Edited, Body
  <1>5. ASSUME NEW y \in Edited(Body(S), e, c, via) PROVE y \in Body(Edited(S, e, c, via))
    <2>1. CASE y \in Body(S) \ Named(Body(S), e.drop \cup e.set)
      BY <1>5, <2>1 DEF Body, Edited, Named
    <2>2. CASE \E x \in Named(Body(S), e.set) : y = [x EXCEPT ![e.attr] = c]
      BY <1>1, <1>5, <2>2 DEF Body, Edited, Named
    <2>3. CASE \E r \in e.add \ (e.set \cap Refs(Body(S))) : y = NewItem(c, r, via)
      BY <1>2, <1>3, <2>3 DEF Body, Edited
    <2> QED BY <1>5, <2>1, <2>2, <2>3 DEF Edited
  <1>6. Root \in Refs(S) => Root \in Refs(Edited(S, e, c, via))
    BY DEF Refs, Edited, Named
  <1> QED BY <1>4, <1>5, <1>6

\* What is written to a schematic is the schematic with the edit.
LEMMA SheetWritten ==
    ASSUME TypeOK, SheetsInv, NEW c \in Callers, call[c].at = "work", PhaseOf(c).kind = "file", Stores(c),
           NEW d \in Sheets, d \in Targets(AtStep(c))
    PROVE  /\ file'[d] = Written(c, d) /\ SheetOK(Written(c, d)) /\ held[d] = {}
           /\ Body(Written(c, d)) = Edited(Body(file[d]), AtStep(c), c, "file")
  <1> DEFINE s == AtStep(c)
             base == CASE s.op = "commit" -> file[d]
                       [] s.op \in {"new", "overwrite"} -> {}
                       [] OTHER -> call[c].seen[d]
  <1>1. SoundStep(call[c].req, "file", s)
    BY StepIsSound DEF OnTurn
  <1>2. d \in {s.doc, s.also} /\ (s.op = "new" => d = s.doc)
    BY <1>1 DEF Targets, SoundStep
  <1>3. s.op \in {"new", "writeif", "commit", "transact"}
    BY <1>1, <1>2 DEF SoundStep, Sparing, Stores, Reads
  <1>4. s.attr \in {"at", "val"} /\ Root \notin s.add \cup s.drop \cup s.set
    BY <1>1 DEF SoundStep
  <1>5. SheetOK(file[d])
    BY DEF SheetsInv
  <1>6. base = file[d]
    <2>1. CASE s.op \in {"writeif", "transact"}
      BY <2>1 DEF Stores, Unchanged
    <2>2. CASE s.op = "commit"
      BY <2>2
    <2>3. CASE s.op = "new"
      <3>1. Root \notin Refs(file[d])
        BY <1>2, <2>3 DEF Stores, Unchanged, Exists
      <3> QED BY <1>5, <2>3, <3>1 DEF SheetOK
    <2> QED BY <1>3, <2>1, <2>2, <2>3
  <1>7. Written(c, d) = Edited(base, s, c, "file") \cup IF s.op = "restore" \/ Root \in Refs(base) THEN {} ELSE {OldItem(Root)}
    BY DEF Written
  <1>8. Written(c, d) = Edited(file[d], s, c, "file") \cup IF Root \in Refs(file[d]) THEN {} ELSE {OldItem(Root)}
    BY <1>3, <1>6, <1>7
  <1> HIDE DEF s, base
  <1>9. \A x \in file[d] : DOMAIN x = ItemFields
    BY <1>5 DEF SheetOK
  <1>10. \A x \in Edited(file[d], s, c, "file") : DOMAIN x = ItemFields
    BY <1>4, <1>9, EditedItems
  <1>11. /\ Body(Edited(file[d], s, c, "file")) = Edited(Body(file[d]), s, c, "file")
         /\ Root \in Refs(file[d]) => Root \in Refs(Edited(file[d], s, c, "file"))
    BY <1>4, <1>9, EditedBody
  <1>12. DOMAIN OldItem(Root) = ItemFields /\ OldItem(Root).ref = Root
    BY DEF OldItem, ItemFields
  <1>13. SheetOK(Written(c, d))
    BY <1>8, <1>10, <1>11, <1>12 DEF SheetOK, Refs
  <1>14. Body(Written(c, d)) = Body(Edited(file[d], s, c, "file"))
    BY <1>8, <1>12 DEF Body
  <1>15. d \in Docs /\ file'[d] = Written(c, d)
    BY DEF Stores, Docs
  <1>16. held[d] = {}
    BY DEF Stores, EditorHolds
  <1> QED BY <1>11, <1>13, <1>14, <1>15, <1>16 DEF s

\* What a call knows of a schematic it has read there.
LEMMA SheetSeen ==
    ASSUME TypeOK, NEW c \in Callers, Work(c), NEW k \in Callers, NEW d \in Sheets
    PROVE  call'[k].seen[d] \in {call[k].seen[d], file[d], {}}
  <1>1. d \in Docs /\ NothingSeen[d] = {} /\ DOMAIN call[c].seen = Docs /\ DOMAIN call[c] = CallFields
    BY DEF Docs, NothingSeen, TypeOK, CallOK
  <1>2. CASE Command(c)
    <2>1. Alone(c)
      BY <1>2, CommandGives
    <2>2. (Obeys(c) /\ Goes(c, Informed(c))) \/ call'[c].seen = call[c].seen \/ call'[c].seen = NothingSeen
      BY <1>2, CommandGives DEF Goes, Drops, Ends
    <2>3. CASE Obeys(c) /\ Goes(c, Informed(c))
      <3>1. call'[c].seen = Informed(c).seen
        BY <2>3 DEF Goes
      <3>2. CASE AtStep(c).op = "list"
        <4>1. Informed(c) = [call[c] EXCEPT !.seen[Target(c)] = mem[Target(c)]]
          BY <3>2 DEF Informed
        <4>2. Target(c) # d
          BY <2>3, <3>2, ObeyedOnBoards, ToolsAssumption
        <4>3. Informed(c).seen = [call[c].seen EXCEPT ![Target(c)] = mem[Target(c)]]
          BY <1>1, <4>1 DEF CallFields
        <4> QED BY <1>1, <2>1, <3>1, <4>2, <4>3 DEF Alone
      <3>3. CASE AtStep(c).op # "list"
        <4>1. Informed(c).seen = call[c].seen
          BY <1>1, <3>3 DEF Informed, CallFields
        <4> QED BY <2>1, <3>1, <4>1 DEF Alone
      <3> QED BY <3>2, <3>3
    <2> QED BY <1>1, <2>1, <2>2, <2>3 DEF Alone
  <1>3. CASE FileStep(c) \/ FileFails(c)
    <2>1. Alone(c) /\ (Goes(c, call[c]) \/ Goes(c, Peeks(c)) \/ Goes(c, Notices(c)) \/ Ends(c))
      BY <1>3, FileGives
    <2>2. call'[c].seen \in {call[c].seen, [call[c].seen EXCEPT ![AtStep(c).doc] = file[AtStep(c).doc]], NothingSeen}
      BY <2>1, PeeksFollow DEF Goes, Ends
    <2>3. call'[c].seen[d] \in {call[c].seen[d], file[d], {}}
      BY <1>1, <2>2
    <2> QED BY <2>1, <2>3 DEF Alone
  <1> QED BY <1>2, <1>3 DEF Work

\* What a step of a call does to a schematic.
LEMMA SheetStored ==
    ASSUME TypeOK, SheetsInv, NEW c \in Callers, Work(c), NEW d \in Sheets
    PROVE  \/ file'[d] = file[d]
           \/ /\ SheetOK(file'[d]) /\ held[d] = {}
              /\ call[c].at = "work" /\ Steps(c) /\ Body(file'[d]) = Edited(Body(file[d]), AtStep(c), c, "file")
  <1>1. CASE Command(c)
    BY <1>1, CommandGives, ObeyedOnBoards DEF Misses, NoEffect, Restores, GivesUp
  <1>2. CASE FileStep(c) \/ FileFails(c)
    <2>1. call[c].at = "work" /\ OnTurn(c) /\ PhaseOf(c).kind = "file" /\ (UNCHANGED file \/ (Stores(c) /\ (Goes(c, call[c]) \/ Ends(c))))
      BY <1>2, FileGives DEF OnTurn
    <2>2. CASE UNCHANGED file
      BY <2>2
    <2>3. CASE Stores(c) /\ (Goes(c, call[c]) \/ Ends(c)) /\ d \in Targets(AtStep(c))
      <3>1. Steps(c)
        BY <2>1, <2>3, MovedOn, SameFollows
      <3> QED BY <2>1, <2>3, <3>1, SheetWritten
    <2>4. CASE Stores(c) /\ d \notin Targets(AtStep(c))
      BY <2>4 DEF Stores, Docs
    <2> QED BY <2>1, <2>2, <2>3, <2>4
  <1> QED BY <1>1, <1>2 DEF Work

\* What the user does to a schematic.
LEMMA SheetByUser ==
    ASSUME TypeOK, SheetsInv, UserInKicad \/ UserInEeschema, NEW d \in Sheets
    PROVE  /\ SheetOK(file'[d]) /\ SheetOK(held'[d]) /\ HeldOK(d)'
           /\ \/ file'[d] = file[d]
              \/ \A x \in file[d] : \E y \in file'[d] : y.id = x.id /\ (y = x \/ y.at = User)
  <1>1. DOMAIN file = Docs /\ DOMAIN held = Sheets /\ d \notin Boards /\ d \in Docs
    BY ToolsAssumption DEF TypeOK, Docs
  <1>2. SheetOK(file[d]) /\ SheetOK(held[d]) /\ HeldOK(d)
    BY DEF SheetsInv
  <1>3. CASE UserInKicad
    <2>1. UNCHANGED held /\ file'[d] = file[d]
      BY <1>1, <1>3 DEF UserInKicad, StartKicad, QuitKicad, OpenBoard, CloseBoard, SaveBoard, EditBoard
    <2> QED BY <1>2, <2>1 DEF HeldOK
  <1>4. ASSUME NEW g \in Sheets, OpenSheet(g) \/ EditSheetByHand(g) \/ SaveSheet(g) \/ CloseSheet(g), g # d
        PROVE  held'[d] = held[d] /\ file'[d] = file[d]
    BY <1>1, <1>4 DEF OpenSheet, EditSheetByHand, SaveSheet, CloseSheet
  <1>5. CASE OpenSheet(d)
    <2>1. UNCHANGED file /\ held'[d] = file[d]
      BY <1>1, <1>5 DEF OpenSheet
    <2> QED BY <1>2, <2>1 DEF HeldOK
  <1>6. CASE EditSheetByHand(d)
    <2>1. PICK x \in held[d] : x.ref # Root /\ held' = [held EXCEPT ![d] = (@ \ {x}) \cup {[x EXCEPT !.at = User]}]
      BY <1>6 DEF EditSheetByHand
    <2> DEFINE z == [x EXCEPT !.at = User]
    <2>2. held'[d] = (held[d] \ {x}) \cup {z} /\ UNCHANGED file
      BY <1>1, <1>6, <2>1 DEF EditSheetByHand
    <2>3. DOMAIN z = ItemFields /\ z.id = x.id /\ z.ref = x.ref /\ z.at = User
      BY <1>2, <2>1 DEF SheetOK, ItemFields
    <2> HIDE DEF z
    <2>4. SheetOK(held'[d])
      BY <1>2, <2>1, <2>2, <2>3 DEF SheetOK, Refs
    <2>5. HeldOK(d)'
      BY <1>2, <2>1, <2>2, <2>3 DEF HeldOK
    <2> QED BY <1>2, <2>2, <2>4, <2>5
  <1>7. CASE SaveSheet(d)
    <2>1. UNCHANGED held /\ file'[d] = held[d] /\ held[d] # {}
      BY <1>1, <1>7 DEF SaveSheet
    <2> QED BY <1>2, <2>1 DEF HeldOK
  <1>8. CASE CloseSheet(d)
    <2>1. UNCHANGED file /\ held'[d] = {}
      BY <1>1, <1>8 DEF CloseSheet
    <2> QED BY <1>2, <2>1 DEF HeldOK, SheetOK
  <1>9. CASE UserInEeschema /\ ~(OpenSheet(d) \/ EditSheetByHand(d) \/ SaveSheet(d) \/ CloseSheet(d))
    <2>1. held'[d] = held[d] /\ file'[d] = file[d]
      BY <1>4, <1>9 DEF UserInEeschema
    <2> QED BY <1>2, <2>1 DEF HeldOK
  <1> QED BY <1>3, <1>5, <1>6, <1>7, <1>8, <1>9

LEMMA SheetsStay ==
    ASSUME TypeOK, SheetsInv, [Next]_vars PROVE SheetsInv'
  <1> SUFFICES ASSUME NEW d \in Sheets
               PROVE  SheetOK(file'[d]) /\ SheetOK(held'[d]) /\ HeldOK(d)' /\ \A c \in Callers : SheetOK(call'[c].seen[d])
    BY DEF SheetsInv
  <1>1. SheetOK(file[d]) /\ SheetOK(held[d]) /\ HeldOK(d) /\ SheetOK({}) /\ \A c \in Callers : SheetOK(call[c].seen[d])
    BY DEF SheetsInv, SheetOK
  <1>2. ASSUME NEW c \in Callers, Work(c)
        PROVE  SheetOK(file'[d]) /\ SheetOK(held'[d]) /\ HeldOK(d)' /\ \A k \in Callers : SheetOK(call'[k].seen[d])
    <2>1. UNCHANGED held
      BY <1>2, CommandGives, FileGives DEF Work
    <2>2. SheetOK(file'[d]) /\ (file'[d] = file[d] \/ held[d] = {})
      BY <1>1, <1>2, SheetStored
    <2>3. \A k \in Callers : SheetOK(call'[k].seen[d])
      BY <1>1, <1>2, SheetSeen
    <2> QED BY <1>1, <2>1, <2>2, <2>3 DEF HeldOK
  <1>3. ASSUME NEW c \in Callers, Ask(c) \/ Refuse(c) \/ Leave(c)
        PROVE  SheetOK(file'[d]) /\ SheetOK(held'[d]) /\ HeldOK(d)' /\ \A k \in Callers : SheetOK(call'[k].seen[d])
    <2>1. UNCHANGED <<file, held>> /\ Alone(c) /\ (Begins(c) \/ Hangs(c))
      BY <1>3, AskGives
    <2>2. call'[c].seen = NothingSeen \/ call'[c].seen = call[c].seen
      BY <2>1 DEF Begins, Hangs, CallFields
    <2>3. NothingSeen[d] = {}
      BY DEF NothingSeen, Docs
    <2>4. SheetOK(call'[c].seen[d])
      BY <1>1, <2>2, <2>3
    <2> QED BY <1>1, <2>1, <2>4 DEF Alone, HeldOK
  <1>4. CASE UserInKicad \/ UserInEeschema
    BY <1>1, <1>4, UserTypes, SheetByUser
  <1>5. CASE UNCHANGED vars
    BY <1>1, <1>5 DEF vars, HeldOK
  <1> QED BY <1>2, <1>3, <1>4, <1>5 DEF Next

LEMMA InitSheets == Init => SheetsInv
  <1> SUFFICES ASSUME Init, NEW d \in Sheets
               PROVE  SheetOK(file[d]) /\ SheetOK(held[d]) /\ HeldOK(d) /\ \A c \in Callers : SheetOK(call[c].seen[d])
    BY DEF SheetsInv
  <1>1. PICK day \in Days : file = day.file /\ call = [c \in Callers |-> [NoCall EXCEPT !.req = day.asks[c]]]
    BY DEF Init
  <1>2. held[d] = {} /\ NothingSeen[d] = {} /\ d \in Docs
    BY DEF Init, NothingSeen, Docs
  <1>3. ASSUME NEW r PROVE DOMAIN OldItem(r) = ItemFields
    BY DEF OldItem, ItemFields
  <1>4. SheetOK(file[d])
    BY <1>1, <1>2, <1>3, DaysAssumption DEF SheetOK
  <1>5. ASSUME NEW c \in Callers PROVE call[c].seen = NothingSeen
    BY <1>1 DEF NoCall
  <1> QED BY <1>2, <1>4, <1>5 DEF SheetOK, HeldOK

SheetEdits == \A d \in Sheets : file'[d] # file[d] =>
  \/ \E c \in Callers : Acts(c) /\ Body(file'[d]) = Edited(Body(file[d]), AtStep(c), c, "file")
  \/ /\ \A c \in Callers : ~Steps(c)
     /\ \A x \in file[d] : \E y \in file'[d] : y.id = x.id /\ (y = x \/ y.at = User)

LEMMA SheetEditStep ==
    ASSUME TypeOK, SheetsInv, [Next]_vars PROVE SheetEdits
  <1>1. ASSUME NEW c \in Callers, Work(c) PROVE SheetEdits
    BY <1>1, SheetStored DEF SheetEdits, Acts
  <1>2. ASSUME NEW c \in Callers, Ask(c) \/ Refuse(c) \/ Leave(c) PROVE SheetEdits
    BY <1>2, AskGives DEF SheetEdits
  <1>3. CASE UserInKicad \/ UserInEeschema
    BY <1>3, UserTypes, SheetByUser DEF SheetEdits, Steps
  <1>4. CASE UNCHANGED vars
    BY <1>4 DEF vars, SheetEdits
  <1> QED BY <1>1, <1>2, <1>3, <1>4 DEF Next

\* No schematic edit is lost, of any callers, documents and requests, whatever
\* KiCad, the disk and the user do in between (SheetEditsStay; command.rs
\* commit_command, writer.rs write_atomic_if_unchanged).
THEOREM SheetEditsAlwaysStay == Spec => SheetEditsStay
  <1>1. Init => TypeOK /\ SheetsInv
    BY InitTypes, InitSheets
  <1>2. TypeOK /\ SheetsInv /\ [Next]_vars => (TypeOK /\ SheetsInv)'
    BY TypesStay, SheetsStay
  <1>3. TypeOK /\ SheetsInv /\ [Next]_vars => [SheetEdits]_vars
    BY SheetEditStep
  <1> QED BY <1>1, <1>2, <1>3, PTL DEF Spec, SheetEditsStay, SheetEdits

-----------------------------------------------------------------------------
(* Boards: which items there are.                                          *)

\* A call's request and program stay; what it has been through it has been through.
ProgramsStay == \A k \in Callers : Run(k)' = Run(k) /\ call'[k].req = call[k].req
                  /\ \A p \in Nat : StepsOf(k, p)' = StepsOf(k, p) /\ InFile(k, p)' = InFile(k, p)
                       /\ \A i \in Nat : Passed(k, p, i) => Passed(k, p, i)'

NowPassed(c) == \A p \in Nat, i \in Nat : p = call[c].phase /\ i = call[c].pc => Passed(c, p, i)'

LEMMA SameProgram ==
    ASSUME NEW k \in Callers, call'[k].req = call[k].req
    PROVE  Run(k)' = Run(k) /\ \A p \in Nat : StepsOf(k, p)' = StepsOf(k, p) /\ InFile(k, p)' = InFile(k, p)
  BY DEF Run, StepsOf, InFile

LEMMA SamePassed ==
    ASSUME NEW k \in Callers, call'[k].at = call[k].at, call'[k].phase = call[k].phase, call'[k].pc = call[k].pc
    PROVE  \A p \in Nat, i \in Nat : Passed(k, p, i)' <=> Passed(k, p, i)
  BY DEF Passed, OnTurn

LEMMA StepPassed ==
    ASSUME TypeOK, NEW c \in Callers, OnTurn(c), NEW r, Follows(c, r),
           (Goes(c, r) /\ call[c].at = "work") \/ Drops(c) \/ Ends(c)
    PROVE  /\ \A p \in Nat, i \in Nat : Passed(c, p, i) => Passed(c, p, i)'
           /\ NowPassed(c)
  <1>1. call[c].pc \in Nat /\ call[c].phase \in Nat
    BY DEF TypeOK, CallOK, SoundRequest, Run, StepsOf
  <1>2. CASE Goes(c, r) /\ call[c].at = "work"
    <2>1. call'[c].at = "work" /\ call'[c].phase = call[c].phase /\ call'[c].pc = call[c].pc + 1
      BY <1>2 DEF Goes, Follows
    <2> QED BY <1>1, <1>2, <2>1 DEF Passed, OnTurn, NowPassed
  <1>3. CASE Drops(c)
    <2>1. call'[c].at = "drop" /\ call'[c].phase = call[c].phase /\ call'[c].pc = call[c].pc
      BY <1>3 DEF Drops
    <2> QED BY <1>1, <2>1 DEF Passed, OnTurn, NowPassed
  <1>4. CASE Ends(c) /\ call'[c].at = "work"
    <2>1. call'[c].phase = call[c].phase + 1
      BY <1>4 DEF Ends
    <2> QED BY <1>1, <1>4, <2>1 DEF Passed, OnTurn, NowPassed
  <1>5. CASE Ends(c) /\ call'[c].at = "done"
    BY <1>5 DEF Passed, NowPassed
  <1> QED BY <1>2, <1>3, <1>4, <1>5 DEF Ends

\* One call that moves on moves the programs on.
LEMMA ProgramsFollow ==
    ASSUME TypeOK, NEW c \in Callers, Alone(c), \A p \in Nat, i \in Nat : Passed(c, p, i) => Passed(c, p, i)'
    PROVE  ProgramsStay
  <1>1. ASSUME NEW k \in Callers PROVE call'[k].req = call[k].req /\ \A p \in Nat, i \in Nat : Passed(k, p, i) => Passed(k, p, i)'
    <2>1. CASE k = c
      BY <2>1 DEF Alone
    <2>2. CASE k # c
      BY <2>2, SamePassed DEF Alone
    <2> QED BY <2>1, <2>2
  <1> QED BY <1>1, SameProgram DEF ProgramsStay

LEMMA WherePassing ==
    ASSUME TypeOK, NEW c \in Callers, OnTurn(c) PROVE call[c].phase \in Nat /\ call[c].pc \in Nat
  BY DEF TypeOK, CallOK, SoundRequest, Run, StepsOf

LEMMA WorkPasses ==
    ASSUME TypeOK, NEW c \in Callers, Work(c)
    PROVE  /\ ProgramsStay /\ Alone(c) /\ OnTurn(c)
           /\ NowPassed(c) /\ call[c].phase \in Nat /\ call[c].pc \in Nat
  <1>1. CASE Command(c)
    <2>1. Alone(c) /\ OnTurn(c) /\ PhaseOf(c).kind # "file"
      BY <1>1, CommandGives
    <2>2. Follows(c, call[c]) /\ Follows(c, Informed(c))
      BY <2>1, SameFollows, InformedFollows
    <2>3. (Goes(c, Informed(c)) /\ call[c].at = "work") \/ (Goes(c, call[c]) /\ call[c].at = "work") \/ Drops(c) \/ Ends(c)
      BY <1>1, CommandGives DEF Obeys, Misses, Commanding, Working
    <2>4. (\A p \in Nat, i \in Nat : Passed(c, p, i) => Passed(c, p, i)') /\ NowPassed(c)
      BY <2>1, <2>2, <2>3, StepPassed
    <2> QED BY <2>1, <2>4, ProgramsFollow, WherePassing
  <1>2. CASE FileStep(c) \/ FileFails(c)
    <2>1. Alone(c) /\ OnTurn(c) /\ call[c].at = "work"
      BY <1>2, FileGives DEF OnTurn
    <2>2. Follows(c, call[c]) /\ Follows(c, Notices(c)) /\ Follows(c, Peeks(c))
      BY SameFollows, PeeksFollow
    <2>3. Goes(c, call[c]) \/ Goes(c, Peeks(c)) \/ Goes(c, Notices(c)) \/ Ends(c)
      BY <1>2, FileGives
    <2>4. (\A p \in Nat, i \in Nat : Passed(c, p, i) => Passed(c, p, i)') /\ NowPassed(c)
      BY <2>1, <2>2, <2>3, StepPassed
    <2> QED BY <2>1, <2>4, ProgramsFollow, WherePassing
  <1> QED BY <1>1, <1>2 DEF Work

LEMMA RestPasses ==
    ASSUME TypeOK, (\E c \in Callers : Ask(c) \/ Refuse(c) \/ Leave(c)) \/ UNCHANGED call
    PROVE  ProgramsStay
  <1>1. CASE UNCHANGED call
    BY <1>1, SameProgram, SamePassed DEF ProgramsStay
  <1>2. ASSUME NEW c \in Callers, Ask(c) \/ Refuse(c) \/ Leave(c) PROVE ProgramsStay
    <2>1. Alone(c) /\ (Begins(c) \/ Hangs(c))
      BY <1>2, AskGives
    <2>2. ASSUME NEW p \in Nat, NEW i \in Nat, Passed(c, p, i) PROVE Passed(c, p, i)'
      BY <2>1, <2>2 DEF Begins, Hangs, CallFields, Passed, OnTurn
    <2> QED BY <2>1, <2>2, ProgramsFollow
  <1> QED BY <1>1, <1>2

LEMMA ItemsHold ==
    /\ \A b \in Boards : file[b] \subseteq Items /\ mem[b] \subseteq Items
    /\ \A c \in Callers, b \in Boards : call[c].seen[b] \subseteq Items
    /\ \A n \in undo.was : n.old \subseteq Items
  <1>1. ASSUME NEW b \in Boards, NEW x \in Kept(b) PROVE x \in Items
    BY DEF Items
  <1>2. ASSUME NEW b \in Boards PROVE file[b] \subseteq Items /\ mem[b] \subseteq Items
    BY <1>1 DEF Kept
  <1>3. ASSUME NEW c \in Callers, NEW b \in Boards PROVE call[c].seen[b] \subseteq Items
    BY <1>1 DEF Kept
  <1>4. ASSUME NEW n \in undo.was PROVE n.old \subseteq Items
    BY DEF Items
  <1> QED BY <1>2, <1>3, <1>4

LEMMA ItemsAre ==
    ASSUME NEW x \in Items'
    PROVE  \/ \E b \in Boards : x \in file'[b] \/ x \in mem'[b]
           \/ \E c \in Callers : \E b \in Boards : x \in call'[c].seen[b]
           \/ \E n \in undo'.was : x \in n.old
  <1>1. x \in UNION {Kept(b)' : b \in Boards} \/ x \in UNION {n.old : n \in undo'.was}
    BY DEF Items
  <1>2. CASE \E b \in Boards : x \in Kept(b)'
    BY <1>2 DEF Kept
  <1>3. CASE \E n \in undo'.was : x \in n.old
    BY <1>3
  <1> QED BY <1>1, <1>2, <1>3

\* An item made by a step of a call, or one it has set.
Via(c) == IF PhaseOf(c).kind = "file" THEN "file" ELSE "kicad"
MadeBy(c, op) == IF PhaseOf(c).kind = "file" \/ AtStep(c).op = op
                   THEN IF op = "create" THEN {NewItem(c, r, Via(c)) : r \in AtStep(c).add}
                                         ELSE {[z EXCEPT ![AtStep(c).attr] = c] : z \in Items}
                   ELSE {}
After(c) == Items \cup MadeBy(c, "create") \cup MadeBy(c, "update") \cup {OldItem(Root)}

LEMMA ObeyedItems ==
    ASSUME TypeOK, NEW c \in Callers, Obeys(c), PhaseOf(c).kind # "file", AtStep(c).op \in Changing
    PROVE  Obeyed(c) \subseteq After(c)
  <1> DEFINE s == AtStep(c)
             d == Target(c)
             sent == {x \in Named(call[c].seen[d], s.set) : x.id \in {y.id : y \in mem[d]}}
  <1>1. d \in Boards
    BY ObeyedOnBoards DEF Changing
  <1>2. mem[d] \subseteq Items /\ sent \subseteq Items
    BY <1>1, ItemsHold DEF Named
  <1>3. Via(c) = "kicad"
    BY DEF Via
  <1>4. CASE s.op = "create"
    <2>1. Obeyed(c) = mem[d] \cup {NewItem(c, r, "kicad") : r \in s.add}
      BY <1>4 DEF Obeyed
    <2> QED BY <1>2, <1>3, <1>4, <2>1 DEF After, MadeBy
  <1>5. CASE s.op = "delete"
    <2>1. Obeyed(c) = mem[d] \ Named(mem[d], s.drop)
      BY <1>5 DEF Obeyed
    <2> QED BY <1>2, <2>1 DEF After
  <1>6. CASE s.op = "update"
    <2>1. Obeyed(c) = {x \in mem[d] : x.id \notin {y.id : y \in sent}} \cup {[x EXCEPT ![s.attr] = c] : x \in sent}
      BY <1>6 DEF Obeyed
    <2>2. {[x EXCEPT ![s.attr] = c] : x \in sent} \subseteq MadeBy(c, "update")
      BY <1>2, <1>6 DEF MadeBy
    <2> QED BY <1>2, <2>1, <2>2 DEF After
  <1> QED BY <1>4, <1>5, <1>6 DEF Changing

\* What KiCad has open is told in two fields, and nothing is open in a KiCad that is not there.
LEMMA KicadStays ==
    ASSUME TypeOK, KicadOK, [Next]_vars PROVE KicadOK'
  <1>1. ASSUME NEW c \in Callers, Command(c) PROVE KicadOK'
    <2>1. UNCHANGED <<kicad, open>>
      BY <1>1, CommandGives
    <2>2. Effect(c) \/ undo' = undo \/ undo' = NoCommit
      BY <1>1, CommandGives DEF Obeys, Misses, NoEffect, Restores, GivesUp
    <2>3. CASE Effect(c)
      <3>1. undo' = undo \/ undo' = NoCommit \/ undo' = [open |-> TRUE, was |-> {}] \/ undo' = Noted(Target(c), Obeyed(c))
        BY <2>3 DEF Effect
      <3>2. DOMAIN Noted(Target(c), Obeyed(c)) = DOMAIN undo
        BY DEF Noted
      <3> QED BY <2>1, <3>1, <3>2 DEF KicadOK, NoCommit
    <2> QED BY <2>1, <2>2, <2>3 DEF KicadOK, NoCommit
  <1>2. ASSUME NEW c \in Callers, FileStep(c) \/ FileFails(c) PROVE KicadOK'
    BY <1>2, FileGives DEF KicadOK
  <1>3. ASSUME NEW c \in Callers, Ask(c) \/ Refuse(c) \/ Leave(c) PROVE KicadOK'
    BY <1>3, AskGives DEF KicadOK
  <1>4. CASE UserInKicad
    BY <1>4 DEF KicadOK, UserInKicad, StartKicad, QuitKicad, OpenBoard, CloseBoard, SaveBoard, EditBoard, NoCommit, RemoveAt, Known, ToSet
  <1>5. CASE UserInEeschema
    BY <1>5 DEF KicadOK, UserInEeschema, OpenSheet, EditSheetByHand, SaveSheet, CloseSheet
  <1>6. CASE UNCHANGED vars
    BY <1>6 DEF vars, KicadOK
  <1> QED BY <1>1, <1>2, <1>3, <1>4, <1>5, <1>6 DEF Next, Work

\* What a commit notes before a change.
Touched(d, after) == {x.id : x \in (mem[d] \ after) \cup (after \ mem[d])}
Fresh(d, after) == {i \in Touched(d, after) : ~\E n \in undo.was : n.doc = d /\ n.id = i}
Note(d, i) == [doc |-> d, id |-> i, old |-> {x \in mem[d] : x.id = i}]

LEMMA NotedGives ==
    ASSUME KicadOK, NEW d, NEW after
    PROVE  /\ Noted(d, after).was = undo.was \cup {Note(d, i) : i \in Fresh(d, after)}
           /\ Noted(d, after).open = undo.open
  BY DEF Noted, KicadOK, Fresh, Touched, Note

\* What a call knows of a board it has listed or read.
LEMMA BoardSeen ==
    ASSUME TypeOK, NEW c \in Callers, Work(c), NEW k \in Callers, NEW b \in Boards
    PROVE  /\ call'[k].seen[b] \in {call[k].seen[b], file[b], mem[b], {}}
           /\ k # c \/ PhaseOf(c).kind # "file" => call'[k].seen[b] \in {call[k].seen[b], mem[b], {}}
  <1>1. b \in Docs /\ NothingSeen[b] = {} /\ DOMAIN call[c].seen = Docs /\ DOMAIN call[c] = CallFields
    BY DEF Docs, NothingSeen, TypeOK, CallOK
  <1>2. CASE Command(c)
    <2>1. Alone(c)
      BY <1>2, CommandGives
    <2>2. (Obeys(c) /\ Goes(c, Informed(c))) \/ call'[c].seen = call[c].seen \/ call'[c].seen = NothingSeen
      BY <1>2, CommandGives DEF Goes, Drops, Ends
    <2>3. CASE Obeys(c) /\ Goes(c, Informed(c))
      <3>1. call'[c].seen = Informed(c).seen
        BY <2>3 DEF Goes
      <3>2. CASE AtStep(c).op = "list"
        <4>1. Informed(c) = [call[c] EXCEPT !.seen[Target(c)] = mem[Target(c)]]
          BY <3>2 DEF Informed
        <4>2. Informed(c).seen = [call[c].seen EXCEPT ![Target(c)] = mem[Target(c)]]
          BY <1>1, <4>1 DEF CallFields
        <4> QED BY <1>1, <2>1, <3>1, <4>2 DEF Alone
      <3>3. CASE AtStep(c).op # "list"
        <4>1. Informed(c).seen = call[c].seen
          BY <1>1, <3>3 DEF Informed, CallFields
        <4> QED BY <2>1, <3>1, <4>1 DEF Alone
      <3> QED BY <3>2, <3>3
    <2> QED BY <1>1, <2>1, <2>2, <2>3 DEF Alone
  <1>3. CASE FileStep(c) \/ FileFails(c)
    <2>1. Alone(c) /\ (Goes(c, call[c]) \/ Goes(c, Peeks(c)) \/ Goes(c, Notices(c)) \/ Ends(c)) /\ PhaseOf(c).kind = "file"
      BY <1>3, FileGives
    <2>2. call'[c].seen \in {call[c].seen, [call[c].seen EXCEPT ![AtStep(c).doc] = file[AtStep(c).doc]], NothingSeen}
      BY <2>1, PeeksFollow DEF Goes, Ends
    <2>3. call'[c].seen[b] \in {call[c].seen[b], file[b], {}}
      BY <1>1, <2>2
    <2> QED BY <2>1, <2>3 DEF Alone
  <1> QED BY <1>2, <1>3 DEF Work

\* What is written to a board.
LEMMA BoardWritten ==
    ASSUME TypeOK, NEW c \in Callers, Stores(c), NEW b \in Boards
    PROVE  \/ file'[b] = file[b]
           \/ \E base \in {file[b], {}, call[c].seen[b]} :
                \/ file'[b] = Edited(base, AtStep(c), c, "file")
                \/ Root \notin Refs(base) /\ file'[b] = Edited(base, AtStep(c), c, "file") \cup {OldItem(Root)}
  <1> DEFINE base == CASE AtStep(c).op = "commit" -> file[b]
                       [] AtStep(c).op \in {"new", "overwrite"} -> {}
                       [] OTHER -> call[c].seen[b]
             more == IF AtStep(c).op = "restore" \/ Root \in Refs(base) THEN {} ELSE {OldItem(Root)}
  <1>1. base \in {file[b], {}, call[c].seen[b]}
    OBVIOUS
  <1>2. Written(c, b) = Edited(base, AtStep(c), c, "file") \cup more
    BY DEF Written
  <1>3. more = {} \/ (Root \notin Refs(base) /\ more = {OldItem(Root)})
    OBVIOUS
  <1> HIDE DEF base, more
  <1>4. file'[b] \in {file[b], Written(c, b)}
    BY DEF Stores, Docs
  <1>5. more = {} => Edited(base, AtStep(c), c, "file") \cup more = Edited(base, AtStep(c), c, "file")
    OBVIOUS
  <1> QED BY <1>1, <1>2, <1>3, <1>4, <1>5

\* What an edit of a document makes.
LEMMA EditedAfter ==
    ASSUME TypeOK, NEW c \in Callers, PhaseOf(c).kind = "file", NEW S, S \subseteq Items
    PROVE  Edited(S, AtStep(c), c, "file") \subseteq After(c)
  <1> DEFINE s == AtStep(c)
  <1>1. Via(c) = "file"
    BY DEF Via
  <1>2. S \ Named(S, s.drop \cup s.set) \subseteq After(c)
    BY DEF After
  <1>3. {[x EXCEPT ![s.attr] = c] : x \in Named(S, s.set)} \subseteq MadeBy(c, "update")
    BY DEF MadeBy, Named
  <1>4. {NewItem(c, r, "file") : r \in s.add \ (s.set \cap Refs(S))} \subseteq MadeBy(c, "create")
    BY <1>1 DEF MadeBy
  <1> QED BY <1>2, <1>3, <1>4 DEF Edited, After

LEMMA WorkItems ==
    ASSUME TypeOK, KicadOK, NEW c \in Callers, Work(c)
    PROVE  Items' \subseteq After(c)
  <1> DEFINE P == After(c)
  <1>1. Items \subseteq P
    BY DEF After
  <1>2. \A b \in Boards : file[b] \subseteq P /\ mem[b] \subseteq P
    BY <1>1, ItemsHold
  <1>3. \A n \in undo.was : n.old \subseteq P
    BY <1>1, ItemsHold
  <1>4. ASSUME NEW k \in Callers, NEW b \in Boards PROVE call'[k].seen[b] \subseteq P
    <2>1. call'[k].seen[b] \in {call[k].seen[b], file[b], mem[b], {}}
      BY BoardSeen
    <2>2. call[k].seen[b] \subseteq P
      BY <1>1, ItemsHold
    <2> QED BY <1>2, <2>1, <2>2
  <1> SUFFICES Items' \subseteq P
    OBVIOUS
  <1> HIDE DEF P
  <1>5. CASE Command(c)
    <2>1. PhaseOf(c).kind # "file" /\ (Obeys(c) \/ Misses(c) \/ Restores(c) \/ GivesUp(c))
      BY <1>5, CommandGives
    <2>2. CASE Misses(c) \/ GivesUp(c)
      <3>1. UNCHANGED <<file, mem, undo>>
        BY <2>2 DEF Misses, GivesUp, NoEffect
      <3> QED BY <1>2, <1>3, <1>4, <3>1, ItemsAre
    <2>3. CASE Restores(c)
      <3>1. UNCHANGED file /\ mem' = Restored /\ undo'.was = {}
        BY <2>3 DEF Restores, NoCommit
      <3>2. ASSUME NEW b \in Boards, NEW x \in mem'[b] PROVE x \in P
        <4>1. x \in mem[b] \/ \E n \in undo.was : x \in n.old
          BY <3>1, <3>2 DEF Restored
        <4> QED BY <1>2, <1>3, <4>1
      <3>3. \A b \in Boards : file'[b] \subseteq P /\ mem'[b] \subseteq P
        BY <1>2, <3>1, <3>2
      <3> QED BY <1>4, <3>1, <3>3, ItemsAre
    <2>4. CASE Obeys(c) /\ AtStep(c).op \in Changing
      <3>1. Target(c) \in Boards /\ Obeyed(c) \subseteq P
        BY <2>1, <2>4, ObeyedOnBoards, ObeyedItems DEF Changing, P
      <3>2. mem' = [mem EXCEPT ![Target(c)] = Obeyed(c)] /\ UNCHANGED file
            /\ (undo' = undo \/ undo' = Noted(Target(c), Obeyed(c)))
        BY <2>4 DEF Obeys, Effect, Changing
      <3>3. \A b \in Boards : file'[b] \subseteq P /\ mem'[b] \subseteq P
        BY <1>2, <3>1, <3>2 DEF TypeOK
      <3>4. ASSUME NEW n \in undo'.was PROVE n.old \subseteq P
        <4>1. n \in undo.was \/ \E i \in Fresh(Target(c), Obeyed(c)) : n = Note(Target(c), i)
          BY <3>2, <3>4, NotedGives
        <4>2. \A i : Note(Target(c), i).old \subseteq mem[Target(c)]
          BY DEF Note
        <4> QED BY <1>2, <1>3, <3>1, <4>1, <4>2
      <3> QED BY <1>4, <3>3, <3>4, ItemsAre
    <2>5. CASE Obeys(c) /\ AtStep(c).op \notin Changing
      <3>1. UNCHANGED mem /\ undo'.was \in {undo.was, {}}
        BY <2>5 DEF Obeys, Effect, Changing, NoCommit
      <3>2. UNCHANGED file \/ file' = [file EXCEPT ![Target(c)] = mem[Target(c)]]
        BY <2>5 DEF Obeys, Effect
      <3>3. \A b \in Boards : file'[b] \in {file[b], mem[b]}
        BY <3>2 DEF TypeOK, Docs
      <3>4. \A b \in Boards : file'[b] \subseteq P /\ mem'[b] \subseteq P
        BY <1>2, <3>1, <3>3
      <3>5. \A n \in undo'.was : n.old \subseteq P
        BY <1>3, <3>1
      <3> QED BY <1>4, <3>4, <3>5, ItemsAre
    <2> QED BY <2>1, <2>2, <2>3, <2>4, <2>5
  <1>6. CASE FileStep(c) \/ FileFails(c)
    <2>1. PhaseOf(c).kind = "file" /\ UNCHANGED <<mem, undo>> /\ (UNCHANGED file \/ Stores(c))
      BY <1>6, FileGives
    <2>2. ASSUME NEW b \in Boards PROVE file'[b] \subseteq P
      <3>1. CASE UNCHANGED file
        BY <1>2, <3>1
      <3>2. CASE Stores(c) /\ file'[b] # file[b]
        <4>1. PICK base \in {file[b], {}, call[c].seen[b]} :
                \/ file'[b] = Edited(base, AtStep(c), c, "file")
                \/ Root \notin Refs(base) /\ file'[b] = Edited(base, AtStep(c), c, "file") \cup {OldItem(Root)}
          BY <3>2, BoardWritten
        <4>2. base \subseteq Items
          BY <4>1, ItemsHold
        <4>3. Edited(base, AtStep(c), c, "file") \subseteq P
          BY <2>1, <4>2, EditedAfter DEF P
        <4>4. OldItem(Root) \in P
          BY DEF P, After
        <4> QED BY <4>1, <4>3, <4>4
      <3> QED BY <1>2, <2>1, <3>1, <3>2
    <2>3. \A b \in Boards : file'[b] \subseteq P /\ mem'[b] \subseteq P
      BY <1>2, <2>1, <2>2
    <2> QED BY <1>3, <1>4, <2>1, <2>3, ItemsAre
  <1> QED BY <1>5, <1>6 DEF Work

\* The user of Eeschema leaves boards alone.
LEMMA SheetsOnly ==
    ASSUME TypeOK, UserInEeschema, NEW b \in Boards PROVE file'[b] = file[b]
  <1>1. UNCHANGED file \/ \E d \in Sheets : file' = [file EXCEPT ![d] = held[d]]
    BY DEF UserInEeschema, OpenSheet, EditSheetByHand, SaveSheet, CloseSheet
  <1>2. DOMAIN file = Docs /\ b \in Docs /\ b \notin Sheets
    BY ToolsAssumption DEF TypeOK, Docs
  <1> QED BY <1>1, <1>2

\* Nobody but the caller has what it makes; the user marks what there is.
ByUser(P) == P \cup {[x EXCEPT !.val = User] : x \in P}

LEMMA RestItems ==
    ASSUME TypeOK, KicadOK, (\E c \in Callers : Ask(c) \/ Refuse(c) \/ Leave(c)) \/ UserInKicad \/ UserInEeschema \/ UNCHANGED vars
    PROVE  Items' \subseteq ByUser(Items)
  <1> DEFINE P == ByUser(Items)
  <1>1. Items \subseteq P
    BY DEF ByUser
  <1>2. \A b \in Boards : file[b] \subseteq P /\ mem[b] \subseteq P
    BY <1>1, ItemsHold
  <1>3. \A n \in undo.was : n.old \subseteq P
    BY <1>1, ItemsHold
  <1>4. \A k \in Callers, b \in Boards : call[k].seen[b] \subseteq P
    BY <1>1, ItemsHold
  <1>5. \A b \in Boards : \A x \in mem[b] : [x EXCEPT !.val = User] \in P
    BY ItemsHold DEF ByUser
  <1> SUFFICES Items' \subseteq P
    OBVIOUS
  <1> HIDE DEF P
  <1>6. ASSUME NEW c \in Callers, Ask(c) \/ Refuse(c) \/ Leave(c) PROVE Items' \subseteq P
    <2>1. Alone(c) /\ (Begins(c) \/ Hangs(c)) /\ UNCHANGED <<file, mem, undo>>
      BY <1>6, AskGives
    <2>2. \A b \in Boards : NothingSeen[b] = {}
      BY DEF NothingSeen, Docs
    <2>3. call'[c].seen = call[c].seen \/ call'[c].seen = NothingSeen
      BY <2>1 DEF Begins, Hangs, CallFields
    <2>4. \A k \in Callers, b \in Boards : call'[k].seen[b] \subseteq P
      BY <1>4, <2>1, <2>2, <2>3 DEF Alone
    <2> QED BY <1>2, <1>3, <2>1, <2>4, ItemsAre
  <1>7. CASE UserInKicad
    <2>1. UNCHANGED call /\ undo'.was \subseteq undo.was
      BY <1>7 DEF UserInKicad, StartKicad, QuitKicad, OpenBoard, CloseBoard, SaveBoard, EditBoard, NoCommit, Move
    <2>2. ASSUME NEW b \in Boards PROVE mem'[b] \subseteq P /\ file'[b] \subseteq P
      <3>1. DOMAIN mem = Boards /\ b \in DOMAIN file
        BY DEF TypeOK, Docs
      <3>2. file'[b] \in {file[b], mem[b]}
        BY <1>7, <3>1 DEF UserInKicad, StartKicad, QuitKicad, OpenBoard, CloseBoard, SaveBoard, EditBoard
      <3>3. \/ mem'[b] \in {file[b], mem[b], {}}
            \/ \E x \in mem[b] : mem'[b] = (mem[b] \ {x}) \cup {[x EXCEPT !.val = User]}
        BY <1>7, <3>1 DEF UserInKicad, StartKicad, QuitKicad, OpenBoard, CloseBoard, SaveBoard, EditBoard
      <3> QED BY <1>2, <1>5, <3>2, <3>3
    <2> QED BY <1>3, <1>4, <2>1, <2>2, ItemsAre
  <1>8. CASE UserInEeschema
    <2>1. UNCHANGED <<call, undo, mem>>
      BY <1>8 DEF UserInEeschema, OpenSheet, EditSheetByHand, SaveSheet, CloseSheet, Move
    <2>3. \A b \in Boards : file'[b] = file[b]
      BY <1>8, SheetsOnly
    <2> QED BY <1>2, <1>3, <1>4, <2>1, <2>3, ItemsAre
  <1>9. CASE UNCHANGED vars
    <2>1. UNCHANGED <<call, undo, mem, file>>
      BY <1>9 DEF vars
    <2> QED BY <1>2, <1>3, <1>4, <2>1, ItemsAre
  <1> QED BY <1>6, <1>7, <1>8, <1>9

\* The marks of an item stay true as calls go on, and are true of what is new.
LEMMA OldItemsOK ==
    ASSUME TypeOK, ProgramsStay, NEW x, ItemOK(x) PROVE ItemOK(x)'
  <1>1. ASSUME NEW c \in Callers PROVE Traced(x, c)' /\ Marked(x, c)'
    <2>1. Run(c)' = Run(c) /\ DOMAIN Run(c) \subseteq Nat /\ \A p \in DOMAIN Run(c) : DOMAIN StepsOf(c, p) \subseteq Nat
      BY DEF ProgramsStay, TypeOK, CallOK, SoundRequest, Run, StepsOf
    <2>2. \A p \in Nat : StepsOf(c, p)' = StepsOf(c, p) /\ InFile(c, p)' = InFile(c, p) /\ \A k \in Nat : Passed(c, p, k) => Passed(c, p, k)'
      BY DEF ProgramsStay
    <2>3. ASSUME x.id[1] = c
          PROVE  \E p \in DOMAIN Run(c) : \E k \in DOMAIN StepsOf(c, p) :
                   Passed(c, p, k)' /\ x.ref \in StepsOf(c, p)[k].add /\ InFile(c, p) = (x.id[3] = "file")
      BY <2>1, <2>2, <2>3 DEF ItemOK, Traced
    <2>4. Traced(x, c)'
      BY <2>1, <2>2, <2>3 DEF Traced
    <2>5. ASSUME NEW a \in {"at", "val"}, x[a] = c
          PROVE  \E p \in DOMAIN Run(c) : \E k \in DOMAIN StepsOf(c, p) :
                   /\ Passed(c, p, k)'
                   /\ \/ InFile(c, p)
                      \/ StepsOf(c, p)[k].op \in Changing /\ (x.id[1] = c \/ (StepsOf(c, p)[k].op = "update" /\ StepsOf(c, p)[k].attr = a))
      BY <2>1, <2>2, <2>5 DEF ItemOK, Marked
    <2>6. Marked(x, c)'
      BY <2>1, <2>2, <2>5 DEF Marked
    <2> QED BY <2>4, <2>6
  <1> QED BY <1>1 DEF ItemOK

\* The step a call is at, among those it has been through afterwards.
LEMMA ThisStep ==
    ASSUME TypeOK, NEW c \in Callers, OnTurn(c), ProgramsStay, NowPassed(c)
    PROVE  \E p \in DOMAIN Run(c)' : \E k \in DOMAIN StepsOf(c, p)' :
             Passed(c, p, k)' /\ StepsOf(c, p)'[k] = AtStep(c) /\ InFile(c, p)' = (PhaseOf(c).kind = "file")
  <1>1. call[c].phase \in DOMAIN Run(c) /\ call[c].phase \in Nat /\ call[c].pc \in DOMAIN StepsOf(c, call[c].phase) /\ call[c].pc \in Nat
    BY WherePassing DEF TypeOK, CallOK
  <1> DEFINE p == call[c].phase
             k == call[c].pc
  <1> HIDE DEF p, k
  <1>2. p \in DOMAIN Run(c) /\ p \in Nat /\ k \in DOMAIN StepsOf(c, p) /\ k \in Nat /\ p = call[c].phase /\ k = call[c].pc
    BY <1>1 DEF p, k
  <1>3. AtStep(c) = StepsOf(c, p)[k] /\ InFile(c, p) = (PhaseOf(c).kind = "file")
    BY <1>2 DEF AtStep, PhaseOf, StepsOf, Run, InFile
  <1>4. PICK q \in Nat, i \in Nat : q = p /\ i = k
    BY <1>2
  <1>5. Run(c)' = Run(c) /\ StepsOf(c, q)' = StepsOf(c, q) /\ InFile(c, q)' = InFile(c, q)
    BY DEF ProgramsStay
  <1>6. Passed(c, q, i)'
    BY <1>2, <1>4 DEF NowPassed
  <1>7. q \in DOMAIN Run(c)' /\ i \in DOMAIN StepsOf(c, q)' /\ StepsOf(c, q)'[i] = AtStep(c) /\ InFile(c, q)' = (PhaseOf(c).kind = "file")
    BY <1>2, <1>3, <1>4, <1>5
  <1> QED BY <1>6, <1>7

LEMMA MadeItemsOK ==
    ASSUME TypeOK, NEW c \in Callers, Work(c), ItemsInv, NEW x \in After(c) PROVE ItemOK(x)'
  <1>1. ProgramsStay /\ OnTurn(c) /\ NowPassed(c)
    BY WorkPasses
  <1>2. PICK p \in DOMAIN Run(c)' : \E i \in DOMAIN StepsOf(c, p)' :
          Passed(c, p, i)' /\ StepsOf(c, p)'[i] = AtStep(c) /\ InFile(c, p)' = (PhaseOf(c).kind = "file")
    BY <1>1, ThisStep
  <1>3. PICK i \in DOMAIN StepsOf(c, p)' :
          Passed(c, p, i)' /\ StepsOf(c, p)'[i] = AtStep(c) /\ InFile(c, p)' = (PhaseOf(c).kind = "file")
    BY <1>2
  <1>4. SoundStep(call[c].req, PhaseOf(c).kind, AtStep(c))
    BY <1>1, StepIsSound
  <1>5. CASE x \in Items
    BY <1>1, <1>5, OldItemsOK DEF ItemsInv
  <1>6. CASE x \in MadeBy(c, "create")
    <2>1. PICK r \in AtStep(c).add : x = NewItem(c, r, Via(c))
      BY <1>6 DEF MadeBy
    <2>2. DOMAIN x = ItemFields /\ x.id[1] = c /\ x.id[2] = r /\ x.id[3] = Via(c) /\ x.ref = r /\ x.at = c /\ x.val = c
      BY <2>1 DEF NewItem, ItemFields
    <2>3. PhaseOf(c).kind = "file" \/ AtStep(c).op = "create"
      BY <1>6 DEF MadeBy
    <2>4. (PhaseOf(c).kind = "file") = (x.id[3] = "file")
      BY <2>2 DEF Via
    <2>5. Traced(x, c)'
      BY <1>3, <2>1, <2>2, <2>4 DEF Traced
    <2>6. Marked(x, c)'
      BY <1>3, <2>2, <2>3 DEF Marked, Changing
    <2>7. ASSUME NEW k \in Callers, k # c PROVE Traced(x, k)' /\ Marked(x, k)'
      BY <2>2, <2>7 DEF Traced, Marked
    <2> QED BY <2>2, <2>5, <2>6, <2>7 DEF ItemOK
  <1>7. CASE x \in MadeBy(c, "update")
    <2>1. PICK y \in Items : x = [y EXCEPT ![AtStep(c).attr] = c]
      BY <1>7 DEF MadeBy
    <2>2. ItemOK(y)' /\ ItemOK(y)
      BY <1>1, <2>1, OldItemsOK DEF ItemsInv
    <2>3. AtStep(c).attr \in {"at", "val"}
      BY <1>4 DEF SoundStep
    <2>4. DOMAIN x = ItemFields /\ x.id = y.id /\ x.ref = y.ref /\ x[AtStep(c).attr] = c
          /\ \A a \in {"at", "val"} : a # AtStep(c).attr => x[a] = y[a]
      BY <2>1, <2>2, <2>3 DEF ItemOK, ItemFields
    <2>5. PhaseOf(c).kind = "file" \/ AtStep(c).op = "update"
      BY <1>7 DEF MadeBy
    <2>6. \A k \in Callers : Traced(x, k)'
      BY <2>2, <2>4 DEF ItemOK, Traced
    <2>7. ASSUME NEW k \in Callers, NEW a \in {"at", "val"}, x[a] = k
          PROVE  \E q \in DOMAIN Run(k)' : \E j \in DOMAIN StepsOf(k, q)' :
                   /\ Passed(k, q, j)'
                   /\ \/ InFile(k, q)'
                      \/ StepsOf(k, q)'[j].op \in Changing
                           /\ (x.id[1] = k \/ (StepsOf(k, q)'[j].op = "update" /\ StepsOf(k, q)'[j].attr = a))
      <3>1. CASE a = AtStep(c).attr
        <4>1. k = c
          BY <2>4, <2>7, <3>1
        <4>2. PhaseOf(c).kind # "file" => AtStep(c).op \in Changing
          BY <2>5 DEF Changing
        <4> QED BY <1>3, <2>5, <3>1, <4>1, <4>2
      <3>2. CASE a # AtStep(c).attr
        <4>1. y[a] = k
          BY <2>4, <2>7, <3>2
        <4> QED BY <2>2, <2>4, <4>1 DEF ItemOK, Marked
      <3> QED BY <3>1, <3>2
    <2>8. \A k \in Callers : Marked(x, k)'
      BY <2>7 DEF Marked
    <2> QED BY <2>2, <2>4, <2>6, <2>8 DEF ItemOK
  <1>8. CASE x = OldItem(Root)
    <2>1. DOMAIN x = ItemFields /\ x.id[1] = "0" /\ x.id[2] = x.ref /\ x.at = "0" /\ x.val = "0" /\ "0" \notin Callers
      BY <1>8, ToolsAssumption DEF OldItem, ItemFields
    <2>2. ASSUME NEW k \in Callers PROVE Traced(x, k)' /\ Marked(x, k)'
      BY <2>1 DEF Traced, Marked
    <2> QED BY <2>1, <2>2 DEF ItemOK
  <1> QED BY <1>5, <1>6, <1>7, <1>8 DEF After

LEMMA UserItemsOK ==
    ASSUME TypeOK, ProgramsStay, ItemsInv, NEW x \in ByUser(Items) PROVE ItemOK(x)'
  <1>1. CASE x \in Items
    BY <1>1, OldItemsOK DEF ItemsInv
  <1>2. CASE \E y \in Items : x = [y EXCEPT !.val = User]
    <2>1. PICK y \in Items : x = [y EXCEPT !.val = User]
      BY <1>2
    <2>2. ItemOK(y)' /\ ItemOK(y)
      BY <2>1, OldItemsOK DEF ItemsInv
    <2>3. DOMAIN x = ItemFields /\ x.id = y.id /\ x.ref = y.ref /\ x.val = User /\ x.at = y.at /\ User \notin Callers
      BY <2>1, <2>2, ToolsAssumption DEF ItemOK, ItemFields
    <2>4. ASSUME NEW k \in Callers PROVE Traced(x, k)' /\ Marked(x, k)'
      <3>1. Traced(y, k)' /\ Marked(y, k)'
        BY <2>2 DEF ItemOK
      <3>2. Traced(x, k)'
        BY <2>3, <3>1 DEF Traced
      <3>3. \A a \in {"at", "val"} : x[a] = k => y[a] = k
        BY <2>3
      <3>4. Marked(x, k)'
        BY <2>3, <3>1, <3>3 DEF Marked
      <3> QED BY <3>2, <3>4
    <2> QED BY <2>2, <2>3, <2>4 DEF ItemOK
  <1> QED BY <1>1, <1>2 DEF ByUser

LEMMA ItemsStay ==
    ASSUME TypeOK, KicadOK, ItemsInv, [Next]_vars PROVE ItemsInv'
  <1>1. ASSUME NEW c \in Callers, Work(c) PROVE ItemsInv'
    BY <1>1, WorkItems, MadeItemsOK DEF ItemsInv
  <1>2. ASSUME ~\E c \in Callers : Work(c) PROVE ItemsInv'
    <2>1. (\E c \in Callers : Ask(c) \/ Refuse(c) \/ Leave(c)) \/ UserInKicad \/ UserInEeschema \/ UNCHANGED vars
      BY <1>2 DEF Next
    <2>2. (\E c \in Callers : Ask(c) \/ Refuse(c) \/ Leave(c)) \/ UNCHANGED call
      BY <2>1, UserTypes DEF vars
    <2> QED BY <2>1, <2>2, RestItems, RestPasses, UserItemsOK DEF ItemsInv
  <1> QED BY <1>1, <1>2

LEMMA InitBoards == Init => KicadOK /\ ItemsInv /\ OnceInv
  <1> SUFFICES ASSUME Init PROVE KicadOK /\ ItemsInv /\ OnceInv
    OBVIOUS
  <1>1. PICK day \in Days : file = day.file /\ open = day.open /\ call = [c \in Callers |-> [NoCall EXCEPT !.req = day.asks[c]]]
                            /\ mem = [b \in Boards |-> IF Known(b) THEN file[b] ELSE {}]
                            /\ kicad = IF open = <<>> THEN "down" ELSE "up"
    BY DEF Init
  <1>2. undo = NoCommit /\ NoCommit.was = {} /\ DOMAIN NoCommit = {"open", "was"}
    BY DEF Init, NoCommit
  <1>3. KicadOK
    BY <1>1, <1>2 DEF KicadOK
  <1>4. ASSUME NEW c \in Callers, NEW b \in Boards PROVE call[c].seen[b] = {}
    <2>1. call[c].seen = NothingSeen
      BY <1>1 DEF NoCall
    <2> QED BY <2>1 DEF NothingSeen, Docs
  <1>5. \A b \in Boards : mem[b] \in {file[b], {}} /\ \A x \in file[b] : x = OldItem(x.ref)
    BY <1>1, DaysAssumption DEF Docs
  <1>6. ASSUME NEW x \in Items PROVE x = OldItem(x.ref)
    <2>1. PICK b \in Boards : x \in Kept(b)
      BY <1>2 DEF Items
    <2>2. x \in file[b]
      BY <1>4, <1>5, <2>1 DEF Kept
    <2> QED BY <1>5, <2>2
  <1>7. ASSUME NEW x \in Items PROVE ItemOK(x)
    <2>1. DOMAIN x = ItemFields /\ x.id[1] = "0" /\ x.id[2] = x.ref /\ x.at = "0" /\ x.val = "0" /\ "0" \notin Callers
      BY <1>6, ToolsAssumption DEF OldItem, ItemFields
    <2>2. ASSUME NEW k \in Callers PROVE Traced(x, k) /\ Marked(x, k)
      BY <2>1 DEF Traced, Marked
    <2> QED BY <2>1, <2>2 DEF ItemOK
  <1>8. ASSUME NEW x, NEW y, x = OldItem(x.ref), y = OldItem(y.ref), x.id = y.id PROVE x = y
    <2>1. x.id[2] = x.ref /\ y.id[2] = y.ref
      BY <1>8 DEF OldItem
    <2> QED BY <1>8, <2>1
  <1>9. ASSUME NEW b \in Boards PROVE Once(file[b]) /\ Once(mem[b]) /\ \A c \in Callers : Once(call[c].seen[b])
    <2>1. Once(file[b])
      BY <1>5, <1>8 DEF Once
    <2> QED BY <1>4, <1>5, <2>1 DEF Once
  <1>10. NotesOK
    BY <1>2 DEF NotesOK
  <1> QED BY <1>3, <1>7, <1>9, <1>10 DEF ItemsInv, OnceInv

-----------------------------------------------------------------------------
(* Boards: each item once.                                                 *)

\* What two steps of one call may have to do with one another.
LEMMA StepsApart ==
    ASSUME TypeOK, NEW c \in Callers, NEW p \in DOMAIN Run(c), NEW p2 \in DOMAIN Run(c),
           NEW k \in DOMAIN StepsOf(c, p), NEW k2 \in DOMAIN StepsOf(c, p2), InFile(c, p) = InFile(c, p2)
    PROVE  /\ StepsOf(c, p)[k].add \cap StepsOf(c, p2)[k2].add # {} => p = p2 /\ k = k2
           /\ ~InFile(c, p) =>
                /\ StepsOf(c, p)[k].add \cap StepsOf(c, p2)[k2].set = {}
                /\ (StepsOf(c, p)[k].add \cup StepsOf(c, p)[k].set) \cap StepsOf(c, p2)[k2].drop = {}
                /\ StepsOf(c, p)[k].op = "update" /\ StepsOf(c, p2)[k2].op = "update" => StepsOf(c, p)[k].attr = StepsOf(c, p2)[k2].attr
  <1> DEFINE q == call[c].req
             s == q.run[p].steps[k]
             t == q.run[p2].steps[k2]
  <1>1. CreatesOnce(q)
    BY DEF TypeOK, CallOK, SoundRequest
  <1>2. p \in DOMAIN q.run /\ p2 \in DOMAIN q.run /\ k \in DOMAIN q.run[p].steps /\ k2 \in DOMAIN q.run[p2].steps
        /\ (q.run[p].kind = "file") = (q.run[p2].kind = "file")
    BY DEF Run, StepsOf, InFile
  <1>3. /\ s.add \cap t.add # {} => p = p2 /\ k = k2
        /\ q.run[p].kind # "file" => s.add \cap t.set = {} /\ (s.add \cup s.set) \cap t.drop = {}
        /\ q.run[p].kind # "file" /\ s.op = "update" /\ t.op = "update" => s.attr = t.attr
    <2> HIDE DEF q
    <2> QED BY <1>1, <1>2 DEF CreatesOnce
  <1> QED BY <1>3 DEF Run, StepsOf, InFile

\* What a call is about to create was not there.
LEMMA NotMadeYet ==
    ASSUME TypeOK, ItemsInv, NEW c \in Callers, call[c].at = "work", NEW r \in AtStep(c).add, NEW x \in Items, x.id = <<c, r, Via(c)>>
    PROVE  FALSE
  <1>1. x.id[1] = c /\ x.id[2] = r /\ x.id[3] = Via(c) /\ x.ref = r
    BY DEF ItemsInv, ItemOK
  <1>2. PICK p \in DOMAIN Run(c) : \E k \in DOMAIN StepsOf(c, p) :
          Passed(c, p, k) /\ x.ref \in StepsOf(c, p)[k].add /\ InFile(c, p) = (x.id[3] = "file")
    BY <1>1 DEF ItemsInv, ItemOK, Traced
  <1>3. PICK k \in DOMAIN StepsOf(c, p) : Passed(c, p, k) /\ r \in StepsOf(c, p)[k].add /\ InFile(c, p) = (Via(c) = "file")
    BY <1>1, <1>2
  <1>4. AtStep(c) = StepsOf(c, call[c].phase)[call[c].pc] /\ call[c].phase \in DOMAIN Run(c)
        /\ call[c].pc \in DOMAIN StepsOf(c, call[c].phase) /\ SoundRequest(call[c].req) /\ PhaseOf(c) = Run(c)[call[c].phase]
    BY StepIsSound DEF OnTurn
  <1>5. InFile(c, p) = (PhaseOf(c).kind = "file")
    BY <1>3 DEF Via
  <1>6. p = call[c].phase /\ k = call[c].pc
    <2>1. InFile(c, call[c].phase) = InFile(c, p)
      BY <1>4, <1>5 DEF InFile
    <2>2. r \in StepsOf(c, p)[k].add \cap StepsOf(c, call[c].phase)[call[c].pc].add
      BY <1>3, <1>4
    <2> QED BY <1>4, <2>1, <2>2, StepsApart
  <1>7. call[c].phase \in Nat /\ call[c].pc \in Nat
    BY WherePassing DEF OnTurn
  <1> QED BY <1>3, <1>6, <1>7 DEF Passed, OnTurn

LEMMA AfterEditOnce ==
    ASSUME TypeOK, ItemsInv, NEW c \in Callers, call[c].at = "work", PhaseOf(c).kind = "file", NEW S, S \subseteq Items, Once(S)
    PROVE  /\ Once(Edited(S, AtStep(c), c, "file"))
           /\ Root \notin Refs(S) => Once(Edited(S, AtStep(c), c, "file") \cup {OldItem(Root)})
  <1> DEFINE s == AtStep(c)
             kept == S \ Named(S, s.drop \cup s.set)
             changed == {[x EXCEPT ![s.attr] = c] : x \in Named(S, s.set)}
             new == {NewItem(c, r, "file") : r \in s.add \ (s.set \cap Refs(S))}
  <1>1. Via(c) = "file" /\ s.attr \in {"at", "val"}
    BY StepIsSound DEF Via, OnTurn, SoundStep
  <1>2. \A x \in S : DOMAIN x = ItemFields /\ x.id[2] = x.ref
    BY DEF ItemsInv, ItemOK
  <1>3. ASSUME NEW y \in changed PROVE \E x \in Named(S, s.set) : y = [x EXCEPT ![s.attr] = c] /\ y.id = x.id
    BY <1>1, <1>2 DEF Named, ItemFields
  <1>4. ASSUME NEW y \in new PROVE \E r \in s.add : y = NewItem(c, r, "file") /\ y.id = <<c, r, "file">>
    BY DEF NewItem
  <1>5. ASSUME NEW y \in new, NEW x \in S PROVE y.id # x.id
    BY <1>1, <1>4, NotMadeYet
  <1>6. ASSUME NEW x \in kept \cup changed \cup new, NEW y \in kept \cup changed \cup new, x.id = y.id PROVE x = y
    <2>1. CASE x \in new /\ y \in new
      <3>1. PICK r \in s.add : x = NewItem(c, r, "file") /\ x.id = <<c, r, "file">>
        BY <1>4, <2>1
      <3>2. PICK q \in s.add : y = NewItem(c, q, "file") /\ y.id = <<c, q, "file">>
        BY <1>4, <2>1
      <3>3. r = q
        BY <1>6, <3>1, <3>2
      <3> QED BY <3>1, <3>2, <3>3
    <2>2. ASSUME NEW z \in kept \cup changed PROVE \E w \in S : w.id = z.id /\ (z \in kept => w = z)
      BY <1>3, <2>2 DEF Named
    <2>3. CASE x \in kept /\ y \in kept
      BY <1>6, <2>3 DEF Once
    <2>4. CASE x \in changed /\ y \in changed
      BY <1>3, <1>6, <2>4 DEF Once, Named
    <2>5. ASSUME NEW w \in kept, NEW z \in changed PROVE w.id # z.id
      BY <1>3, <2>5 DEF Once, Named
    <2>6. ASSUME NEW w \in new, NEW z \in kept \cup changed PROVE w.id # z.id
      BY <1>5, <2>2
    <2> QED BY <1>6, <2>1, <2>3, <2>4, <2>5, <2>6
  <1>7. Edited(S, s, c, "file") = kept \cup changed \cup new
    BY DEF Edited
  <1>8. Once(Edited(S, s, c, "file"))
    BY <1>6, <1>7 DEF Once
  <1>9. ASSUME Root \notin Refs(S), NEW x \in kept \cup changed \cup new PROVE x.id # OldItem(Root).id
    <2>1. OldItem(Root).id[1] = "0" /\ OldItem(Root).id[2] = Root /\ "0" # c
      BY ToolsAssumption DEF OldItem
    <2>2. CASE x \in new
      BY <1>4, <2>1, <2>2
    <2>3. CASE x \in kept \cup changed
      <3>1. PICK w \in S : w.id = x.id
        BY <1>3, <2>3 DEF Named
      <3> QED BY <1>2, <1>9, <2>1, <3>1 DEF Refs
    <2> QED BY <1>9, <2>2, <2>3
  <1>10. Root \notin Refs(S) => Once(Edited(S, s, c, "file") \cup {OldItem(Root)})
    BY <1>6, <1>7, <1>9 DEF Once
  <1> QED BY <1>8, <1>10

LEMMA ObeyedOnce ==
    ASSUME TypeOK, ItemsInv, OnceInv, NEW c \in Callers, Obeys(c), PhaseOf(c).kind # "file", AtStep(c).op \in Changing
    PROVE  Once(Obeyed(c))
  <1> DEFINE s == AtStep(c)
             d == Target(c)
             sent == {x \in Named(call[c].seen[d], s.set) : x.id \in {y.id : y \in mem[d]}}
  <1>1. d \in Boards /\ call[c].at = "work" /\ Via(c) = "kicad"
    BY ObeyedOnBoards DEF Changing, Obeys, Commanding, Working, Via
  <1>2. mem[d] \subseteq Items /\ call[c].seen[d] \subseteq Items /\ Once(mem[d]) /\ Once(call[c].seen[d])
    BY <1>1, ItemsHold DEF OnceInv
  <1>3. s.attr \in {"at", "val"}
    BY <1>1, StepIsSound DEF OnTurn, SoundStep
  <1>4. CASE s.op = "create"
    <2>1. Obeyed(c) = mem[d] \cup {NewItem(c, r, "kicad") : r \in s.add}
      BY <1>4 DEF Obeyed
    <2>2. ASSUME NEW y \in {NewItem(c, r, "kicad") : r \in s.add} PROVE \E r \in s.add : y = NewItem(c, r, "kicad") /\ y.id = <<c, r, "kicad">>
      BY DEF NewItem
    <2>3. ASSUME NEW y \in {NewItem(c, r, "kicad") : r \in s.add}, NEW x \in mem[d] PROVE y.id # x.id
      BY <1>1, <1>2, <2>2, NotMadeYet
    <2>4. ASSUME NEW x \in {NewItem(c, r, "kicad") : r \in s.add}, NEW y \in {NewItem(c, r, "kicad") : r \in s.add}, x.id = y.id PROVE x = y
      <3>1. PICK r \in s.add : x = NewItem(c, r, "kicad") /\ x.id = <<c, r, "kicad">>
        BY <2>2, <2>4
      <3>2. PICK q \in s.add : y = NewItem(c, q, "kicad") /\ y.id = <<c, q, "kicad">>
        BY <2>2, <2>4
      <3>3. r = q
        BY <2>4, <3>1, <3>2
      <3> QED BY <3>1, <3>2, <3>3
    <2> QED BY <1>2, <2>1, <2>3, <2>4 DEF Once
  <1>5. CASE s.op = "delete"
    <2>1. Obeyed(c) \subseteq mem[d]
      BY <1>5 DEF Obeyed
    <2> QED BY <1>2, <2>1 DEF Once
  <1>6. CASE s.op = "update"
    <2>1. Obeyed(c) = {x \in mem[d] : x.id \notin {y.id : y \in sent}} \cup {[x EXCEPT ![s.attr] = c] : x \in sent}
      BY <1>6 DEF Obeyed
    <2>2. ASSUME NEW y \in {[x EXCEPT ![s.attr] = c] : x \in sent} PROVE \E x \in sent : y = [x EXCEPT ![s.attr] = c] /\ y.id = x.id
      BY <1>2, <1>3 DEF Named, ItemsInv, ItemOK, ItemFields
    <2> QED BY <1>2, <2>1, <2>2 DEF Once, Named
  <1> QED BY <1>4, <1>5, <1>6 DEF Changing

LEMMA RestoredOnce ==
    ASSUME OnceInv, NEW b \in Boards PROVE Once(Restored[b])
  <1> DEFINE notes == {n \in undo.was : n.doc = b}
             left == {x \in mem[b] : x.id \notin {n.id : n \in notes}}
  <1>1. Restored[b] = left \cup UNION {n.old : n \in notes}
    BY DEF Restored
  <1>2. ASSUME NEW y \in UNION {n.old : n \in notes} PROVE \E n \in notes : y \in n.old /\ y.id = n.id
    BY DEF OnceInv, NotesOK
  <1>3. ASSUME NEW x \in UNION {n.old : n \in notes}, NEW y \in UNION {n.old : n \in notes}, x.id = y.id PROVE x = y
    BY <1>2, <1>3 DEF OnceInv, NotesOK
  <1>4. ASSUME NEW x \in left, NEW y \in UNION {n.old : n \in notes} PROVE x.id # y.id
    BY <1>2
  <1>5. ASSUME NEW x \in left, NEW y \in left, x.id = y.id PROVE x = y
    BY <1>5 DEF OnceInv, Once
  <1> QED BY <1>1, <1>3, <1>4, <1>5 DEF Once

LEMMA NotedOK ==
    ASSUME KicadOK, OnceInv, NEW d \in Boards, NEW after, undo' = Noted(d, after) PROVE NotesOK'
  <1>1. undo'.was = undo.was \cup {Note(d, i) : i \in Fresh(d, after)}
    BY NotedGives
  <1>2. ASSUME NEW i \in Fresh(d, after)
        PROVE  /\ Note(d, i).doc = d /\ Note(d, i).id = i
               /\ \A x, y \in Note(d, i).old : x.id = i /\ x = y
               /\ \A m \in undo.was : ~(m.doc = d /\ m.id = i)
    BY DEF Note, Fresh, OnceInv, Once
  <1>3. ASSUME NEW n \in undo'.was
        PROVE  n.doc \in Boards /\ \A x, y \in n.old : x.id = n.id /\ x = y
    BY <1>1, <1>2, <1>3 DEF OnceInv, NotesOK
  <1>4. ASSUME NEW n \in undo'.was, NEW m \in undo'.was, n.doc = m.doc, n.id = m.id PROVE n = m
    <2>1. CASE n \in undo.was /\ m \in undo.was
      BY <1>4, <2>1 DEF OnceInv, NotesOK
    <2>2. CASE \E i \in Fresh(d, after) : n = Note(d, i)
      BY <1>1, <1>2, <1>4, <2>2
    <2>3. CASE \E i \in Fresh(d, after) : m = Note(d, i)
      BY <1>1, <1>2, <1>4, <2>3
    <2> QED BY <1>1, <1>4, <2>1, <2>2, <2>3
  <1> QED BY <1>3, <1>4 DEF NotesOK

LEMMA WorkOnce ==
    ASSUME TypeOK, KicadOK, ItemsInv, OnceInv, NEW c \in Callers, Work(c) PROVE OnceInv'
  <1>1. \A b \in Boards : Once(file[b]) /\ Once(mem[b]) /\ \A k \in Callers : Once(call[k].seen[b])
    BY DEF OnceInv
  <1>2. ASSUME NEW k \in Callers, NEW b \in Boards PROVE Once(call'[k].seen[b])
    <2>1. call'[k].seen[b] \in {call[k].seen[b], file[b], mem[b], {}}
      BY BoardSeen
    <2>2. Once({})
      BY DEF Once
    <2> QED BY <1>1, <2>1, <2>2
  <1>3. ASSUME UNCHANGED <<file, mem, undo>> PROVE OnceInv'
    BY <1>1, <1>2, <1>3 DEF OnceInv, Once, NotesOK
  <1>4. CASE Command(c)
    <2>1. PhaseOf(c).kind # "file" /\ (Obeys(c) \/ Misses(c) \/ Restores(c) \/ GivesUp(c))
      BY <1>4, CommandGives
    <2>2. CASE Misses(c) \/ GivesUp(c)
      BY <1>3, <2>2 DEF Misses, GivesUp, NoEffect
    <2>3. CASE Restores(c)
      <3>1. UNCHANGED file /\ mem' = Restored /\ undo'.was = {}
        BY <2>3 DEF Restores, NoCommit
      <3>2. \A b \in Boards : Once(mem'[b]) /\ Once(file'[b])
        BY <1>1, <3>1, RestoredOnce
      <3>3. NotesOK'
        BY <3>1 DEF NotesOK
      <3> QED BY <1>2, <3>2, <3>3 DEF OnceInv, Once
    <2>4. CASE Obeys(c) /\ AtStep(c).op \in Changing
      <3>1. Target(c) \in Boards /\ Once(Obeyed(c))
        BY <2>1, <2>4, ObeyedOnBoards, ObeyedOnce DEF Changing
      <3>2. mem' = [mem EXCEPT ![Target(c)] = Obeyed(c)] /\ UNCHANGED file
            /\ (undo' = undo \/ undo' = Noted(Target(c), Obeyed(c)))
        BY <2>4 DEF Obeys, Effect, Changing
      <3>3. \A b \in Boards : Once(mem'[b]) /\ Once(file'[b])
        BY <1>1, <3>1, <3>2 DEF TypeOK
      <3>4. NotesOK'
        BY <3>1, <3>2, NotedOK DEF OnceInv, NotesOK
      <3> QED BY <1>2, <3>3, <3>4 DEF OnceInv, Once
    <2>5. CASE Obeys(c) /\ AtStep(c).op \notin Changing
      <3>1. UNCHANGED mem /\ undo'.was \in {undo.was, {}}
        BY <2>5 DEF Obeys, Effect, Changing, NoCommit
      <3>2. UNCHANGED file \/ file' = [file EXCEPT ![Target(c)] = mem[Target(c)]]
        BY <2>5 DEF Obeys, Effect
      <3>3. \A b \in Boards : file'[b] \in {file[b], mem[b]}
        BY <3>2 DEF TypeOK, Docs
      <3>4. \A b \in Boards : Once(mem'[b]) /\ Once(file'[b])
        BY <1>1, <3>1, <3>3
      <3>5. NotesOK'
        BY <3>1 DEF OnceInv, NotesOK
      <3> QED BY <1>2, <3>4, <3>5 DEF OnceInv, Once
    <2> QED BY <2>1, <2>2, <2>3, <2>4, <2>5
  <1>5. CASE FileStep(c) \/ FileFails(c)
    <2>1. call[c].at = "work" /\ PhaseOf(c).kind = "file" /\ UNCHANGED <<mem, undo>> /\ (UNCHANGED file \/ Stores(c))
      BY <1>5, FileGives
    <2>2. ASSUME NEW b \in Boards, Stores(c), file'[b] # file[b] PROVE Once(file'[b])
      <3>1. PICK base \in {file[b], {}, call[c].seen[b]} :
              \/ file'[b] = Edited(base, AtStep(c), c, "file")
              \/ Root \notin Refs(base) /\ file'[b] = Edited(base, AtStep(c), c, "file") \cup {OldItem(Root)}
        BY <2>2, BoardWritten
      <3>2. base \subseteq Items /\ Once(base)
        BY <1>1, ItemsHold DEF Once
      <3> QED BY <2>1, <3>1, <3>2, AfterEditOnce
    <2>3. \A b \in Boards : Once(mem'[b]) /\ Once(file'[b])
      BY <1>1, <2>1, <2>2
    <2>4. NotesOK'
      BY <2>1 DEF OnceInv, NotesOK
    <2> QED BY <1>2, <2>3, <2>4 DEF OnceInv, Once
  <1> QED BY <1>4, <1>5 DEF Work

LEMMA RestOnce ==
    ASSUME TypeOK, KicadOK, ItemsInv, OnceInv,
           (\E c \in Callers : Ask(c) \/ Refuse(c) \/ Leave(c)) \/ UserInKicad \/ UserInEeschema \/ UNCHANGED vars
    PROVE  OnceInv'
  <1>1. \A b \in Boards : Once(file[b]) /\ Once(mem[b]) /\ \A k \in Callers : Once(call[k].seen[b])
    BY DEF OnceInv
  <1>2. Once({})
    BY DEF Once
  <1>3. ASSUME NEW c \in Callers, Ask(c) \/ Refuse(c) \/ Leave(c) PROVE OnceInv'
    <2>1. Alone(c) /\ (Begins(c) \/ Hangs(c)) /\ UNCHANGED <<file, mem, undo>>
      BY <1>3, AskGives
    <2>2. \A b \in Boards : NothingSeen[b] = {}
      BY DEF NothingSeen, Docs
    <2>3. call'[c].seen = call[c].seen \/ call'[c].seen = NothingSeen
      BY <2>1 DEF Begins, Hangs, CallFields
    <2>4. \A k \in Callers, b \in Boards : Once(call'[k].seen[b])
      BY <1>1, <1>2, <2>1, <2>2, <2>3 DEF Alone
    <2> QED BY <1>1, <2>1, <2>4 DEF OnceInv, NotesOK, Once
  <1>4. CASE UserInKicad
    <2>1. UNCHANGED call /\ undo'.was \in {undo.was, {}}
      BY <1>4 DEF UserInKicad, StartKicad, QuitKicad, OpenBoard, CloseBoard, SaveBoard, EditBoard, NoCommit, Move
    <2>2. ASSUME NEW b \in Boards PROVE Once(mem'[b]) /\ Once(file'[b])
      <3>1. DOMAIN mem = Boards /\ b \in DOMAIN file
        BY DEF TypeOK, Docs
      <3>2. file'[b] \in {file[b], mem[b]}
        BY <1>4, <3>1 DEF UserInKicad, StartKicad, QuitKicad, OpenBoard, CloseBoard, SaveBoard, EditBoard
      <3>3. \/ mem'[b] \in {file[b], mem[b], {}}
            \/ \E x \in mem[b] : mem'[b] = (mem[b] \ {x}) \cup {[x EXCEPT !.val = User]}
        BY <1>4, <3>1 DEF UserInKicad, StartKicad, QuitKicad, OpenBoard, CloseBoard, SaveBoard, EditBoard
      <3>4. ASSUME NEW x \in mem[b], mem'[b] = (mem[b] \ {x}) \cup {[x EXCEPT !.val = User]} PROVE Once(mem'[b])
        <4>1. [x EXCEPT !.val = User].id = x.id
          BY ItemsHold DEF ItemsInv, ItemOK, ItemFields
        <4> QED BY <1>1, <3>4, <4>1 DEF Once
      <3> QED BY <1>1, <1>2, <3>2, <3>3, <3>4
    <2>3. NotesOK'
      BY <2>1 DEF OnceInv, NotesOK
    <2> QED BY <1>1, <2>1, <2>2, <2>3 DEF OnceInv, Once
  <1>5. CASE UserInEeschema
    <2>1. UNCHANGED <<call, undo, mem>>
      BY <1>5 DEF UserInEeschema, OpenSheet, EditSheetByHand, SaveSheet, CloseSheet, Move
    <2>2. \A b \in Boards : file'[b] = file[b]
      BY <1>5, SheetsOnly
    <2> QED BY <2>1, <2>2 DEF OnceInv, NotesOK, Once
  <1>6. CASE UNCHANGED vars
    BY <1>6 DEF vars, OnceInv, NotesOK, Once
  <1> QED BY <1>3, <1>4, <1>5, <1>6

-----------------------------------------------------------------------------
(* Boards: what a job has listed.                                          *)

\* Only the job that has its turn changes what KiCad holds.
LEMMA TurnsChange ==
    ASSUME TypeOK, NEW c \in Callers, Work(c), ~UNCHANGED <<mem, undo>>
    PROVE  Command(c) /\ PhaseOf(c).kind = "job" /\ Turn(c)
  <1>1. CASE Command(c)
    <2>1. PhaseOf(c).kind = "job" => Turn(c)
      BY <1>1, CommandGives
    <2>2. (Obeys(c) /\ OnTurn(c)) \/ Restores(c)
      BY <1>1, CommandGives DEF Misses, GivesUp, NoEffect
    <2>3. CASE Restores(c)
      BY <1>1, <2>1, <2>3 DEF Restores, TypeOK, CallOK
    <2>4. CASE Obeys(c) /\ OnTurn(c)
      <3>1. AtStep(c).op \in Changing \cup {"begin", "push"}
        BY <2>4 DEF Obeys, Effect, Changing
      <3>2. PhaseOf(c).kind # "direct" /\ PhaseOf(c).kind \in {"job", "direct"}
        BY <1>1, <2>4, <3>1, CommandGives, StepIsSound DEF SoundStep
      <3> QED BY <1>1, <2>1, <3>2
    <2> QED BY <2>2, <2>3, <2>4
  <1>2. CASE FileStep(c) \/ FileFails(c)
    BY <1>2, FileGives
  <1> QED BY <1>1, <1>2 DEF Work

LEMMA OthersWait ==
    ASSUME TypeOK, NEW c \in Callers, NEW k \in Callers, Turn(c), k # c, IsJob(call[k])
    PROVE  call[k].seen = NothingSeen /\ ~call[k].commit /\ call[k].pc = 1
  <1>1. ~Turn(k)
    BY DEF Turn
  <1> QED BY <1>1 DEF TypeOK, CallOK

\* Between jobs nobody has listed or begun anything.
LEMMA BetweenJobs ==
    ASSUME TypeOK, queue = <<>>, NEW k \in Callers, IsJob(call[k])
    PROVE  call[k].seen = NothingSeen /\ ~call[k].commit /\ call[k].pc = 1
  <1>1. ~Turn(k)
    BY DEF Turn
  <1> QED BY <1>1 DEF TypeOK, CallOK

LEMMA CommitsAreJobs ==
    ASSUME TypeOK, NEW k \in Callers, call[k].commit
    PROVE  IsJob(call[k]) /\ Turn(k) /\ OnTurn(k) /\ PhaseOf(k).kind = "job"
  BY DEF TypeOK, CallOK, IsJob, OnTurn, PhaseOf

\* A job is one before a step of another.
LEMMA SameJob ==
    ASSUME NEW k \in Callers, call'[k] = call[k] PROVE (IsJob(call[k]))' = IsJob(call[k])
  BY DEF IsJob

FreshFor(c, b) == IsJob(call[c]) => \A z \in call[c].seen[b], x \in mem[b] : z.id = x.id =>
    \A a \in {"at", "val"} : x[a] \in Callers \ {c} => z[a] = x[a]

\* What a command of its own makes of a board that a job has listed.
LEMMA OwnFresh ==
    ASSUME TypeOK, ItemsInv, OnceInv, NEW c \in Callers, NEW b \in Boards, FreshFor(c, b), Obeys(c), IsJob(call[c]),
           AtStep(c).op \in Changing, PhaseOf(c).kind = "job", call'[c].seen[b] = call[c].seen[b],
           NEW z \in call[c].seen[b], NEW x \in mem'[b], z.id = x.id, NEW a \in {"at", "val"}, x[a] \in Callers \ {c}
    PROVE  z[a] = x[a]
  <1> DEFINE s == AtStep(c)
             d == Target(c)
             sent == {y \in Named(call[c].seen[d], s.set) : y.id \in {w.id : w \in mem[d]}}
  <1>1. d \in Boards /\ call[c].at = "work" /\ mem' = [mem EXCEPT ![d] = Obeyed(c)]
    BY ObeyedOnBoards DEF Changing, Obeys, Effect, Commanding, Working
  <1>2. s.attr \in {"at", "val"}
    BY <1>1, StepIsSound DEF OnTurn, SoundStep
  <1>3. CASE x \in mem[b]
    BY <1>3 DEF FreshFor
  <1>4. CASE x \notin mem[b]
    <2>1. b = d /\ x \in Obeyed(c)
      BY <1>1, <1>4 DEF TypeOK
    <2>2. CASE s.op = "create"
      <3>1. PICK r \in s.add : x = NewItem(c, r, "kicad")
        BY <1>4, <2>1, <2>2 DEF Obeyed
      <3>2. x[a] = c
        BY <3>1 DEF NewItem
      <3> QED BY <3>2
    <2>3. CASE s.op = "delete"
      BY <1>4, <2>1, <2>3 DEF Obeyed
    <2>4. CASE s.op = "update"
      <3>1. PICK y \in sent : x = [y EXCEPT ![s.attr] = c]
        BY <1>4, <2>1, <2>4 DEF Obeyed
      <3>2. y \in call[c].seen[b] /\ DOMAIN y = ItemFields
        BY <2>1, <3>1, ItemsHold DEF Named, ItemsInv, ItemOK
      <3>3. x.id = y.id /\ x[s.attr] = c /\ (a # s.attr => x[a] = y[a])
        BY <1>2, <3>1, <3>2 DEF ItemFields
      <3>4. z = y
        BY <3>2, <3>3 DEF OnceInv, Once
      <3> QED BY <3>3, <3>4
    <2> QED BY <2>2, <2>3, <2>4 DEF Changing
  <1> QED BY <1>3, <1>4

LEMMA WorkFresh ==
    ASSUME TypeOK, ItemsInv, OnceInv, FreshInv, NEW c \in Callers, Work(c) PROVE FreshInv'
  <1>1. Alone(c) /\ OnTurn(c)
    BY WorkPasses
  <1>2. \A k \in Callers, b \in Boards : FreshFor(k, b)
    BY DEF FreshInv, FreshFor
  <1>3. ASSUME NEW k \in Callers, k # c, NEW b \in Boards PROVE FreshFor(k, b)'
    <2>1. call'[k] = call[k] /\ (IsJob(call[k]))' = IsJob(call[k])
      BY <1>1, <1>3, SameJob DEF Alone
    <2>2. CASE UNCHANGED <<mem, undo>>
      BY <1>2, <2>1, <2>2 DEF FreshFor
    <2>3. CASE ~UNCHANGED <<mem, undo>> /\ IsJob(call[k])
      <3>1. call'[k].seen[b] = {}
        BY <1>3, <2>1, <2>3, TurnsChange, OthersWait DEF NothingSeen, Docs
      <3> QED BY <3>1 DEF FreshFor
    <2> QED BY <2>1, <2>2, <2>3 DEF FreshFor
  <1>4. ASSUME NEW b \in Boards PROVE FreshFor(c, b)'
    <2>1. b \in Docs
      BY DEF Docs
    <2>2. CASE Ends(c)
      <3>1. call'[c].seen[b] = {}
        BY <2>1, <2>2 DEF Ends, NothingSeen
      <3> QED BY <3>1 DEF FreshFor
    <2>3. CASE Command(c) /\ ~Ends(c)
      <3>1. (IsJob(call[c]))' => IsJob(call[c]) /\ PhaseOf(c).kind = "job"
        <4>1. call'[c].phase = call[c].phase /\ call'[c].req = call[c].req
          BY <2>3, CommandGives, InformedFollows, SameFollows DEF Goes, Drops, Alone, Follows
        <4> QED BY <1>1, <4>1 DEF IsJob, PhaseOf, OnTurn
      <3>2. call'[c].seen[b] \in {call[c].seen[b], mem[b], {}}
        BY <2>3, CommandGives, BoardSeen
      <3>3. CASE UNCHANGED mem
        <4>1. \A x, z \in mem[b] : x.id = z.id => x = z
          BY DEF OnceInv, Once
        <4> QED BY <1>2, <3>1, <3>2, <3>3, <4>1 DEF FreshFor
      <3>4. CASE ~UNCHANGED mem
        <4>1. Obeys(c) /\ AtStep(c).op \in Changing
          BY <2>3, <3>4, CommandGives DEF Obeys, Effect, Changing, Misses, NoEffect, Restores, GivesUp
        <4>2. Goes(c, Informed(c)) \/ Goes(c, call[c]) \/ Drops(c)
          BY <2>3, CommandGives
        <4>3. Informed(c) = call[c]
          BY <4>1 DEF Informed, Changing
        <4>4. call'[c].seen = call[c].seen
          BY <4>2, <4>3 DEF Goes, Drops
        <4> QED BY <1>2, <3>1, <4>1, <4>4, OwnFresh DEF FreshFor
      <3> QED BY <3>3, <3>4
    <2>4. CASE (FileStep(c) \/ FileFails(c)) /\ ~Ends(c)
      <3>1. PhaseOf(c).kind = "file" /\ call'[c].phase = call[c].phase /\ call'[c].req = call[c].req
        BY <2>4, FileGives, SameFollows, PeeksFollow DEF Goes, Alone, Follows
      <3>2. ~(IsJob(call[c]))'
        BY <3>1 DEF IsJob, PhaseOf
      <3> QED BY <3>2 DEF FreshFor
    <2> QED BY <2>2, <2>3, <2>4 DEF Work
  <1>5. \A k \in Callers, b \in Boards : FreshFor(k, b)'
    BY <1>3, <1>4
  <1> QED BY <1>5 DEF FreshInv, FreshFor

\* The user opens boards between jobs only.
Between == \A b \in Boards : Known(b)' => Known(b) \/ queue = <<>>

LEMMA UserAndJobs ==
    ASSUME TypeOK, KicadOK, UserInKicad, Between
    PROVE  \/ queue = <<>>
           \/ /\ UNCHANGED <<mem, undo>>
           \/ /\ undo' = NoCommit /\ \A b \in Boards : mem'[b] \in {mem[b], {}}
           \/ /\ UNCHANGED undo
              /\ \E b \in Boards : \E x \in mem[b] : mem' = [mem EXCEPT ![b] = (@ \ {x}) \cup {[x EXCEPT !.val = User]}]
  <1>1. CASE StartKicad
    <2>1. PICK b \in Boards : open' = <<b>>
      BY <1>1 DEF StartKicad
    <2>2. open = <<>>
      BY <1>1 DEF StartKicad, KicadOK
    <2>3. Known(b)' /\ ~Known(b)
      BY <2>1, <2>2 DEF Known, ToSet
    <2> QED BY <2>3 DEF Between
  <1>2. CASE QuitKicad
    BY <1>2 DEF QuitKicad
  <1>3. ASSUME NEW b \in Boards, OpenBoard(b) PROVE queue = <<>>
    <2>1. open' = Append(open, b) /\ ~Known(b)
      BY <1>3 DEF OpenBoard
    <2>2. Known(b)'
      <3>1. Len(open) + 1 \in DOMAIN Append(open, b) /\ Append(open, b)[Len(open) + 1] = b
        BY DEF TypeOK
      <3> QED BY <2>1, <3>1 DEF Known, ToSet
    <2> QED BY <2>1, <2>2 DEF Between
  <1>4. ASSUME NEW b \in Boards, CloseBoard(b) PROVE undo' = NoCommit /\ \A d \in Boards : mem'[d] \in {mem[d], {}}
    BY <1>4 DEF CloseBoard, TypeOK
  <1>5. ASSUME NEW b \in Boards, SaveBoard(b) PROVE UNCHANGED <<mem, undo>>
    BY <1>5 DEF SaveBoard
  <1>6. ASSUME NEW b \in Boards, EditBoard(b)
        PROVE  UNCHANGED undo /\ \E x \in mem[b] : mem' = [mem EXCEPT ![b] = (@ \ {x}) \cup {[x EXCEPT !.val = User]}]
    BY <1>6 DEF EditBoard
  <1> QED BY <1>1, <1>2, <1>3, <1>4, <1>5, <1>6 DEF UserInKicad

LEMMA EditedByUser ==
    ASSUME TypeOK, ItemsInv, NEW b \in Boards, NEW x \in mem[b], mem' = [mem EXCEPT ![b] = (@ \ {x}) \cup {[x EXCEPT !.val = User]}]
    PROVE  /\ \A d \in Boards : \A y \in mem'[d] : \E w \in mem[d] :
                w.id = y.id /\ w.ref = y.ref /\ w.at = y.at /\ (y.val = w.val \/ y.val = User)
           /\ \A d \in Boards : \A w \in mem[d] : \E y \in mem'[d] : w.id = y.id /\ w.ref = y.ref /\ w.at = y.at
  <1> DEFINE z == [x EXCEPT !.val = User]
  <1>1. z.id = x.id /\ z.ref = x.ref /\ z.at = x.at /\ z.val = User
    BY ItemsHold DEF ItemsInv, ItemOK, ItemFields
  <1> HIDE DEF z
  <1>2. mem'[b] = (mem[b] \ {x}) \cup {z} /\ \A d \in Boards : d # b => mem'[d] = mem[d]
    BY DEF TypeOK, z
  <1> QED BY <1>1, <1>2

LEMMA RestFresh ==
    ASSUME TypeOK, KicadOK, ItemsInv, FreshInv, Between,
           (\E c \in Callers : Ask(c) \/ Refuse(c) \/ Leave(c)) \/ UserInKicad \/ UserInEeschema \/ UNCHANGED vars
    PROVE  FreshInv'
  <1>1. \A k \in Callers, b \in Boards : FreshFor(k, b)
    BY DEF FreshInv, FreshFor
  <1>2. ASSUME NEW c \in Callers, Ask(c) \/ Refuse(c) \/ Leave(c), NEW k \in Callers, NEW b \in Boards PROVE FreshFor(k, b)'
    <2>1. Alone(c) /\ (Begins(c) \/ Hangs(c)) /\ UNCHANGED mem
      BY <1>2, AskGives
    <2>2. CASE k # c
      BY <1>1, <2>1, <2>2, SameJob DEF Alone, FreshFor
    <2>3. CASE k = c /\ Begins(c)
      BY <2>3 DEF Begins, NothingSeen, Docs, FreshFor
    <2>4. CASE k = c /\ Hangs(c)
      <3>1. (IsJob(call[c]))' = IsJob(call[c]) /\ call'[c].seen = call[c].seen
        BY <2>4 DEF Hangs, CallFields, IsJob
      <3> QED BY <1>1, <2>1, <2>4, <3>1 DEF FreshFor
    <2> QED BY <2>1, <2>2, <2>3, <2>4
  <1>3. ASSUME UNCHANGED call, NEW k \in Callers, NEW b \in Boards PROVE (IsJob(call[k]))' = IsJob(call[k])
    BY <1>3, SameJob
  <1>4. ASSUME UserInKicad, NEW k \in Callers, NEW b \in Boards PROVE FreshFor(k, b)'
    <2>1. UNCHANGED call /\ (IsJob(call[k]))' = IsJob(call[k])
      BY <1>3, <1>4, UserTypes
    <2>2. CASE queue = <<>>
      <3>1. IsJob(call[k]) => call[k].seen[b] = {}
        BY <2>2, BetweenJobs DEF NothingSeen, Docs
      <3> QED BY <2>1, <3>1 DEF FreshFor
    <2>3. CASE mem'[b] \in {mem[b], {}}
      BY <1>1, <2>1, <2>3 DEF FreshFor
    <2>4. ASSUME NEW d \in Boards, NEW x \in mem[d], mem' = [mem EXCEPT ![d] = (@ \ {x}) \cup {[x EXCEPT !.val = User]}]
          PROVE  FreshFor(k, b)'
      <3>1. \A y \in mem'[b] : \E w \in mem[b] : w.id = y.id /\ w.at = y.at /\ (y.val = w.val \/ y.val = User)
        BY <2>4, EditedByUser
      <3> QED BY <1>1, <2>1, <3>1, ToolsAssumption DEF FreshFor
    <2> QED BY <1>4, <2>2, <2>3, <2>4, UserAndJobs
  <1>5. ASSUME UserInEeschema \/ UNCHANGED vars, NEW k \in Callers, NEW b \in Boards PROVE FreshFor(k, b)'
    <2>1. UNCHANGED <<call, mem>>
      BY <1>5 DEF vars, UserInEeschema, OpenSheet, EditSheetByHand, SaveSheet, CloseSheet, Move
    <2> QED BY <1>1, <1>3, <2>1 DEF FreshFor
  <1>6. \A k \in Callers, b \in Boards : FreshFor(k, b)'
    BY <1>2, <1>4, <1>5
  <1> QED BY <1>6 DEF FreshInv, FreshFor

-----------------------------------------------------------------------------
(* Boards: edits stay.                                                     *)

\* Who changes what KiCad holds and is not dropping it.
LEMMA ActsObeyed ==
    ASSUME TypeOK, [Next]_vars, NEW c \in Callers, Acts(c), ~UNCHANGED mem
    PROVE  /\ Work(c) /\ Obeys(c) /\ AtStep(c).op \in Changing /\ PhaseOf(c).kind = "job" /\ Turn(c)
           /\ Target(c) \in Boards /\ mem' = [mem EXCEPT ![Target(c)] = Obeyed(c)]
  <1>1. PICK k \in Callers : Work(k)
    <2>1. ASSUME NEW k \in Callers, Ask(k) \/ Refuse(k) \/ Leave(k) PROVE FALSE
      BY <2>1, AskGives
    <2>2. CASE UserInKicad \/ UserInEeschema
      BY <2>2, UserTypes DEF Acts, Steps
    <2>3. CASE UNCHANGED vars
      BY <2>3 DEF vars
    <2> QED BY <2>1, <2>2, <2>3 DEF Next
  <1>2. k = c
    BY <1>1, WorkPasses DEF Alone, Acts, Steps
  <1>3. Command(c) /\ PhaseOf(c).kind = "job" /\ Turn(c)
    BY <1>1, <1>2, TurnsChange
  <1>4. Obeys(c)
    BY <1>3, CommandGives DEF Acts, Misses, NoEffect, Restores, GivesUp
  <1>5. AtStep(c).op \in Changing /\ mem' = [mem EXCEPT ![Target(c)] = Obeyed(c)]
    BY <1>4 DEF Obeys, Effect, Changing
  <1>6. Target(c) \in Boards
    BY <1>4, <1>5, ObeyedOnBoards DEF Changing
  <1> QED BY <1>1, <1>2, <1>3, <1>4, <1>5, <1>6

\* What a call that only commands has set on an item that it now changes, it
\* set through the same attribute.
LEMMA OwnMarks ==
    ASSUME TypeOK, ItemsInv, NEW c \in Callers, OnTurn(c), PhaseOf(c).kind = "job", AtStep(c).op = "update", OnlyCommands(c),
           NEW x \in Items, x.ref \in AtStep(c).set, NEW a \in {"at", "val"}, x[a] = c
    PROVE  a = AtStep(c).attr
  <1>1. Traced(x, c) /\ Marked(x, c)
    BY DEF ItemsInv, ItemOK
  <1>2. \A p \in DOMAIN Run(c) : ~InFile(c, p)
    BY DEF OnlyCommands, Run, InFile
  <1>3. AtStep(c) = StepsOf(c, call[c].phase)[call[c].pc] /\ call[c].phase \in DOMAIN Run(c)
        /\ call[c].pc \in DOMAIN StepsOf(c, call[c].phase)
    BY StepIsSound
  <1>4. PICK p \in DOMAIN Run(c) : \E k \in DOMAIN StepsOf(c, p) :
          \/ InFile(c, p)
          \/ StepsOf(c, p)[k].op \in Changing /\ (x.id[1] = c \/ (StepsOf(c, p)[k].op = "update" /\ StepsOf(c, p)[k].attr = a))
    BY <1>1 DEF Marked
  <1>5. PICK k \in DOMAIN StepsOf(c, p) : x.id[1] = c \/ (StepsOf(c, p)[k].op = "update" /\ StepsOf(c, p)[k].attr = a)
    BY <1>2, <1>4
  <1>6. InFile(c, p) = InFile(c, call[c].phase)
    BY <1>2, <1>3 DEF InFile
  <1>7. CASE x.id[1] = c
    <2>1. PICK q \in DOMAIN Run(c) : \E j \in DOMAIN StepsOf(c, q) : x.ref \in StepsOf(c, q)[j].add
      BY <1>1, <1>7 DEF Traced
    <2>2. PICK j \in DOMAIN StepsOf(c, q) : x.ref \in StepsOf(c, q)[j].add
      BY <2>1
    <2>3. InFile(c, q) = InFile(c, call[c].phase) /\ ~InFile(c, q)
      BY <1>2, <1>3 DEF InFile
    <2>4. StepsOf(c, q)[j].add \cap AtStep(c).set = {}
      BY <1>3, <2>3, StepsApart
    <2> QED BY <2>2, <2>4
  <1>8. CASE StepsOf(c, p)[k].op = "update" /\ StepsOf(c, p)[k].attr = a
    BY <1>2, <1>3, <1>6, <1>8, StepsApart
  <1> QED BY <1>5, <1>7, <1>8

BoardEdit(c, b) == Acts(c) => \A x \in mem[b] \ mem'[b] :
  /\ x.ref \in {call[c].req.ref, call[c].req.to}
  /\ \A y \in mem'[b] : y.id = x.id =>
       \A a \in {"at", "val"} \ {AtStep(c).attr} : OnlyCommands(x[a]) => y[a] = x[a]

LEMMA BoardEditStep ==
    ASSUME TypeOK, ItemsInv, OnceInv, FreshInv, [Next]_vars, NEW c \in Callers, NEW b \in Boards PROVE BoardEdit(c, b)
  <1> SUFFICES ASSUME Acts(c), NEW x \in mem[b] \ mem'[b]
               PROVE  /\ x.ref \in {call[c].req.ref, call[c].req.to}
                      /\ \A y \in mem'[b] : y.id = x.id =>
                           \A a \in {"at", "val"} \ {AtStep(c).attr} : OnlyCommands(x[a]) => y[a] = x[a]
    BY DEF BoardEdit
  <1> DEFINE s == AtStep(c)
             d == Target(c)
             sent == {y \in Named(call[c].seen[d], s.set) : y.id \in {w.id : w \in mem[d]}}
  <1>1. Obeys(c) /\ s.op \in Changing /\ PhaseOf(c).kind = "job" /\ d \in Boards /\ mem' = [mem EXCEPT ![d] = Obeyed(c)]
    BY ActsObeyed
  <1>2. b = d /\ mem'[b] = Obeyed(c)
    BY <1>1 DEF TypeOK
  <1>3. OnTurn(c) /\ IsJob(call[c])
    BY <1>1 DEF Acts, OnTurn, IsJob, PhaseOf
  <1>4. s.drop \cup s.set \subseteq {call[c].req.ref, call[c].req.to} /\ s.attr \in {"at", "val"}
    BY <1>1, <1>3, StepIsSound DEF SoundStep
  <1>5. mem[b] \subseteq Items /\ call[c].seen[b] \subseteq Items /\ Once(mem[b]) /\ Once(call[c].seen[b])
    BY ItemsHold DEF OnceInv
  <1>6. CASE s.op = "create"
    BY <1>2, <1>6 DEF Obeyed
  <1>7. CASE s.op = "delete"
    <2>1. x.ref \in s.drop /\ mem'[b] \subseteq mem[b]
      BY <1>2, <1>7 DEF Obeyed, Named
    <2>2. ASSUME NEW y \in mem'[b], y.id = x.id PROVE FALSE
      BY <1>5, <2>1, <2>2 DEF Once
    <2> QED BY <1>4, <2>1, <2>2
  <1>8. CASE s.op = "update"
    <2>1. Obeyed(c) = {w \in mem[d] : w.id \notin {y.id : y \in sent}} \cup {[w EXCEPT ![s.attr] = c] : w \in sent}
      BY <1>8 DEF Obeyed
    <2>2. PICK z \in sent : z.id = x.id
      BY <1>2, <2>1
    <2>3. z \in call[c].seen[b] /\ z.ref \in s.set /\ x.ref = z.ref /\ x \in Items
      BY <1>2, <1>5, <2>2 DEF Named, ItemsInv, ItemOK
    <2>4. ASSUME NEW y \in mem'[b], y.id = x.id, NEW a \in {"at", "val"} \ {s.attr}, OnlyCommands(x[a]) PROVE y[a] = x[a]
      <3>1. PICK w \in sent : y = [w EXCEPT ![s.attr] = c]
        BY <1>2, <2>1, <2>2, <2>4
      <3>2. DOMAIN w = ItemFields /\ w \in call[c].seen[b]
        BY <1>2, <1>5, <3>1 DEF Named, ItemsInv, ItemOK
      <3>3. y.id = w.id /\ y[a] = w[a]
        BY <1>4, <2>4, <3>1, <3>2 DEF ItemFields
      <3>4. w = z
        BY <1>5, <2>2, <2>3, <2>4, <3>2, <3>3 DEF Once
      <3>5. x[a] \in Callers
        BY <2>4 DEF OnlyCommands
      <3>6. x[a] # c
        BY <1>1, <1>3, <1>8, <2>3, <2>4, OwnMarks
      <3>7. z[a] = x[a]
        BY <1>3, <2>2, <2>3, <3>5, <3>6 DEF FreshInv
      <3> QED BY <3>3, <3>4, <3>7
    <2> QED BY <1>4, <2>3, <2>4
  <1> QED BY <1>1, <1>6, <1>7, <1>8 DEF Changing

BoardInv == TypeOK /\ KicadOK /\ ItemsInv /\ OnceInv /\ FreshInv

LEMMA InitFresh == Init => FreshInv
  BY DEF Init, FreshInv, NoCall, IsJob

LEMMA BoardInvStays ==
    ASSUME BoardInv, [Next]_vars, Between PROVE BoardInv'
  <1>1. TypeOK' /\ KicadOK' /\ ItemsInv'
    BY TypesStay, KicadStays, ItemsStay DEF BoardInv
  <1>2. OnceInv' /\ FreshInv'
    <2>1. ASSUME NEW c \in Callers, Work(c) PROVE OnceInv' /\ FreshInv'
      BY <2>1, WorkOnce, WorkFresh DEF BoardInv
    <2>2. ASSUME ~\E c \in Callers : Work(c) PROVE OnceInv' /\ FreshInv'
      <3>1. (\E c \in Callers : Ask(c) \/ Refuse(c) \/ Leave(c)) \/ UserInKicad \/ UserInEeschema \/ UNCHANGED vars
        BY <2>2 DEF Next
      <3> QED BY <3>1, RestOnce, RestFresh DEF BoardInv
    <2> QED BY <2>1, <2>2
  <1> QED BY <1>1, <1>2 DEF BoardInv

\* The inductive invariant of the boards: each item once, with who made and set it;
\* what a job has listed is what is there, but for what it or the user has set since.
THEOREM ListingsStayFresh == Spec /\ OpensBetweenJobs => []BoardInv
  <1>1. Init => BoardInv
    BY InitTypes, InitBoards, InitFresh DEF BoardInv
  <1>2. BoardInv /\ [Next]_vars /\ [Between]_vars => BoardInv'
    <2>1. ASSUME BoardInv, [Next]_vars, Between PROVE BoardInv'
      BY <2>1, BoardInvStays
    <2>2. ASSUME BoardInv, UNCHANGED vars PROVE BoardInv'
      <3>1. Between
        BY <2>2 DEF vars, Between, Known
      <3> QED BY <2>2, <3>1, BoardInvStays
    <2> QED BY <2>1, <2>2
  <1> QED BY <1>1, <1>2, PTL DEF Spec, OpensBetweenJobs, Between

\* What a tool's edit leaves alone, of any callers, documents and requests, whatever
\* KiCad, the disk and the user do in between, if the user opens boards between
\* jobs only (EditsStay; command.rs commit_command, client.rs move_footprint).
THEOREM EditsAlwaysStay == Spec /\ OpensBetweenJobs => EditsStay
  <1>1. BoardInv /\ [Next]_vars => [\A c \in Callers, b \in Boards : BoardEdit(c, b)]_vars
    BY BoardEditStep DEF BoardInv
  <1>2. Spec /\ OpensBetweenJobs => BoardEditsStay
    BY <1>1, ListingsStayFresh, PTL DEF Spec, BoardEditsStay, BoardEdit
  <1> QED BY <1>2, SheetEditsAlwaysStay DEF EditsStay

-----------------------------------------------------------------------------
(* Commits and placements.                                                 *)

\* Where a call stays in its phase, and the steps of the phase with it.
LEMMA SamePhase ==
    ASSUME NEW c \in Callers, call'[c].req = call[c].req, call'[c].phase = call[c].phase
    PROVE  PhaseOf(c)' = PhaseOf(c) /\ Run(c)' = Run(c)
  BY DEF PhaseOf, Run

\* Only a commit that KiCad drops is answered with dropped.
LEMMA WorkAnswers ==
    ASSUME TypeOK, NEW c \in Callers, Work(c), call'[c].answer = "dropped"
    PROVE  Restores(c)
  <1>1. Follows(c, call[c]) /\ (OnTurn(c) => PhaseOf(c).then # "dropped" /\ call[c].answer = "none")
    BY SameFollows DEF TypeOK, CallOK, SoundRequest, PhaseOf, Run, OnTurn
  <1>2. OnTurn(c) /\ CallOK(c)'
    BY WorkPasses, WorkKeepsCalls
  <1>3. call'[c].at = "done"
    BY <1>2 DEF CallOK
  <1>4. ASSUME NEW r, Follows(c, r), Advance(c, r) PROVE FALSE
    <2>1. call[c].at = "work" \/ call[c].at = "drop"
      BY <1>2 DEF OnTurn
    <2>2. CASE r.pc < Len(PhaseOf(c).steps)
      <3>1. call' = [call EXCEPT ![c] = [r EXCEPT !.pc = @ + 1]] /\ DOMAIN call = Callers /\ DOMAIN r = CallFields
        BY <1>4, <2>2 DEF Advance, TypeOK, Follows
      <3>2. call'[c].at = r.at
        BY <3>1 DEF CallFields
      <3> QED BY <1>3, <1>4, <2>1, <3>2 DEF Follows
    <2>3. CASE ~(r.pc < Len(PhaseOf(c).steps))
      BY <1>1, <1>2, <1>3, <1>4, <2>3, FinishGives DEF Advance
    <2> QED BY <2>2, <2>3
  <1>5. ASSUME NEW verdict, verdict # "dropped", Finish(c, call[c], verdict) PROVE FALSE
    BY <1>1, <1>2, <1>3, <1>5, FinishGives
  <1>6. ASSUME NEW why, Fail(c, why) PROVE FALSE
    <2>1. ~(call' = [call EXCEPT ![c].at = "drop"])
      BY <1>3 DEF TypeOK, CallOK, CallFields
    <2> QED BY <1>1, <1>4, <1>5, <1>6, <2>1 DEF Fail
  <1>7. CASE FileStep(c) \/ FileFails(c)
    <2>1. Follows(c, Notices(c)) /\ Follows(c, Peeks(c))
      BY PeeksFollow
    <2>2. \/ Advance(c, Notices(c)) \/ Advance(c, Peeks(c)) \/ Advance(c, call[c])
          \/ Finish(c, call[c], "error") \/ Finish(c, call[c], PhaseOf(c).then)
      BY <1>7 DEF FileStep, FileFails, Look, LookBack, Locked, Store, Notices, Peeks, Reads
    <2> QED BY <1>1, <1>2, <1>4, <1>5, <2>1, <2>2
  <1>8. CASE Drop(c)
    BY <1>5, <1>8 DEF Drop, Restores
  <1>9. CASE Command(c) /\ ~Drop(c)
    <2>1. Follows(c, Informed(c))
      BY <1>2, <1>9, CommandGives, InformedFollows
    <2> QED BY <1>1, <1>4, <1>6, <1>9, <2>1 DEF Command, Executed, Declined, Unreachable, Refused, ReplyLost, Skipped, Panics
  <1> QED BY <1>7, <1>8, <1>9 DEF Work

\* How a call that commits is made.
Bracket(c, first, last) ==
  LET steps == PhaseOf(c).steps  q == call[c].req
  IN /\ first \in DOMAIN steps /\ last \in DOMAIN steps
     /\ \A k \in DOMAIN steps : /\ steps[k].op = "begin" <=> k = first
                                /\ steps[k].op = "push" <=> k = last
                                /\ steps[k].op \in Changing => first < k /\ k < last
                                /\ k \in first..last => ~steps[k].soft
     /\ q.tool = "modify_trace" => \E k \in 1..last : Adds(steps[k], q.to)
     /\ q.tool = "place_component_array" => \A r \in {q.ref, q.to} : \E k \in 1..last : Adds(steps[k], r)
     /\ q.tool = "align_components" => \A r \in {q.ref, q.to} : \E k \in 1..last : Sets(steps[k], r)

LEMMA Committing ==
    ASSUME TypeOK, NEW c \in Callers, OnTurn(c), NEW k \in DOMAIN PhaseOf(c).steps, PhaseOf(c).steps[k].op = "begin"
    PROVE  /\ DOMAIN Run(c) = {1} /\ call[c].phase = 1 /\ PhaseOf(c).kind = "job" /\ ~InFile(c, 1)
           /\ StepsOf(c, 1) = PhaseOf(c).steps
           /\ \E first \in DOMAIN PhaseOf(c).steps : \E last \in DOMAIN PhaseOf(c).steps : Bracket(c, first, last)
           /\ call[c].req.tool \in {"modify_trace", "place_component_array", "align_components"}
  <1> DEFINE q == call[c].req
  <1>1. SoundRequest(q) /\ call[c].phase \in DOMAIN q.run /\ PhaseOf(c) = q.run[call[c].phase]
    BY DEF TypeOK, CallOK, PhaseOf, Run
  <1>2. CommitsAll(q)
    BY <1>1 DEF SoundRequest
  <1>3. Len(q.run) = 1 /\ DOMAIN q.run = 1..Len(q.run) /\ q.run[1].kind = "job"
    BY <1>1, <1>2 DEF SoundRequest, CommitsAll
  <1>4. call[c].phase = 1 /\ DOMAIN q.run = {1} /\ PhaseOf(c) = q.run[1]
    BY <1>1, <1>3
  <1>5. q.tool \in {"modify_trace", "place_component_array", "align_components"}
    BY <1>2 DEF CommitsAll
  <1>6. \E first \in DOMAIN PhaseOf(c).steps : \E last \in DOMAIN PhaseOf(c).steps : Bracket(c, first, last)
    <2> DEFINE steps == q.run[1].steps
               whole(last) ==
                 CASE q.tool = "modify_trace" -> \E i \in 1..last : Adds(steps[i], q.to)
                   [] q.tool = "place_component_array" -> \A r \in {q.ref, q.to} : \E i \in 1..last : Adds(steps[i], r)
                   [] q.tool = "align_components" -> \A r \in {q.ref, q.to} : \E i \in 1..last : Sets(steps[i], r)
               between(first, last) ==
                 \A i \in DOMAIN steps : /\ steps[i].op = "begin" <=> i = first
                                         /\ steps[i].op = "push" <=> i = last
                                         /\ steps[i].op \in Changing => first < i /\ i < last
                                         /\ i \in first..last => ~steps[i].soft
    <2>1. \E first, last \in DOMAIN steps : between(first, last) /\ whole(last)
      BY <1>2 DEF CommitsAll
    <2>2. PICK first, last \in DOMAIN steps : between(first, last) /\ whole(last)
      BY <2>1
    <2>3. q.tool = "modify_trace" => \E i \in 1..last : Adds(steps[i], q.to)
      BY <2>2
    <2>4. q.tool = "place_component_array" => \A r \in {q.ref, q.to} : \E i \in 1..last : Adds(steps[i], r)
      BY <2>2
    <2>5. q.tool = "align_components" => \A r \in {q.ref, q.to} : \E i \in 1..last : Sets(steps[i], r)
      BY <2>2
    <2> HIDE DEF whole
    <2>6. steps = PhaseOf(c).steps
      BY <1>4
    <2>7. Bracket(c, first, last)
      <3> HIDE DEF steps, q
      <3>1. q = call[c].req
        BY DEF q
      <3>2. /\ q.tool = "modify_trace" => \E i \in 1..last : Adds(PhaseOf(c).steps[i], q.to)
            /\ q.tool = "place_component_array" => \A r \in {q.ref, q.to} : \E i \in 1..last : Adds(PhaseOf(c).steps[i], r)
            /\ q.tool = "align_components" => \A r \in {q.ref, q.to} : \E i \in 1..last : Sets(PhaseOf(c).steps[i], r)
        BY <2>3, <2>4, <2>5, <2>6
      <3>3. between(first, last)
        BY <2>2
      <3> QED BY <2>2, <2>6, <3>1, <3>2, <3>3 DEF Bracket
    <2> QED BY <2>2, <2>6, <2>7
  <1> QED BY <1>3, <1>4, <1>5, <1>6 DEF Run, StepsOf, InFile

\* A call that has a commit begun is between the begin and the push of its one phase.
LEMMA InCommit ==
    ASSUME TypeOK, BegunInv, NEW c \in Callers, call[c].commit
    PROVE  \E first \in DOMAIN PhaseOf(c).steps : \E last \in DOMAIN PhaseOf(c).steps :
             /\ Bracket(c, first, last) /\ first < call[c].pc /\ call[c].pc \in DOMAIN PhaseOf(c).steps
             /\ AtStep(c).op \in Changing \cup {"push"} => ~AtStep(c).soft
             /\ AtStep(c).op # "begin" /\ PhaseOf(c).kind = "job" /\ OnTurn(c)
  <1>1. OnTurn(c) /\ PhaseOf(c).kind = "job" /\ call[c].pc \in DOMAIN PhaseOf(c).steps /\ call[c].pc \in Nat
        /\ DOMAIN PhaseOf(c).steps = 1..Len(PhaseOf(c).steps) /\ Len(PhaseOf(c).steps) \in Nat
    BY CommitsAreJobs, WherePassing DEF TypeOK, CallOK, SoundRequest, PhaseOf, StepsOf, Run
  <1>2. PICK i \in 1..call[c].pc - 1 : PhaseOf(c).steps[i].op = "begin"
    BY DEF BegunInv, Begun
  <1>3. i \in DOMAIN PhaseOf(c).steps /\ i \in Nat /\ i < call[c].pc
    BY <1>1, <1>2
  <1>4. PICK first \in DOMAIN PhaseOf(c).steps : \E last \in DOMAIN PhaseOf(c).steps : Bracket(c, first, last)
    BY <1>1, <1>2, <1>3, Committing
  <1>5. PICK last \in DOMAIN PhaseOf(c).steps : Bracket(c, first, last)
    BY <1>4
  <1>6. first = i /\ AtStep(c) = PhaseOf(c).steps[call[c].pc]
    BY <1>2, <1>3, <1>5 DEF Bracket, AtStep
  <1>7. AtStep(c).op # "begin"
    BY <1>1, <1>3, <1>5, <1>6 DEF Bracket
  <1>8. AtStep(c).op \in Changing \cup {"push"} => ~AtStep(c).soft
    <2>1. AtStep(c).op \in Changing \cup {"push"} => call[c].pc \in first..last
      BY <1>1, <1>3, <1>5, <1>6 DEF Bracket
    <2> QED BY <1>1, <1>5, <1>6, <2>1 DEF Bracket
  <1> QED BY <1>1, <1>3, <1>5, <1>6, <1>7, <1>8

-----------------------------------------------------------------------------
(* Placements: what has been looked up stays so.                           *)

LEMMA LookedKept ==
    ASSUME NEW k \in Callers, LookedUp(k), call'[k].at = call[k].at, call'[k].req = call[k].req, call'[k].phase = call[k].phase,
           call'[k].pc = call[k].pc, call'[k].doc = call[k].doc, \A b \in Boards : Refs(mem'[b]) \subseteq Refs(mem[b])
    PROVE  LookedUp(k)'
  <1>1. PhaseOf(k)' = PhaseOf(k) /\ (IsJob(call[k]))' = IsJob(call[k])
    BY DEF PhaseOf, IsJob
  <1> QED BY <1>1 DEF LookedUp

LEMMA FirstStep ==
    ASSUME NEW k \in Callers, CallOK(k)', call'[k].pc = 1 PROVE LookedUp(k)'
  <1> SUFFICES ASSUME call'[k].at = "work" PROVE LookedUp(k)'
    BY DEF LookedUp
  <1>1. DOMAIN PhaseOf(k)'.steps = 1..Len(PhaseOf(k)'.steps)
    BY DEF CallOK, SoundRequest, PhaseOf, Run, OnTurn
  <1> QED BY <1>1 DEF LookedUp

\* A command after which the call goes on to the next step.
GoesOn(c) == Goes(c, Informed(c)) \/ Goes(c, call[c])

LEMMA NextStep ==
    ASSUME TypeOK, NEW c \in Callers, Command(c), GoesOn(c)
    PROVE  /\ call[c].at = "work" /\ call'[c].at = "work" /\ OnTurn(c) /\ call'[c].phase = call[c].phase
           /\ call'[c].pc = call[c].pc + 1 /\ call'[c].req = call[c].req
           /\ PhaseOf(c)' = PhaseOf(c) /\ AtStep(c) = PhaseOf(c).steps[call[c].pc]
           /\ call[c].pc \in Nat /\ DOMAIN PhaseOf(c).steps = 1..Len(PhaseOf(c).steps) /\ call[c].pc \in DOMAIN PhaseOf(c).steps
           /\ \/ Obeys(c) /\ Goes(c, Informed(c))
              \/ Obeys(c) /\ Goes(c, call[c]) /\ AtStep(c).soft
              \/ Misses(c) /\ Goes(c, call[c]) /\ (AtStep(c).soft \/ AtStep(c).op = "delete")
  <1>1. Alone(c) /\ OnTurn(c) /\ PhaseOf(c).kind # "file" /\ (call[c].at = "work" \/ Ends(c))
    <2>1. PhaseOf(c).kind # "file"
      BY CommandGives
    <2>2. Obeys(c) \/ Misses(c) => call[c].at = "work"
      BY DEF Obeys, Misses, Commanding, Working
    <2> QED BY <2>1, <2>2, CommandGives
  <1>2. Follows(c, Informed(c)) /\ Follows(c, call[c])
    BY <1>1, InformedFollows, SameFollows
  <1>3. call[c].pc \in Nat /\ DOMAIN PhaseOf(c).steps = 1..Len(PhaseOf(c).steps) /\ call[c].pc \in DOMAIN PhaseOf(c).steps
    BY <1>1, StepIsSound, WherePassing DEF SoundRequest, Run, StepsOf
  <1>4. call'[c].at = "work" /\ call'[c].phase = call[c].phase /\ call'[c].pc = call[c].pc + 1 /\ call'[c].req = call[c].req
    BY <1>1, <1>2 DEF GoesOn, Goes, Follows, Alone
  <1>5. ~Ends(c) /\ ~Drops(c)
    BY <1>3, <1>4 DEF Ends, Drops
  <1>6. PhaseOf(c)' = PhaseOf(c) /\ AtStep(c) = PhaseOf(c).steps[call[c].pc]
    BY <1>4, SamePhase DEF AtStep
  <1> QED BY <1>1, <1>3, <1>4, <1>5, <1>6, CommandGives

\* The step that looks up: no failure of it is passed over.
LEMMA OwnLook ==
    ASSUME TypeOK, NEW c \in Callers, LookedUp(c), Command(c), GoesOn(c) PROVE LookedUp(c)'
  <1> DEFINE steps == PhaseOf(c).steps
             pc == call[c].pc
  <1>1. call[c].at = "work" /\ pc \in Nat /\ DOMAIN steps = 1..Len(steps) /\ AtStep(c) = steps[pc]
    BY NextStep
  <1>2. call'[c].pc = pc + 1 /\ PhaseOf(c)' = PhaseOf(c) /\ call'[c].phase = call[c].phase /\ call'[c].req = call[c].req
    BY NextStep
  <1>3. (IsJob(call[c]))' => IsJob(call[c])
    BY <1>1, <1>2 DEF IsJob
  <1>4. ASSUME ~steps[pc].soft, steps[pc].op \in {"list", "find"}
        PROVE  Obeys(c) /\ Goes(c, Informed(c)) /\ mem' = mem
    <2>1. Obeys(c) /\ Goes(c, Informed(c))
      BY <1>1, <1>4, NextStep
    <2> QED BY <1>1, <1>4, <2>1 DEF Obeys, Effect
  <1>5. ASSUME ~steps[pc].soft, steps[pc].op = "list", call'[c].doc \in Boards
        PROVE  steps[pc].lacks \cap Refs(mem'[call'[c].doc]) = {}
    <2>1. Obeys(c) /\ Goes(c, Informed(c)) /\ mem' = mem
      BY <1>4, <1>5
    <2>2. Target(c) = call[c].doc /\ steps[pc].lacks \cap Refs(mem[Target(c)]) = {}
      BY <1>1, <1>5, <2>1 DEF Obeys, Accepts, Target
    <2>3. call'[c].doc = call[c].doc
      BY <1>1, <1>5, <2>1 DEF Goes, Informed, TypeOK, CallOK, CallFields
    <2> QED BY <2>1, <2>2, <2>3
  <1>6. ASSUME ~steps[pc].soft, steps[pc].op = "find" PROVE call'[c].doc = steps[pc].doc
    <2>1. Obeys(c) /\ Goes(c, Informed(c))
      BY <1>4, <1>6
    <2>2. Target(c) = steps[pc].doc /\ Informed(c) = [call[c] EXCEPT !.doc = Target(c)]
      BY <1>1, <1>6 DEF Target, Informed
    <2>3. Informed(c).doc = Target(c)
      BY <2>2 DEF TypeOK, CallOK, CallFields
    <2> QED BY <2>1, <2>2, <2>3 DEF Goes
  <1>7. ASSUME NEW k \in DOMAIN steps, ~steps[k].soft, k = pc - 1, steps[k].op = "find", steps[k + 1].op = "list", IsJob(call[c])
        PROVE  call'[c].doc = steps[k].doc
    <2>1. call[c].doc = steps[k].doc
      BY <1>1, <1>7 DEF LookedUp
    <2>2. k + 1 = pc
      BY <1>1, <1>7
    <2>3. AtStep(c).op = "list"
      BY <1>1, <1>7, <2>2
    <2>4. Informed(c).doc = call[c].doc
      BY <2>3 DEF Informed, TypeOK, CallOK, CallFields
    <2> QED BY <2>1, <2>4 DEF GoesOn, Goes
  <1>8. ASSUME call'[c].at = "work", (IsJob(call[c]))', NEW k \in DOMAIN steps, ~steps[k].soft
        PROVE  /\ k = pc /\ steps[k].op = "list" /\ call'[c].doc \in Boards => steps[k].lacks \cap Refs(mem'[call'[c].doc]) = {}
               /\ k = pc /\ steps[k].op = "find" => call'[c].doc = steps[k].doc
               /\ k = pc - 1 /\ steps[k].op = "find" /\ steps[k + 1].op = "list" => call'[c].doc = steps[k].doc
    BY <1>3, <1>5, <1>6, <1>7, <1>8
  <1>9. ASSUME call'[c].at = "work", (IsJob(call[c]))', NEW k \in DOMAIN steps, ~steps[k].soft
        PROVE  /\ k = call'[c].pc - 1 /\ steps[k].op = "list" /\ call'[c].doc \in Boards
                    => steps[k].lacks \cap Refs(mem'[call'[c].doc]) = {}
               /\ k = call'[c].pc - 1 /\ steps[k].op = "find" => call'[c].doc = steps[k].doc
               /\ k = call'[c].pc - 2 /\ steps[k].op = "find" /\ steps[k + 1].op = "list" => call'[c].doc = steps[k].doc
    <2>1. call'[c].pc - 1 = pc /\ call'[c].pc - 2 = pc - 1
      BY <1>1, <1>2
    <2> QED BY <1>8, <1>9, <2>1
  <1> HIDE DEF steps
  <1>10. steps = PhaseOf(c)'.steps
    BY <1>2 DEF steps
  <1> QED BY <1>9, <1>10 DEF LookedUp

LEMMA WorkLooks ==
    ASSUME TypeOK, PlaceInv, NEW c \in Callers, Work(c) PROVE PlaceInv'
  <1>1. Alone(c) /\ \A k \in Callers : CallOK(k)'
    BY WorkPasses, WorkKeepsCalls
  <1>2. ASSUME NEW k \in Callers, k # c PROVE LookedUp(k)'
    <2>1. call'[k] = call[k] /\ (IsJob(call[k]))' = IsJob(call[k]) /\ LookedUp(k)
      BY <1>1, <1>2, SameJob DEF Alone, PlaceInv
    <2>2. CASE UNCHANGED mem
      BY <2>1, <2>2, LookedKept
    <2>3. CASE ~UNCHANGED mem /\ IsJob(call[k])
      BY <1>1, <1>2, <2>1, <2>3, TurnsChange, OthersWait, FirstStep
    <2>4. CASE ~IsJob(call[k])
      BY <2>1, <2>4 DEF LookedUp
    <2> QED BY <2>2, <2>3, <2>4
  <1>3. LookedUp(c)'
    <2>1. CASE call'[c].pc = 1 \/ call'[c].at # "work"
      BY <1>1, <2>1, FirstStep DEF LookedUp
    <2>2. CASE Command(c) /\ call'[c].pc # 1 /\ call'[c].at = "work"
      <3>1. GoesOn(c)
        BY <2>2, CommandGives DEF Ends, Drops, GoesOn
      <3> QED BY <2>2, <3>1, OwnLook DEF PlaceInv
    <2>3. CASE (FileStep(c) \/ FileFails(c)) /\ call'[c].pc # 1
      <3>1. PhaseOf(c).kind = "file" /\ call'[c].phase = call[c].phase /\ call'[c].req = call[c].req
        <4>1. PhaseOf(c).kind = "file" /\ (Goes(c, call[c]) \/ Goes(c, Peeks(c)) \/ Goes(c, Notices(c)))
          BY <2>3, FileGives DEF Ends
        <4>2. Follows(c, call[c]) /\ Follows(c, Peeks(c)) /\ Follows(c, Notices(c))
          BY PeeksFollow, SameFollows
        <4> QED BY <1>1, <4>1, <4>2 DEF Goes, Follows, Alone
      <3> QED BY <3>1, SamePhase DEF LookedUp, IsJob, PhaseOf
    <2> QED BY <2>1, <2>2, <2>3 DEF Work
  <1> QED BY <1>2, <1>3 DEF PlaceInv

LEMMA RestLooks ==
    ASSUME TypeOK, KicadOK, ItemsInv, PlaceInv, Between, TypeOK',
           (\E c \in Callers : Ask(c) \/ Refuse(c) \/ Leave(c)) \/ UserInKicad \/ UserInEeschema \/ UNCHANGED vars
    PROVE  PlaceInv'
  <1>1. ASSUME NEW c \in Callers, Ask(c) \/ Refuse(c) \/ Leave(c), NEW k \in Callers PROVE LookedUp(k)'
    <2>1. Alone(c) /\ (Begins(c) \/ Hangs(c)) /\ UNCHANGED mem /\ LookedUp(k) /\ CallOK(k)'
      BY <1>1, AskGives DEF PlaceInv, TypeOK
    <2>2. CASE k # c
      BY <2>1, <2>2, LookedKept DEF Alone
    <2>3. CASE k = c /\ Begins(c)
      BY <2>1, <2>3, FirstStep DEF Begins
    <2>4. CASE k = c /\ Hangs(c)
      BY <2>1, <2>4, LookedKept DEF Hangs, CallFields
    <2> QED BY <2>1, <2>2, <2>3, <2>4
  <1>2. ASSUME UNCHANGED call, NEW k \in Callers, (\A b \in Boards : Refs(mem'[b]) \subseteq Refs(mem[b])) \/ queue = <<>>
        PROVE  LookedUp(k)'
    <2>1. call'[k] = call[k] /\ (IsJob(call[k]))' = IsJob(call[k]) /\ LookedUp(k) /\ CallOK(k)'
      BY <1>2, SameJob DEF PlaceInv, TypeOK
    <2>2. CASE \A b \in Boards : Refs(mem'[b]) \subseteq Refs(mem[b])
      BY <2>1, <2>2, LookedKept
    <2>3. CASE queue = <<>> /\ IsJob(call[k])
      BY <2>1, <2>3, BetweenJobs, FirstStep
    <2>4. CASE ~IsJob(call[k])
      BY <2>1, <2>4 DEF LookedUp
    <2> QED BY <1>2, <2>2, <2>3, <2>4
  <1>3. CASE UserInKicad
    <2>1. UNCHANGED call
      BY <1>3, UserTypes
    <2>2. (\A b \in Boards : Refs(mem'[b]) \subseteq Refs(mem[b])) \/ queue = <<>>
      <3>1. CASE UNCHANGED mem \/ \A b \in Boards : mem'[b] \in {mem[b], {}}
        BY <3>1 DEF Refs
      <3>2. ASSUME NEW b \in Boards, NEW x \in mem[b], mem' = [mem EXCEPT ![b] = (@ \ {x}) \cup {[x EXCEPT !.val = User]}]
            PROVE  \A d \in Boards : Refs(mem'[d]) \subseteq Refs(mem[d])
        <4>1. \A d \in Boards : \A y \in mem'[d] : \E w \in mem[d] : w.ref = y.ref
          BY <3>2, EditedByUser
        <4> QED BY <4>1 DEF Refs
      <3> QED BY <1>3, <3>1, <3>2, UserAndJobs
    <2> QED BY <1>2, <2>1, <2>2 DEF PlaceInv
  <1>4. CASE UserInEeschema \/ UNCHANGED vars
    <2>1. UNCHANGED <<call, mem>>
      BY <1>4, UserTypes DEF vars, UserInEeschema, OpenSheet, EditSheetByHand, SaveSheet, CloseSheet
    <2> QED BY <1>2, <2>1 DEF PlaceInv
  <1> QED BY <1>1, <1>3, <1>4 DEF PlaceInv

-----------------------------------------------------------------------------
(* Commits: begun, and pushed or dropped before anything else.             *)

LEMMA SameBegun ==
    ASSUME NEW k \in Callers, Begun(k), call'[k].req = call[k].req, call'[k].phase = call[k].phase,
           call'[k].pc = call[k].pc, call'[k].commit = call[k].commit
    PROVE  Begun(k)'
  <1>1. PhaseOf(k)' = PhaseOf(k)
    BY DEF PhaseOf
  <1> QED BY <1>1 DEF Begun

LEMMA InformedCommit ==
    ASSUME TypeOK, NEW c \in Callers
    PROVE  Informed(c).commit = IF AtStep(c).op = "begin" THEN TRUE ELSE IF AtStep(c).op = "push" THEN FALSE ELSE call[c].commit
  <1>1. DOMAIN call[c] = CallFields
    BY DEF TypeOK, CallOK
  <1>2. CASE AtStep(c).op = "begin"
    <2>1. Informed(c) = [call[c] EXCEPT !.commit = TRUE]
      BY <1>2 DEF Informed
    <2> QED BY <1>1, <1>2, <2>1 DEF CallFields
  <1>3. CASE AtStep(c).op = "push"
    <2>1. Informed(c) = [call[c] EXCEPT !.commit = FALSE]
      BY <1>3 DEF Informed
    <2> QED BY <1>1, <1>3, <2>1 DEF CallFields
  <1>4. CASE AtStep(c).op \in {"find", "first"}
    <2>1. Informed(c) = [call[c] EXCEPT !.doc = Target(c)]
      BY <1>4 DEF Informed
    <2> QED BY <1>1, <1>4, <2>1 DEF CallFields
  <1>5. CASE AtStep(c).op = "list"
    <2>1. Informed(c) = [call[c] EXCEPT !.seen[Target(c)] = mem[Target(c)]]
      BY <1>5 DEF Informed
    <2> QED BY <1>1, <1>5, <2>1 DEF CallFields
  <1>6. CASE AtStep(c).op \notin {"begin", "push", "find", "first", "list"}
    <2>1. Informed(c) = call[c]
      BY <1>6 DEF Informed
    <2> QED BY <1>6, <2>1
  <1> QED BY <1>2, <1>3, <1>4, <1>5, <1>6

\* The next step of a call that has a commit begun.
LEMMA NextInCommit ==
    ASSUME TypeOK, BegunInv, NEW c \in Callers, Command(c), GoesOn(c), call'[c].commit
    PROVE  \/ AtStep(c).op = "begin" /\ Obeys(c)
           \/ call[c].commit /\ AtStep(c).op \in Changing /\ Obeys(c)
           \/ call[c].commit /\ AtStep(c).op = "delete" /\ Misses(c)
           \/ call[c].commit /\ AtStep(c).op \notin Changing \cup {"begin", "push"} /\ (Obeys(c) \/ Misses(c))
  <1>1. ASSUME Goes(c, Informed(c)), Obeys(c), ~(AtStep(c).op = "begin") PROVE call[c].commit /\ AtStep(c).op # "push"
    <2>1. Informed(c).commit
      BY <1>1 DEF Goes
    <2> QED BY <1>1, <2>1, InformedCommit
  <1>2. ASSUME Goes(c, call[c])
        PROVE  call[c].commit /\ AtStep(c).op # "begin" /\ (AtStep(c).op \in Changing \cup {"push"} => ~AtStep(c).soft)
    <2>1. call[c].commit
      BY <1>2 DEF Goes
    <2> QED BY <2>1, InCommit
  <1> QED BY <1>1, <1>2, NextStep DEF Changing

LEMMA OwnBegun ==
    ASSUME TypeOK, BegunInv, NEW c \in Callers, Command(c), GoesOn(c) PROVE Begun(c)'
  <1> DEFINE steps == PhaseOf(c).steps
             pc == call[c].pc
  <1> SUFFICES ASSUME call'[c].commit
               PROVE  \E first \in 1..pc : steps[first].op = "begin" /\ \A k \in first..pc : steps[k].op # "push"
    <2>1. PhaseOf(c)' = PhaseOf(c) /\ call'[c].pc - 1 = pc
      BY NextStep
    <2> HIDE DEF pc
    <2> QED BY <2>1 DEF Begun
  <1>1. pc \in 1..Len(steps) /\ pc \in Nat /\ AtStep(c) = steps[pc]
    BY NextStep
  <1>2. CASE AtStep(c).op = "begin"
    <2>1. pc \in 1..pc /\ \A k \in pc..pc : k = pc
      BY <1>1
    <2> QED BY <1>1, <1>2, <2>1
  <1>3. CASE AtStep(c).op # "begin"
    <2>1. call[c].commit /\ AtStep(c).op # "push"
      BY <1>3, NextInCommit DEF Changing
    <2>2. PICK first \in 1..pc - 1 : steps[first].op = "begin" /\ \A k \in first..pc - 1 : steps[k].op # "push"
      BY <2>1 DEF BegunInv, Begun
    <2>3. first \in 1..pc /\ \A k \in first..pc : k \in first..pc - 1 \/ k = pc
      BY <1>1
    <2> QED BY <1>1, <2>1, <2>2, <2>3
  <1> QED BY <1>2, <1>3

LEMMA BegunStays ==
    ASSUME TypeOK, BegunInv, [Next]_vars PROVE BegunInv'
  <1>1. ASSUME NEW c \in Callers, Work(c), NEW k \in Callers PROVE Begun(k)'
    <2>1. Alone(c)
      BY <1>1, WorkPasses
    <2>2. CASE k # c
      BY <2>1, <2>2, SameBegun DEF Alone, BegunInv
    <2>3. CASE k = c /\ ~call'[c].commit
      BY <2>3 DEF Begun
    <2>4. CASE k = c /\ call'[c].commit /\ Command(c)
      <3>1. GoesOn(c) \/ Drops(c)
        BY <2>4, CommandGives DEF Ends, GoesOn
      <3>2. CASE Drops(c)
        BY <2>1, <2>4, <3>2, SameBegun DEF Alone, Drops, BegunInv
      <3> QED BY <2>4, <3>1, <3>2, OwnBegun
    <2>5. CASE k = c /\ call'[c].commit /\ (FileStep(c) \/ FileFails(c))
      <3>1. PhaseOf(c).kind = "file" /\ (Goes(c, call[c]) \/ Goes(c, Peeks(c)) \/ Goes(c, Notices(c)))
        BY <2>5, FileGives DEF Ends
      <3>2. call[c].commit
        BY <2>5, <3>1, PeeksFollow DEF Goes
      <3> QED BY <3>1, <3>2, CommitsAreJobs
    <2> QED BY <1>1, <2>2, <2>3, <2>4, <2>5 DEF Work
  <1>2. ASSUME NEW c \in Callers, Ask(c) \/ Refuse(c) \/ Leave(c), NEW k \in Callers PROVE Begun(k)'
    <2>1. Alone(c) /\ (Begins(c) \/ Hangs(c)) /\ Begun(k)
      BY <1>2, AskGives DEF BegunInv
    <2>2. CASE k = c /\ Begins(c)
      BY <2>2 DEF Begins, Begun
    <2> QED BY <2>1, <2>2, SameBegun DEF Alone, Hangs, CallFields
  <1>3. ASSUME UNCHANGED call, NEW k \in Callers PROVE Begun(k)'
    BY <1>3, SameBegun DEF BegunInv
  <1>4. CASE UserInKicad \/ UserInEeschema \/ UNCHANGED vars
    BY <1>3, <1>4, UserTypes DEF vars, BegunInv
  <1> QED BY <1>1, <1>2, <1>4 DEF Next, BegunInv

-----------------------------------------------------------------------------
(* Commits: what has been done in one is there, and noted.                 *)

\* A call that begins its commit has marked nothing yet.
LEMMA NothingMarked ==
    ASSUME TypeOK, ItemsInv, NEW c \in Callers, call[c].at = "work", AtStep(c).op = "begin",
           NEW x \in Items, NEW a \in {"at", "val"}, x[a] = c
    PROVE  FALSE
  <1>1. OnTurn(c) /\ call[c].pc \in Nat /\ call[c].pc \in DOMAIN PhaseOf(c).steps /\ AtStep(c) = PhaseOf(c).steps[call[c].pc]
    BY StepIsSound, WherePassing DEF OnTurn, AtStep, StepsOf
  <1>2. DOMAIN Run(c) = {1} /\ call[c].phase = 1 /\ ~InFile(c, 1) /\ StepsOf(c, 1) = PhaseOf(c).steps
    BY <1>1, Committing
  <1>3. PICK first \in DOMAIN PhaseOf(c).steps : \E last \in DOMAIN PhaseOf(c).steps : Bracket(c, first, last)
    BY <1>1, Committing
  <1>4. PICK last \in DOMAIN PhaseOf(c).steps : Bracket(c, first, last)
    BY <1>3
  <1>5. first = call[c].pc /\ \A k \in DOMAIN PhaseOf(c).steps : PhaseOf(c).steps[k].op \in Changing => first < k
    BY <1>1, <1>4 DEF Bracket
  <1>6. Marked(x, c)
    BY DEF ItemsInv, ItemOK
  <1>7. PICK p \in DOMAIN Run(c) : \E k \in DOMAIN StepsOf(c, p) :
          Passed(c, p, k) /\ (InFile(c, p) \/ StepsOf(c, p)[k].op \in Changing)
    BY <1>6 DEF Marked
  <1>8. p = 1
    BY <1>2
  <1>9. PICK k \in DOMAIN PhaseOf(c).steps : Passed(c, 1, k) /\ PhaseOf(c).steps[k].op \in Changing
    BY <1>2, <1>7, <1>8
  <1>10. k < call[c].pc
    BY <1>2, <1>9 DEF Passed
  <1>11. k \in Nat
    <2>1. DOMAIN PhaseOf(c).steps = 1..Len(PhaseOf(c).steps)
      BY <1>1, StepIsSound DEF SoundRequest, Run, StepsOf
    <2> QED BY <2>1
  <1> QED BY <1>1, <1>5, <1>9, <1>10, <1>11

\* What a commit notes before it changes a board.
LEMMA NotesMore ==
    ASSUME TypeOK, KicadOK, NEW c \in Callers, Noting(c), NEW d \in Boards, NEW after,
           mem' = [mem EXCEPT ![d] = after], undo' = Noted(d, after)
    PROVE  Noting(c)'
  <1>1. undo'.was = undo.was \cup {Note(d, i) : i \in Fresh(d, after)}
    BY NotedGives
  <1>2. mem'[d] = after /\ \A b \in Boards : b # d => mem'[b] = mem[b]
    BY DEF TypeOK
  <1>3. ASSUME NEW b \in Boards, NEW x \in mem'[b], c \in {x.at, x.val} PROVE \E n \in undo'.was : n.doc = b /\ n.id = x.id
    <2>1. CASE x \in mem[b]
      BY <1>1, <1>3, <2>1 DEF Noting
    <2>2. CASE x \notin mem[b]
      <3>1. b = d /\ x.id \in Touched(d, after)
        BY <1>2, <2>2 DEF Touched
      <3>2. CASE x.id \in Fresh(d, after)
        <4>1. Note(d, x.id) \in undo'.was /\ Note(d, x.id).doc = d /\ Note(d, x.id).id = x.id
          BY <1>1, <3>2 DEF Note
        <4> QED BY <3>1, <4>1
      <3>3. CASE x.id \notin Fresh(d, after)
        BY <1>1, <3>1, <3>3 DEF Fresh
      <3> QED BY <3>2, <3>3
    <2> QED BY <2>1, <2>2
  <1>4. ASSUME NEW n \in undo'.was, NEW x \in n.old PROVE c \notin {x.at, x.val}
    <2>1. CASE n \in undo.was
      BY <2>1 DEF Noting
    <2>2. ASSUME NEW i \in Fresh(d, after), n = Note(d, i) PROVE c \notin {x.at, x.val}
      <3>1. x \in mem[d] /\ x.id = i
        BY <2>2 DEF Note
      <3> QED BY <2>2, <3>1 DEF Fresh, Noting
    <2> QED BY <1>1, <2>1, <2>2
  <1> QED BY <1>3, <1>4 DEF Noting

\* A step of a call stays done when a later one of the same job is.
LEMMA DoneKept ==
    ASSUME TypeOK, ItemsInv, OnceInv, NEW c \in Callers, Obeys(c), PhaseOf(c).kind = "job", AtStep(c).op \in Changing,
           NEW k \in DOMAIN PhaseOf(c).steps, Done(c, PhaseOf(c).steps[k], mem), mem' = [mem EXCEPT ![Target(c)] = Obeyed(c)]
    PROVE  Done(c, PhaseOf(c).steps[k], mem')
  <1> DEFINE s == PhaseOf(c).steps[k]
             t == AtStep(c)
             d == Target(c)
             sent == {x \in Named(call[c].seen[d], t.set) : x.id \in {y.id : y \in mem[d]}}
  <1>1. d \in Boards /\ OnTurn(c)
    BY ObeyedOnBoards DEF Changing, Obeys, Commanding, Working, OnTurn
  <1>2. mem'[d] = Obeyed(c) /\ \A b \in Boards : b # d => mem'[b] = mem[b]
    BY <1>1 DEF TypeOK
  <1>3. /\ s.add \cap t.set = {} /\ (s.add \cup s.set) \cap t.drop = {}
        /\ s.op = "update" /\ t.op = "update" => s.attr = t.attr
    <2>1. t = StepsOf(c, call[c].phase)[call[c].pc] /\ call[c].phase \in DOMAIN Run(c) /\ call[c].pc \in DOMAIN StepsOf(c, call[c].phase)
          /\ PhaseOf(c).steps = StepsOf(c, call[c].phase) /\ ~InFile(c, call[c].phase)
      BY <1>1, StepIsSound DEF StepsOf, InFile, PhaseOf, Run
    <2> QED BY <2>1, StepsApart
  <1>4. ASSUME NEW x \in mem[d] PROVE x.id[2] = x.ref /\ DOMAIN x = ItemFields
    BY <1>1, ItemsHold DEF ItemsInv, ItemOK
  <1>5. ASSUME NEW x \in sent PROVE x.id[2] = x.ref /\ DOMAIN x = ItemFields
    BY <1>1, ItemsHold DEF ItemsInv, ItemOK, Named
  <1>6. ASSUME NEW x \in mem[d], x.ref \notin t.drop
        PROVE  \/ x \in Obeyed(c)
               \/ t.op = "update" /\ \E z \in sent : z.id = x.id /\ [z EXCEPT ![t.attr] = c] \in Obeyed(c)
    <2>1. CASE t.op = "create"
      BY <2>1 DEF Obeyed
    <2>2. CASE t.op = "delete"
      BY <1>6, <2>2 DEF Obeyed, Named
    <2>3. CASE t.op = "update"
      <3>1. Obeyed(c) = {w \in mem[d] : w.id \notin {y.id : y \in sent}} \cup {[w EXCEPT ![t.attr] = c] : w \in sent}
        BY <2>3 DEF Obeyed
      <3> HIDE DEF sent
      <3> QED BY <2>3, <3>1
    <2> QED BY <2>1, <2>2, <2>3 DEF Changing
  <1>7. ASSUME NEW z \in sent, t.attr \in {"at", "val"}
        PROVE  [z EXCEPT ![t.attr] = c].id = z.id /\ [z EXCEPT ![t.attr] = c].ref = z.ref /\ (t.attr = "at" => [z EXCEPT ![t.attr] = c].at = c)
    BY <1>5, <1>7 DEF ItemFields
  <1>8. t.attr \in {"at", "val"}
    BY <1>1, StepIsSound DEF SoundStep
  <1> HIDE DEF sent, s, t, d
  <1>9. ASSUME s.op = "create", NEW r \in s.add PROVE \E b \in Boards : \E x \in mem'[b] : x.id = <<c, r, "kicad">>
    <2>1. PICK b \in Boards : \E x \in mem[b] : x.id = <<c, r, "kicad">>
      BY <1>9 DEF Done, s
    <2>2. PICK x \in mem[b] : x.id = <<c, r, "kicad">>
      BY <2>1
    <2>3. CASE b # d
      BY <1>2, <2>2, <2>3
    <2>4. CASE b = d
      <3>1. x.ref = r /\ r \notin t.drop
        BY <1>3, <1>4, <1>9, <2>2, <2>4
      <3>2. \/ x \in Obeyed(c)
            \/ \E z \in sent : z.id = x.id /\ [z EXCEPT ![t.attr] = c] \in Obeyed(c)
        BY <1>6, <2>4, <3>1
      <3>3. \E y \in Obeyed(c) : y.id = x.id
        BY <1>7, <1>8, <3>2
      <3> QED BY <1>1, <1>2, <2>2, <3>3
    <2> QED BY <2>3, <2>4
  <1>10. ASSUME NEW r, Sets(s, r) PROVE \E b \in Boards : \E x \in mem'[b] : x.ref = r /\ x.at = c
    <2>1. PICK b \in Boards : \E x \in mem[b] : x.ref = r /\ x.at = c
      BY <1>10 DEF Done, s
    <2>2. PICK x \in mem[b] : x.ref = r /\ x.at = c
      BY <2>1
    <2>3. CASE b # d
      BY <1>2, <2>2, <2>3
    <2>4. CASE b = d
      <3>1. r \notin t.drop /\ (t.op = "update" => t.attr = "at")
        BY <1>3, <1>10 DEF Sets
      <3>2. \/ x \in Obeyed(c)
            \/ t.attr = "at" /\ \E z \in sent : z.id = x.id /\ [z EXCEPT ![t.attr] = c] \in Obeyed(c)
        BY <1>6, <2>2, <2>4, <3>1
      <3>3. \E y \in Obeyed(c) : y.ref = r /\ y.at = c
        <4>1. ASSUME NEW z \in sent, z.id = x.id PROVE z.ref = r
          BY <1>4, <1>5, <2>2, <2>4, <4>1
        <4> QED BY <1>7, <1>8, <2>2, <3>2, <4>1
      <3> QED BY <1>1, <1>2, <3>3
    <2> QED BY <2>3, <2>4
  <1> QED BY <1>9, <1>10 DEF Done, s

\* The step that KiCad has just obeyed is done.
LEMMA DoneNow ==
    ASSUME TypeOK, ItemsInv, NEW c \in Callers, Obeys(c), PhaseOf(c).kind = "job", AtStep(c).op \in Changing,
           mem' = [mem EXCEPT ![Target(c)] = Obeyed(c)]
    PROVE  Done(c, AtStep(c), mem')
  <1> DEFINE t == AtStep(c)
             d == Target(c)
             sent == {x \in Named(call[c].seen[d], t.set) : x.id \in {y.id : y \in mem[d]}}
  <1>1. d \in Boards /\ mem'[d] = Obeyed(c)
    BY ObeyedOnBoards DEF Changing, TypeOK
  <1>2. ASSUME t.op = "create", NEW r \in t.add PROVE \E b \in Boards : \E x \in mem'[b] : x.id = <<c, r, "kicad">>
    <2>1. NewItem(c, r, "kicad") \in Obeyed(c)
      BY <1>2 DEF Obeyed
    <2>2. NewItem(c, r, "kicad").id = <<c, r, "kicad">>
      BY DEF NewItem
    <2> QED BY <1>1, <2>1, <2>2
  <1>3. ASSUME NEW r, Sets(t, r) PROVE \E b \in Boards : \E x \in mem'[b] : x.ref = r /\ x.at = c
    <2>1. t.op = "update" /\ t.attr = "at" /\ t.set = {r}
      BY <1>3 DEF Sets
    <2>2. PICK x \in Named(call[c].seen[d], t.set) : x.id \in {y.id : y \in mem[d]}
      BY <2>1 DEF Obeys, Accepts
    <2>3. x \in sent /\ x.ref = r /\ DOMAIN x = ItemFields
      BY <1>1, <2>1, <2>2, ItemsHold DEF Named, ItemsInv, ItemOK
    <2>4. [x EXCEPT !["at"] = c] \in Obeyed(c)
      BY <2>1, <2>3 DEF Obeyed
    <2>5. [x EXCEPT !["at"] = c].ref = r /\ [x EXCEPT !["at"] = c].at = c
      BY <2>3 DEF ItemFields
    <2> QED BY <1>1, <2>4, <2>5
  <1> QED BY <1>2, <1>3 DEF Done

LEMMA SameCommitted ==
    ASSUME NEW k \in Callers, Committed(k), UNCHANGED <<mem, undo>>, call'[k].req = call[k].req, call'[k].phase = call[k].phase,
           call'[k].pc = call[k].pc, call'[k].commit = call[k].commit, call'[k].at = "work" => call[k].at = "work"
    PROVE  Committed(k)'
  <1>1. PhaseOf(k)' = PhaseOf(k)
    BY DEF PhaseOf
  <1>2. Noting(k)' = Noting(k)
    BY DEF Noting
  <1>3. Performed(k) => Performed(k)'
    BY <1>1 DEF Performed
  <1> QED BY <1>2, <1>3 DEF Committed

\* Steps that neither create nor set anything are done as they are.
LEMMA NothingToDo ==
    ASSUME NEW c, NEW s, NEW M, s.op \notin {"create", "update"} PROVE Done(c, s, M)
  BY DEF Done, Sets

LEMMA OwnCommit ==
    ASSUME TypeOK, KicadOK, ItemsInv, OnceInv, BegunInv, CommitInv, NEW c \in Callers, Command(c), GoesOn(c) \/ Drops(c)
    PROVE  Committed(c)'
  <1> DEFINE steps == PhaseOf(c).steps
             pc == call[c].pc
             s == AtStep(c)
  <1> SUFFICES ASSUME call'[c].commit, undo'.open PROVE Noting(c)' /\ Performed(c)'
    BY DEF Committed
  <1>1. Alone(c) /\ PhaseOf(c).kind \in {"job", "direct"} /\ OnTurn(c)
    BY CommandGives
  <1>2. ASSUME GoesOn(c), ~call[c].commit \/ s.op = "begin" PROVE Noting(c)' /\ Performed(c)'
    <2>1. s.op = "begin" /\ Obeys(c) /\ call[c].at = "work" /\ pc \in Nat /\ pc \in DOMAIN steps /\ s = steps[pc]
      BY <1>2, NextInCommit, NextStep DEF Changing
    <2>2. mem' = mem /\ undo'.was = {}
      BY <2>1 DEF Obeys, Effect
    <2>3. Noting(c)'
      <3>1. ASSUME NEW b \in Boards, NEW x \in mem[b] PROVE c \notin {x.at, x.val}
        <4>1. x \in Items
          BY <3>1, ItemsHold
        <4>2. x["at"] # c /\ x["val"] # c
          BY <2>1, <4>1, NothingMarked
        <4> QED BY <4>2
      <3> QED BY <2>2, <3>1 DEF Noting
    <2>4. Performed(c)'
      <3>1. PICK first \in DOMAIN steps : \E last \in DOMAIN steps : Bracket(c, first, last)
        BY <1>1, <2>1, Committing
      <3>2. PICK last \in DOMAIN steps : Bracket(c, first, last)
        BY <3>1
      <3>3. DOMAIN steps = 1..Len(steps) /\ call'[c].pc = pc + 1 /\ PhaseOf(c)' = PhaseOf(c)
        BY <1>2, NextStep
      <3>4. ASSUME NEW k \in 1..pc PROVE Done(c, steps[k], mem')
        <4>1. k \in DOMAIN steps /\ ~(pc < k)
          BY <2>1, <3>3
        <4>2. steps[k].op \notin Changing
          BY <2>1, <3>2, <4>1 DEF Bracket
        <4> QED BY <4>2, NothingToDo DEF Changing
      <3>5. call'[c].pc - 1 = pc
        BY <2>1, <3>3
      <3> HIDE DEF pc
      <3> QED BY <3>3, <3>4, <3>5 DEF Performed
    <2> QED BY <2>3, <2>4
  <1>3. ASSUME GoesOn(c), call[c].commit, s.op # "begin" PROVE Noting(c)' /\ Performed(c)'
    <2>1. pc \in Nat /\ pc \in DOMAIN steps /\ s = steps[pc] /\ DOMAIN steps = 1..Len(steps) /\ call[c].at = "work"
          /\ call'[c].pc = pc + 1 /\ PhaseOf(c)' = PhaseOf(c) /\ PhaseOf(c).kind = "job"
      BY <1>3, NextStep, CommitsAreJobs
    <2>2. \/ s.op \in Changing /\ Obeys(c)
          \/ s.op = "delete" /\ Misses(c)
          \/ s.op \notin Changing \cup {"begin", "push"} /\ (Obeys(c) \/ Misses(c))
      BY <1>3, NextInCommit
    <2>3. ASSUME \A k \in 1..pc - 1 : Done(c, steps[k], mem'), Done(c, s, mem') PROVE Performed(c)'
      <3>1. \A k \in 1..pc : k \in 1..pc - 1 \/ k = pc
        BY <2>1
      <3>2. \A k \in 1..pc : Done(c, steps[k], mem')
        BY <2>1, <2>3, <3>1
      <3>3. call'[c].pc - 1 = pc
        BY <2>1
      <3> HIDE DEF pc
      <3> QED BY <2>1, <3>2, <3>3 DEF Performed
    <2>4. CASE s.op \in Changing /\ Obeys(c)
      <3>1. mem' = [mem EXCEPT ![Target(c)] = Obeyed(c)] /\ undo' = (IF undo.open THEN Noted(Target(c), Obeyed(c)) ELSE undo)
        BY <2>4 DEF Obeys, Effect, Changing
      <3>2. undo.open /\ undo' = Noted(Target(c), Obeyed(c))
        BY <3>1
      <3>3. Target(c) \in Boards
        BY <2>4, ObeyedOnBoards DEF Changing
      <3>4. Noting(c) /\ Performed(c)
        BY <1>3, <3>2 DEF CommitInv, Committed
      <3>5. Noting(c)'
        BY <3>1, <3>2, <3>3, <3>4, NotesMore
      <3>6. ASSUME NEW k \in 1..pc - 1 PROVE Done(c, steps[k], mem')
        <4>1. k \in DOMAIN steps /\ Done(c, steps[k], mem)
          BY <2>1, <3>4 DEF Performed
        <4> QED BY <2>1, <2>4, <3>1, <4>1, DoneKept
      <3>7. Done(c, s, mem')
        BY <2>1, <2>4, <3>1, DoneNow
      <3> QED BY <2>3, <3>5, <3>6, <3>7
    <2>5. CASE (s.op = "delete" /\ Misses(c)) \/ (s.op \notin Changing \cup {"begin", "push"} /\ (Obeys(c) \/ Misses(c)))
      <3>1. UNCHANGED <<mem, undo>> /\ s.op \notin {"create", "update"}
        BY <2>5 DEF Misses, NoEffect, Obeys, Effect, Changing
      <3>2. Noting(c) /\ Performed(c)
        BY <1>3, <3>1 DEF CommitInv, Committed
      <3>3. Noting(c)'
        BY <3>1, <3>2 DEF Noting
      <3>4. \A k \in 1..pc - 1 : Done(c, steps[k], mem')
        BY <2>1, <3>1, <3>2 DEF Performed
      <3> QED BY <2>3, <3>1, <3>3, <3>4, NothingToDo
    <2> QED BY <2>2, <2>4, <2>5
  <1>4. ASSUME Drops(c) PROVE Noting(c)' /\ Performed(c)'
    <2>1. call[c].commit /\ call'[c].at = "drop" /\ Performed(c)'
      BY <1>4 DEF Drops, Performed
    <2>2. Obeys(c) \/ Misses(c)
      <3>1. ~Ends(c)
        BY <2>1 DEF Ends
      <3> QED BY <2>1, <3>1, CommandGives DEF Goes
    <2>3. CASE UNCHANGED <<mem, undo>>
      <3>1. Noting(c)
        BY <2>1, <2>3 DEF CommitInv, Committed
      <3> QED BY <2>1, <2>3, <3>1 DEF Noting
    <2>4. CASE ~UNCHANGED <<mem, undo>>
      <3>1. Obeys(c) /\ s.op # "begin"
        BY <2>1, <2>2, <2>4, InCommit DEF Misses, NoEffect
      <3>2. s.op \in Changing \/ (s.op = "push" /\ undo' = NoCommit)
        BY <2>4, <3>1 DEF Obeys, Effect, Changing
      <3>3. s.op \in Changing
        BY <3>2 DEF NoCommit
      <3>4. mem' = [mem EXCEPT ![Target(c)] = Obeyed(c)] /\ undo' = (IF undo.open THEN Noted(Target(c), Obeyed(c)) ELSE undo)
        BY <3>1, <3>3 DEF Obeys, Effect, Changing
      <3>5. undo.open /\ undo' = Noted(Target(c), Obeyed(c)) /\ Target(c) \in Boards
        BY <3>1, <3>3, <3>4, ObeyedOnBoards DEF Changing
      <3>6. Noting(c)
        BY <2>1, <3>5 DEF CommitInv, Committed
      <3> QED BY <2>1, <3>4, <3>5, <3>6, NotesMore
    <2> QED BY <2>3, <2>4
  <1> QED BY <1>2, <1>3, <1>4

LEMMA WorkCommits ==
    ASSUME TypeOK, KicadOK, ItemsInv, OnceInv, BegunInv, CommitInv, NEW c \in Callers, Work(c) PROVE CommitInv'
  <1>1. Alone(c)
    BY WorkPasses
  <1>2. ASSUME NEW k \in Callers, k # c PROVE Committed(k)'
    <2>1. call'[k] = call[k] /\ Committed(k)
      BY <1>1, <1>2 DEF Alone, CommitInv
    <2>2. CASE UNCHANGED <<mem, undo>>
      BY <2>1, <2>2, SameCommitted
    <2>3. CASE ~UNCHANGED <<mem, undo>>
      <3>1. ~call[k].commit
        BY <1>2, <2>3, TurnsChange, CommitsAreJobs DEF Turn
      <3> QED BY <2>1, <3>1 DEF Committed
    <2> QED BY <2>2, <2>3
  <1>3. ASSUME call'[c].commit PROVE Committed(c)'
    <2>1. CASE Command(c)
      <3>1. GoesOn(c) \/ Drops(c)
        BY <1>3, <2>1, CommandGives DEF Ends, GoesOn
      <3> QED BY <2>1, <3>1, OwnCommit
    <2>2. CASE FileStep(c) \/ FileFails(c)
      <3>1. PhaseOf(c).kind = "file" /\ (Goes(c, call[c]) \/ Goes(c, Peeks(c)) \/ Goes(c, Notices(c)))
        BY <1>3, <2>2, FileGives DEF Ends
      <3>2. call[c].commit
        BY <1>3, <3>1, PeeksFollow DEF Goes
      <3> QED BY <3>1, <3>2, CommitsAreJobs
    <2> QED BY <2>1, <2>2 DEF Work
  <1> QED BY <1>2, <1>3 DEF CommitInv, Committed

LEMMA EditCommits ==
    ASSUME TypeOK, ItemsInv, NEW k \in Callers, Committed(k), NEW b \in Boards, NEW x \in mem[b],
           mem' = [mem EXCEPT ![b] = (@ \ {x}) \cup {[x EXCEPT !.val = User]}], UNCHANGED <<undo, call>>
    PROVE  Committed(k)'
  <1> SUFFICES ASSUME call[k].commit, undo.open PROVE Noting(k)' /\ Performed(k)'
    BY DEF Committed
  <1>1. Noting(k) /\ Performed(k) /\ User # k
    BY ToolsAssumption DEF Committed
  <1>2. \A d \in Boards : \A y \in mem'[d] : \E w \in mem[d] : w.id = y.id /\ w.ref = y.ref /\ w.at = y.at /\ (y.val = w.val \/ y.val = User)
    BY EditedByUser
  <1>3. \A d \in Boards : \A w \in mem[d] : \E y \in mem'[d] : w.id = y.id /\ w.ref = y.ref /\ w.at = y.at
    BY EditedByUser
  <1>4. Noting(k)'
    <2>1. ASSUME NEW d \in Boards, NEW y \in mem'[d], k \in {y.at, y.val} PROVE \E n \in undo.was : n.doc = d /\ n.id = y.id
      <3>1. PICK w \in mem[d] : w.id = y.id /\ w.at = y.at /\ (y.val = w.val \/ y.val = User)
        BY <1>2
      <3> QED BY <1>1, <2>1, <3>1 DEF Noting
    <2> QED BY <1>1, <2>1 DEF Noting
  <1>5. ASSUME NEW s, Done(k, s, mem) PROVE Done(k, s, mem')
    <2>1. ASSUME s.op = "create", NEW r \in s.add PROVE \E d \in Boards : \E y \in mem'[d] : y.id = <<k, r, "kicad">>
      <3>1. PICK d \in Boards : \E w \in mem[d] : w.id = <<k, r, "kicad">>
        BY <1>5, <2>1 DEF Done
      <3> QED BY <1>3, <3>1
    <2>2. ASSUME NEW r, Sets(s, r) PROVE \E d \in Boards : \E y \in mem'[d] : y.ref = r /\ y.at = k
      <3>1. PICK d \in Boards : \E w \in mem[d] : w.ref = r /\ w.at = k
        BY <1>5, <2>2 DEF Done
      <3> QED BY <1>3, <3>1
    <2> QED BY <2>1, <2>2 DEF Done
  <1>6. PhaseOf(k)' = PhaseOf(k)
    BY DEF PhaseOf
  <1>7. Performed(k)'
    BY <1>1, <1>5, <1>6 DEF Performed
  <1> QED BY <1>4, <1>7

LEMMA RestCommits ==
    ASSUME TypeOK, KicadOK, ItemsInv, CommitInv, Between,
           (\E c \in Callers : Ask(c) \/ Refuse(c) \/ Leave(c)) \/ UserInKicad \/ UserInEeschema \/ UNCHANGED vars
    PROVE  CommitInv'
  <1>1. ASSUME NEW c \in Callers, Ask(c) \/ Refuse(c) \/ Leave(c), NEW k \in Callers PROVE Committed(k)'
    <2>1. Alone(c) /\ (Begins(c) \/ Hangs(c)) /\ UNCHANGED <<mem, undo>> /\ Committed(k)
      BY <1>1, AskGives DEF CommitInv
    <2>2. CASE k = c /\ Begins(c)
      BY <2>2 DEF Begins, Committed
    <2> QED BY <2>1, <2>2, SameCommitted DEF Alone, Hangs, CallFields
  <1>2. CASE UserInKicad
    <2>1. UNCHANGED call
      BY <1>2, UserTypes
    <2>2. ASSUME NEW k \in Callers PROVE Committed(k)'
      <3>1. CASE queue = <<>>
        <4>1. ~call[k].commit
          BY <3>1, CommitsAreJobs DEF Turn
        <4> QED BY <2>1, <4>1 DEF Committed
      <3>2. CASE UNCHANGED <<mem, undo>>
        BY <2>1, <3>2, SameCommitted DEF CommitInv
      <3>3. CASE undo' = NoCommit
        BY <3>3 DEF NoCommit, Committed
      <3>4. ASSUME UNCHANGED undo, NEW b \in Boards, NEW x \in mem[b], mem' = [mem EXCEPT ![b] = (@ \ {x}) \cup {[x EXCEPT !.val = User]}]
            PROVE  Committed(k)'
        BY <2>1, <3>4, EditCommits DEF CommitInv
      <3> QED BY <1>2, <3>1, <3>2, <3>3, <3>4, UserAndJobs
    <2> QED BY <2>2 DEF CommitInv
  <1>3. CASE UserInEeschema \/ UNCHANGED vars
    <2>1. UNCHANGED <<call, mem, undo>>
      BY <1>3, UserTypes DEF vars, UserInEeschema, OpenSheet, EditSheetByHand, SaveSheet, CloseSheet
    <2> QED BY <2>1, SameCommitted DEF CommitInv
  <1> QED BY <1>1, <1>2, <1>3 DEF CommitInv

-----------------------------------------------------------------------------
(* Commits and placements hold.                                            *)

Placement(c, b) ==
  Acts(c) /\ call[c].req.tool \in {"place_component", "duplicate_component"} /\ mem'[b] # mem[b] =>
    b = call[c].req.doc /\ AtStep(c).add \cap Refs(mem[b]) = {}

LEMMA PlacementStep ==
    ASSUME TypeOK, PlaceInv, [Next]_vars, NEW c \in Callers, NEW b \in Boards PROVE Placement(c, b)
  <1> SUFFICES ASSUME Acts(c), call[c].req.tool \in {"place_component", "duplicate_component"}, mem'[b] # mem[b]
               PROVE  b = call[c].req.doc /\ AtStep(c).add \cap Refs(mem[b]) = {}
    BY DEF Placement
  <1> DEFINE steps == PhaseOf(c).steps
             pc == call[c].pc
  <1>1. AtStep(c).op \in Changing /\ PhaseOf(c).kind = "job" /\ Target(c) \in Boards /\ mem' = [mem EXCEPT ![Target(c)] = Obeyed(c)]
    BY ActsObeyed
  <1>2. b = Target(c) /\ Target(c) = call[c].doc
    BY <1>1 DEF TypeOK, Target, Changing
  <1>3. call[c].at = "work" /\ IsJob(call[c]) /\ OnTurn(c) /\ LookedUp(c)
    BY <1>1 DEF Acts, IsJob, PhaseOf, OnTurn, PlaceInv
  <1>4. SoundRequest(call[c].req) /\ PlacesNamed(call[c].req) /\ call[c].phase \in DOMAIN call[c].req.run
        /\ PhaseOf(c) = call[c].req.run[call[c].phase] /\ pc \in DOMAIN steps /\ AtStep(c) = steps[pc] /\ pc \in Nat
    BY <1>3, StepIsSound, WherePassing DEF SoundRequest, Run, StepsOf
  <1>5. DOMAIN steps = 1..Len(steps) /\ Len(steps) \in Nat
    BY <1>4 DEF SoundRequest
  <1>6. /\ pc > 2
        /\ steps[pc - 2].op = "find" /\ steps[pc - 2].doc = call[c].req.doc /\ ~steps[pc - 2].soft
        /\ steps[pc - 1].op = "list" /\ steps[pc].add \subseteq steps[pc - 1].lacks /\ ~steps[pc - 1].soft
    <2> DEFINE run == call[c].req.run
    <2>1. \A k \in DOMAIN run[call[c].phase].steps :
            run[call[c].phase].steps[k].op \in Changing /\ run[call[c].phase].kind = "job" =>
              /\ k > 2 /\ run[call[c].phase].steps[k].op = "create"
              /\ run[call[c].phase].steps[k - 2].op = "find" /\ run[call[c].phase].steps[k - 2].doc = call[c].req.doc
              /\ ~run[call[c].phase].steps[k - 2].soft
              /\ run[call[c].phase].steps[k - 1].op = "list"
              /\ run[call[c].phase].steps[k].add \subseteq run[call[c].phase].steps[k - 1].lacks
              /\ ~run[call[c].phase].steps[k - 1].soft
      BY <1>4 DEF PlacesNamed
    <2> QED BY <1>1, <1>4, <2>1
  <1>7. pc - 2 \in DOMAIN steps /\ pc - 1 \in DOMAIN steps /\ (pc - 2) + 1 = pc - 1
    <2>1. pc \in Nat /\ pc > 2 /\ pc \in 1..Len(steps) /\ Len(steps) \in Nat
      BY <1>4, <1>5, <1>6
    <2> HIDE DEF pc
    <2>2. pc - 2 \in 1..Len(steps) /\ pc - 1 \in 1..Len(steps) /\ (pc - 2) + 1 = pc - 1
      BY <2>1
    <2> QED BY <1>5, <2>2
  <1>8. call[c].doc = steps[pc - 2].doc
    BY <1>3, <1>6, <1>7 DEF LookedUp
  <1>9. steps[pc - 1].lacks \cap Refs(mem[call[c].doc]) = {}
    BY <1>1, <1>2, <1>3, <1>6, <1>7 DEF LookedUp
  <1> QED BY <1>2, <1>4, <1>6, <1>8, <1>9

Whole(c) == Steps(c) =>
  /\ call[c].commit /\ call[c].at = "work" /\ AtStep(c).op = "push" /\ undo.open /\ ~undo'.open => Asked(call[c].req, c)
  /\ call'[c].answer = "dropped" => \A b \in Boards : \A x \in mem'[b] : c \notin {x.at, x.val}

\* A call that pushes has done all it was asked for.
LEMMA PushedWhole ==
    ASSUME TypeOK, BegunInv, CommitInv, NEW c \in Callers, call[c].commit, call[c].at = "work", AtStep(c).op = "push", undo.open
    PROVE  Asked(call[c].req, c)
  <1> DEFINE steps == PhaseOf(c).steps
             pc == call[c].pc
             q == call[c].req
             all == UNION {mem[b] : b \in Boards}
  <1>1. PICK first \in DOMAIN steps : \E last \in DOMAIN steps : Bracket(c, first, last) /\ pc \in DOMAIN steps /\ OnTurn(c)
    BY InCommit
  <1>2. PICK last \in DOMAIN steps : Bracket(c, first, last) /\ pc \in DOMAIN steps /\ OnTurn(c)
    BY <1>1
  <1>3. pc = last /\ pc \in Nat /\ AtStep(c) = steps[pc]
    BY <1>2, WherePassing DEF Bracket, AtStep
  <1>4. q.tool \in {"modify_trace", "place_component_array", "align_components"}
    <2>1. steps[first].op = "begin"
      BY <1>1, <1>2 DEF Bracket
    <2> QED BY <1>1, <1>2, <2>1, Committing
  <1>5. ASSUME NEW k \in 1..last, steps[k].op # "push" PROVE Done(c, steps[k], mem)
    <2>1. k \in 1..pc - 1
      BY <1>2, <1>3, <1>5
    <2> QED BY <2>1 DEF CommitInv, Committed, Performed
  <1>6. ASSUME NEW k \in 1..last, NEW r, Adds(steps[k], r) PROVE \E x \in all : x.id = <<c, r, "kicad">>
    <2>1. Done(c, steps[k], mem) /\ steps[k].op = "create" /\ r \in steps[k].add
      BY <1>5, <1>6 DEF Adds
    <2>2. \E b \in Boards : \E x \in mem[b] : x.id = <<c, r, "kicad">>
      BY <2>1 DEF Done
    <2> QED BY <2>2
  <1>7. ASSUME NEW k \in 1..last, NEW r, Sets(steps[k], r) PROVE \E x \in all : x.ref = r /\ x.at = c
    <2>1. Done(c, steps[k], mem)
      BY <1>5, <1>7 DEF Sets
    <2>2. \E b \in Boards : \E x \in mem[b] : x.ref = r /\ x.at = c
      BY <1>7, <2>1 DEF Done
    <2> QED BY <2>2
  <1>8. \A r : NewItem(c, r, "kicad").id = <<c, r, "kicad">>
    BY DEF NewItem
  <1>9. CASE q.tool = "modify_trace"
    <2>1. \E k \in 1..last : Adds(steps[k], q.to)
      BY <1>2, <1>9 DEF Bracket
    <2>2. NewItem(c, q.to, "kicad").id \in {x.id : x \in all}
      BY <1>6, <1>8, <2>1
    <2> HIDE DEF all
    <2> QED BY <1>9, <2>2 DEF Asked, all
  <1>10. CASE q.tool = "place_component_array"
    <2>1. \A r \in {q.ref, q.to} : \E k \in 1..last : Adds(steps[k], r)
      BY <1>2, <1>10 DEF Bracket
    <2>2. \A r \in {q.ref, q.to} : NewItem(c, r, "kicad").id \in {x.id : x \in all}
      BY <1>6, <1>8, <2>1
    <2> QED BY <1>10, <2>2 DEF Asked
  <1>11. CASE q.tool = "align_components"
    <2>1. \A r \in {q.ref, q.to} : \E k \in 1..last : Sets(steps[k], r)
      BY <1>2, <1>11 DEF Bracket
    <2>2. \A r \in {q.ref, q.to} : \E x \in Named(all, {r}) : x.at = c
      BY <1>7, <2>1 DEF Named
    <2> QED BY <1>11, <2>2 DEF Asked
  <1> QED BY <1>4, <1>9, <1>10, <1>11

\* Who answers that its commit is dropped has left nothing behind.
LEMMA DroppedWhole ==
    ASSUME TypeOK, CommitInv, [Next]_vars, NEW c \in Callers, Steps(c), call'[c].answer = "dropped",
           NEW b \in Boards, NEW x \in mem'[b]
    PROVE  c \notin {x.at, x.val}
  <1>1. Work(c)
    <2>1. ASSUME NEW k \in Callers, Ask(k) \/ Refuse(k) \/ Leave(k) PROVE FALSE
      <3>1. Alone(k) /\ (Begins(k) \/ Hangs(k))
        BY <2>1, AskGives
      <3>2. k = c
        BY <3>1 DEF Alone, Steps
      <3> QED BY <3>1, <3>2 DEF Begins, Hangs, CallFields, TypeOK, CallOK, OnTurn
    <2>2. ASSUME NEW k \in Callers, Work(k) PROVE Work(c)
      BY <2>2, WorkPasses DEF Alone, Steps
    <2>3. CASE UserInKicad \/ UserInEeschema
      BY <2>3, UserTypes DEF Steps
    <2>4. CASE UNCHANGED vars
      BY <2>4 DEF vars, Steps
    <2> QED BY <2>1, <2>2, <2>3, <2>4 DEF Next
  <1>2. Restores(c) /\ call[c].commit
    BY <1>1, WorkAnswers DEF Restores, TypeOK, CallOK
  <1>3. Noting(c)
    BY <1>2 DEF Restores, CommitInv, Committed
  <1> DEFINE notes == {n \in undo.was : n.doc = b}
             left == {y \in mem[b] : y.id \notin {n.id : n \in notes}}
  <1>4. mem'[b] = left \cup UNION {n.old : n \in notes}
    BY <1>2 DEF Restores, Restored
  <1>5. CASE x \in left
    BY <1>3, <1>5 DEF Noting
  <1>6. CASE x \in UNION {n.old : n \in notes}
    BY <1>3, <1>6 DEF Noting
  <1> QED BY <1>4, <1>5, <1>6

CommitsInv == BoardInv /\ PlaceInv /\ BegunInv /\ CommitInv

LEMMA CommitsInvStays ==
    ASSUME CommitsInv, [Next]_vars, Between PROVE CommitsInv'
  <1>1. BoardInv' /\ BegunInv'
    BY BoardInvStays, BegunStays DEF CommitsInv, BoardInv
  <1>2. PlaceInv' /\ CommitInv'
    <2>1. ASSUME NEW c \in Callers, Work(c) PROVE PlaceInv' /\ CommitInv'
      BY <2>1, WorkLooks, WorkCommits DEF CommitsInv, BoardInv
    <2>2. ASSUME ~\E c \in Callers : Work(c) PROVE PlaceInv' /\ CommitInv'
      <3>1. (\E c \in Callers : Ask(c) \/ Refuse(c) \/ Leave(c)) \/ UserInKicad \/ UserInEeschema \/ UNCHANGED vars
        BY <2>2 DEF Next
      <3> QED BY <1>1, <3>1, RestLooks, RestCommits DEF CommitsInv, BoardInv
    <2> QED BY <2>1, <2>2
  <1> QED BY <1>1, <1>2 DEF CommitsInv

\* The inductive invariant of commits and placements: what a job has just looked up
\* is so, and all that a call has done in an open commit is there, and noted.
THEOREM CommitsStayNoted == Spec /\ OpensBetweenJobs => []CommitsInv
  <1>1. Init => CommitsInv
    <2>1. Init => BoardInv
      BY InitTypes, InitBoards, InitFresh DEF BoardInv
    <2>2. Init => PlaceInv /\ BegunInv /\ CommitInv
      <3>1. Init => \A c \in Callers : call[c].at = "idle" /\ ~call[c].commit
        BY DEF Init, NoCall
      <3> QED BY <3>1 DEF PlaceInv, LookedUp, BegunInv, Begun, CommitInv, Committed
    <2> QED BY <2>1, <2>2 DEF CommitsInv
  <1>2. CommitsInv /\ [Next]_vars /\ [Between]_vars => CommitsInv'
    <2>1. ASSUME CommitsInv, [Next]_vars, Between PROVE CommitsInv'
      BY <2>1, CommitsInvStays
    <2>2. ASSUME CommitsInv, UNCHANGED vars PROVE CommitsInv'
      <3>1. Between
        BY <2>2 DEF vars, Between, Known
      <3> QED BY <2>2, <3>1, CommitsInvStays
    <2> QED BY <2>1, <2>2
  <1> QED BY <1>1, <1>2, PTL DEF Spec, OpensBetweenJobs, Between

\* What a commit leaves, and where a placement is made, of any callers, documents and
\* requests, whatever KiCad and the user do in between, if the user opens boards
\* between jobs only (CommitsHold; client.rs run_commit, place_footprint).
THEOREM CommitsAlwaysHold == Spec /\ OpensBetweenJobs => CommitsHold
  <1>1. CommitsInv /\ [Next]_vars => [\A c \in Callers, b \in Boards : Placement(c, b)]_vars
    BY PlacementStep DEF CommitsInv, BoardInv
  <1>2. CommitsInv /\ [Next]_vars => [\A c \in Callers : Whole(c)]_vars
    BY PushedWhole, DroppedWhole DEF CommitsInv, BoardInv, Whole
  <1>3. Spec /\ OpensBetweenJobs => PlacesOnceWhereAsked
    BY <1>1, CommitsStayNoted, PTL DEF Spec, PlacesOnceWhereAsked, Placement
  <1>4. Spec /\ OpensBetweenJobs => CommitsAreWhole
    BY <1>2, CommitsStayNoted, PTL DEF Spec, CommitsAreWhole, Whole
  <1> QED BY <1>3, <1>4 DEF CommitsHold
=============================================================================
