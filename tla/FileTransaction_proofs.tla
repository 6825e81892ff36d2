---------------------- MODULE FileTransaction_proofs ----------------------
(***************************************************************************)
(* Proofs about FileTransaction, for any number of callers, files and      *)
(* journals and any bounds.  First the types, the lock discipline, and     *)
(* that no write of this project's own is overwritten unseen.  Then the    *)
(* journals: that they stay ahead of the targets, that none is set aside   *)
(* that could be rolled forward, and that a project in which calls are cut *)
(* short only by machine restarts is an AtomicStore.                       *)
(***************************************************************************)
EXTENDS FileTransaction, TLAPS

LEMMA NoPlanIsPlan == NoPlan \in Plan
  BY DEF NoPlan, Plan

LEMMA NoCallIsCall == NoCall \in Call
  BY NoPlanIsPlan DEF NoCall, Call, Modes

LEMMA TargetsAreFiles == \A w : Targets(w) \subseteq Files
  BY DEF Targets

(***************************************************************************)
(* The callers' part of the type, and the two ways every action moves it.  *)
(***************************************************************************)
CallersOK ==
    /\ pc \in [Procs -> Steps]
    /\ call \in [Procs -> Call]
    /\ reply \in [Procs -> Replies]

LEMMA GoType ==
  ASSUME CallersOK, NEW p \in Procs, NEW s \in Steps, NEW c \in Call, Go(p, s, c)
  PROVE  CallersOK'
  BY DEF CallersOK, Go

LEMMA ReturnType ==
  ASSUME CallersOK, owner \in [Files -> Procs \cup {NoProc}],
         NEW p \in Procs, NEW r \in Replies, Return(p, r)
  PROVE  CallersOK' /\ owner' \in [Files -> Procs \cup {NoProc}]
  BY NoCallIsCall DEF CallersOK, Return, Unlocked, Steps

LEMMA VisitType ==
  ASSUME CallersOK, NEW p \in Procs, NEW f \in Files, NEW pending \in SUBSET Files,
         NEW here \in Steps, NEW next \in Steps, Visit(p, f, pending, here, next)
  PROVE  CallersOK'
<1> DEFINE c == call[p]
           rest == c.left \ {f}
           stay == [c EXCEPT !.left = rest, !.pending = pending]
           move == [c EXCEPT !.left = LoopOver(next, c.work, pending), !.pending = pending]
<1>1. c \in Call
  BY DEF CallersOK
<1>2. stay \in Call /\ move \in Call
  BY <1>1, TargetsAreFiles DEF Call, LoopOver
<1>3. Go(p, here, stay) \/ Go(p, next, move)
  BY DEF Visit
<1>4. QED
  BY <1>2, <1>3, GoType

-----------------------------------------------------------------------------
(* Type correctness.                                                       *)

LEMMA TypeIsCallersOK == TypeOK => CallersOK
  BY DEF TypeOK, CallersOK

LEMMA StartType ==
  ASSUME TypeOK, NEW p \in Procs, NEW s \in Steps, NEW c \in Call, Start(p, s, c)
  PROVE  TypeOK'
  BY DEF TypeOK, Start, faults, Replies

LEMMA BeginType ==
  ASSUME TypeOK, NEW p \in Procs, Begin(p)
  PROVE  TypeOK'
<1>1. ASSUME NEW e \in Requests, NEW t \in Txns, StartCommit(p, e, t) PROVE TypeOK'
  <2> DEFINE c == [NoCall EXCEPT !.todo = {u \in Txns : OnDisk(u)}, !.ask = e, !.id = t]
  <2>1. c \in Call
    BY NoCallIsCall DEF Call
  <2>2. QED
    BY <1>1, <2>1, StartType DEF StartCommit, Steps
<1>2. CASE StartRecover(p)
  <2> DEFINE c == [NoCall EXCEPT !.todo = {t \in Txns : OnDisk(t)}]
  <2>1. c \in Call
    BY NoCallIsCall DEF Call
  <2>2. QED
    BY <1>2, <2>1, StartType DEF StartRecover, Steps
<1>3. ASSUME NEW t \in Txns, StartRecoverOne(p, t) PROVE TypeOK'
  <2>1. [NoCall EXCEPT !.todo = {t}] \in Call
    BY NoCallIsCall DEF Call
  <2>2. QED
    BY <1>3, <2>1, StartType DEF StartRecoverOne, Steps
<1>4. ASSUME NEW t \in Txns, StartAbandon(p, t) PROVE TypeOK'
  <2>1. [NoCall EXCEPT !.mode = "abandon", !.txn = t] \in Call
    BY NoCallIsCall DEF Call, Modes
  <2>2. QED
    BY <1>4, <2>1, StartType DEF StartAbandon, Steps
<1>5. ASSUME NEW w \in Saves, StartSave(p, w) PROVE TypeOK'
  <2>1. [NoCall EXCEPT !.mode = "save", !.work = w, !.left = Targets(w)] \in Call
    BY NoCallIsCall, SavesAssumption, TargetsAreFiles DEF Call, Modes
  <2>2. QED
    BY <1>5, <2>1, StartType DEF StartSave, Steps
<1>6. QED
  BY <1>1, <1>2, <1>3, <1>4, <1>5 DEF Begin

LEMMA LockableType ==
  ASSUME NEW c \in Call, NEW m \in Modes, NEW t \in Txns \cup {NoTxn}, NEW w \in Plan
  PROVE  Lockable(c, m, t, w) \in Call
  BY TargetsAreFiles DEF Lockable, Call

\* An entry a loop visits is one of the journal's, so it is a change.
LEMMA EntryType ==
  ASSUME TypeOK, NEW p \in Procs, Shape(p), NEW f \in call[p].left
  PROVE  /\ f \in Files
         /\ call[p].work[f] \in Change
         /\ call[p].work[f].after \in Contents
<1>1. call[p].work \in Plan /\ f \in Targets(call[p].work)
  BY DEF TypeOK, Call, Shape
<1>2. QED
  BY <1>1 DEF Plan, Targets, Change

LEMMA AcquireType ==
  ASSUME TypeOK, NEW p \in Procs, Acquire(p)
  PROVE  TypeOK'
<1> PICK f \in Files : Lock(p, f)
  BY DEF Acquire
<1>1. CallersOK'
  BY TypeIsCallersOK, VisitType DEF Lock, Steps
<1>2. QED
  BY <1>1 DEF Lock, TypeOK, CallersOK, faults

LEMMA WorkType ==
  ASSUME TypeOK, NEW p \in Procs, Shape(p), Work(p)
  PROVE  TypeOK'
<1> USE TypeIsCallersOK
<1> DEFINE t == call[p].txn
<1>c. call[p] \in Call
  BY DEF TypeOK
<1>1. CASE RecoverDone(p)
  BY <1>1, ReturnType DEF RecoverDone, TypeOK, CallersOK, faults, Replies
<1>2. CASE BeginCommit(p)
  <2>1. call[p].ask \in Plan /\ call[p].id \in Txns \cup {NoTxn}
    BY <1>2, <1>c, RequestsAssumption DEF BeginCommit, Call
  <2>2. Lockable(call[p], "commit", call[p].id, call[p].ask) \in Call
    BY <1>c, <2>1, LockableType DEF Modes
  <2>3. CallersOK' /\ owner' \in [Files -> Procs \cup {NoProc}]
    BY <1>2, <2>2, GoType, ReturnType DEF BeginCommit, TypeOK, Steps, Replies
  <2>4. QED
    BY <1>2, <2>3 DEF BeginCommit, TypeOK, CallersOK, faults
<1>3. CASE ReadAbandoned(p)
  <2>1. t \in Txns /\ jentries[t] \in Plan
    BY <1>3 DEF ReadAbandoned, Shape, Fits, TypeOK
  <2>2. Lockable(call[p], "abandon", t, jentries[t]) \in Call
    BY <1>c, <2>1, LockableType DEF Modes
  <2>3. CallersOK' /\ owner' \in [Files -> Procs \cup {NoProc}]
    BY <1>3, <1>c, <2>2, GoType, ReturnType DEF ReadAbandoned, TypeOK, Steps, Replies
  <2>4. QED
    BY <1>3, <2>3 DEF ReadAbandoned, TypeOK, CallersOK, faults
<1>4. CASE Persist(p)
  <2>1. t \in Txns /\ call[p].work \in Plan
    BY <1>4, <1>c DEF Persist, Shape, Fits, Call
  <2>2. [call[p] EXCEPT !.left = call[p].pending] \in Call
    BY <1>c DEF Call
  <2>3. CallersOK'
    BY <1>4, <2>2, GoType DEF Persist, Steps
  <2>4. QED
    BY <1>4, <2>1, <2>3 DEF Persist, TypeOK, CallersOK, faults, JournalStates
<1>5. CASE RemoveJournal(p)
  <2> DEFINE c == [NoCall EXCEPT !.todo = call[p].todo, !.ask = call[p].ask, !.id = call[p].id]
  <2>1. c \in Call
    BY <1>c, NoCallIsCall DEF Call
  <2>2. Unlocked(p) \in [Files -> Procs \cup {NoProc}]
    BY DEF Unlocked, TypeOK
  <2>3. CallersOK' /\ owner' \in [Files -> Procs \cup {NoProc}]
    <3>1. CASE Go(p, "journals", c) /\ owner' = Unlocked(p)
      BY <3>1, <2>1, <2>2, GoType DEF Steps
    <3>2. CASE Return(p, "ok") \/ Return(p, "notfound")
      BY <3>2, ReturnType DEF TypeOK, Replies
    <3>3. QED
      BY <1>5, <3>1, <3>2 DEF RemoveJournal
  <2>4. QED
    BY <1>5, <2>3 DEF RemoveJournal, TypeOK, CallersOK, faults, JournalStates
<1>6. CASE Archive(p)
  <2>1. CallersOK' /\ owner' \in [Files -> Procs \cup {NoProc}]
    BY <1>6, ReturnType DEF Archive, TypeOK, Replies
  <2>2. QED
    BY <1>6, <2>1 DEF Archive, TypeOK, CallersOK, faults, JournalStates
<1>7. ASSUME NEW u \in Txns, ReadJournal(p, u) PROVE TypeOK'
  <2> DEFINE c == [call[p] EXCEPT !.todo = @ \ {u}]
  <2>1. c \in Call /\ jentries[u] \in Plan
    BY <1>c DEF Call, TypeOK
  <2>2. Lockable(c, "recover", u, jentries[u]) \in Call
    BY <2>1, LockableType DEF Modes
  <2>3. CallersOK' /\ owner' \in [Files -> Procs \cup {NoProc}]
    BY <1>7, <2>2, GoType, ReturnType DEF ReadJournal, TypeOK, Steps, Replies
  <2>4. QED
    BY <1>7, <2>3 DEF ReadJournal, TypeOK, CallersOK, faults
<1>8. ASSUME NEW f \in Files,
             \/ CheckClosed(p, f) \/ VerifyBefore(p, f) \/ Classify(p, f) \/ Inspect(p, f)
             \/ StageWrite(p, f) \/ VerifyAfter(p, f)
      PROVE  TypeOK'
  <2>1. call[p].pending \subseteq Files
    BY <1>c DEF Call
  <2>2. CallersOK' /\ owner' \in [Files -> Procs \cup {NoProc}]
    <3>1. CASE CheckClosed(p, f)
      BY <3>1, VisitType, ReturnType DEF CheckClosed, TypeOK, Steps, Replies
    <3>2. CASE VerifyBefore(p, f)
      BY <3>2, <2>1, VisitType, ReturnType DEF VerifyBefore, TypeOK, Steps, Replies
    <3>3. CASE Classify(p, f)
      BY <3>3, <2>1, VisitType, ReturnType DEF Classify, TypeOK, Steps, Replies
    <3>4. CASE Inspect(p, f)
      BY <3>4, <2>1, VisitType, ReturnType DEF Inspect, TypeOK, Steps, Replies
    <3>5. CASE StageWrite(p, f)
      BY <3>5, <1>c, GoType, ReturnType DEF StageWrite, TypeOK, Steps, Replies
    <3>6. CASE VerifyAfter(p, f)
      BY <3>6, <2>1, VisitType, ReturnType DEF VerifyAfter, TypeOK, Steps, Replies
    <3>7. QED
      BY <1>8, <3>1, <3>2, <3>3, <3>4, <3>5, <3>6
  <2>3. UNCHANGED <<disk, editor, jstate, jentries, faults>>
    BY <1>8 DEF CheckClosed, VerifyBefore, Classify, Inspect, StageWrite, VerifyAfter
  <2>4. QED
    BY <2>2, <2>3 DEF TypeOK, CallersOK, faults
<1>9. ASSUME NEW f \in Files, Rename(p, f) PROVE TypeOK'
  <2>1. call[p].work[f].after \in Contents /\ call[p].pending \subseteq Files
    BY <1>9, <1>c, EntryType DEF Rename, AtEntry, First, Call
  <2>2. CallersOK' /\ owner' \in [Files -> Procs \cup {NoProc}]
    BY <1>9, <2>1, VisitType, ReturnType DEF Rename, TypeOK, Steps, Replies
  <2>3. QED
    BY <1>9, <2>1, <2>2 DEF Rename, TypeOK, CallersOK, faults
<1>10. QED
  BY <1>1, <1>2, <1>3, <1>4, <1>5, <1>6, <1>7, <1>8, <1>9 DEF Work

LEMMA StopType ==
  ASSUME TypeOK, NEW p \in Procs, Stop(p)
  PROVE  TypeOK'
<1>1. CallersOK' /\ owner' \in [Files -> Procs \cup {NoProc}]
  BY TypeIsCallersOK, ReturnType DEF Stop, TypeOK, Replies
<1>2. stops' \in 0..MaxStops
  BY BoundsAssumption DEF Stop, TypeOK
<1>3. QED
  BY <1>1, <1>2 DEF Stop, TypeOK, CallersOK

LEMMA EnvironmentType ==
  ASSUME TypeOK, Environment
  PROVE  TypeOK'
<1>1. CASE Halt
  <2>1. halts' \in 0..MaxHalts
    BY <1>1, BoundsAssumption DEF Halt, TypeOK
  <2>2. CallersOK' /\ owner' \in [Files -> Procs \cup {NoProc}]
    BY <1>1, NoCallIsCall DEF Halt, TypeOK, CallersOK, Steps, Replies
  <2>3. QED
    BY <1>1, <2>1, <2>2 DEF Halt, TypeOK, CallersOK
<1>2. ASSUME NEW f \in Schematics, EditorToggles(f) PROVE TypeOK'
  BY <1>2 DEF EditorToggles, TypeOK, faults
<1>3. ASSUME NEW f \in Files, NEW x \in Edits, ForeignEdit(f, x) PROVE TypeOK'
  <2>1. edits' \in 0..MaxEdits
    BY <1>3, BoundsAssumption DEF ForeignEdit, TypeOK
  <2>2. disk' \in [Files -> Contents \cup {Absent}]
    BY <1>3, EditsAssumption DEF ForeignEdit, TypeOK
  <2>3. QED
    BY <1>3, <2>1, <2>2 DEF ForeignEdit, TypeOK
<1>4. ASSUME NEW t \in Damageable, ForeignDamage(t) PROVE TypeOK'
  <2>1. edits' \in 0..MaxEdits
    BY <1>4, BoundsAssumption DEF ForeignDamage, TypeOK
  <2>2. QED
    BY <1>4, <2>1 DEF ForeignDamage, TypeOK, JournalStates
<1>5. QED
  BY <1>1, <1>2, <1>3, <1>4 DEF Environment

-----------------------------------------------------------------------------
(* The invariant of one caller, and when a step of another leaves it alone. *)

Sound(p) == Shape(p) /\ HoldsItsLocks(p) /\ ComparisonStands(p)

\* What one caller's step does to the other callers' part of the state.
Undisturbed(q) ==
    /\ pc'[q] = pc[q] /\ call'[q] = call[q]
    /\ \A f \in Files : owner'[f] = q <=> owner[f] = q
    /\ \A f \in Files : disk'[f] = disk[f] \/ disk'[f] \in Edits \/ owner[f] # q

\* An entry that awaits its write is a target whose lock the caller holds.
LEMMA AwaitingLocked ==
  ASSUME NEW p \in Procs, Shape(p), HoldsItsLocks(p), NEW f \in Awaiting(p)
  PROVE  f \in Files /\ f \in Targets(call[p].work) /\ owner[f] = p
  BY TargetsAreFiles DEF Awaiting, Shape, HoldsItsLocks, Critical, CriticalSteps

LEMMA UndisturbedIsSound ==
  ASSUME NEW q \in Procs, Sound(q), Undisturbed(q)
  PROVE  Sound(q)'
<1>1. Shape(q)'
  BY DEF Sound, Undisturbed, Shape
<1>2. HoldsItsLocks(q)'
  <2>1. \A f \in Targets(call[q].work) : f \in Files
    BY TargetsAreFiles
  <2>2. QED
    BY <2>1 DEF Sound, Undisturbed, HoldsItsLocks, Critical, CriticalSteps
<1>3. ComparisonStands(q)'
  <2>1. Awaiting(q)' = Awaiting(q)
    BY DEF Undisturbed, Awaiting
  <2>2. SUFFICES ASSUME NEW f \in Awaiting(q)
                 PROVE  disk'[f] = call'[q].work[f].before \/ disk'[f] \in Edits
    BY <2>1 DEF ComparisonStands
  <2>3. f \in Files /\ owner[f] = q
    BY AwaitingLocked DEF Sound
  <2>4. disk[f] = call[q].work[f].before \/ disk[f] \in Edits
    BY DEF Sound, ComparisonStands
  <2>5. QED
    BY <2>3, <2>4 DEF Undisturbed
<1>4. QED
  BY <1>1, <1>2, <1>3 DEF Sound

\* p moves, replaces at most files whose lock it holds, and changes only its own locks.
Moves(p) ==
    /\ \A q \in Procs \ {p} : pc'[q] = pc[q] /\ call'[q] = call[q]
    /\ \A q \in Procs \ {p}, f \in Files : owner'[f] = q <=> owner[f] = q
    /\ \A f \in Files : disk'[f] = disk[f] \/ owner[f] = p

LEMMA MovesDisturbsNobody ==
  ASSUME NEW p \in Procs, Moves(p), NEW q \in Procs \ {p}
  PROVE  Undisturbed(q)
  BY DEF Moves, Undisturbed

LEMMA GoMoves ==
  ASSUME TypeOK, NEW p \in Procs, NEW s, NEW c, Go(p, s, c), UNCHANGED <<owner, disk>>
  PROVE  Moves(p)
  BY DEF Moves, Go, TypeOK

\* A call that returned holds no lock and awaits nothing.
LEMMA ReturnIsSound ==
  ASSUME TypeOK, NEW p \in Procs, NEW r, Return(p, r)
  PROVE  /\ Sound(p)'
         /\ UNCHANGED disk => Moves(p)
<1>1. pc'[p] = "idle" /\ call'[p] = NoCall
  BY DEF Return, TypeOK
<1>2. \A f \in Files : owner'[f] # p
  BY NoProcAssumption DEF Return, Unlocked
<1>3. Shape(p)'
  BY <1>1 DEF Shape, Fits, NoCall
<1>4. HoldsItsLocks(p)'
  BY <1>1, <1>2 DEF HoldsItsLocks, Critical, CriticalSteps
<1>5. ComparisonStands(p)'
  BY <1>1 DEF ComparisonStands, Awaiting, NoCall
<1>6. UNCHANGED disk => Moves(p)
  BY NoProcAssumption DEF Moves, Return, Unlocked, TypeOK
<1>7. QED
  BY <1>3, <1>4, <1>5, <1>6 DEF Sound

-----------------------------------------------------------------------------
(* Each step of a caller moves that caller alone and leaves it sound.      *)

LEMMA StartIsSound ==
  ASSUME IInv, NEW p \in Procs, NEW s \in {"journals", "read", "lock"}, NEW c \in Call,
         Start(p, s, c),
         c.ask # NoRequest => c.id \in Txns,
         s = "read" => c.mode = "abandon" /\ c.txn \in Txns,
         s # "lock" => c.work = NoPlan,
         s = "lock" => c.mode = "save" /\ c.left = Targets(c.work),
         c.left \subseteq Targets(c.work), c.pending = {}
  PROVE  Moves(p) /\ Sound(p)'
<1>1. pc'[p] = s /\ call'[p] = c /\ UNCHANGED <<owner, disk>>
  BY DEF Start, IInv, TypeOK
<1>2. Moves(p)
  BY DEF Start, Moves, IInv, TypeOK
<1>3. \A f \in Files : owner[f] # p
  BY DEF Start, IInv, HoldsItsLocks
<1>4. Shape(p)'
  BY <1>1 DEF Shape, Fits
<1>5. HoldsItsLocks(p)'
  BY <1>1, <1>3 DEF HoldsItsLocks, Critical, CriticalSteps
<1>6. ComparisonStands(p)'
  BY <1>1 DEF ComparisonStands, Awaiting
<1>7. QED
  BY <1>2, <1>4, <1>5, <1>6 DEF Sound

LEMMA BeginIsSound ==
  ASSUME IInv, NEW p \in Procs, Begin(p)
  PROVE  Moves(p) /\ Sound(p)'
<1>1. ASSUME NEW e \in Requests, NEW t \in Txns, StartCommit(p, e, t)
      PROVE  Moves(p) /\ Sound(p)'
  <2> DEFINE c == [NoCall EXCEPT !.todo = {u \in Txns : OnDisk(u)}, !.ask = e, !.id = t]
  <2>1. c \in Call /\ c.id \in Txns /\ c.left = {} /\ c.pending = {} /\ c.work = NoPlan
    BY NoCallIsCall DEF Call, NoCall
  <2>2. Start(p, "journals", c)
    BY <1>1 DEF StartCommit
  <2> HIDE DEF c
  <2>3. QED
    BY <2>1, <2>2, StartIsSound
<1>2. CASE StartRecover(p)
  <2> DEFINE c == [NoCall EXCEPT !.todo = {t \in Txns : OnDisk(t)}]
  <2>1. c \in Call /\ c.ask = NoRequest /\ c.left = {} /\ c.pending = {} /\ c.work = NoPlan
    BY NoCallIsCall DEF Call, NoCall
  <2>2. Start(p, "journals", c)
    BY <1>2 DEF StartRecover
  <2> HIDE DEF c
  <2>3. QED
    BY <2>1, <2>2, StartIsSound
<1>3. ASSUME NEW t \in Txns, StartRecoverOne(p, t) PROVE Moves(p) /\ Sound(p)'
  <2> DEFINE c == [NoCall EXCEPT !.todo = {t}]
  <2>1. c \in Call /\ c.ask = NoRequest /\ c.left = {} /\ c.pending = {} /\ c.work = NoPlan
    BY NoCallIsCall DEF Call, NoCall
  <2>2. Start(p, "journals", c)
    BY <1>3 DEF StartRecoverOne
  <2> HIDE DEF c
  <2>3. QED
    BY <2>1, <2>2, StartIsSound
<1>4. ASSUME NEW t \in Txns, StartAbandon(p, t) PROVE Moves(p) /\ Sound(p)'
  <2> DEFINE c == [NoCall EXCEPT !.mode = "abandon", !.txn = t]
  <2>1. /\ c \in Call /\ c.ask = NoRequest /\ c.left = {} /\ c.pending = {} /\ c.work = NoPlan
        /\ c.mode = "abandon" /\ c.txn = t
    BY NoCallIsCall DEF Call, NoCall, Modes
  <2>2. Start(p, "read", c)
    BY <1>4 DEF StartAbandon
  <2> HIDE DEF c
  <2>3. QED
    BY <2>1, <2>2, StartIsSound
<1>5. ASSUME NEW w \in Saves, StartSave(p, w) PROVE Moves(p) /\ Sound(p)'
  <2> DEFINE c == [NoCall EXCEPT !.mode = "save", !.work = w, !.left = Targets(w)]
  <2>1. /\ c \in Call /\ c.ask = NoRequest /\ c.left = Targets(c.work) /\ c.pending = {}
        /\ c.mode = "save"
    BY NoCallIsCall, SavesAssumption, TargetsAreFiles DEF Call, NoCall, Modes
  <2>2. Start(p, "lock", c)
    BY <1>5 DEF StartSave
  <2> HIDE DEF c
  <2>3. QED
    BY <2>1, <2>2, StartIsSound
<1>6. QED
  BY <1>1, <1>2, <1>3, <1>4, <1>5 DEF Begin

\* What p's local state is after it is done with an entry.
Visited(p, f, pending, here, next) ==
    /\ \A q \in Procs \ {p} : pc'[q] = pc[q] /\ call'[q] = call[q]
    /\ call'[p].mode = call[p].mode /\ call'[p].txn = call[p].txn
    /\ call'[p].work = call[p].work /\ call'[p].pending = pending
    /\ call'[p].ask = call[p].ask /\ call'[p].id = call[p].id /\ call'[p].todo = call[p].todo
    /\ \/ /\ pc'[p] = here /\ call'[p].left = call[p].left \ {f}
          /\ call[p].left \ {f} # {}
       \/ /\ pc'[p] = next /\ call[p].left \subseteq {f}
          /\ call'[p].left = LoopOver(next, call[p].work, pending)

LEMMA VisitLeads ==
  ASSUME TypeOK, NEW p \in Procs, NEW f, NEW pending, NEW here, NEW next,
         Visit(p, f, pending, here, next)
  PROVE  Visited(p, f, pending, here, next)
<1> DEFINE c == call[p]
           rest == c.left \ {f}
           stay == [c EXCEPT !.left = rest, !.pending = pending]
           move == [c EXCEPT !.left = LoopOver(next, c.work, pending), !.pending = pending]
<1>c. c \in Call
  BY DEF TypeOK
<1>1. ASSUME NEW s, NEW d, Go(p, s, d)
      PROVE  /\ pc'[p] = s /\ call'[p] = d
             /\ \A q \in Procs \ {p} : pc'[q] = pc[q] /\ call'[q] = call[q]
  BY <1>1 DEF Go, TypeOK
<1>2. CASE rest # {} /\ Go(p, here, stay)
  <2>1. /\ stay.mode = c.mode /\ stay.txn = c.txn /\ stay.work = c.work /\ stay.ask = c.ask
        /\ stay.id = c.id /\ stay.todo = c.todo /\ stay.pending = pending /\ stay.left = rest
    BY <1>c DEF Call
  <2> HIDE DEF stay
  <2>2. QED
    BY <1>1, <1>2, <2>1 DEF Visited
<1>3. CASE rest = {} /\ Go(p, next, move)
  <2>1. /\ move.mode = c.mode /\ move.txn = c.txn /\ move.work = c.work /\ move.ask = c.ask
        /\ move.id = c.id /\ move.todo = c.todo /\ move.pending = pending
        /\ move.left = LoopOver(next, c.work, pending)
    BY <1>c DEF Call
  <2>2. c.left \subseteq {f}
    BY <1>3
  <2> HIDE DEF move
  <2>3. QED
    BY <1>1, <1>3, <2>1, <2>2 DEF Visited
<1>4. QED
  BY <1>2, <1>3 DEF Visit

LEMMA AcquireIsSound ==
  ASSUME IInv, NEW p \in Procs, Acquire(p)
  PROVE  Moves(p) /\ Sound(p)'
<1> PICK f \in Files : Lock(p, f)
  BY DEF Acquire
<1> DEFINE w == call[p].work
           next == IF call[p].mode \in {"commit", "recover"} THEN "closed" ELSE "verify"
<1>1. /\ pc[p] = "lock" /\ f \in call[p].left /\ \A g \in call[p].left : f <= g
      /\ owner[f] = NoProc /\ owner' = [owner EXCEPT ![f] = p]
      /\ Visit(p, f, {}, "lock", next) /\ UNCHANGED disk
  BY DEF Lock, AtEntry, First
<1>2. TypeOK /\ Shape(p) /\ HoldsItsLocks(p)
  BY DEF IInv
<1>3. /\ \A q \in Procs \ {p} : pc'[q] = pc[q] /\ call'[q] = call[q]
      /\ call'[p].mode = call[p].mode /\ call'[p].txn = call[p].txn
      /\ call'[p].work = w /\ call'[p].pending = {}
      /\ call'[p].ask = call[p].ask /\ call'[p].id = call[p].id
      /\ \/ pc'[p] = "lock" /\ call'[p].left = call[p].left \ {f}
         \/ pc'[p] = next /\ call[p].left \subseteq {f} /\ call'[p].left = Targets(w)
  <2>1. LoopOver(next, w, {}) = Targets(w)
    BY DEF LoopOver
  <2> HIDE DEF w, next
  <2>2. QED
    BY <1>1, <1>2, <2>1, VisitLeads DEF w, Visited
<1>4. Moves(p)
  BY <1>1, <1>2, <1>3, NoProcAssumption DEF Moves, TypeOK
<1>5. Shape(p)'
  BY <1>1, <1>2, <1>3 DEF Shape, Fits
<1>6. HoldsItsLocks(p)'
  <2>1. \A g \in Files : owner'[g] = p <=> g = f \/ g \in Targets(w) \ call[p].left
    BY <1>1, <1>2, NoProcAssumption DEF HoldsItsLocks, TypeOK
  <2>2. f \in Targets(w)
    BY <1>1, <1>2 DEF Shape
  <2>3. CASE pc'[p] = "lock" /\ call'[p].left = call[p].left \ {f}
    <3>1. \A g \in Files : owner'[g] = p <=> g \in Targets(w) \ call'[p].left
      BY <2>1, <2>2, <2>3
    <3>2. \A g \in Files, h \in call'[p].left : owner'[g] = p => g < h
      <4> SUFFICES ASSUME NEW g \in Files, NEW h \in call[p].left, h # f, owner'[g] = p
                   PROVE  g < h
        BY <2>3
      <4>1. h \in Files /\ g \in Nat /\ h \in Nat /\ f \in Nat
        BY <1>2, FilesAssumption, TargetsAreFiles DEF Shape
      <4>2. CASE g = f
        BY <1>1, <4>1, <4>2
      <4>3. CASE g # f
        BY <4>3, <1>1, <1>2 DEF HoldsItsLocks, TypeOK
      <4>4. QED
        BY <4>2, <4>3
    <3>3. QED
      BY <2>3, <1>3, <3>1, <3>2 DEF HoldsItsLocks, Critical, CriticalSteps
  <2>4. CASE pc'[p] = next /\ call[p].left \subseteq {f}
    <3>1. \A g \in Targets(w) : owner'[g] = p
      BY <2>1, <2>4, TargetsAreFiles
    <3>2. pc'[p] \in {"closed", "verify"}
      BY <2>4
    <3>3. QED
      BY <3>1, <3>2, <1>3 DEF HoldsItsLocks, Critical, CriticalSteps
  <2>5. QED
    BY <1>3, <2>3, <2>4
<1>7. ComparisonStands(p)'
  <2>1. Awaiting(p)' = {}
    BY <1>3 DEF Awaiting
  <2>2. QED
    BY <2>1 DEF ComparisonStands
<1>8. QED
  BY <1>4, <1>5, <1>6, <1>7 DEF Sound

\* In a critical loop over the entries, with the entry f behind.
LEMMA LoopKeepsLocks ==
  ASSUME IInv, NEW p \in Procs, Critical(p), NEW f, NEW pending,
         pending \subseteq Targets(call[p].work),
         NEW here \in CriticalSteps, NEW next \in CriticalSteps,
         Fits(here, call[p].mode), Fits(next, call[p].mode),
         Visited(p, f, pending, here, next), UNCHANGED owner
  PROVE  Shape(p)' /\ HoldsItsLocks(p)'
<1>1. Shape(p) /\ HoldsItsLocks(p)
  BY DEF IInv
<1>2. pc'[p] \in CriticalSteps /\ Fits(pc'[p], call[p].mode)
  BY DEF Visited
<1>3. call'[p].left \subseteq Targets(call[p].work)
  BY <1>1 DEF Visited, LoopOver, Shape
<1>4. Shape(p)'
  BY <1>1, <1>2, <1>3 DEF Shape, Visited, Critical, CriticalSteps
<1>5. HoldsItsLocks(p)'
  BY <1>1, <1>2 DEF HoldsItsLocks, Visited, Critical, CriticalSteps
<1>6. QED
  BY <1>4, <1>5

\* A step that starts to lock the entries w of journal t.
LEMMA LockableIsSound ==
  ASSUME IInv, NEW p \in Procs, pc[p] \in {"journals", "read"},
         NEW c \in Call, c.pending = {}, c.ask # NoRequest => c.id \in Txns,
         NEW m \in Modes, NEW t \in Txns, NEW w \in Plan,
         Go(p, "lock", Lockable(c, m, t, w)), UNCHANGED <<owner, disk>>
  PROVE  Moves(p) /\ Sound(p)'
<1> DEFINE d == Lockable(c, m, t, w)
<1>1. /\ d.mode = m /\ d.txn = t /\ d.work = w /\ d.left = Targets(w) /\ d.pending = {}
      /\ d.ask = c.ask /\ d.id = c.id
  BY DEF Lockable, Call
<1> HIDE DEF d
<1>2. pc'[p] = "lock" /\ call'[p] = d
  BY DEF Go, IInv, TypeOK, d
<1>3. \A f \in Files : owner'[f] # p
  BY DEF IInv, HoldsItsLocks
<1>4. Moves(p)
  BY GoMoves DEF IInv
<1>5. Shape(p)'
  BY <1>1, <1>2 DEF Shape, Fits
<1>6. HoldsItsLocks(p)'
  BY <1>1, <1>2, <1>3 DEF HoldsItsLocks, Critical, CriticalSteps
<1>7. ComparisonStands(p)'
  BY <1>1, <1>2 DEF ComparisonStands, Awaiting
<1>8. QED
  BY <1>4, <1>5, <1>6, <1>7 DEF Sound

LEMMA NothingPendingYet ==
  ASSUME NEW p \in Procs, Shape(p), pc[p] \in {"journals", "read"}
  PROVE  call[p].pending = {} /\ call[p].left = {} /\ Targets(call[p].work) = {}
  BY DEF Shape, Targets, NoPlan

\* The same, for the loops that write nothing.
LEMMA LoopIsSound ==
  ASSUME IInv, NEW p \in Procs, Critical(p), NEW f, NEW pending,
         pending \subseteq Targets(call[p].work),
         NEW here \in CriticalSteps, NEW next \in CriticalSteps,
         Fits(here, call[p].mode), Fits(next, call[p].mode),
         Visit(p, f, pending, here, next), UNCHANGED <<owner, disk>>,
         Visited(p, f, pending, here, next) =>
            \A g \in Awaiting(p)' :
               disk[g] = call[p].work[g].before \/ disk[g] \in Edits
  PROVE  Moves(p) /\ Sound(p)'
<1>1. Visited(p, f, pending, here, next)
  BY VisitLeads DEF IInv
<1>2. Moves(p)
  BY <1>1 DEF Moves, Visited
<1>3. Shape(p)' /\ HoldsItsLocks(p)'
  BY <1>1, LoopKeepsLocks
<1>4. ComparisonStands(p)'
  BY <1>1 DEF ComparisonStands, Visited
<1>5. QED
  BY <1>2, <1>3, <1>4 DEF Sound

\* A step of one of the loops over the entries.
LEMMA LoopStepIsSound ==
  ASSUME IInv, NEW p \in Procs, NEW f \in Files,
         \/ CheckClosed(p, f) \/ VerifyBefore(p, f) \/ Classify(p, f) \/ Inspect(p, f)
         \/ StageWrite(p, f) \/ Rename(p, f) \/ VerifyAfter(p, f)
  PROVE  Moves(p) /\ Sound(p)'
<1> DEFINE c == call[p]
           w == call[p].work
<1>c. /\ TypeOK /\ c \in Call /\ Shape(p) /\ HoldsItsLocks(p) /\ ComparisonStands(p)
  BY DEF IInv, TypeOK
<1>r. ASSUME NEW r, Return(p, r), UNCHANGED disk PROVE Moves(p) /\ Sound(p)'
  BY <1>c, <1>r, ReturnIsSound
<1>f. /\ pc[p] \in {"closed", "verify", "apply", "rename", "after"} /\ Critical(p)
      /\ f \in Targets(w) /\ f \in c.left
      /\ {} \subseteq Targets(w) /\ c.pending \subseteq Targets(w)
      /\ c.pending \cup {f} \subseteq Targets(w)
  BY <1>c DEF CheckClosed, VerifyBefore, Classify, Inspect, StageWrite, Rename, VerifyAfter,
              AtEntry, First, Shape, Critical, CriticalSteps
<1>1. CASE CheckClosed(p, f)
  <2>1. CASE Visit(p, f, {}, "closed", "verify") /\ UNCHANGED owner
    <3>1. Fits("closed", c.mode) /\ Fits("verify", c.mode)
      BY <1>1, <1>c DEF CheckClosed, AtEntry, Shape, Fits
    <3>2. Visited(p, f, {}, "closed", "verify") => Awaiting(p)' = {}
      BY DEF Visited, Awaiting
    <3>3. UNCHANGED disk
      BY <1>1 DEF CheckClosed
    <3>4. QED
      BY <1>f, <2>1, <3>1, <3>2, <3>3, LoopIsSound DEF CriticalSteps
  <2>2. QED
    BY <1>1, <1>r, <2>1 DEF CheckClosed
<1>2. CASE VerifyBefore(p, f)
  <2> DEFINE next == IF c.mode = "commit" THEN "persist" ELSE "apply"
             more == c.pending \cup {f}
  <2>1. CASE Visit(p, f, more, "verify", next) /\ UNCHANGED owner /\ disk[f] = w[f].before
    <3>1. pc[p] = "verify" /\ c.mode \in {"commit", "save"} /\ UNCHANGED disk
      BY <1>2 DEF VerifyBefore, AtEntry
    <3>2. next \in CriticalSteps /\ Fits("verify", c.mode) /\ Fits(next, c.mode)
      BY <3>1 DEF Fits, CriticalSteps
    <3>3. Visited(p, f, more, "verify", next) => Awaiting(p)' \subseteq more
      BY <3>1 DEF Visited, Awaiting, LoopOver
    <3>4. \A g \in more : disk[g] = w[g].before \/ disk[g] \in Edits
      BY <1>c, <2>1, <3>1 DEF ComparisonStands, Awaiting
    <3> HIDE DEF next, more
    <3>5. more \subseteq Targets(w)
      BY <1>f DEF more
    <3>6. QED
      BY <1>f, <2>1, <3>1, <3>2, <3>3, <3>4, <3>5, LoopIsSound DEF CriticalSteps
  <2>2. QED
    BY <1>2, <1>r, <2>1 DEF VerifyBefore
<1>3. CASE Classify(p, f)
  <2> DEFINE more == IF disk[f] = w[f].after THEN c.pending ELSE c.pending \cup {f}
             next == IF more = {} THEN "after" ELSE "apply"
  <2>1. CASE Visit(p, f, more, "verify", next) /\ UNCHANGED owner
             /\ disk[f] \in {w[f].before, w[f].after}
    <3>1. pc[p] = "verify" /\ c.mode = "recover" /\ UNCHANGED disk
      BY <1>3 DEF Classify, AtEntry
    <3>2. next \in CriticalSteps /\ Fits("verify", c.mode) /\ Fits(next, c.mode)
      BY <3>1 DEF Fits, CriticalSteps
    <3>3. Visited(p, f, more, "verify", next) => Awaiting(p)' \subseteq more
      BY <3>1 DEF Visited, Awaiting, LoopOver
    <3>4. \A g \in more : disk[g] = w[g].before \/ disk[g] \in Edits
      BY <1>c, <2>1, <3>1 DEF ComparisonStands, Awaiting
    <3>5. more \subseteq Targets(w)
      BY <1>f
    <3> HIDE DEF next, more
    <3>6. QED
      BY <1>f, <2>1, <3>1, <3>2, <3>3, <3>4, <3>5, LoopIsSound DEF CriticalSteps
  <2>2. QED
    BY <1>3, <1>r, <2>1 DEF Classify
<1>4. CASE Inspect(p, f)
  <2> DEFINE more == IF disk[f] \in {w[f].before, w[f].after}
                       THEN c.pending ELSE c.pending \cup {f}
  <2>1. CASE Visit(p, f, more, "verify", "archive") /\ UNCHANGED owner
    <3>1. pc[p] = "verify" /\ c.mode = "abandon" /\ UNCHANGED disk
      BY <1>4 DEF Inspect, AtEntry
    <3>2. Fits("verify", c.mode) /\ Fits("archive", c.mode)
      BY <3>1 DEF Fits
    <3>3. more \subseteq Targets(w)
      BY <1>f
    <3> HIDE DEF more
    <3>4. Visited(p, f, more, "verify", "archive") => Awaiting(p)' = {}
      BY <3>1 DEF Visited, Awaiting
    <3>5. QED
      BY <1>f, <2>1, <3>1, <3>2, <3>3, <3>4, LoopIsSound DEF CriticalSteps
  <2>2. QED
    BY <1>4, <1>r, <2>1 DEF Inspect
<1>5. CASE StageWrite(p, f)
  <2>1. CASE Go(p, "rename", c) /\ UNCHANGED owner
    <3>1. pc[p] = "apply" /\ UNCHANGED disk /\ pc'[p] = "rename" /\ call'[p] = call[p]
      BY <1>5, <1>c, <2>1 DEF StageWrite, AtEntry, Go, TypeOK
    <3>2. Shape(p)' /\ HoldsItsLocks(p)'
      BY <2>1, <3>1, <1>c DEF Shape, Fits, HoldsItsLocks, Critical, CriticalSteps
    <3>3. ComparisonStands(p)'
      BY <3>1, <1>c DEF ComparisonStands, Awaiting
    <3>4. QED
      BY <2>1, <3>1, <3>2, <3>3, <1>c, GoMoves DEF Sound
  <2>2. QED
    BY <1>5, <1>r, <2>1 DEF StageWrite
<1>6. CASE Rename(p, f)
  <2>1. CASE /\ disk' = [disk EXCEPT ![f] = w[f].after] /\ UNCHANGED owner
             /\ Visit(p, f, c.pending, "apply", "after")
    <3>1. Visited(p, f, c.pending, "apply", "after")
      BY <2>1, <1>c, VisitLeads
    <3>2. pc[p] = "rename" /\ c.mode # "abandon"
      BY <1>6, <1>c DEF Rename, AtEntry, Shape, Fits
    <3>3. owner[f] = p
      BY <1>c, <1>f DEF HoldsItsLocks
    <3>4. Moves(p)
      BY <2>1, <3>1, <3>3, <1>c DEF Moves, Visited, TypeOK
    <3>5. Shape(p)' /\ HoldsItsLocks(p)'
      <4>1. Fits("apply", c.mode) /\ Fits("after", c.mode)
        BY <3>2 DEF Fits
      <4>2. QED
        BY <2>1, <3>1, <4>1, <1>f, LoopKeepsLocks DEF CriticalSteps
    <3>6. ComparisonStands(p)'
      <4>1. Awaiting(p)' \subseteq c.left \ {f}
        BY <3>1, <3>2 DEF Awaiting, Visited
      <4>2. SUFFICES ASSUME NEW g \in c.left, g # f
                     PROVE  disk'[g] = w[g].before \/ disk'[g] \in Edits
        BY <3>1, <4>1 DEF ComparisonStands, Visited
      <4>3. disk[g] = w[g].before \/ disk[g] \in Edits
        BY <1>c, <3>2 DEF ComparisonStands, Awaiting
      <4>4. disk'[g] = disk[g]
        BY <2>1, <4>2, <1>c, TargetsAreFiles DEF Shape, TypeOK
      <4>5. QED
        BY <4>3, <4>4
    <3>7. QED
      BY <3>4, <3>5, <3>6 DEF Sound
  <2>2. QED
    BY <1>6, <1>r, <2>1 DEF Rename
<1>7. CASE VerifyAfter(p, f)
  <2>1. CASE Visit(p, f, c.pending, "after", "remove") /\ UNCHANGED owner /\ c.mode # "save"
    <3>1. pc[p] = "after" /\ UNCHANGED disk /\ c.mode \in {"commit", "recover"}
      BY <1>7, <1>c, <2>1 DEF VerifyAfter, AtEntry, Shape, Fits, Call, Modes
    <3>2. Fits("after", c.mode) /\ Fits("remove", c.mode)
      BY <3>1 DEF Fits
    <3>3. Visited(p, f, c.pending, "after", "remove") => Awaiting(p)' = {}
      BY DEF Visited, Awaiting
    <3>4. QED
      BY <1>f, <2>1, <3>1, <3>2, <3>3, LoopIsSound DEF CriticalSteps
  <2>2. QED
    BY <1>7, <1>r, <2>1 DEF VerifyAfter
<1>8. QED
  BY <1>1, <1>2, <1>3, <1>4, <1>5, <1>6, <1>7

LEMMA WorkIsSound ==
  ASSUME IInv, NEW p \in Procs, Work(p)
  PROVE  Moves(p) /\ Sound(p)'
<1> DEFINE t == call[p].txn
           w == call[p].work
<1>c. /\ TypeOK /\ call[p] \in Call
      /\ Shape(p) /\ HoldsItsLocks(p) /\ ComparisonStands(p)
  BY DEF IInv, TypeOK
\* Every step may end the call; the disk is then untouched.
<1>r. ASSUME NEW r, Return(p, r), UNCHANGED disk PROVE Moves(p) /\ Sound(p)'
  BY <1>c, <1>r, ReturnIsSound
<1>1. CASE RecoverDone(p)
  BY <1>1, <1>r DEF RecoverDone
<1>2. CASE BeginCommit(p)
  <2>1. CASE /\ Normal(call[p].ask) /\ UNCHANGED owner
             /\ Go(p, "lock", Lockable(call[p], "commit", call[p].id, call[p].ask))
    <3>1. call[p].ask \in Plan /\ call[p].id \in Txns /\ pc[p] = "journals" /\ UNCHANGED disk
      BY <1>2, <1>c, RequestsAssumption DEF BeginCommit, Call, Shape
    <3>2. call[p].pending = {}
      BY <3>1, <1>c, NothingPendingYet
    <3>3. QED
      BY <2>1, <3>1, <3>2, <1>c, LockableIsSound DEF Modes
  <2>2. QED
    BY <1>2, <1>r, <2>1 DEF BeginCommit
<1>3. CASE ReadAbandoned(p)
  <2>1. CASE Go(p, "lock", Lockable(call[p], "abandon", t, jentries[t])) /\ UNCHANGED owner
    <3>1. t \in Txns /\ jentries[t] \in Plan /\ pc[p] = "read" /\ UNCHANGED disk
      BY <1>3, <1>c DEF ReadAbandoned, Shape, Fits, TypeOK
    <3>2. call[p].pending = {} /\ (call[p].ask # NoRequest => call[p].id \in Txns)
      BY <3>1, <1>c, NothingPendingYet DEF Shape
    <3>3. QED
      BY <2>1, <3>1, <3>2, <1>c, LockableIsSound DEF Modes
  <2>2. CASE Go(p, "archive", call[p]) /\ UNCHANGED owner
    <3>1. pc[p] = "read" /\ UNCHANGED disk /\ pc'[p] = "archive" /\ call'[p] = call[p]
      BY <1>3, <1>c, <2>2 DEF ReadAbandoned, Go, TypeOK
    <3>2. Targets(w) = {}
      BY <3>1, <1>c, NothingPendingYet
    <3>3. Shape(p)' /\ HoldsItsLocks(p)'
      BY <3>1, <3>2, <1>c DEF Shape, Fits, HoldsItsLocks, Critical, CriticalSteps
    <3>4. ComparisonStands(p)'
      BY <3>1, <1>c DEF ComparisonStands, Awaiting
    <3>5. QED
      BY <2>2, <3>1, <3>3, <3>4, <1>c, GoMoves DEF Sound
  <2>3. QED
    BY <1>3, <1>r, <2>1, <2>2 DEF ReadAbandoned
<1>4. CASE Persist(p)
  <2> DEFINE c == [call[p] EXCEPT !.left = call[p].pending]
  <2>1. /\ c.mode = call[p].mode /\ c.txn = t /\ c.work = w /\ c.ask = call[p].ask
        /\ c.id = call[p].id /\ c.pending = call[p].pending /\ c.left = call[p].pending
    BY <1>c DEF Call
  <2>2. pc[p] = "persist" /\ Go(p, "apply", c) /\ UNCHANGED <<owner, disk>>
    BY <1>4 DEF Persist
  <2> HIDE DEF c
  <2>3. pc'[p] = "apply" /\ call'[p] = c
    BY <2>2, <1>c DEF Go, TypeOK
  <2>4. Shape(p)' /\ HoldsItsLocks(p)'
    BY <1>c, <2>1, <2>2, <2>3 DEF Shape, Fits, HoldsItsLocks, Critical, CriticalSteps
  <2>5. ComparisonStands(p)'
    BY <1>c, <2>1, <2>2, <2>3 DEF Shape, Fits, ComparisonStands, Awaiting
  <2>6. QED
    BY <2>2, <2>4, <2>5, <1>c, GoMoves DEF Sound
<1>5. CASE RemoveJournal(p)
  <2> DEFINE c == [NoCall EXCEPT !.todo = call[p].todo, !.ask = call[p].ask, !.id = call[p].id]
  <2>1. CASE Go(p, "journals", c) /\ owner' = Unlocked(p)
    <3>1. /\ c.mode = "recover" /\ c.work = NoPlan /\ c.left = {} /\ c.pending = {}
          /\ c.ask = call[p].ask /\ c.id = call[p].id
      BY DEF NoCall
    <3> HIDE DEF c
    <3>2. pc'[p] = "journals" /\ call'[p] = c /\ UNCHANGED disk
      BY <1>5, <1>c, <2>1 DEF Go, TypeOK, RemoveJournal
    <3>3. \A f \in Files : owner'[f] # p
      BY <2>1, NoProcAssumption DEF Unlocked
    <3>4. Moves(p)
      BY <2>1, <3>2, <1>c, NoProcAssumption DEF Moves, Go, Unlocked, TypeOK
    <3>5. Shape(p)' /\ HoldsItsLocks(p)'
      BY <1>c, <3>1, <3>2, <3>3 DEF Shape, Fits, HoldsItsLocks, Critical, CriticalSteps
    <3>6. ComparisonStands(p)'
      BY <3>1, <3>2 DEF ComparisonStands, Awaiting
    <3>7. QED
      BY <3>4, <3>5, <3>6 DEF Sound
  <2>2. QED
    BY <1>5, <1>r, <2>1 DEF RemoveJournal
<1>6. CASE Archive(p)
  BY <1>6, <1>r DEF Archive
<1>7. ASSUME NEW u \in Txns, ReadJournal(p, u) PROVE Moves(p) /\ Sound(p)'
  <2> DEFINE c == [call[p] EXCEPT !.todo = @ \ {u}]
  <2>1. CASE Go(p, "lock", Lockable(c, "recover", u, jentries[u])) /\ UNCHANGED owner
    <3>1. c \in Call /\ c.pending = call[p].pending /\ c.ask = call[p].ask /\ c.id = call[p].id
      BY <1>c DEF Call
    <3> HIDE DEF c
    <3>2. jentries[u] \in Plan /\ pc[p] = "journals" /\ UNCHANGED disk
      BY <1>7, <1>c DEF ReadJournal, TypeOK
    <3>3. c.pending = {} /\ (c.ask # NoRequest => c.id \in Txns)
      BY <3>1, <3>2, <1>c, NothingPendingYet DEF Shape
    <3>4. QED
      BY <2>1, <3>1, <3>2, <3>3, LockableIsSound DEF Modes
  <2>2. QED
    BY <1>7, <1>r, <2>1 DEF ReadJournal
<1>8. ASSUME NEW f \in Files,
             \/ CheckClosed(p, f) \/ VerifyBefore(p, f) \/ Classify(p, f) \/ Inspect(p, f)
             \/ StageWrite(p, f) \/ Rename(p, f) \/ VerifyAfter(p, f)
      PROVE  Moves(p) /\ Sound(p)'
  BY <1>8, LoopStepIsSound
<1>9. QED
  BY <1>1, <1>2, <1>3, <1>4, <1>5, <1>6, <1>7, <1>8 DEF Work

-----------------------------------------------------------------------------
(* The invariant, and what follows from it.                                *)

LEMMA InitEstablishes == Init => IInv
<1> SUFFICES ASSUME Init PROVE IInv
  OBVIOUS
<1>1. TypeOK
  BY NoPlanIsPlan, NoCallIsCall, DisksAssumption, BoundsAssumption
  DEF Init, TypeOK, JournalStates, Steps, Replies
<1>2. ASSUME NEW p \in Procs PROVE Shape(p) /\ HoldsItsLocks(p) /\ ComparisonStands(p)
  <2>1. pc[p] = "idle" /\ call[p] = NoCall /\ \A f \in Files : owner[f] # p
    BY NoProcAssumption DEF Init
  <2>2. QED
    BY <2>1 DEF Shape, Fits, HoldsItsLocks, ComparisonStands, Awaiting, Critical, CriticalSteps,
                NoCall
<1>3. QED
  BY <1>1, <1>2 DEF IInv

LEMMA CallerStepKeeps ==
  ASSUME IInv, NEW p \in Procs, Begin(p) \/ Acquire(p) \/ Work(p) \/ Stop(p)
  PROVE  IInv'
<1>1. TypeOK'
  BY BeginType, AcquireType, WorkType, StopType DEF IInv
<1>2. Moves(p) /\ Sound(p)'
  <2>1. CASE Stop(p)
    BY <2>1, ReturnIsSound DEF Stop, IInv
  <2>2. QED
    BY <2>1, BeginIsSound, AcquireIsSound, WorkIsSound
<1>3. ASSUME NEW q \in Procs, q # p PROVE Sound(q)'
  BY <1>2, <1>3, MovesDisturbsNobody, UndisturbedIsSound DEF IInv, Sound
<1>4. QED
  BY <1>1, <1>2, <1>3 DEF IInv, Sound

LEMMA EnvironmentKeeps ==
  ASSUME IInv, Environment
  PROVE  IInv'
<1>1. TypeOK'
  BY EnvironmentType DEF IInv
<1>2. ASSUME NEW p \in Procs PROVE Sound(p)'
  <2>1. CASE Halt
    <3>1. pc'[p] = "idle" /\ call'[p] = NoCall /\ \A f \in Files : owner'[f] # p
      BY <2>1, NoProcAssumption DEF Halt
    <3>2. QED
      BY <3>1 DEF Sound, Shape, Fits, HoldsItsLocks, ComparisonStands, Awaiting, Critical,
                  CriticalSteps, NoCall
  <2>2. ASSUME NEW f \in Schematics, EditorToggles(f) PROVE Sound(p)'
    BY <2>2, UndisturbedIsSound DEF EditorToggles, Undisturbed, IInv, Sound
  <2>3. ASSUME NEW f \in Files, NEW x \in Edits, ForeignEdit(f, x) PROVE Sound(p)'
    <3>1. \A g \in Files : disk'[g] = disk[g] \/ disk'[g] \in Edits
      BY <2>3 DEF ForeignEdit, IInv, TypeOK
    <3>2. QED
      BY <2>3, <3>1, UndisturbedIsSound DEF ForeignEdit, Undisturbed, IInv, Sound
  <2>4. ASSUME NEW t \in Damageable, ForeignDamage(t) PROVE Sound(p)'
    BY <2>4, UndisturbedIsSound DEF ForeignDamage, Undisturbed, IInv, Sound
  <2>5. QED
    BY <2>1, <2>2, <2>3, <2>4 DEF Environment
<1>3. QED
  BY <1>1, <1>2 DEF IInv, Sound

LEMMA StutterKeeps == IInv /\ UNCHANGED vars => IInv'
<1> SUFFICES ASSUME IInv, UNCHANGED vars PROVE IInv'
  OBVIOUS
<1>1. TypeOK'
  <2>1. TypeOK /\ UNCHANGED <<disk, editor, owner, jstate, jentries, pc, call, reply>>
        /\ UNCHANGED <<stops, halts, edits>>
    BY DEF IInv, vars
  <2>2. QED
    BY <2>1 DEF TypeOK
<1>2. ASSUME NEW p \in Procs PROVE Sound(p)'
  BY UndisturbedIsSound DEF vars, Undisturbed, IInv, Sound
<1>3. QED
  BY <1>1, <1>2 DEF IInv, Sound

LEMMA NextKeeps == IInv /\ [Next]_vars => IInv'
  BY CallerStepKeeps, EnvironmentKeeps, StutterKeeps DEF Next

\* The inductive invariant holds in every reachable state: a call at each step
\* of transaction.rs holds exactly the locks, and knows of the files exactly
\* what, IInv says.
THEOREM InductiveInvariant == Spec => []IInv
  BY InitEstablishes, NextKeeps, PTL DEF Spec

\* Every variable of the model keeps its type, whatever fails and in whatever order.
THEOREM TypeCorrect == Spec => []TypeOK
<1>1. IInv => TypeOK
  BY DEF IInv
<1>2. QED
  BY <1>1, InductiveInvariant, PTL

\* Two calls never stand between their last lock and its release with a file
\* in common, however old the entries are that one of them read.
THEOREM WritersAreExclusive == Spec => []WritersExclusive
<1>1. IInv => WritersExclusive
  BY TargetsAreFiles DEF IInv, HoldsItsLocks, WritersExclusive
<1>2. QED
  BY <1>1, InductiveInvariant, PTL

\* Locks are taken in path order and a call that waits holds none above the
\* one it waits for, so calls cannot wait for each other in a circle.
THEOREM LocksAreOrdered == Spec => []NoCircularWait
<1>1. IInv => NoCircularWait
  BY DEF IInv, HoldsItsLocks, NoCircularWait
<1>2. QED
  BY <1>1, InductiveInvariant, PTL

\* Whatever stops in between, a rename replaces the before image its call
\* compared, or an edit made meanwhile by an application that takes no lock.
THEOREM NoKonnectWriteIsLost == Spec => NoKonnectWriteLost
<1> DEFINE Allowed == edits' = edits =>
             \A f \in Files : disk'[f] # disk[f] /\ disk[f] \notin Edits => ReplacesBeforeImage(f)
<1>1. ASSUME IInv, [Next]_vars PROVE Allowed
  <2> SUFFICES ASSUME edits' = edits, NEW f \in Files, disk'[f] # disk[f], disk[f] \notin Edits
               PROVE  ReplacesBeforeImage(f)
    OBVIOUS
  <2>1. PICK p \in Procs : \E g \in Files : Rename(p, g)
    <3>1. ASSUME NEW p \in Procs, Begin(p) PROVE disk' = disk
      BY <3>1 DEF Begin, StartCommit, StartRecover, StartRecoverOne, StartAbandon, StartSave, Start
    <3>2. ASSUME NEW p \in Procs, Acquire(p) \/ Stop(p) PROVE disk' = disk
      BY <3>2 DEF Acquire, Lock, Stop
    <3>3. ASSUME NEW p \in Procs, Work(p), disk' # disk PROVE \E g \in Files : Rename(p, g)
      BY <3>3 DEF Work, RecoverDone, BeginCommit, ReadAbandoned, Persist, RemoveJournal, Archive,
                  ReadJournal, CheckClosed, VerifyBefore, Classify, Inspect, StageWrite, VerifyAfter
    <3>4. ASSUME Environment PROVE disk' = disk
      <4>1. edits \in Nat
        BY <1>1, BoundsAssumption DEF IInv, TypeOK
      <4>2. QED
        BY <3>4, <4>1 DEF Environment, Halt, EditorToggles, ForeignEdit, ForeignDamage
    <3>5. QED
      BY <1>1, <3>1, <3>2, <3>3, <3>4 DEF Next, vars
  <2>2. PICK g \in Files : Rename(p, g)
    BY <2>1
  <2>3. g = f /\ pc[p] = "rename" /\ f \in call[p].left
    BY <1>1, <2>2 DEF Rename, AtEntry, First, IInv, TypeOK
  <2>4. f \in Awaiting(p)
    BY <1>1, <2>3 DEF Awaiting, IInv, Shape, Fits
  <2>5. owner[f] = p
    BY <1>1, <2>4, AwaitingLocked DEF IInv
  <2>6. disk[f] = call[p].work[f].before
    BY <1>1, <2>4 DEF IInv, ComparisonStands
  <2>7. QED
    BY <2>3, <2>5, <2>6 DEF ReplacesBeforeImage
<1>2. QED
  BY <1>1, InductiveInvariant, PTL DEF Spec, NoKonnectWriteLost


(***************************************************************************)
(* The invariant, part one: what holds of calls and journals whatever the  *)
(* constants are.                                                          *)
(***************************************************************************)

\* p has persisted its journal and has not removed it yet.
Committing(p) ==
    call[p].mode = "commit" /\ pc[p] \in {"apply", "rename", "after", "remove"}

\* p works on a journal that it read from the directory.
Following(p) ==
    call[p].mode \in {"recover", "abandon"} /\ pc[p] \notin {"idle", "journals"}

\* The id of a commit is its own until the journal of that name is written.
OwnsItsId(p) ==
    LET c == call[p]
    IN  /\ c.id # NoTxn => \A q \in Procs \ {p} : call[q].id # c.id
        /\ c.id # NoTxn /\ ~Committing(p) => jstate[c.id] = "absent"

\* A commit works on the plan it was asked for, once nothing is left to recover.
CommitsItsPlan(p) ==
    LET c == call[p]
    IN  c.mode = "commit" =>
          /\ c.txn = c.id /\ c.id \in Txns /\ c.work = c.ask /\ c.ask \in Requests
          /\ Normal(c.work) /\ c.todo = {}

\* Whoever works on a journal works on the entries it was written with; one
\* that abandons a journal it could not trust knows no entries.
KnowsItsJournal(p) ==
    LET c == call[p]
    IN  /\ Committing(p) => jstate[c.txn] # "absent" /\ jentries[c.txn] = c.work
        /\ Following(p) => jstate[c.txn] # "absent"
        /\ Following(p) /\ pc[p] # "read" =>
             \/ c.work = jentries[c.txn]
             \/ pc[p] = "archive" /\ c.work = NoPlan /\ jstate[c.txn] # "active"

\* The entries of every journal ever written are those of a plan that changes something.
EntriesOK ==
    \A t \in Txns : jstate[t] # "absent" => jentries[t] \in Requests /\ Normal(jentries[t])

Knows(p) == OwnsItsId(p) /\ CommitsItsPlan(p) /\ KnowsItsJournal(p)

JournalInv == IInv /\ EntriesOK /\ \A p \in Procs : Knows(p)

(***************************************************************************)
(* Part two, when no journal is damaged: a commit's journal stays on disk. *)
(***************************************************************************)
JournalStands(p) == Committing(p) => jstate[call[p].txn] = "active"

StandInv ==
    /\ JournalInv
    /\ \A t \in Txns : jstate[t] # "invalid"
    /\ \A p \in Procs : JournalStands(p)

(***************************************************************************)
(* Part three, when in addition every writer takes the locks: the entries  *)
(* that a call has put behind it hold their replacements.                  *)
(***************************************************************************)
Settled(p) ==
    LET T == Targets(call[p].work)
    IN  IF call[p].mode = "abandon" THEN {}
        ELSE CASE pc[p] = "verify" -> T \ (call[p].left \cup call[p].pending)
               [] pc[p] = "persist" -> T \ call[p].pending
               [] pc[p] \in {"apply", "rename"} -> T \ call[p].left
               [] pc[p] \in {"after", "remove"} -> T
               [] OTHER -> {}

SettledStands(p) == \A f \in Settled(p) : disk[f] = call[p].work[f].after

\* A commit writes every entry of its plan.
WritesAll(p) ==
    /\ call[p].mode = "commit" /\ pc[p] = "verify" =>
         Targets(call[p].work) \subseteq call[p].left \cup call[p].pending
    /\ call[p].mode = "commit" /\ pc[p] = "persist" =>
         Targets(call[p].work) \subseteq call[p].pending

AppliedInv == StandInv /\ \A p \in Procs : SettledStands(p) /\ WritesAll(p)

(***************************************************************************)
(* When other applications write only what is the image of no transaction: *)
(* an entry that an abandonment found divergent stays so.                  *)
(***************************************************************************)
DivergenceStands(p) ==
    call[p].mode = "abandon" /\ pc[p] \in {"verify", "archive"} =>
      /\ \A f \in call[p].pending : disk[f] \notin {call[p].work[f].before, call[p].work[f].after}
      /\ pc[p] = "archive" => call[p].pending # {} \/ call[p].work = NoPlan

DivergenceInv == JournalInv /\ \A p \in Procs : DivergenceStands(p)

(***************************************************************************)
(* Part four, when machine restarts are the only fault: the journals that  *)
(* a restart left are recovered before anything else is committed.         *)
(***************************************************************************)
Orphan(t) == jstate[t] = "active" /\ ~ \E q \in Procs : Committing(q) /\ call[q].txn = t

\* The journals p has still to recover.
Ahead(p) ==
    call[p].todo \cup
      (IF call[p].mode = "recover" /\ pc[p] # "journals" THEN {call[p].txn} ELSE {})

RecoversOrphans(p) ==
    call[p].ask # NoRequest => \A t \in Txns : Orphan(t) => t \in Ahead(p)

\* What a finished transaction wrote has been replaced by newer content only.
RemovedIsPast(age) ==
    \A t \in Txns : jstate[t] = "removed" =>
        \A f \in Targets(jentries[t]) : age[f][jentries[t][f].after] <= age[f][disk[f]]

AtomicInv(age) ==
    /\ AppliedInv
    /\ \A p \in Procs : DivergenceStands(p) /\ RecoversOrphans(p)
    /\ \A t \in Txns : jstate[t] # "abandoned"
    /\ \A p \in Procs : call[p].mode # "save"
    /\ JournalsDisjoint
    /\ Recoverable
    /\ RemovedIsPast(age)

-----------------------------------------------------------------------------
(* What the steps of a caller do to journals and to its own call.          *)

CallerStep(p) == Begin(p) \/ Acquire(p) \/ Work(p) \/ Stop(p)

LEMMA CallerMoves ==
  ASSUME IInv, NEW p \in Procs, CallerStep(p)
  PROVE  Moves(p) /\ IInv'
<1>1. Moves(p)
  <2>1. CASE Stop(p)
    BY <2>1, ReturnIsSound DEF Stop, IInv
  <2>2. QED
    BY <2>1, BeginIsSound, AcquireIsSound, WorkIsSound DEF CallerStep
<1>2. QED
  BY <1>1, CallerStepKeeps DEF CallerStep

\* Only three steps of a caller touch a journal.
LEMMA QuietSteps ==
  ASSUME NEW p \in Procs, CallerStep(p), ~Persist(p), ~RemoveJournal(p), ~Archive(p)
  PROVE  UNCHANGED <<jstate, jentries>>
<1>1. CASE Begin(p)
  BY <1>1 DEF Begin, StartCommit, StartRecover, StartRecoverOne, StartAbandon, StartSave, Start
<1>2. CASE Acquire(p) \/ Stop(p)
  BY <1>2 DEF Acquire, Lock, Stop
<1>3. CASE Work(p)
  BY <1>3 DEF Work, RecoverDone, BeginCommit, ReadAbandoned, ReadJournal, CheckClosed,
              VerifyBefore, Classify, Inspect, StageWrite, Rename, VerifyAfter
<1>4. QED
  BY <1>1, <1>2, <1>3 DEF CallerStep

\* A journal is written once, under the id of the commit that writes it, and
\* leaves the directory once.
JournalsMove(p) ==
    \A t \in Txns :
      \/ jstate'[t] = jstate[t] /\ jentries'[t] = jentries[t]
      \/ /\ jstate[t] = "absent" /\ jstate'[t] = "active" /\ jentries'[t] = call[p].work
         /\ t = call[p].id /\ Persist(p)
      \/ /\ OnDisk(t) /\ jentries'[t] = jentries[t] /\ t = call[p].txn
         /\ \/ jstate'[t] = "removed" /\ RemoveJournal(p)
            \/ jstate'[t] = "abandoned" /\ Archive(p)

LEMMA PersistsItsOwn ==
  ASSUME JournalInv, NEW p \in Procs, Persist(p)
  PROVE  /\ call[p].mode = "commit" /\ call[p].id \in Txns /\ call[p].txn = call[p].id
         /\ jstate[call[p].id] = "absent"
         /\ call[p].work \in Requests /\ Normal(call[p].work)
<1>1. pc[p] = "persist" /\ call[p].mode = "commit" /\ Knows(p)
  BY DEF Persist, JournalInv, IInv, Shape, Fits
<1>2. QED
  BY <1>1, TxnsAssumption DEF Knows, CommitsItsPlan, OwnsItsId, Committing

LEMMA CallerMovesJournals ==
  ASSUME JournalInv, NEW p \in Procs, CallerStep(p)
  PROVE  JournalsMove(p)
<1>t. TypeOK
  BY DEF JournalInv, IInv
<1>1. CASE Persist(p)
  BY <1>1, <1>t, PersistsItsOwn DEF Persist, JournalsMove, TypeOK
<1>2. CASE RemoveJournal(p)
  BY <1>2, <1>t DEF RemoveJournal, JournalsMove, TypeOK
<1>3. CASE Archive(p)
  BY <1>3, <1>t DEF Archive, JournalsMove, TypeOK
<1>4. CASE ~Persist(p) /\ ~RemoveJournal(p) /\ ~Archive(p)
  BY <1>4, QuietSteps DEF JournalsMove
<1>5. QED
  BY <1>1, <1>2, <1>3, <1>4

\* A call keeps its id, drops it, or takes one that nobody has.
IdMove(p) ==
    \/ call'[p].id \in {NoTxn, call[p].id}
    \/ \A q \in Procs : call[q].id # call'[p].id

LEMMA OthersKnow ==
  ASSUME JournalInv, NEW p \in Procs, Moves(p), JournalsMove(p), IdMove(p), NEW q \in Procs \ {p}
  PROVE  Knows(q)'
<1>1. Knows(q) /\ Shape(q) /\ call[q] \in Call
  BY DEF JournalInv, IInv, TypeOK
<1>2. pc'[q] = pc[q] /\ call'[q] = call[q]
  BY DEF Moves
<1>3. Committing(q)' = Committing(q) /\ Following(q)' = Following(q)
  BY <1>2 DEF Committing, Following
<1>4. OwnsItsId(q)'
  <2> SUFFICES ASSUME call[q].id # NoTxn
               PROVE  /\ \A r \in Procs \ {q} : call'[r].id # call[q].id
                      /\ ~Committing(q) => jstate'[call[q].id] = "absent"
    BY <1>2, <1>3 DEF OwnsItsId
  <2>1. ASSUME NEW r \in Procs \ {q} PROVE call'[r].id # call[q].id
    <3>1. CASE r = p
      BY <3>1, <1>1 DEF Knows, OwnsItsId, IdMove
    <3>2. CASE r # p
      BY <3>2, <1>1 DEF Knows, OwnsItsId, Moves
    <3>3. QED
      BY <3>1, <3>2
  <2>2. ASSUME ~Committing(q) PROVE jstate'[call[q].id] = "absent"
    <3>1. call[q].id \in Txns /\ jstate[call[q].id] = "absent" /\ call[p].id # call[q].id
      BY <1>1, <2>2 DEF Knows, OwnsItsId, Call
    <3>2. QED
      BY <3>1 DEF JournalsMove, OnDisk
  <2>3. QED
    BY <2>1, <2>2
<1>5. CommitsItsPlan(q)'
  BY <1>1, <1>2 DEF Knows, CommitsItsPlan
<1>6. KnowsItsJournal(q)'
  <2> DEFINE t == call[q].txn
  <2>1. ASSUME Committing(q) \/ Following(q)
        PROVE  /\ t \in Txns /\ jstate[t] # "absent" /\ jstate'[t] # "absent"
               /\ jentries'[t] = jentries[t]
               /\ jstate[t] # "active" => jstate'[t] # "active"
    <3>1. t \in Txns
      BY <1>1, <2>1 DEF Committing, Following, Shape
    <3>2. jstate[t] # "absent"
      BY <1>1, <2>1 DEF Knows, KnowsItsJournal
    <3>3. QED
      BY <3>1, <3>2 DEF JournalsMove, OnDisk
  <2>2. QED
    BY <1>1, <1>2, <1>3, <2>1 DEF Knows, KnowsItsJournal
<1>7. QED
  BY <1>4, <1>5, <1>6 DEF Knows

LEMMA EntriesStayOK ==
  ASSUME JournalInv, NEW p \in Procs, JournalsMove(p)
  PROVE  EntriesOK'
<1> SUFFICES ASSUME NEW t \in Txns, jstate'[t] # "absent"
             PROVE  jentries'[t] \in Requests /\ Normal(jentries'[t])
  BY DEF EntriesOK, Normal, Targets
<1>1. CASE jstate[t] # "absent" /\ jentries'[t] = jentries[t]
  BY <1>1 DEF JournalInv, EntriesOK
<1>2. CASE Persist(p) /\ jentries'[t] = call[p].work
  BY <1>2, PersistsItsOwn
<1>3. QED
  BY <1>1, <1>2 DEF JournalsMove, OnDisk

-----------------------------------------------------------------------------
(* What a caller knows after a step of its own.                            *)

LEMMA ReturnKnows ==
  ASSUME JournalInv, NEW p \in Procs, NEW r, Return(p, r)
  PROVE  Knows(p)' /\ IdMove(p)
<1>1. pc'[p] = "idle" /\ call'[p] = NoCall
  BY DEF Return, JournalInv, IInv, TypeOK
<1>2. NoCall.id = NoTxn /\ NoCall.mode = "recover"
  BY DEF NoCall
<1>3. QED
  BY <1>1, <1>2 DEF Knows, OwnsItsId, CommitsItsPlan, KnowsItsJournal, Committing, Following, IdMove

\* p's call is what it was, but for the entries its loops have still to visit.
SameCall(p) ==
    /\ call'[p].mode = call[p].mode /\ call'[p].txn = call[p].txn
    /\ call'[p].work = call[p].work /\ call'[p].ask = call[p].ask
    /\ call'[p].id = call[p].id /\ call'[p].todo = call[p].todo

LEMMA SameCallKnows ==
  ASSUME JournalInv, NEW p \in Procs, Moves(p), SameCall(p), UNCHANGED <<jstate, jentries>>,
         pc[p] \notin {"idle", "journals", "read", "archive"},
         pc'[p] \notin {"idle", "journals"},
         Committing(p)' = Committing(p)
  PROVE  Knows(p)' /\ IdMove(p)
<1>1. Knows(p)
  BY DEF JournalInv
<1>2. Following(p)' = Following(p)
  BY DEF Following, SameCall
<1>3. OwnsItsId(p)'
  BY <1>1 DEF Knows, OwnsItsId, SameCall, Moves
<1>4. CommitsItsPlan(p)'
  BY <1>1 DEF Knows, CommitsItsPlan, SameCall
<1>5. KnowsItsJournal(p)'
  BY <1>1, <1>2 DEF Knows, KnowsItsJournal, SameCall
<1>6. QED
  BY <1>3, <1>4, <1>5 DEF Knows, IdMove, SameCall

LEMMA BeginKnows ==
  ASSUME JournalInv, NEW p \in Procs, Begin(p)
  PROVE  Knows(p)' /\ IdMove(p)
<1>1. ASSUME NEW s, NEW c, Start(p, s, c) PROVE pc'[p] = s /\ call'[p] = c /\ UNCHANGED jstate
             /\ \A q \in Procs \ {p} : call'[q] = call[q]
  BY <1>1 DEF Start, JournalInv, IInv, TypeOK
<1>2. NoCall.id = NoTxn /\ NoCall.mode = "recover" /\ NoTxn \notin Txns
  BY TxnsAssumption DEF NoCall
<1>3. ASSUME NEW e \in Requests, NEW t \in Txns, StartCommit(p, e, t) PROVE Knows(p)' /\ IdMove(p)
  <2> DEFINE c == [NoCall EXCEPT !.todo = {u \in Txns : OnDisk(u)}, !.ask = e, !.id = t]
  <2>1. c.id = t /\ c.mode = "recover"
    BY DEF NoCall
  <2>2. Start(p, "journals", c) /\ Fresh(t)
    BY <1>3 DEF StartCommit
  <2> HIDE DEF c
  <2>3. /\ pc'[p] = "journals" /\ call'[p] = c /\ jstate'[t] = "absent"
        /\ \A q \in Procs : call[q].id # t
        /\ \A q \in Procs \ {p} : call'[q] = call[q]
    BY <2>2, <1>1 DEF Fresh
  <2>4. QED
    BY <2>1, <2>3 DEF Knows, OwnsItsId, CommitsItsPlan, KnowsItsJournal, Committing, Following, IdMove
<1>4. ASSUME NEW s \in {"journals", "lock", "read"}, NEW c, Start(p, s, c), c.id = NoTxn, c.mode # "commit",
             s = "read" => jstate[c.txn] # "absent",
             s = "lock" => c.mode = "save"
      PROVE  Knows(p)' /\ IdMove(p)
  BY <1>1, <1>4 DEF Knows, OwnsItsId, CommitsItsPlan, KnowsItsJournal, Committing, Following, IdMove
<1>5. CASE StartRecover(p)
  <2> DEFINE c == [NoCall EXCEPT !.todo = {t \in Txns : OnDisk(t)}]
  <2>1. c.id = NoTxn /\ c.mode = "recover" /\ Start(p, "journals", c)
    BY <1>5 DEF NoCall, StartRecover
  <2> HIDE DEF c
  <2>2. QED
    BY <2>1, <1>4
<1>6. ASSUME NEW t \in Txns, StartRecoverOne(p, t) PROVE Knows(p)' /\ IdMove(p)
  <2> DEFINE c == [NoCall EXCEPT !.todo = {t}]
  <2>1. c.id = NoTxn /\ c.mode = "recover" /\ Start(p, "journals", c)
    BY <1>6 DEF NoCall, StartRecoverOne
  <2> HIDE DEF c
  <2>2. QED
    BY <2>1, <1>4
<1>7. ASSUME NEW t \in Txns, StartAbandon(p, t) PROVE Knows(p)' /\ IdMove(p)
  <2> DEFINE c == [NoCall EXCEPT !.mode = "abandon", !.txn = t]
  <2>1. /\ c.id = NoTxn /\ c.mode = "abandon" /\ c.txn = t /\ Start(p, "read", c)
        /\ jstate[t] # "absent"
    BY <1>7 DEF NoCall, StartAbandon, OnDisk
  <2> HIDE DEF c
  <2>2. QED
    BY <2>1, <1>4
<1>8. ASSUME NEW w \in Saves, StartSave(p, w) PROVE Knows(p)' /\ IdMove(p)
  <2> DEFINE c == [NoCall EXCEPT !.mode = "save", !.work = w, !.left = Targets(w)]
  <2>1. c.id = NoTxn /\ c.mode = "save" /\ Start(p, "lock", c)
    BY <1>8 DEF NoCall, StartSave
  <2> HIDE DEF c
  <2>2. QED
    BY <2>1, <1>4
<1>9. QED
  BY <1>3, <1>5, <1>6, <1>7, <1>8 DEF Begin

LEMMA VisitIsSameCall ==
  ASSUME TypeOK, NEW p \in Procs, NEW f, NEW pending, NEW here, NEW next,
         Visit(p, f, pending, here, next)
  PROVE  SameCall(p) /\ pc'[p] \in {here, next}
  BY VisitLeads DEF Visited, SameCall

\* A step of a loop over the entries.
LoopStep(p, f) ==
    \/ Lock(p, f) \/ CheckClosed(p, f) \/ VerifyBefore(p, f) \/ Classify(p, f) \/ Inspect(p, f)
    \/ StageWrite(p, f) \/ Rename(p, f) \/ VerifyAfter(p, f)

LEMMA LoopMoves ==
  ASSUME IInv, NEW p \in Procs, NEW f \in Files, LoopStep(p, f)
  PROVE  /\ UNCHANGED <<jstate, jentries>>
         /\ pc[p] \in {"lock", "closed", "verify", "apply", "rename", "after"}
         /\ \/ \E r : Return(p, r)
            \/ SameCall(p) /\ pc'[p] \notin {"idle", "journals"} /\ Committing(p)' = Committing(p)
<1>1. /\ TypeOK /\ Shape(p)
      /\ UNCHANGED <<jstate, jentries>>
      /\ pc[p] \in {"lock", "closed", "verify", "apply", "rename", "after"}
  BY DEF IInv, LoopStep, Lock, CheckClosed, VerifyBefore, Classify, Inspect,
         StageWrite, Rename, VerifyAfter, AtEntry
<1>2. SUFFICES ASSUME ~ \E r : Return(p, r)
               PROVE  SameCall(p) /\ pc'[p] \notin {"idle", "journals"} /\ Committing(p)' = Committing(p)
  BY <1>1
<1>3. CASE Lock(p, f)
  BY <1>1, <1>3, VisitIsSameCall DEF Lock, AtEntry, SameCall, Committing
<1>4. CASE CheckClosed(p, f)
  BY <1>1, <1>2, <1>4, VisitIsSameCall DEF CheckClosed, AtEntry, SameCall, Committing
<1>5. CASE VerifyBefore(p, f)
  BY <1>1, <1>2, <1>5, VisitIsSameCall DEF VerifyBefore, AtEntry, SameCall, Committing
<1>6. CASE Classify(p, f)
  BY <1>1, <1>2, <1>6, VisitIsSameCall DEF Classify, AtEntry, SameCall, Committing
<1>7. CASE Inspect(p, f)
  BY <1>1, <1>2, <1>7, VisitIsSameCall DEF Inspect, AtEntry, SameCall, Committing
<1>8. CASE StageWrite(p, f)
  BY <1>1, <1>2, <1>8 DEF StageWrite, AtEntry, Go, SameCall, Committing, TypeOK
<1>9. CASE Rename(p, f)
  BY <1>1, <1>2, <1>9, VisitIsSameCall DEF Rename, AtEntry, SameCall, Committing
<1>10. CASE VerifyAfter(p, f)
  BY <1>1, <1>2, <1>10, VisitIsSameCall DEF VerifyAfter, AtEntry, SameCall, Committing
<1>11. QED
  BY <1>3, <1>4, <1>5, <1>6, <1>7, <1>8, <1>9, <1>10 DEF LoopStep

LEMMA LoopKnows ==
  ASSUME JournalInv, NEW p \in Procs, CallerStep(p), NEW f \in Files, LoopStep(p, f)
  PROVE  Knows(p)' /\ IdMove(p)
  BY LoopMoves, CallerMoves, ReturnKnows, SameCallKnows DEF JournalInv

\* A caller starts or ends a call, steps through a loop, chooses what to work
\* on, or touches a journal.
LEMMA CallerStepCases ==
  ASSUME NEW p \in Procs, CallerStep(p)
  PROVE  \/ Begin(p)
         \/ \E f \in Files : LoopStep(p, f)
         \/ BeginCommit(p) \/ ReadAbandoned(p) \/ \E t \in Txns : ReadJournal(p, t)
         \/ Persist(p)
         \/ RemoveJournal(p)
         \/ RecoverDone(p) \/ Archive(p) \/ Stop(p)
  BY DEF CallerStep, Acquire, Work, LoopStep

\* A step that starts to lock the entries w of journal t.
LEMMA LockableCall ==
  ASSUME TypeOK, NEW p \in Procs, NEW c \in Call, NEW m, NEW t, NEW w,
         Go(p, "lock", Lockable(c, m, t, w))
  PROVE  /\ pc'[p] = "lock" /\ call'[p].mode = m /\ call'[p].txn = t /\ call'[p].work = w
         /\ call'[p].ask = c.ask /\ call'[p].id = c.id /\ call'[p].todo = c.todo
         /\ call'[p].left = Targets(w) /\ call'[p].pending = c.pending
<1> DEFINE d == Lockable(c, m, t, w)
<1>1. /\ d.mode = m /\ d.txn = t /\ d.work = w /\ d.left = Targets(w) /\ d.pending = c.pending
      /\ d.ask = c.ask /\ d.id = c.id /\ d.todo = c.todo
  BY DEF Lockable, Call
<1> HIDE DEF d
<1>2. pc'[p] = "lock" /\ call'[p] = d
  BY DEF Go, TypeOK, d
<1>3. QED
  BY <1>1, <1>2

\* Reading a journal, or beginning the commit proper.
LEMMA ChoosingKnows ==
  ASSUME JournalInv, NEW p \in Procs, CallerStep(p),
         BeginCommit(p) \/ ReadAbandoned(p) \/ \E t \in Txns : ReadJournal(p, t)
  PROVE  Knows(p)' /\ IdMove(p)
<1>1. /\ TypeOK /\ Moves(p) /\ Shape(p) /\ call[p] \in Call /\ Knows(p)
      /\ UNCHANGED <<jstate, jentries>> /\ pc[p] \in {"journals", "read"}
  BY CallerMoves DEF JournalInv, IInv, TypeOK, BeginCommit, ReadAbandoned, ReadJournal
<1>2. ASSUME NEW r, Return(p, r) PROVE Knows(p)' /\ IdMove(p)
  BY <1>2, ReturnKnows
<1>3. ~Committing(p)
  BY <1>1 DEF Committing
<1>4. ASSUME call'[p].id = call[p].id, pc'[p] \in {"lock", "archive"}
      PROVE  OwnsItsId(p)' /\ IdMove(p)
  BY <1>1, <1>3, <1>4 DEF Knows, OwnsItsId, IdMove, Moves
<1>5. CASE BeginCommit(p)
  <2>1. CASE /\ Normal(call[p].ask)
             /\ Go(p, "lock", Lockable(call[p], "commit", call[p].id, call[p].ask))
    <3>1. /\ pc'[p] = "lock" /\ call'[p].mode = "commit" /\ call'[p].txn = call[p].id
          /\ call'[p].work = call[p].ask /\ call'[p].ask = call[p].ask /\ call'[p].id = call[p].id
          /\ call'[p].todo = call[p].todo
      BY <2>1, <1>1, LockableCall
    <3>2. call[p].todo = {} /\ call[p].ask \in Requests /\ call[p].id \in Txns
      BY <1>5, <1>1 DEF BeginCommit, Call, Shape
    <3>3. Normal(call'[p].work)
      BY <2>1, <3>1
    <3>4. CommitsItsPlan(p)' /\ KnowsItsJournal(p)'
      BY <3>1, <3>2, <2>1 DEF CommitsItsPlan, KnowsItsJournal, Committing, Following, Normal, Targets
    <3>5. QED
      BY <3>1, <3>4, <1>4 DEF Knows
  <2>2. QED
    BY <1>5, <1>2, <2>1 DEF BeginCommit
<1>6. CASE ReadAbandoned(p)
  <2> DEFINE t == call[p].txn
  <2>1. CASE jstate[t] = "active" /\ Go(p, "lock", Lockable(call[p], "abandon", t, jentries[t]))
    <3>1. /\ pc'[p] = "lock" /\ call'[p].mode = "abandon" /\ call'[p].txn = t
          /\ call'[p].work = jentries[t] /\ call'[p].id = call[p].id
      BY <2>1, <1>1, LockableCall
    <3>2. CommitsItsPlan(p)' /\ KnowsItsJournal(p)'
      BY <3>1, <1>1, <2>1 DEF CommitsItsPlan, KnowsItsJournal, Committing, Following
    <3>3. QED
      BY <3>1, <3>2, <1>4 DEF Knows
  <2>2. CASE jstate[t] = "invalid" /\ Go(p, "archive", call[p])
    <3>1. pc'[p] = "archive" /\ call'[p] = call[p]
      BY <2>2, <1>1 DEF Go, TypeOK
    <3>2. call[p].work = NoPlan /\ call[p].mode = "abandon"
      BY <1>6, <1>1 DEF ReadAbandoned, Shape, Fits
    <3>3. CommitsItsPlan(p)' /\ KnowsItsJournal(p)'
      BY <3>1, <3>2, <1>1, <2>2 DEF CommitsItsPlan, KnowsItsJournal, Committing, Following
    <3>4. QED
      BY <3>1, <3>3, <1>4 DEF Knows
  <2>3. QED
    BY <1>6, <1>2, <2>1, <2>2 DEF ReadAbandoned
<1>7. ASSUME NEW t \in Txns, ReadJournal(p, t) PROVE Knows(p)' /\ IdMove(p)
  <2> DEFINE c == [call[p] EXCEPT !.todo = @ \ {t}]
  <2>1. CASE jstate[t] = "active" /\ Go(p, "lock", Lockable(c, "recover", t, jentries[t]))
    <3>1. c \in Call /\ c.id = call[p].id
      BY <1>1 DEF Call
    <3> HIDE DEF c
    <3>2. /\ pc'[p] = "lock" /\ call'[p].mode = "recover" /\ call'[p].txn = t
          /\ call'[p].work = jentries[t] /\ call'[p].id = call[p].id
      BY <2>1, <3>1, <1>1, LockableCall
    <3>3. CommitsItsPlan(p)' /\ KnowsItsJournal(p)'
      BY <3>2, <1>1, <2>1 DEF CommitsItsPlan, KnowsItsJournal, Committing, Following
    <3>4. QED
      BY <3>2, <3>3, <1>4 DEF Knows
  <2>2. QED
    BY <1>7, <1>2, <2>1 DEF ReadJournal
<1>8. QED
  BY <1>5, <1>6, <1>7

LEMMA PersistKnows ==
  ASSUME JournalInv, NEW p \in Procs, Persist(p)
  PROVE  /\ Knows(p)' /\ IdMove(p)
         /\ pc'[p] = "apply" /\ SameCall(p)
         /\ call'[p].left = call[p].pending /\ call'[p].pending = call[p].pending
         /\ jstate' = [jstate EXCEPT ![call[p].id] = "active"]
         /\ jentries' = [jentries EXCEPT ![call[p].id] = call[p].work]
<1> DEFINE c == [call[p] EXCEPT !.left = call[p].pending]
<1>1. /\ TypeOK /\ Knows(p) /\ call[p] \in Call
      /\ call[p].mode = "commit" /\ call[p].id \in Txns /\ call[p].txn = call[p].id
  BY PersistsItsOwn DEF JournalInv, IInv, TypeOK
<1>2. /\ c.mode = call[p].mode /\ c.txn = call[p].txn /\ c.work = call[p].work
      /\ c.ask = call[p].ask /\ c.id = call[p].id /\ c.todo = call[p].todo
      /\ c.left = call[p].pending /\ c.pending = call[p].pending
  BY <1>1 DEF Call
<1>3. Go(p, "apply", c) /\ jstate' = [jstate EXCEPT ![call[p].id] = "active"]
      /\ jentries' = [jentries EXCEPT ![call[p].id] = call[p].work]
  BY <1>1 DEF Persist
<1> HIDE DEF c
<1>4. pc'[p] = "apply" /\ call'[p] = c /\ \A q \in Procs \ {p} : call'[q] = call[q]
  BY <1>1, <1>3 DEF Go, TypeOK
<1>5. Committing(p)' /\ ~Following(p)'
  BY <1>1, <1>2, <1>4 DEF Committing, Following
<1>6. OwnsItsId(p)'
  BY <1>1, <1>2, <1>4, <1>5 DEF Knows, OwnsItsId
<1>7. CommitsItsPlan(p)'
  BY <1>1, <1>2, <1>4 DEF Knows, CommitsItsPlan
<1>8. KnowsItsJournal(p)'
  BY <1>1, <1>2, <1>3, <1>4, <1>5 DEF KnowsItsJournal, TypeOK
<1>9. QED
  BY <1>2, <1>3, <1>4, <1>6, <1>7, <1>8 DEF Knows, IdMove, SameCall

\* After a journal is removed its recovery goes on to the next.
LEMMA RemoveKnows ==
  ASSUME JournalInv, NEW p \in Procs, RemoveJournal(p)
  PROVE  Knows(p)' /\ IdMove(p)
<1> DEFINE c == [NoCall EXCEPT !.todo = call[p].todo, !.ask = call[p].ask, !.id = call[p].id]
           t == call[p].txn
<1>1. /\ TypeOK /\ Knows(p) /\ call[p] \in Call
  BY DEF JournalInv, IInv, TypeOK
<1>2. CASE /\ call[p].mode = "recover" /\ Go(p, "journals", c)
           /\ OnDisk(t) /\ jstate' = [jstate EXCEPT ![t] = "removed"]
  <2>1. c.mode = "recover" /\ c.id = call[p].id
    BY DEF NoCall
  <2> HIDE DEF c
  <2>2. pc'[p] = "journals" /\ call'[p] = c /\ \A q \in Procs \ {p} : call'[q] = call[q]
    BY <1>1, <1>2 DEF Go, TypeOK
  <2>3. call[p].id # NoTxn => jstate'[call[p].id] = "absent"
    BY <1>1, <1>2 DEF Knows, OwnsItsId, Committing, OnDisk, TypeOK, Call
  <2>4. QED
    BY <1>1, <2>1, <2>2, <2>3
    DEF Knows, OwnsItsId, CommitsItsPlan, KnowsItsJournal, Committing, Following, IdMove
<1>3. QED
  BY <1>2, ReturnKnows DEF RemoveJournal

LEMMA CallerKnows ==
  ASSUME JournalInv, NEW p \in Procs, CallerStep(p)
  PROVE  Knows(p)' /\ IdMove(p)
<1>1. CASE RecoverDone(p) \/ Archive(p) \/ Stop(p)
  BY <1>1, ReturnKnows DEF RecoverDone, Archive, Stop
<1>2. QED
  BY <1>1, CallerStepCases, BeginKnows, LoopKnows, ChoosingKnows, PersistKnows, RemoveKnows

LEMMA CallerKeepsJournalInv ==
  ASSUME JournalInv, NEW p \in Procs, CallerStep(p)
  PROVE  JournalInv'
<1>1. Moves(p) /\ IInv' /\ JournalsMove(p) /\ Knows(p)' /\ IdMove(p)
  BY CallerMoves, CallerMovesJournals, CallerKnows DEF JournalInv
<1>2. ASSUME NEW q \in Procs PROVE Knows(q)'
  BY <1>1, OthersKnow
<1>3. QED
  BY <1>1, <1>2, EntriesStayOK DEF JournalInv

LEMMA EnvironmentKeepsJournalInv ==
  ASSUME JournalInv, Environment
  PROVE  JournalInv'
<1>1. IInv' /\ UNCHANGED jentries
  BY EnvironmentKeeps DEF JournalInv, Environment, Halt, EditorToggles, ForeignEdit, ForeignDamage
<1>2. \A t \in Txns : \/ jstate'[t] = jstate[t]
                      \/ jstate[t] = "active" /\ jstate'[t] = "invalid"
  BY DEF JournalInv, IInv, TypeOK, Environment, Halt, EditorToggles, ForeignEdit, ForeignDamage
<1>3. EntriesOK'
  BY <1>1, <1>2 DEF JournalInv, EntriesOK, Normal, Targets
<1>4. CASE Halt
  <2>1. \A q \in Procs : pc'[q] = "idle" /\ call'[q].id = NoTxn /\ call'[q].mode = "recover"
    BY <1>4 DEF Halt, NoCall
  <2>2. \A q \in Procs : Knows(q)'
    BY <2>1 DEF Knows, OwnsItsId, CommitsItsPlan, KnowsItsJournal, Committing, Following
  <2>3. QED
    BY <1>1, <1>3, <2>2 DEF JournalInv
<1>5. CASE UNCHANGED <<pc, call>>
  <2> SUFFICES ASSUME NEW q \in Procs PROVE Knows(q)'
    BY <1>1, <1>3 DEF JournalInv
  <2>1. Knows(q) /\ Shape(q) /\ call[q] \in Call
    BY DEF JournalInv, IInv, TypeOK
  <2>2. Committing(q)' = Committing(q) /\ Following(q)' = Following(q)
    BY <1>5 DEF Committing, Following
  <2>3. OwnsItsId(q)'
    BY <1>2, <1>5, <2>1, <2>2 DEF Knows, OwnsItsId, Call
  <2>4. CommitsItsPlan(q)'
    BY <1>5, <2>1 DEF Knows, CommitsItsPlan
  <2>5. KnowsItsJournal(q)'
    <3>1. Committing(q) \/ Following(q) => call[q].txn \in Txns
      BY <2>1 DEF Committing, Following, Shape
    <3>2. QED
      BY <1>1, <1>2, <1>5, <2>1, <2>2, <3>1 DEF Knows, KnowsItsJournal
  <2>6. QED
    BY <2>3, <2>4, <2>5 DEF Knows
<1>6. QED
  BY <1>4, <1>5 DEF Environment, EditorToggles, ForeignEdit, ForeignDamage

LEMMA JournalInvInit == Init => JournalInv
<1> SUFFICES ASSUME Init PROVE JournalInv
  OBVIOUS
<1>1. IInv /\ EntriesOK
  BY InitEstablishes DEF Init, EntriesOK
<1>2. ASSUME NEW p \in Procs PROVE Knows(p)
  <2>1. pc[p] = "idle" /\ call[p].id = NoTxn /\ call[p].mode = "recover"
    BY DEF Init, NoCall
  <2>2. QED
    BY <2>1 DEF Knows, OwnsItsId, CommitsItsPlan, KnowsItsJournal, Committing, Following
<1>3. QED
  BY <1>1, <1>2 DEF JournalInv

LEMMA JournalInvNext == JournalInv /\ [Next]_vars => JournalInv'
<1> SUFFICES ASSUME JournalInv, [Next]_vars PROVE JournalInv'
  OBVIOUS
<1>1. CASE UNCHANGED vars
  <2>1. IInv'
    BY <1>1, StutterKeeps DEF JournalInv
  <2>2. EntriesOK'
    BY <1>1 DEF vars, JournalInv, EntriesOK, Normal, Targets
  <2>3. ASSUME NEW q \in Procs PROVE Knows(q)'
    BY <1>1 DEF vars, JournalInv, Knows, OwnsItsId, CommitsItsPlan, KnowsItsJournal, Committing,
                Following, Normal, Targets
  <2>4. QED
    BY <2>1, <2>2, <2>3 DEF JournalInv
<1>2. QED
  BY <1>1, CallerKeepsJournalInv, EnvironmentKeepsJournalInv DEF Next, CallerStep

\* Every call works on the entries its journal was written with, and on a
\* journal of its own until it is written.
LEMMA JournalInvHolds == Spec => []JournalInv
  BY JournalInvInit, JournalInvNext, PTL DEF Spec

-----------------------------------------------------------------------------
(* A commit's journal stays on disk until the commit itself removes it.    *)

\* Who follows a journal at work never meets the commit that wrote it there:
\* both would hold the locks of its targets.
LEMMA FollowersWait ==
  ASSUME JournalInv, NEW q \in Procs, Committing(q), NEW p \in Procs \ {q}, Critical(p), Following(p),
         call[p].txn = call[q].txn, jstate[call[q].txn] = "active"
  PROVE  FALSE
<1>1. Knows(p) /\ Knows(q) /\ HoldsItsLocks(p) /\ HoldsItsLocks(q)
  BY DEF JournalInv, IInv
<1>2. call[p].work = jentries[call[p].txn]
  BY <1>1 DEF Knows, KnowsItsJournal, Critical, CriticalSteps
<1>3. jentries[call[q].txn] = call[q].work /\ Targets(call[q].work) # {}
  BY <1>1 DEF Knows, KnowsItsJournal, CommitsItsPlan, Committing, Normal
<1>4. PICK f \in Targets(call[q].work) : TRUE
  BY <1>3
<1>5. owner[f] = q /\ owner[f] = p
  BY <1>1, <1>2, <1>3, <1>4 DEF HoldsItsLocks, Critical, CriticalSteps, Committing
<1>6. QED
  BY <1>5

LEMMA OthersLetStand ==
  ASSUME JournalInv, NEW p \in Procs, CallerStep(p), NEW q \in Procs \ {p},
         JournalStands(q)
  PROVE  JournalStands(q)'
<1> DEFINE t == call[q].txn
<1>1. Moves(p) /\ JournalsMove(p) /\ Knows(p) /\ Knows(q) /\ Shape(p) /\ Shape(q)
  BY CallerMoves, CallerMovesJournals DEF JournalInv, IInv
<1>2. pc'[q] = pc[q] /\ call'[q] = call[q]
  BY <1>1 DEF Moves
<1> SUFFICES ASSUME Committing(q) PROVE jstate'[t] = "active"
  BY <1>2 DEF JournalStands, Committing
<1>3. jstate[t] = "active" /\ t \in Txns /\ t = call[q].id
  BY <1>1 DEF JournalStands, Knows, CommitsItsPlan, Committing
<1>4. ASSUME call[p].txn = t, RemoveJournal(p) \/ Archive(p) PROVE FALSE
  <2>1. Critical(p) /\ call[p].mode \in {"commit", "recover", "abandon"}
    BY <1>1, <1>4 DEF RemoveJournal, Archive, Critical, CriticalSteps, Shape, Fits
  <2>2. call[p].mode # "commit"
    BY <1>1, <1>3, <1>4, TxnsAssumption DEF Knows, CommitsItsPlan, OwnsItsId
  <2>3. Following(p)
    BY <2>1, <2>2 DEF Following, Critical, CriticalSteps
  <2>4. QED
    BY <1>3, <1>4, <2>1, <2>3, FollowersWait
<1>5. QED
  BY <1>1, <1>3, <1>4 DEF JournalsMove

\* Only by persisting its journal does a call come to be committing.
LEMMA CommittingFromPersist ==
  ASSUME IInv, NEW p \in Procs, CallerStep(p), ~Persist(p), Committing(p)'
  PROVE  /\ Committing(p) /\ call'[p].txn = call[p].txn /\ call'[p].work = call[p].work
         /\ UNCHANGED <<jstate, jentries>>
         /\ \E f \in Files : LoopStep(p, f)
<1>t. TypeOK /\ call[p] \in Call /\ Shape(p)
  BY DEF IInv, TypeOK
<1>r. ASSUME NEW r, Return(p, r) PROVE FALSE
  BY <1>r, <1>t DEF Return, Committing, TypeOK
<1>1. CASE Begin(p)
  BY <1>1, <1>t DEF Begin, StartCommit, StartRecover, StartRecoverOne, StartAbandon, StartSave,
                    Start, Committing, TypeOK
<1>2. ASSUME NEW f \in Files, LoopStep(p, f)
      PROVE  /\ Committing(p) /\ call'[p].txn = call[p].txn /\ call'[p].work = call[p].work
             /\ UNCHANGED <<jstate, jentries>>
  BY <1>2, <1>r, LoopMoves DEF SameCall
<1>3. CASE BeginCommit(p) \/ ReadAbandoned(p) \/ \E t \in Txns : ReadJournal(p, t)
  BY <1>3, <1>r, <1>t DEF BeginCommit, ReadAbandoned, ReadJournal, Go, Committing, TypeOK
<1>4. CASE RemoveJournal(p)
  BY <1>4, <1>r, <1>t DEF RemoveJournal, Go, Committing, TypeOK
<1>5. CASE RecoverDone(p) \/ Archive(p) \/ Stop(p)
  BY <1>5, <1>r DEF RecoverDone, Archive, Stop
<1>6. QED
  BY <1>1, <1>2, <1>3, <1>4, <1>5, CallerStepCases

LEMMA CallerLetsStand ==
  ASSUME StandInv, NEW p \in Procs, CallerStep(p)
  PROVE  StandInv'
<1>1. JournalInv /\ IInv /\ TypeOK /\ JournalsMove(p)
  BY CallerMovesJournals DEF StandInv, JournalInv, IInv
<1>2. JournalInv'
  BY <1>1, CallerKeepsJournalInv
<1>3. \A t \in Txns : jstate'[t] # "invalid"
  BY <1>1 DEF StandInv, JournalsMove
<1>4. JournalStands(p)'
  <2>1. CASE Persist(p)
    <3>1. jstate' = [jstate EXCEPT ![call[p].id] = "active"] /\ call'[p].txn = call[p].txn
      BY <1>1, <2>1, PersistKnows DEF SameCall
    <3>2. QED
      BY <1>1, <2>1, <3>1, PersistsItsOwn DEF JournalStands, TypeOK
  <2>2. CASE ~Persist(p)
    BY <1>1, <2>2, CommittingFromPersist DEF StandInv, JournalStands
  <2>3. QED
    BY <2>1, <2>2
<1>5. \A q \in Procs \ {p} : JournalStands(q)'
  BY <1>1, OthersLetStand DEF StandInv
<1>6. QED
  BY <1>2, <1>3, <1>4, <1>5 DEF StandInv

LEMMA StandInvInit == Init => StandInv
<1> SUFFICES ASSUME Init PROVE StandInv
  OBVIOUS
<1>1. \A p \in Procs : JournalStands(p)
  BY DEF Init, JournalStands, Committing
<1>2. QED
  BY <1>1, JournalInvInit DEF Init, StandInv

LEMMA StandInvNext ==
  ASSUME Damageable = {}
  PROVE  StandInv /\ [Next]_vars => StandInv'
<1> SUFFICES ASSUME StandInv, [Next]_vars PROVE StandInv'
  OBVIOUS
<1>1. JournalInv'
  BY JournalInvNext DEF StandInv
<1>2. CASE UNCHANGED vars
  BY <1>1, <1>2 DEF vars, StandInv, JournalStands, Committing
<1>3. CASE Environment
  <2>1. UNCHANGED jstate
    BY <1>3 DEF Environment, Halt, EditorToggles, ForeignEdit
  <2>2. \/ UNCHANGED <<pc, call>>
        \/ \A q \in Procs : pc'[q] = "idle"
    BY <1>3 DEF Environment, Halt, EditorToggles, ForeignEdit
  <2>3. QED
    BY <1>1, <2>1, <2>2 DEF StandInv, JournalStands, Committing
<1>4. QED
  BY <1>2, <1>3, CallerLetsStand DEF Next, CallerStep

LEMMA StandInvHolds ==
  ASSUME Damageable = {}
  PROVE  Spec => []StandInv
  BY StandInvInit, StandInvNext, PTL DEF Spec

\* A commit replaces a target only while its own journal, with all its
\* entries, is on disk, whoever else recovers or abandons that journal.
THEOREM CommitsWriteAheadAlways ==
  ASSUME Damageable = {}
  PROVE  Spec => CommitsWriteAhead
<1> DEFINE JournalFirst == \A p \in Procs :
             pc[p] = "rename" /\ call[p].mode = "commit" /\ disk' # disk /\ pc'[p] # pc[p]
                => OnDisk(call[p].txn) /\ jentries[call[p].txn] = call[p].work
<1>1. ASSUME StandInv PROVE JournalFirst
  <2> SUFFICES ASSUME NEW p \in Procs, pc[p] = "rename", call[p].mode = "commit"
               PROVE  OnDisk(call[p].txn) /\ jentries[call[p].txn] = call[p].work
    OBVIOUS
  <2>1. Committing(p) /\ Knows(p) /\ JournalStands(p)
    BY <1>1 DEF Committing, StandInv, JournalInv
  <2>2. QED
    BY <2>1 DEF JournalStands, Knows, KnowsItsJournal, OnDisk
<1>2. QED
  BY <1>1, StandInvHolds, PTL DEF CommitsWriteAhead

-----------------------------------------------------------------------------
(* The entries a call has put behind it hold their replacements.           *)

Applied(p) == SettledStands(p) /\ WritesAll(p)

LEMMA SettledLocked ==
  ASSUME NEW p \in Procs, Shape(p), HoldsItsLocks(p), NEW f \in Settled(p)
  PROVE  f \in Files /\ f \in Targets(call[p].work) /\ owner[f] = p
  BY TargetsAreFiles DEF Settled, HoldsItsLocks, Critical, CriticalSteps

\* Another caller's step leaves alone what q has locked.
LEMMA OthersLetApplied ==
  ASSUME IInv, NEW p \in Procs, Moves(p), NEW q \in Procs \ {p}, Applied(q)
  PROVE  Applied(q)'
<1>1. pc'[q] = pc[q] /\ call'[q] = call[q]
  BY DEF Moves
<1>2. Settled(q)' = Settled(q)
  BY <1>1 DEF Settled
<1>3. ASSUME NEW f \in Settled(q) PROVE disk'[f] = disk[f]
  <2>1. f \in Files /\ owner[f] = q
    BY SettledLocked DEF IInv
  <2>2. QED
    BY <2>1 DEF Moves
<1>4. QED
  BY <1>1, <1>2, <1>3 DEF Applied, SettledStands, WritesAll

\* At these steps nothing is settled yet.
LEMMA NothingSettled ==
  ASSUME NEW p, \/ pc[p] \in {"idle", "journals", "read", "lock", "closed", "archive"}
                \/ call[p].mode = "abandon"
  PROVE  Applied(p)
  BY DEF Applied, SettledStands, Settled, WritesAll

LEMMA ReturnApplied ==
  ASSUME TypeOK, NEW p \in Procs, NEW r, Return(p, r)
  PROVE  Applied(p)'
<1>1. pc'[p] = "idle"
  BY DEF Return, TypeOK
<1>2. QED
  BY <1>1 DEF Applied, SettledStands, Settled, WritesAll

LEMMA LoopApplied ==
  ASSUME IInv, NEW p \in Procs, Applied(p), NEW f \in Files, LoopStep(p, f)
  PROVE  Applied(p)'
<1> DEFINE c == call[p]
           T == Targets(call[p].work)
<1>1. /\ TypeOK /\ Shape(p) /\ c \in Call
      /\ c.left \subseteq T /\ c.pending \subseteq T
      /\ Fits(pc[p], c.mode)
  BY DEF IInv, TypeOK, Shape
<1>2. ASSUME NEW r, Return(p, r) PROVE Applied(p)'
  BY <1>1, <1>2, ReturnApplied
<1> SUFFICES ASSUME ~ \E r : Return(p, r) PROVE Applied(p)'
  BY <1>2
<1>3. CASE Lock(p, f)
  <2> DEFINE next == IF c.mode \in {"commit", "recover"} THEN "closed" ELSE "verify"
  <2>1. Visited(p, f, {}, "lock", next) /\ pc[p] = "lock"
    BY <1>1, <1>3, VisitLeads DEF Lock, AtEntry
  <2>2. CASE pc'[p] # "verify"
    BY <2>1, <2>2 DEF Visited, Applied, SettledStands, Settled, WritesAll
  <2>3. CASE pc'[p] = "verify"
    <3>1. /\ call'[p].mode = c.mode /\ c.mode \notin {"commit", "recover"}
          /\ call'[p].left = T /\ call'[p].work = c.work
      BY <2>1, <2>3 DEF Visited, LoopOver
    <3>2. Settled(p)' = {}
      BY <2>3, <3>1 DEF Settled
    <3>3. QED
      BY <2>3, <3>1, <3>2 DEF Applied, SettledStands, WritesAll
  <2>4. QED
    BY <2>2, <2>3
<1>4. CASE CheckClosed(p, f)
  <2>1. Visited(p, f, {}, "closed", "verify")
    BY <1>1, <1>4, VisitLeads DEF CheckClosed
  <2>2. CASE pc'[p] = "closed"
    BY <2>2 DEF Applied, SettledStands, Settled, WritesAll
  <2>3. CASE pc'[p] = "verify" /\ call'[p].left = T /\ call'[p].work = c.work
    <3>1. Settled(p)' = {}
      BY <2>3 DEF Settled
    <3>2. QED
      BY <2>3, <3>1 DEF Applied, SettledStands, WritesAll
  <2>4. QED
    BY <2>1, <2>2, <2>3 DEF Visited, LoopOver
<1>5. CASE VerifyBefore(p, f)
  <2> DEFINE next == IF c.mode = "commit" THEN "persist" ELSE "apply"
             more == c.pending \cup {f}
  <2>1. Visited(p, f, more, "verify", next) /\ pc[p] = "verify" /\ c.mode \in {"commit", "save"}
        /\ UNCHANGED disk
    BY <1>1, <1>5, VisitLeads DEF VerifyBefore, AtEntry
  <2>2. Settled(p)' \subseteq Settled(p)
    BY <2>1 DEF Visited, LoopOver, Settled
  <2>3. SettledStands(p)'
    BY <2>1, <2>2 DEF Visited, SettledStands, Applied
  <2>4. WritesAll(p)'
    BY <2>1 DEF Visited, LoopOver, WritesAll, Applied
  <2>5. QED
    BY <2>3, <2>4 DEF Applied
<1>6. CASE Classify(p, f)
  <2> DEFINE more == IF disk[f] = c.work[f].after THEN c.pending ELSE c.pending \cup {f}
             next == IF more = {} THEN "after" ELSE "apply"
  <2>1. /\ Visited(p, f, more, "verify", next) /\ pc[p] = "verify" /\ c.mode = "recover"
        /\ UNCHANGED disk
    BY <1>1, <1>6, VisitLeads DEF Classify, AtEntry
  <2>2. Settled(p)' \subseteq Settled(p) \cup ({f} \ more)
    BY <2>1 DEF Visited, LoopOver, Settled
  <2>3. f \notin more => disk[f] = c.work[f].after
    OBVIOUS
  <2>4. SettledStands(p)'
    BY <2>1, <2>2, <2>3 DEF Visited, SettledStands, Applied
  <2>5. WritesAll(p)'
    BY <2>1 DEF Visited, WritesAll
  <2>6. QED
    BY <2>4, <2>5 DEF Applied
<1>7. CASE Inspect(p, f)
  <2>1. c.mode = "abandon" /\ SameCall(p)
    BY <1>1, <1>7, VisitIsSameCall DEF Inspect
  <2>2. QED
    BY <2>1 DEF SameCall, Applied, SettledStands, Settled, WritesAll
<1>8. CASE StageWrite(p, f)
  <2>1. pc[p] = "apply" /\ pc'[p] = "rename" /\ call'[p] = c /\ UNCHANGED disk
    BY <1>1, <1>8 DEF StageWrite, AtEntry, Go, TypeOK
  <2>2. QED
    BY <2>1 DEF Applied, SettledStands, Settled, WritesAll
<1>9. CASE Rename(p, f)
  <2>1. /\ Visited(p, f, c.pending, "apply", "after") /\ pc[p] = "rename" /\ f \in c.left
        /\ disk' = [disk EXCEPT ![f] = c.work[f].after]
    BY <1>1, <1>9, VisitLeads DEF Rename, AtEntry, First
  <2>2. Settled(p)' \subseteq Settled(p) \cup {f}
    BY <2>1, <1>1 DEF Visited, Settled, Fits
  <2>3. ASSUME NEW g \in Settled(p)' PROVE disk'[g] = c.work[g].after
    <3>1. CASE g = f
      BY <1>1, <2>1, <3>1 DEF TypeOK
    <3>2. CASE g # f
      <4>1. g \in Settled(p) /\ g \in Files
        BY <2>2, <3>2, TargetsAreFiles DEF Settled
      <4>2. QED
        BY <1>1, <2>1, <3>2, <4>1 DEF Applied, SettledStands, TypeOK
    <3>3. QED
      BY <3>1, <3>2
  <2>4. QED
    BY <2>1, <2>3 DEF Visited, Applied, SettledStands, WritesAll
<1>10. CASE VerifyAfter(p, f)
  <2>1. Visited(p, f, c.pending, "after", "remove") /\ pc[p] = "after" /\ UNCHANGED disk
    BY <1>1, <1>10, VisitLeads DEF VerifyAfter, AtEntry
  <2>2. Settled(p)' = Settled(p)
    BY <2>1 DEF Visited, Settled
  <2>3. QED
    BY <2>1, <2>2 DEF Visited, Applied, SettledStands, WritesAll
<1>11. QED
  BY <1>3, <1>4, <1>5, <1>6, <1>7, <1>8, <1>9, <1>10 DEF LoopStep

LEMMA CallerApplied ==
  ASSUME JournalInv, NEW p \in Procs, CallerStep(p), Applied(p)
  PROVE  Applied(p)'
<1>t. IInv /\ TypeOK /\ call[p] \in Call
  BY DEF JournalInv, IInv, TypeOK
<1>r. ASSUME NEW r, Return(p, r) PROVE Applied(p)'
  BY <1>r, <1>t, ReturnApplied
<1>n. ASSUME pc'[p] \in {"idle", "journals", "read", "lock", "archive"} PROVE Applied(p)'
  BY <1>n DEF Applied, SettledStands, Settled, WritesAll
<1>1. CASE Begin(p)
  <2>1. pc'[p] \in {"journals", "read", "lock"}
    BY <1>1, <1>t DEF Begin, StartCommit, StartRecover, StartRecoverOne, StartAbandon, StartSave,
                      Start, TypeOK
  <2>2. QED
    BY <2>1, <1>n
<1>2. CASE BeginCommit(p) \/ ReadAbandoned(p) \/ \E t \in Txns : ReadJournal(p, t)
  <2>1. (\E r : Return(p, r)) \/ pc'[p] \in {"lock", "archive"}
    BY <1>2, <1>t DEF BeginCommit, ReadAbandoned, ReadJournal, Go, TypeOK
  <2>2. QED
    BY <2>1, <1>n, <1>r
<1>3. CASE Persist(p)
  <2>1. /\ pc[p] = "persist" /\ call[p].mode = "commit" /\ pc'[p] = "apply" /\ SameCall(p)
        /\ call'[p].left = call[p].pending /\ UNCHANGED disk
    BY <1>3, PersistsItsOwn, PersistKnows DEF Persist
  <2>2. Settled(p)' = Settled(p)
    BY <2>1 DEF Settled, SameCall
  <2>3. QED
    BY <2>1, <2>2 DEF Applied, SettledStands, WritesAll, SameCall
<1>4. CASE RemoveJournal(p)
  <2>1. (\E r : Return(p, r)) \/ pc'[p] = "journals"
    BY <1>4, <1>t DEF RemoveJournal, Go, TypeOK
  <2>2. QED
    BY <2>1, <1>n, <1>r
<1>5. CASE RecoverDone(p) \/ Archive(p) \/ Stop(p)
  BY <1>5, <1>r DEF RecoverDone, Archive, Stop
<1>6. QED
  BY <1>1, <1>2, <1>3, <1>4, <1>5, <1>t, LoopApplied, CallerStepCases

LEMMA AppliedInvInit == Init => AppliedInv
<1> SUFFICES ASSUME Init PROVE AppliedInv
  OBVIOUS
<1>1. \A p \in Procs : pc[p] = "idle"
  BY DEF Init
<1>2. \A p \in Procs : Applied(p)
  BY <1>1, NothingSettled
<1>3. QED
  BY <1>2, StandInvInit DEF AppliedInv, Applied

LEMMA AppliedInvNext ==
  ASSUME Damageable = {}, Edits = {}
  PROVE  AppliedInv /\ [Next]_vars => AppliedInv'
<1> SUFFICES ASSUME AppliedInv, [Next]_vars PROVE AppliedInv'
  OBVIOUS
<1>1. StandInv /\ JournalInv /\ IInv /\ StandInv' /\ \A q \in Procs : Applied(q)
  BY StandInvNext DEF AppliedInv, Applied, StandInv, JournalInv
<1>2. ASSUME NEW p \in Procs, CallerStep(p), NEW q \in Procs PROVE Applied(q)'
  BY <1>1, <1>2, CallerMoves, CallerApplied, OthersLetApplied
<1>3. ASSUME NEW q \in Procs, Environment \/ UNCHANGED vars PROVE Applied(q)'
  <2>1. UNCHANGED disk
    BY <1>3 DEF Environment, Halt, EditorToggles, ForeignEdit, vars
  <2>2. CASE UNCHANGED <<pc, call>>
    BY <1>1, <2>1, <2>2 DEF Applied, SettledStands, Settled, WritesAll
  <2>3. CASE pc'[q] = "idle"
    BY <2>3 DEF Applied, SettledStands, Settled, WritesAll
  <2>4. QED
    BY <1>3, <2>2, <2>3 DEF Environment, Halt, EditorToggles, ForeignEdit, vars
<1>4. QED
  BY <1>1, <1>2, <1>3 DEF Next, CallerStep, AppliedInv, Applied

LEMMA AppliedInvHolds ==
  ASSUME Damageable = {}, Edits = {}
  PROVE  Spec => []AppliedInv
  BY AppliedInvInit, AppliedInvNext, PTL DEF Spec

\* What a caller knows of the journal it is about to remove.
LEMMA RemoverKnows ==
  ASSUME JournalInv, NEW p \in Procs, RemoveJournal(p), jstate[call[p].txn] # "absent"
  PROVE  /\ call[p].txn \in Txns /\ call[p].work = jentries[call[p].txn]
         /\ Settled(p) = Targets(call[p].work)
<1>1. /\ pc[p] = "remove" /\ call[p].mode \in {"commit", "recover"} /\ Knows(p)
      /\ call[p].txn \in Txns
  BY DEF RemoveJournal, JournalInv, IInv, Shape, Fits
<1>2. Committing(p) \/ Following(p)
  BY <1>1 DEF Committing, Following
<1>3. QED
  BY <1>1, <1>2 DEF Knows, KnowsItsJournal, Settled

\* A journal is removed only when each of its targets holds its replacement,
\* and it was there before the first of them did.
THEOREM JournalsAlwaysLead ==
  ASSUME Damageable = {}, Edits = {}
  PROVE  Spec => JournalsLead
<1> DEFINE Done == \A t \in Txns : jstate[t] = "active" /\ jstate'[t] = "removed" =>
             \A f \in Targets(jentries[t]) : disk[f] = jentries[t][f].after
<1>1. ASSUME AppliedInv, [Next]_vars PROVE Done
  <2> SUFFICES ASSUME NEW t \in Txns, jstate[t] = "active", jstate'[t] = "removed",
                      NEW f \in Targets(jentries[t])
               PROVE  disk[f] = jentries[t][f].after
    OBVIOUS
  <2>1. JournalInv /\ \A p \in Procs : SettledStands(p)
    BY <1>1 DEF AppliedInv, StandInv
  <2>2. PICK p \in Procs : CallerStep(p)
    BY <1>1 DEF Next, CallerStep, Environment, Halt, EditorToggles, ForeignEdit, vars
  <2>3. RemoveJournal(p) /\ t = call[p].txn
    BY <2>1, <2>2, CallerMovesJournals DEF JournalsMove
  <2>4. f \in Settled(p) /\ call[p].work = jentries[t]
    BY <2>1, <2>3, RemoverKnows
  <2>5. QED
    BY <2>1, <2>4 DEF SettledStands
<1>2. Spec => RemovedOnlyWhenApplied
  BY <1>1, AppliedInvHolds, PTL DEF Spec, RemovedOnlyWhenApplied
<1>3. QED
  BY <1>2, CommitsWriteAheadAlways DEF JournalsLead

-----------------------------------------------------------------------------
(* No journal is set aside that could be rolled forward.                   *)

\* Applications that take no lock write nothing that a transaction names.
EditsAreForeign ==
    \A w \in Requests : \A f \in Targets(w) : w[f].before \notin Edits /\ w[f].after \notin Edits

LEMMA OthersLetDiverge ==
  ASSUME IInv, NEW p \in Procs, Moves(p), NEW q \in Procs \ {p}, DivergenceStands(q)
  PROVE  DivergenceStands(q)'
<1>1. pc'[q] = pc[q] /\ call'[q] = call[q]
  BY DEF Moves
<1>2. ASSUME NEW f \in call[q].pending, pc[q] \in {"verify", "archive"} PROVE disk'[f] = disk[f]
  <2>1. f \in Files /\ owner[f] = q
    BY <1>2, TargetsAreFiles DEF IInv, Shape, HoldsItsLocks, Critical, CriticalSteps
  <2>2. QED
    BY <2>1 DEF Moves
<1>3. QED
  BY <1>1, <1>2 DEF DivergenceStands

LEMMA CallerDiverges ==
  ASSUME JournalInv, NEW p \in Procs, CallerStep(p), DivergenceStands(p)
  PROVE  DivergenceStands(p)'
<1> DEFINE c == call[p]
<1>t. IInv /\ TypeOK /\ c \in Call /\ Shape(p)
  BY DEF JournalInv, IInv, TypeOK
<1>n. ASSUME pc'[p] \notin {"verify", "archive"} \/ call'[p].mode # "abandon"
      PROVE  DivergenceStands(p)'
  BY <1>n DEF DivergenceStands
<1>r. ASSUME NEW r, Return(p, r) PROVE DivergenceStands(p)'
  BY <1>r, <1>n, <1>t DEF Return, TypeOK
<1>1. CASE Begin(p)
  <2>1. pc'[p] \in {"journals", "read", "lock"}
    BY <1>1, <1>t DEF Begin, StartCommit, StartRecover, StartRecoverOne, StartAbandon, StartSave,
                      Start, TypeOK
  <2>2. QED
    BY <2>1, <1>n
<1>2. CASE BeginCommit(p) \/ \E t \in Txns : ReadJournal(p, t)
  <2>1. (\E r : Return(p, r)) \/ pc'[p] = "lock"
    BY <1>2, <1>t DEF BeginCommit, ReadJournal, Go, TypeOK
  <2>2. QED
    BY <2>1, <1>n, <1>r
<1>3. CASE ReadAbandoned(p)
  <2>1. \/ \E r : Return(p, r)
        \/ pc'[p] = "lock"
        \/ pc[p] = "read" /\ pc'[p] = "archive" /\ call'[p] = c
    BY <1>3, <1>t DEF ReadAbandoned, Go, TypeOK
  <2>2. CASE pc[p] = "read" /\ pc'[p] = "archive" /\ call'[p] = c
    <3>1. c.pending = {} /\ c.work = NoPlan
      BY <1>t, <2>2, NothingPendingYet DEF Shape
    <3>2. QED
      BY <2>2, <3>1 DEF DivergenceStands
  <2>3. QED
    BY <2>1, <2>2, <1>n, <1>r
<1>4. CASE Persist(p) \/ RemoveJournal(p)
  <2>1. (\E r : Return(p, r)) \/ pc'[p] \in {"apply", "journals"}
    BY <1>4, <1>t DEF Persist, RemoveJournal, Go, TypeOK
  <2>2. QED
    BY <2>1, <1>n, <1>r
<1>5. ASSUME NEW f \in Files, LoopStep(p, f) PROVE DivergenceStands(p)'
  <2>1. CASE Lock(p, f)
    <3>1. Visited(p, f, {}, "lock", IF c.mode \in {"commit", "recover"} THEN "closed" ELSE "verify")
      BY <1>t, <2>1, VisitLeads DEF Lock
    <3>2. call'[p].pending = {} /\ pc'[p] # "archive"
      BY <3>1 DEF Visited
    <3>3. QED
      BY <3>2 DEF DivergenceStands
  <2>2. CASE Inspect(p, f)
    <3> DEFINE more == IF disk[f] \in {c.work[f].before, c.work[f].after}
                         THEN c.pending ELSE c.pending \cup {f}
    <3>1. CASE /\ c.left # {f} \/ more # {}
               /\ Visit(p, f, more, "verify", "archive")
      <4>1. /\ Visited(p, f, more, "verify", "archive") /\ UNCHANGED disk
            /\ pc[p] = "verify" /\ c.mode = "abandon" /\ f \in c.left
        BY <1>t, <2>2, <3>1, VisitLeads DEF Inspect, AtEntry, First
      <4>2. \A g \in more : disk[g] \notin {c.work[g].before, c.work[g].after}
        BY <4>1 DEF DivergenceStands
      <4>3. pc'[p] = "archive" => more # {}
        <5>1. pc'[p] = "archive" => c.left \subseteq {f}
          BY <4>1 DEF Visited
        <5>2. QED
          BY <3>1, <4>1, <5>1
      <4> HIDE DEF more
      <4>4. QED
        BY <4>1, <4>2, <4>3 DEF Visited, DivergenceStands
    <3>2. QED
      BY <2>2, <3>1, <1>r DEF Inspect
  <2>3. CASE CheckClosed(p, f) \/ VerifyBefore(p, f) \/ Classify(p, f) \/ StageWrite(p, f)
             \/ Rename(p, f) \/ VerifyAfter(p, f)
    <3>1. c.mode # "abandon"
      BY <1>t, <2>3 DEF CheckClosed, VerifyBefore, Classify, StageWrite, Rename, VerifyAfter,
                        AtEntry, Shape, Fits
    <3>2. (\E r : Return(p, r)) \/ SameCall(p)
      BY <1>t, <1>5, LoopMoves
    <3>3. QED
      BY <3>1, <3>2, <1>n, <1>r DEF SameCall
  <2>4. QED
    BY <1>5, <2>1, <2>2, <2>3 DEF LoopStep
<1>6. CASE RecoverDone(p) \/ Archive(p) \/ Stop(p)
  BY <1>6, <1>r DEF RecoverDone, Archive, Stop
<1>7. QED
  BY <1>1, <1>2, <1>3, <1>4, <1>5, <1>6, CallerStepCases

LEMMA DivergenceInvInit == Init => DivergenceInv
  BY JournalInvInit DEF Init, DivergenceInv, DivergenceStands

LEMMA DivergenceInvNext ==
  ASSUME EditsAreForeign
  PROVE  DivergenceInv /\ [Next]_vars => DivergenceInv'
<1> SUFFICES ASSUME DivergenceInv, [Next]_vars PROVE DivergenceInv'
  OBVIOUS
<1>1. JournalInv /\ IInv /\ TypeOK /\ JournalInv' /\ \A q \in Procs : DivergenceStands(q)
  BY JournalInvNext DEF DivergenceInv, JournalInv, IInv
<1>2. ASSUME NEW p \in Procs, CallerStep(p), NEW q \in Procs PROVE DivergenceStands(q)'
  BY <1>1, <1>2, CallerMoves, CallerDiverges, OthersLetDiverge
<1>3. ASSUME NEW q \in Procs, Environment \/ UNCHANGED vars PROVE DivergenceStands(q)'
  <2>1. CASE pc'[q] = "idle"
    BY <2>1 DEF DivergenceStands
  <2>2. CASE UNCHANGED <<pc, call, disk>>
    BY <1>1, <2>2 DEF DivergenceStands
  <2>3. ASSUME NEW f \in Files, NEW x \in Edits, ForeignEdit(f, x) PROVE DivergenceStands(q)'
    <3> DEFINE c == call[q]
    <3>1. UNCHANGED <<pc, call>> /\ disk' = [disk EXCEPT ![f] = x]
      BY <2>3 DEF ForeignEdit
    <3> SUFFICES ASSUME c.mode = "abandon", pc[q] \in {"verify", "archive"}, NEW g \in c.pending
                 PROVE  disk'[g] \notin {c.work[g].before, c.work[g].after}
      BY <1>1, <3>1 DEF DivergenceStands
    <3>2. /\ disk[g] \notin {c.work[g].before, c.work[g].after}
          /\ g \in Targets(c.work) /\ g \in Files /\ c.txn \in Txns
      BY <1>1, TargetsAreFiles DEF DivergenceStands, IInv, Shape
    <3>3. c.work = jentries[c.txn] /\ jstate[c.txn] # "absent"
      <4>1. Following(q) /\ Knows(q)
        BY <1>1 DEF Following, JournalInv
      <4>2. c.work # NoPlan
        BY <3>2 DEF Targets, NoPlan
      <4>3. QED
        BY <4>1, <4>2 DEF Knows, KnowsItsJournal
    <3>4. c.work \in Requests
      BY <1>1, <3>2, <3>3 DEF JournalInv, EntriesOK
    <3>5. c.work[g].before # x /\ c.work[g].after # x
      BY <3>2, <3>4 DEF EditsAreForeign
    <3>6. QED
      BY <1>1, <3>1, <3>2, <3>5 DEF TypeOK
  <2>4. QED
    BY <1>3, <2>1, <2>2, <2>3 DEF Environment, Halt, EditorToggles, ForeignDamage, vars
<1>4. QED
  BY <1>1, <1>2, <1>3 DEF Next, CallerStep, DivergenceInv

\* What abandons a journal that can be read found one of its targets divergent.
LEMMA ArchiverKnows ==
  ASSUME DivergenceInv, NEW p \in Procs, Archive(p), jstate[call[p].txn] = "active"
  PROVE  \E f \in Targets(jentries[call[p].txn]) :
            disk[f] \notin {jentries[call[p].txn][f].before, jentries[call[p].txn][f].after}
<1> DEFINE t == call[p].txn
<1>1. /\ pc[p] = "archive" /\ call[p].mode = "abandon" /\ Knows(p) /\ t \in Txns /\ Shape(p)
      /\ DivergenceStands(p)
  BY DEF Archive, DivergenceInv, JournalInv, IInv, Shape, Fits
<1>2. call[p].work = jentries[t]
  BY <1>1 DEF Knows, KnowsItsJournal, Following
<1>3. Targets(jentries[t]) # {}
  BY <1>1 DEF DivergenceInv, JournalInv, EntriesOK, Normal
<1>4. call[p].work # NoPlan
  BY <1>2, <1>3 DEF Targets, NoPlan
<1>5. PICK f \in call[p].pending : TRUE
  BY <1>1, <1>4 DEF DivergenceStands
<1>6. f \in Targets(jentries[t]) /\ disk[f] \notin {jentries[t][f].before, jentries[t][f].after}
  BY <1>1, <1>2, <1>5 DEF DivergenceStands, Shape
<1>7. QED
  BY <1>6

\* A journal that recovery can roll forward is never set aside, whatever is
\* damaged, edited or cut short, as long as an edit brings no image back.
THEOREM OnlyDivergentAreAbandoned ==
  ASSUME EditsAreForeign
  PROVE  Spec => AbandonedOnlyWhenDivergent
<1> DEFINE Diverged == \A t \in Txns : jstate[t] = "active" /\ jstate'[t] = "abandoned" =>
             \E f \in Targets(jentries[t]) :
                disk[f] \notin {jentries[t][f].before, jentries[t][f].after}
<1>1. ASSUME DivergenceInv, [Next]_vars PROVE Diverged
  <2> SUFFICES ASSUME NEW t \in Txns, jstate[t] = "active", jstate'[t] = "abandoned"
               PROVE  \E f \in Targets(jentries[t]) :
                         disk[f] \notin {jentries[t][f].before, jentries[t][f].after}
    OBVIOUS
  <2>1. PICK p \in Procs : CallerStep(p)
    <3>1. jstate \in [Txns -> JournalStates]
      BY <1>1 DEF DivergenceInv, JournalInv, IInv, TypeOK
    <3>2. ~Environment /\ ~UNCHANGED vars
      BY <3>1 DEF Environment, Halt, EditorToggles, ForeignEdit, ForeignDamage, vars
    <3>3. QED
      BY <1>1, <3>2 DEF Next, CallerStep
  <2>2. Archive(p) /\ t = call[p].txn
    BY <1>1, <2>1, CallerMovesJournals DEF JournalsMove, DivergenceInv
  <2>3. QED
    BY <1>1, <2>2, ArchiverKnows
<1>2. Spec => []DivergenceInv
  BY DivergenceInvInit, DivergenceInvNext, PTL DEF Spec
<1>3. QED
  BY <1>1, <1>2, PTL DEF Spec, AbandonedOnlyWhenDivergent

-----------------------------------------------------------------------------
(* Where machine restarts are the only fault, nobody writes a file but a   *)
(* commit, and no content comes back once a transaction has replaced it.   *)

OnlyRestarts ==
    /\ Schematics = {} /\ Saves = {} /\ Edits = {} /\ Damageable = {}
    /\ MaxStops = 0

\* Every transaction replaces content by content that is newer, by this age of a file's contents.
Newer(age) ==
    /\ age \in [Files -> [Contents \cup {Absent} -> Nat]]
    /\ \A w \in Requests : \A f \in Targets(w) : age[f][w[f].before] < age[f][w[f].after]

LEMMA DiskOnlyByRename ==
  ASSUME NEW p \in Procs, CallerStep(p), disk' # disk
  PROVE  \E f \in Files : Rename(p, f)
<1>1. ~Begin(p)
  BY DEF Begin, StartCommit, StartRecover, StartRecoverOne, StartAbandon, StartSave, Start
<1>2. ~Acquire(p) /\ ~Stop(p)
  BY DEF Acquire, Lock, Stop
<1>3. QED
  BY <1>1, <1>2 DEF CallerStep, Work, RecoverDone, BeginCommit, ReadAbandoned, Persist,
     RemoveJournal, Archive, ReadJournal, CheckClosed, VerifyBefore, Classify, Inspect, StageWrite,
     VerifyAfter

LEMMA NoSave ==
  ASSUME OnlyRestarts, JournalInv, NEW p \in Procs, CallerStep(p), call[p].mode # "save"
  PROVE  call'[p].mode # "save"
<1>t. IInv /\ TypeOK /\ call[p] \in Call
  BY DEF JournalInv, IInv, TypeOK
<1>r. ASSUME NEW r, Return(p, r) PROVE call'[p].mode # "save"
  BY <1>r, <1>t DEF Return, NoCall, TypeOK
<1>b. ASSUME NEW s, NEW c, Start(p, s, c), c.mode # "save" PROVE call'[p].mode # "save"
  BY <1>b, <1>t DEF Start, TypeOK
<1>1. CASE Begin(p)
  <2>1. ASSUME NEW e \in Requests, NEW t \in Txns, StartCommit(p, e, t) PROVE call'[p].mode # "save"
    <3> DEFINE c == [NoCall EXCEPT !.todo = {u \in Txns : OnDisk(u)}, !.ask = e, !.id = t]
    <3>1. c.mode # "save" /\ Start(p, "journals", c)
      BY <2>1 DEF StartCommit, NoCall
    <3>2. QED
      BY <3>1, <1>b
  <2>2. CASE StartRecover(p)
    <3> DEFINE c == [NoCall EXCEPT !.todo = {t \in Txns : OnDisk(t)}]
    <3>1. c.mode # "save" /\ Start(p, "journals", c)
      BY <2>2 DEF StartRecover, NoCall
    <3>2. QED
      BY <3>1, <1>b
  <2>3. ASSUME NEW t \in Txns, StartRecoverOne(p, t) PROVE call'[p].mode # "save"
    <3> DEFINE c == [NoCall EXCEPT !.todo = {t}]
    <3>1. c.mode # "save" /\ Start(p, "journals", c)
      BY <2>3 DEF StartRecoverOne, NoCall
    <3>2. QED
      BY <3>1, <1>b
  <2>4. ASSUME NEW t \in Txns, StartAbandon(p, t) PROVE call'[p].mode # "save"
    <3> DEFINE c == [NoCall EXCEPT !.mode = "abandon", !.txn = t]
    <3>1. c.mode # "save" /\ Start(p, "read", c)
      BY <2>4 DEF StartAbandon, NoCall
    <3>2. QED
      BY <3>1, <1>b
  <2>5. QED
    BY <1>1, <2>1, <2>2, <2>3, <2>4 DEF Begin, OnlyRestarts
<1>2. ASSUME NEW f \in Files, LoopStep(p, f) PROVE call'[p].mode # "save"
  <2>1. (\E r : Return(p, r)) \/ SameCall(p)
    BY <1>2, <1>t, LoopMoves
  <2>2. QED
    BY <2>1, <1>r DEF SameCall
<1>3. CASE BeginCommit(p)
  BY <1>3, <1>t, <1>r, LockableCall DEF BeginCommit
<1>4. CASE ReadAbandoned(p)
  <2>1. CASE Go(p, "archive", call[p])
    BY <2>1, <1>t DEF Go, TypeOK
  <2>2. QED
    BY <1>4, <2>1, <1>t, <1>r, LockableCall DEF ReadAbandoned
<1>5. ASSUME NEW t \in Txns, ReadJournal(p, t) PROVE call'[p].mode # "save"
  <2>1. [call[p] EXCEPT !.todo = @ \ {t}] \in Call
    BY <1>t DEF Call
  <2>2. QED
    BY <1>5, <2>1, <1>t, <1>r, LockableCall DEF ReadJournal
<1>6. CASE Persist(p)
  BY <1>6, PersistKnows DEF SameCall
<1>7. CASE RemoveJournal(p)
  <2> DEFINE c == [NoCall EXCEPT !.todo = call[p].todo, !.ask = call[p].ask, !.id = call[p].id]
  <2>1. CASE Go(p, "journals", c)
    <3>1. call'[p] = c
      BY <2>1, <1>t DEF Go, TypeOK
    <3>2. QED
      BY <3>1 DEF NoCall
  <2>2. QED
    BY <1>7, <1>r, <2>1 DEF RemoveJournal
<1>8. CASE RecoverDone(p) \/ Archive(p) \/ Stop(p)
  BY <1>8, <1>r DEF RecoverDone, Archive, Stop
<1>9. QED
  BY <1>1, <1>2, <1>3, <1>4, <1>5, <1>6, <1>7, <1>8, CallerStepCases

\* Nothing makes a committing call return before it removes its journal.
LEMMA CommitterNeverTrips ==
  ASSUME OnlyRestarts, AppliedInv, NEW p \in Procs, Committing(p), CallerStep(p)
  PROVE  \/ Committing(p)' /\ call'[p].txn = call[p].txn
         \/ RemoveJournal(p)
<1>1. /\ JournalInv /\ IInv /\ TypeOK /\ call[p] \in Call /\ Shape(p) /\ ComparisonStands(p)
      /\ SettledStands(p)
  BY DEF AppliedInv, StandInv, JournalInv, IInv, TypeOK
<1>2. editor = {}
  BY <1>1 DEF OnlyRestarts, TypeOK
<1>3. call[p].mode = "commit" /\ pc[p] \in {"apply", "rename", "after", "remove"}
  BY DEF Committing
<1>4. \/ \E f \in Files : StageWrite(p, f) \/ Rename(p, f) \/ VerifyAfter(p, f)
      \/ RemoveJournal(p)
  <2>1. ~Stop(p)
    BY <1>1 DEF Stop, OnlyRestarts, TypeOK
  <2>2. QED
    BY <1>3, <2>1
    DEF CallerStep, Begin, StartCommit, StartRecover, StartRecoverOne, StartAbandon, StartSave, Start,
        Acquire, Lock, Work, RecoverDone, BeginCommit, ReadAbandoned, Persist, Archive, ReadJournal,
        CheckClosed, VerifyBefore, Classify, Inspect, AtEntry
<1>5. ASSUME NEW f \in Files, StageWrite(p, f) PROVE Committing(p)' /\ call'[p].txn = call[p].txn
  BY <1>1, <1>2, <1>3, <1>5 DEF StageWrite, Go, Committing, TypeOK
<1>6. ASSUME NEW f \in Files, Rename(p, f) PROVE Committing(p)' /\ call'[p].txn = call[p].txn
  <2>1. disk[f] = call[p].work[f].before
    BY <1>1, <1>6 DEF Rename, AtEntry, First, Awaiting, ComparisonStands, OnlyRestarts
  <2>2. Visit(p, f, call[p].pending, "apply", "after")
    BY <1>6, <2>1 DEF Rename
  <2>3. QED
    BY <1>1, <1>3, <2>2, VisitIsSameCall DEF SameCall, Committing
<1>7. ASSUME NEW f \in Files, VerifyAfter(p, f) PROVE Committing(p)' /\ call'[p].txn = call[p].txn
  <2>1. f \in Settled(p)
    BY <1>1, <1>3, <1>7 DEF VerifyAfter, AtEntry, First, Shape, Settled
  <2>2. disk[f] = call[p].work[f].after
    BY <1>1, <2>1 DEF SettledStands
  <2>3. Visit(p, f, call[p].pending, "after", "remove")
    BY <1>3, <1>7, <2>2 DEF VerifyAfter
  <2>4. QED
    BY <1>1, <1>3, <2>3, VisitIsSameCall DEF SameCall, Committing
<1>8. QED
  BY <1>4, <1>5, <1>6, <1>7

\* Callers leave no new orphan.
LEMMA OrphansShrink ==
  ASSUME OnlyRestarts, AppliedInv, NEW p \in Procs, CallerStep(p), NEW t \in Txns, Orphan(t)'
  PROVE  Orphan(t)
<1>1. JournalInv /\ IInv /\ Moves(p) /\ JournalsMove(p) /\ \A q \in Procs : JournalStands(q)
  BY CallerMoves, CallerMovesJournals DEF AppliedInv, StandInv, JournalInv
<1>2. jstate[t] = "active"
  <2>1. CASE Persist(p) /\ t = call[p].id
    <3>1. Committing(p)' /\ call'[p].txn = t
      BY <1>1, <2>1, PersistKnows, PersistsItsOwn DEF SameCall, Committing
    <3>2. QED
      BY <3>1 DEF Orphan
  <2>2. QED
    BY <1>1, <2>1 DEF JournalsMove, Orphan
<1>3. SUFFICES ASSUME NEW q \in Procs, Committing(q), call[q].txn = t PROVE FALSE
  BY <1>2 DEF Orphan
<1>4. CASE q # p
  BY <1>1, <1>3, <1>4 DEF Moves, Committing, Orphan
<1>5. CASE q = p
  <2>1. RemoveJournal(p)
    BY <1>3, <1>5, CommitterNeverTrips DEF Orphan
  <2>2. jstate' = [jstate EXCEPT ![t] = "removed"] \/ ~OnDisk(t)
    BY <1>3, <1>5, <2>1 DEF RemoveJournal
  <2>3. QED
    BY <1>1, <1>2, <2>2 DEF Orphan, OnDisk, IInv, TypeOK
<1>6. QED
  BY <1>4, <1>5

\* A commit that lists the journals still has every orphan to recover.
LEMMA OthersRecover ==
  ASSUME OnlyRestarts, AppliedInv, NEW p \in Procs, CallerStep(p), NEW q \in Procs \ {p},
         RecoversOrphans(q)
  PROVE  RecoversOrphans(q)'
<1>1. pc'[q] = pc[q] /\ call'[q] = call[q]
  BY CallerMoves DEF AppliedInv, StandInv, JournalInv, Moves
<1>2. Ahead(q)' = Ahead(q)
  BY <1>1 DEF Ahead
<1>3. QED
  BY <1>1, <1>2, OrphansShrink DEF RecoversOrphans

\* A journal whose removal p has just seen, or done, is no orphan any more.
LEMMA CallerRecovers ==
  ASSUME OnlyRestarts, AppliedInv, NEW p \in Procs, CallerStep(p), RecoversOrphans(p)
  PROVE  RecoversOrphans(p)'
<1>t. /\ JournalInv /\ IInv /\ TypeOK /\ call[p] \in Call /\ Shape(p) /\ Knows(p)
      /\ \A t \in Txns : jstate[t] # "invalid"
  BY DEF AppliedInv, StandInv, JournalInv, IInv, TypeOK
<1>o. \A t \in Txns : Orphan(t)' => Orphan(t)
  BY OrphansShrink
<1>r. ASSUME NEW r, Return(p, r) PROVE RecoversOrphans(p)'
  BY <1>r, <1>t DEF Return, NoCall, TypeOK, RecoversOrphans
<1>s. ASSUME Ahead(p) \subseteq Ahead(p)', call'[p].ask = call[p].ask PROVE RecoversOrphans(p)'
  BY <1>s, <1>o DEF RecoversOrphans
<1>b. ASSUME NEW s, NEW c, Start(p, s, c), c.ask = NoRequest PROVE RecoversOrphans(p)'
  BY <1>b, <1>t DEF Start, TypeOK, RecoversOrphans
<1>1. CASE Begin(p)
  <2>1. ASSUME NEW e \in Requests, NEW t \in Txns, StartCommit(p, e, t) PROVE RecoversOrphans(p)'
    <3> DEFINE c == [NoCall EXCEPT !.todo = {u \in Txns : OnDisk(u)}, !.ask = e, !.id = t]
    <3>1. c.todo = {u \in Txns : OnDisk(u)} /\ Start(p, "journals", c)
      BY <2>1 DEF StartCommit, NoCall
    <3>2. call'[p].todo = {u \in Txns : OnDisk(u)}
      BY <3>1, <1>t DEF Start, TypeOK
    <3>3. QED
      BY <3>2, <1>o DEF RecoversOrphans, Ahead, Orphan, OnDisk
  <2>2. CASE StartRecover(p)
    <3> DEFINE c == [NoCall EXCEPT !.todo = {t \in Txns : OnDisk(t)}]
    <3>1. c.ask = NoRequest /\ Start(p, "journals", c)
      BY <2>2 DEF StartRecover, NoCall
    <3>2. QED
      BY <3>1, <1>b
  <2>3. ASSUME NEW t \in Txns, StartRecoverOne(p, t) PROVE RecoversOrphans(p)'
    <3> DEFINE c == [NoCall EXCEPT !.todo = {t}]
    <3>1. c.ask = NoRequest /\ Start(p, "journals", c)
      BY <2>3 DEF StartRecoverOne, NoCall
    <3>2. QED
      BY <3>1, <1>b
  <2>4. ASSUME NEW t \in Txns, StartAbandon(p, t) PROVE RecoversOrphans(p)'
    <3> DEFINE c == [NoCall EXCEPT !.mode = "abandon", !.txn = t]
    <3>1. c.ask = NoRequest /\ Start(p, "read", c)
      BY <2>4 DEF StartAbandon, NoCall
    <3>2. QED
      BY <3>1, <1>b
  <2>5. QED
    BY <1>1, <2>1, <2>2, <2>3, <2>4 DEF Begin, OnlyRestarts
<1>2. ASSUME NEW f \in Files, LoopStep(p, f) PROVE RecoversOrphans(p)'
  <2>1. CASE SameCall(p) /\ pc[p] # "journals" /\ pc'[p] # "journals"
    BY <2>1, <1>s DEF SameCall, Ahead
  <2>2. QED
    BY <1>2, <1>t, <1>r, <2>1, LoopMoves
<1>3. CASE BeginCommit(p)
  <2>1. CASE Go(p, "lock", Lockable(call[p], "commit", call[p].id, call[p].ask))
    <3>1. call'[p].ask = call[p].ask /\ call'[p].todo = call[p].todo
      BY <2>1, <1>t, LockableCall
    <3>2. Ahead(p) \subseteq Ahead(p)'
      BY <1>3, <3>1 DEF BeginCommit, Ahead
    <3>3. QED
      BY <3>1, <3>2, <1>s
  <2>2. QED
    BY <1>3, <2>1, <1>r DEF BeginCommit
<1>4. CASE ReadAbandoned(p)
  <2>1. call[p].mode = "abandon" /\ pc[p] = "read"
    BY <1>4, <1>t DEF ReadAbandoned, Shape, Fits
  <2>2. CASE Go(p, "archive", call[p])
    BY <1>s, <1>t, <2>1, <2>2 DEF Go, Ahead, TypeOK
  <2>3. CASE Go(p, "lock", Lockable(call[p], "abandon", call[p].txn, jentries[call[p].txn]))
    <3>1. call'[p].ask = call[p].ask /\ call'[p].todo = call[p].todo
      BY <2>3, <1>t, LockableCall
    <3>2. Ahead(p) \subseteq Ahead(p)'
      BY <2>1, <3>1 DEF Ahead
    <3>3. QED
      BY <3>1, <3>2, <1>s
  <2>4. QED
    BY <1>4, <2>2, <2>3, <1>r DEF ReadAbandoned
<1>5. ASSUME NEW t \in Txns, ReadJournal(p, t) PROVE RecoversOrphans(p)'
  <2> DEFINE c == [call[p] EXCEPT !.todo = @ \ {t}]
  <2>1. c \in Call /\ c.todo = call[p].todo \ {t} /\ c.ask = call[p].ask /\ pc[p] = "journals"
    BY <1>t, <1>5 DEF Call, ReadJournal
  <2>2. CASE Go(p, "lock", Lockable(c, "recover", t, jentries[t]))
    <3> HIDE DEF c
    <3>1. /\ call'[p].ask = call[p].ask /\ call'[p].todo = call[p].todo \ {t}
          /\ call'[p].mode = "recover" /\ call'[p].txn = t /\ pc'[p] = "lock"
      BY <2>1, <2>2, <1>t, LockableCall
    <3>2. Ahead(p) \subseteq Ahead(p)'
      BY <2>1, <3>1 DEF Ahead
    <3>3. QED
      BY <3>1, <3>2, <1>s
  <2>3. QED
    BY <1>5, <2>2, <1>r DEF ReadJournal
<1>6. CASE Persist(p)
  <2>1. SameCall(p) /\ pc[p] = "persist" /\ pc'[p] = "apply"
    BY <1>6, <1>t, PersistKnows DEF Persist
  <2>2. QED
    BY <2>1, <1>s DEF SameCall, Ahead
<1>7. CASE RemoveJournal(p)
  <2> DEFINE t == call[p].txn
             c == [NoCall EXCEPT !.todo = call[p].todo, !.ask = call[p].ask, !.id = call[p].id]
  <2>1. CASE /\ OnDisk(t) /\ jstate' = [jstate EXCEPT ![t] = "removed"]
             /\ call[p].mode = "recover" /\ Go(p, "journals", c)
    <3>1. call'[p] = c
      BY <2>1, <1>t DEF Go, TypeOK
    <3>2. call'[p].ask = call[p].ask /\ call'[p].todo = call[p].todo
      BY <3>1 DEF NoCall
    <3>3. ASSUME NEW u \in Txns, Orphan(u)' PROVE u # t
      BY <2>1, <3>3, <1>t DEF Orphan, TypeOK
    <3>4. QED
      BY <3>2, <3>3, <1>o DEF RecoversOrphans, Ahead
  <2>2. QED
    BY <1>7, <2>1, <1>r DEF RemoveJournal
<1>8. CASE RecoverDone(p) \/ Archive(p) \/ Stop(p)
  BY <1>8, <1>r DEF RecoverDone, Archive, Stop
<1>9. QED
  BY <1>1, <1>2, <1>3, <1>4, <1>5, <1>6, <1>7, <1>8, CallerStepCases

-----------------------------------------------------------------------------
(* The three steps a reader of the files could notice.                     *)

\* When a commit persists its journal no other journal on disk names its
\* targets, and each of them still holds its before image.
LEMMA PersisterAlone ==
  ASSUME OnlyRestarts, NEW age, AtomicInv(age), NEW p \in Procs, Persist(p)
  PROVE  /\ \A u \in Txns : OnDisk(u) => Targets(jentries[u]) \cap Targets(call[p].work) = {}
         /\ \A f \in Targets(call[p].work) : disk[f] = call[p].work[f].before
<1>1. /\ AppliedInv /\ JournalInv /\ IInv /\ Knows(p) /\ WritesAll(p) /\ ComparisonStands(p)
      /\ RecoversOrphans(p) /\ \A t \in Txns : jstate[t] # "invalid"
  BY DEF AtomicInv, AppliedInv, StandInv, JournalInv, IInv
<1>2. pc[p] = "persist" /\ call[p].mode = "commit" /\ call[p].work \in Requests
  BY <1>1, PersistsItsOwn DEF Persist
<1>3. call[p].ask # NoRequest /\ call[p].todo = {}
  BY <1>1, <1>2, RequestsAssumption DEF Knows, CommitsItsPlan
<1>4. ASSUME NEW u \in Txns, OnDisk(u)
      PROVE  Targets(jentries[u]) \cap Targets(call[p].work) = {}
  <2>1. ~Orphan(u)
    BY <1>1, <1>2, <1>3 DEF RecoversOrphans, Ahead
  <2>2. PICK q \in Procs : Committing(q) /\ call[q].txn = u
    BY <1>1, <1>4, <2>1 DEF Orphan, OnDisk
  <2>3. q # p /\ Critical(q) /\ Critical(p) /\ jentries[u] = call[q].work
    BY <1>1, <1>2, <2>2 DEF Committing, Critical, CriticalSteps, JournalInv, Knows, KnowsItsJournal
  <2>4. QED
    BY <1>1, <2>3 DEF IInv, HoldsItsLocks, Targets
<1>5. ASSUME NEW f \in Targets(call[p].work) PROVE disk[f] = call[p].work[f].before
  BY <1>1, <1>2, <1>5 DEF WritesAll, ComparisonStands, Awaiting, OnlyRestarts
<1>6. QED
  BY <1>4, <1>5

\* What a rename replaces is the before image in a journal on disk.
LEMMA RenamerKnows ==
  ASSUME OnlyRestarts, NEW age, Newer(age), AtomicInv(age),
         NEW p \in Procs, NEW f \in Files, Rename(p, f)
  PROVE  LET t == call[p].txn
         IN  /\ t \in Txns /\ jstate[t] = "active" /\ jentries[t] \in Requests
             /\ f \in Targets(jentries[t]) /\ disk[f] = jentries[t][f].before
             /\ disk' = [disk EXCEPT ![f] = jentries[t][f].after]
<1> DEFINE t == call[p].txn
           c == call[p]
<1>1. /\ AppliedInv /\ StandInv /\ JournalInv /\ IInv /\ TypeOK /\ Knows(p) /\ Shape(p)
      /\ ComparisonStands(p) /\ JournalStands(p)
  BY DEF AtomicInv, AppliedInv, StandInv, JournalInv, IInv
<1>2. /\ pc[p] = "rename" /\ f \in c.left /\ f \in Targets(c.work)
  BY <1>1 DEF Rename, AtEntry, First, Shape
<1>3. c.mode \in {"commit", "recover"}
  BY <1>1, <1>2 DEF Shape, Fits, TypeOK, Call, Modes, AtomicInv
<1>4. t \in Txns /\ jstate[t] # "absent" /\ c.work = jentries[t]
  BY <1>1, <1>2, <1>3 DEF Shape, Knows, KnowsItsJournal, Committing, Following
<1>5. jentries[t] \in Requests
  BY <1>1, <1>4 DEF JournalInv, EntriesOK
<1>6. disk[f] = c.work[f].before
  BY <1>1, <1>2 DEF ComparisonStands, Awaiting, OnlyRestarts
<1>7. jstate[t] # "removed"
  <2> SUFFICES ASSUME jstate[t] = "removed" PROVE FALSE
    OBVIOUS
  <2>1. age[f][jentries[t][f].after] <= age[f][disk[f]]
    BY <1>2, <1>4 DEF AtomicInv, RemovedIsPast
  <2>2. age[f][disk[f]] < age[f][jentries[t][f].after]
    BY <1>2, <1>4, <1>5, <1>6 DEF Newer
  <2>3. jentries[t][f].before \in Contents \cup {Absent} /\ jentries[t][f].after \in Contents
    BY <1>2, <1>4, <1>5, RequestsAssumption DEF Plan, Targets, Change
  <2>4. age[f][disk[f]] \in Nat /\ age[f][jentries[t][f].after] \in Nat
    BY <1>4, <1>6, <2>3 DEF Newer
  <2>5. QED
    BY <2>1, <2>2, <2>4
<1>8. jstate[t] = "active"
  BY <1>1, <1>4, <1>7 DEF TypeOK, JournalStates, AtomicInv, StandInv
<1>9. disk' = [disk EXCEPT ![f] = c.work[f].after]
  BY <1>6 DEF Rename
<1>10. QED
  BY <1>2, <1>4, <1>5, <1>6, <1>8, <1>9

\* What removes a journal has seen all its targets replaced.
LEMMA LastLook ==
  ASSUME NEW age, AtomicInv(age), NEW p \in Procs, RemoveJournal(p), OnDisk(call[p].txn)
  PROVE  \A f \in Targets(jentries[call[p].txn]) : disk[f] = jentries[call[p].txn][f].after
<1>1. JournalInv /\ SettledStands(p) /\ jstate[call[p].txn] # "absent"
  BY DEF AtomicInv, AppliedInv, StandInv, OnDisk
<1>2. QED
  BY <1>1, RemoverKnows DEF SettledStands

\* No journal that is on disk is ever set aside.
LEMMA NobodyArchives ==
  ASSUME NEW age, AtomicInv(age), NEW p \in Procs, Archive(p)
  PROVE  UNCHANGED <<jstate, jentries>>
<1> DEFINE t == call[p].txn
<1>1. /\ DivergenceInv /\ Recoverable /\ \A u \in Txns : jstate[u] # "invalid"
  BY DEF AtomicInv, AppliedInv, StandInv, DivergenceInv
<1>2. t \in Txns
  BY DEF Archive, AtomicInv, AppliedInv, StandInv, JournalInv, IInv, Shape, Fits
<1>3. jstate[t] # "active"
  BY <1>1, <1>2, ArchiverKnows DEF Recoverable
<1>4. QED
  BY <1>1, <1>2, <1>3 DEF Archive, OnDisk

(***************************************************************************)
(* So every step of a caller does one of four things.                      *)
(***************************************************************************)
Commits(t, w) ==
    /\ jstate[t] = "absent" /\ w \in Requests
    /\ jstate' = [jstate EXCEPT ![t] = "active"]
    /\ jentries' = [jentries EXCEPT ![t] = w]
    /\ \A u \in Txns : OnDisk(u) => Targets(jentries[u]) \cap Targets(w) = {}
    /\ \A f \in Targets(w) : disk[f] = w[f].before
    /\ UNCHANGED disk

RollsForward(t, f) ==
    /\ jstate[t] = "active" /\ jentries[t] \in Requests /\ f \in Targets(jentries[t])
    /\ disk[f] = jentries[t][f].before
    /\ disk' = [disk EXCEPT ![f] = jentries[t][f].after]
    /\ UNCHANGED <<jstate, jentries>>

Forgets(t) ==
    /\ jstate[t] = "active"
    /\ jstate' = [jstate EXCEPT ![t] = "removed"]
    /\ \A f \in Targets(jentries[t]) : disk[f] = jentries[t][f].after
    /\ UNCHANGED <<disk, jentries>>

Effect ==
    \/ UNCHANGED <<disk, jstate, jentries>>
    \/ \E t \in Txns :
         \/ \E w \in Requests : Commits(t, w)
         \/ \E f \in Files : RollsForward(t, f)
         \/ Forgets(t)

LEMMA CallerHasEffect ==
  ASSUME OnlyRestarts, NEW age, Newer(age), AtomicInv(age), NEW p \in Procs, CallerStep(p)
  PROVE  Effect
<1>1. JournalInv /\ \A t \in Txns : jstate[t] # "invalid"
  BY DEF AtomicInv, AppliedInv, StandInv
<1>2. CASE Persist(p)
  <2>1. call[p].id \in Txns /\ jstate[call[p].id] = "absent" /\ call[p].work \in Requests
    BY <1>1, <1>2, PersistsItsOwn
  <2>2. Commits(call[p].id, call[p].work)
    BY <1>1, <1>2, <2>1, PersistKnows, PersisterAlone DEF Commits, Persist
  <2>3. QED
    BY <2>1, <2>2 DEF Effect
<1>3. CASE RemoveJournal(p)
  <2> DEFINE t == call[p].txn
  <2>1. CASE OnDisk(t) /\ jstate' = [jstate EXCEPT ![t] = "removed"] /\ UNCHANGED <<disk, jentries>>
    <3>1. t \in Txns
      BY <1>1, <1>3, <2>1, RemoverKnows DEF OnDisk
    <3>2. Forgets(t)
      BY <1>1, <1>3, <2>1, <3>1, LastLook DEF Forgets, OnDisk
    <3>3. QED
      BY <3>1, <3>2 DEF Effect
  <2>2. QED
    BY <1>3, <2>1 DEF RemoveJournal, Effect
<1>4. ASSUME NEW f \in Files, Rename(p, f) PROVE Effect
  <2> DEFINE t == call[p].txn
  <2>1. t \in Txns /\ RollsForward(t, f)
    BY <1>4, RenamerKnows DEF RollsForward, Rename
  <2>2. QED
    BY <2>1 DEF Effect
<1>5. CASE Archive(p)
  BY <1>5, NobodyArchives DEF Archive, Effect
<1>6. CASE ~Persist(p) /\ ~RemoveJournal(p) /\ ~Archive(p) /\ ~ \E f \in Files : Rename(p, f)
  BY <1>6, QuietSteps, DiskOnlyByRename DEF Effect
<1>7. QED
  BY <1>2, <1>3, <1>4, <1>5, <1>6

\* Of the environment's steps only a restart is left, and it touches no file.
LEMMA OnlyHalts ==
  ASSUME OnlyRestarts, Environment
  PROVE  Halt
  BY EditsAssumption DEF OnlyRestarts, Environment

LEMMA StepHasEffect ==
  ASSUME OnlyRestarts, NEW age, Newer(age), AtomicInv(age), [Next]_vars
  PROVE  Effect
<1>1. CASE UNCHANGED vars
  BY <1>1 DEF vars, Effect
<1>2. CASE Environment
  BY <1>2, OnlyHalts DEF Halt, Effect
<1>3. ASSUME NEW p \in Procs, CallerStep(p) PROVE Effect
  BY <1>3, CallerHasEffect
<1>4. QED
  BY <1>1, <1>2, <1>3 DEF Next, CallerStep

-----------------------------------------------------------------------------
(* The invariant, part four, holds.                                        *)

LEMMA EffectKeepsDisjoint ==
  ASSUME TypeOK, JournalsDisjoint, Effect
  PROVE  JournalsDisjoint'
<1>1. ASSUME NEW t \in Txns, NEW w \in Requests, Commits(t, w) PROVE JournalsDisjoint'
  <2> SUFFICES ASSUME NEW u \in Txns, NEW v \in Txns, u # v, OnDisk(u)', OnDisk(v)'
               PROVE  Targets(jentries'[u]) \cap Targets(jentries'[v]) = {}
    BY DEF JournalsDisjoint, Targets
  <2>1. \A x \in Txns : x # t => jstate'[x] = jstate[x] /\ jentries'[x] = jentries[x]
    BY <1>1 DEF Commits, TypeOK
  <2>2. jentries'[t] = w
    BY <1>1 DEF Commits, TypeOK
  <2>3. CASE u = t
    BY <1>1, <2>1, <2>2, <2>3 DEF Commits, OnDisk
  <2>4. CASE v = t
    BY <1>1, <2>1, <2>2, <2>4 DEF Commits, OnDisk
  <2>5. CASE u # t /\ v # t
    BY <2>1, <2>5 DEF OnDisk, JournalsDisjoint
  <2>6. QED
    BY <2>3, <2>4, <2>5
<1>2. ASSUME NEW t \in Txns, Forgets(t) PROVE JournalsDisjoint'
  BY <1>2 DEF Forgets, JournalsDisjoint, OnDisk, Targets, TypeOK
<1>3. CASE UNCHANGED <<jstate, jentries>>
  BY <1>3 DEF JournalsDisjoint, OnDisk, Targets
<1>4. QED
  BY <1>1, <1>2, <1>3 DEF Effect, RollsForward

LEMMA EffectKeepsRecoverable ==
  ASSUME TypeOK, JournalsDisjoint, Recoverable, Effect
  PROVE  Recoverable'
<1> SUFFICES ASSUME NEW u \in Txns, jstate'[u] = "active", NEW g \in Targets(jentries'[u])
             PROVE  disk'[g] \in {jentries'[u][g].before, jentries'[u][g].after}
  BY DEF Recoverable, Targets
<1>1. ASSUME NEW t \in Txns, NEW w \in Requests, Commits(t, w)
      PROVE  disk'[g] \in {jentries'[u][g].before, jentries'[u][g].after}
  <2>1. CASE u = t
    BY <1>1, <2>1 DEF Commits, TypeOK
  <2>2. CASE u # t
    BY <1>1, <2>2 DEF Commits, TypeOK, Recoverable
  <2>3. QED
    BY <2>1, <2>2
<1>2. ASSUME NEW t \in Txns, NEW f \in Files, RollsForward(t, f)
      PROVE  disk'[g] \in {jentries'[u][g].before, jentries'[u][g].after}
  <2>1. g \in Files
    BY TargetsAreFiles
  <2>2. CASE u = t
    BY <1>2, <2>1, <2>2 DEF RollsForward, TypeOK, Recoverable
  <2>3. CASE u # t
    <3>1. g # f
      BY <1>2, <2>3 DEF RollsForward, JournalsDisjoint, OnDisk
    <3>2. QED
      BY <1>2, <2>1, <3>1 DEF RollsForward, TypeOK, Recoverable
  <2>4. QED
    BY <2>2, <2>3
<1>3. ASSUME NEW t \in Txns, Forgets(t)
      PROVE  disk'[g] \in {jentries'[u][g].before, jentries'[u][g].after}
  BY <1>3 DEF Forgets, TypeOK, Recoverable
<1>4. CASE UNCHANGED <<disk, jstate, jentries>>
  BY <1>4 DEF Recoverable
<1>5. QED
  BY <1>1, <1>2, <1>3, <1>4 DEF Effect

\* A rename makes its file newer, so that no image a removed journal gave comes back.
LEMMA EffectKeepsPast ==
  ASSUME NEW age, Newer(age), TypeOK, EntriesOK, RemovedIsPast(age), Effect
  PROVE  RemovedIsPast(age)'
<1> SUFFICES ASSUME NEW u \in Txns, jstate'[u] = "removed", NEW g \in Targets(jentries'[u])
             PROVE  age[g][jentries'[u][g].after] <= age[g][disk'[g]]
  BY DEF RemovedIsPast, Targets
<1>1. ASSUME NEW t \in Txns, NEW w \in Requests, Commits(t, w)
      PROVE  age[g][jentries'[u][g].after] <= age[g][disk'[g]]
  BY <1>1 DEF Commits, TypeOK, RemovedIsPast
<1>2. ASSUME NEW t \in Txns, NEW f \in Files, RollsForward(t, f)
      PROVE  age[g][jentries'[u][g].after] <= age[g][disk'[g]]
  <2> DEFINE e == jentries[t][f]
             x == jentries[u][g].after
  <2>1. g \in Files /\ jstate[u] = "removed" /\ g \in Targets(jentries[u]) /\ jentries' = jentries
    BY <1>2, TargetsAreFiles DEF RollsForward
  <2>2. age[g][x] <= age[g][disk[g]]
    BY <2>1 DEF RemovedIsPast
  <2>3. CASE g = f
    <3>1. disk[f] = e.before /\ disk'[f] = e.after /\ age[f][e.before] < age[f][e.after]
      BY <1>2, <2>1, <2>3 DEF RollsForward, TypeOK, Newer
    <3>2. e.before \in Contents \cup {Absent} /\ e.after \in Contents
      BY <1>2, RequestsAssumption DEF RollsForward, Plan, Targets, Change
    <3>3. jentries[u] \in Requests
      BY <2>1 DEF EntriesOK
    <3>4. x \in Contents
      BY <2>1, <3>3, RequestsAssumption DEF Plan, Targets, Change
    <3>5. age[f][x] \in Nat /\ age[f][e.before] \in Nat /\ age[f][e.after] \in Nat
      BY <3>2, <3>4 DEF Newer
    <3>6. QED
      BY <2>1, <2>2, <2>3, <3>1, <3>5
  <2>4. CASE g # f
    BY <1>2, <2>1, <2>2, <2>4 DEF RollsForward, TypeOK
  <2>5. QED
    BY <2>3, <2>4
<1>3. ASSUME NEW t \in Txns, Forgets(t)
      PROVE  age[g][jentries'[u][g].after] <= age[g][disk'[g]]
  <2>1. CASE u = t
    <3>1. jentries[t] \in Requests /\ g \in Targets(jentries[t]) /\ g \in Files
      BY <1>3, <2>1, TargetsAreFiles DEF Forgets, EntriesOK
    <3>2. jentries[t][g].after \in Contents
      BY <3>1, RequestsAssumption DEF Plan, Targets, Change
    <3>3. age[g][jentries[t][g].after] \in Nat
      BY <3>1, <3>2 DEF Newer
    <3>4. QED
      BY <1>3, <2>1, <3>3 DEF Forgets
  <2>2. CASE u # t
    BY <1>3, <2>2 DEF Forgets, TypeOK, RemovedIsPast
  <2>3. QED
    BY <2>1, <2>2
<1>4. CASE UNCHANGED <<disk, jstate, jentries>>
  BY <1>4 DEF RemovedIsPast
<1>5. QED
  BY <1>1, <1>2, <1>3, <1>4 DEF Effect

LEMMA AtomicInvInit ==
  ASSUME NEW age
  PROVE  Init => AtomicInv(age)
<1>1. Init => AppliedInv /\ DivergenceInv
  BY AppliedInvInit, DivergenceInvInit
<1>2. Init => \A p \in Procs : call[p] = NoCall
  BY DEF Init
<1>3. Init => \A t \in Txns : jstate[t] = "absent"
  BY DEF Init
<1>4. NoCall.ask = NoRequest /\ NoCall.mode = "recover"
  BY DEF NoCall
<1>5. QED
  BY <1>1, <1>2, <1>3, <1>4
  DEF AtomicInv, DivergenceInv, RecoversOrphans, JournalsDisjoint, OnDisk, Recoverable, RemovedIsPast

LEMMA AtomicInvNext ==
  ASSUME OnlyRestarts, NEW age, Newer(age)
  PROVE  AtomicInv(age) /\ [Next]_vars => AtomicInv(age)'
<1> SUFFICES ASSUME AtomicInv(age), [Next]_vars PROVE AtomicInv(age)'
  OBVIOUS
<1>1. /\ AppliedInv /\ DivergenceInv /\ StandInv /\ JournalInv /\ IInv /\ TypeOK /\ EntriesOK
      /\ JournalsDisjoint /\ Recoverable /\ RemovedIsPast(age)
      /\ \A p \in Procs : RecoversOrphans(p) /\ call[p].mode # "save"
      /\ \A t \in Txns : jstate[t] # "abandoned"
  BY DEF AtomicInv, AppliedInv, StandInv, JournalInv, IInv, DivergenceInv
<1>2. Effect
  BY StepHasEffect
<1>3. AppliedInv' /\ DivergenceInv'
  BY <1>1, AppliedInvNext, DivergenceInvNext DEF OnlyRestarts, EditsAreForeign
<1>4. JournalsDisjoint' /\ Recoverable' /\ RemovedIsPast(age)'
  BY <1>1, <1>2, EffectKeepsDisjoint, EffectKeepsRecoverable, EffectKeepsPast
<1>5. \A t \in Txns : jstate'[t] # "abandoned"
  BY <1>1, <1>2 DEF Effect, Commits, RollsForward, Forgets, TypeOK
<1>6. \A q \in Procs : RecoversOrphans(q)' /\ call'[q].mode # "save"
  <2>1. ASSUME NEW p \in Procs, CallerStep(p), NEW q \in Procs
        PROVE  RecoversOrphans(q)' /\ call'[q].mode # "save"
    <3>1. CASE q = p
      BY <1>1, <2>1, <3>1, CallerRecovers, NoSave
    <3>2. CASE q # p
      <4>1. call'[q] = call[q]
        BY <1>1, <2>1, <3>2, CallerMoves DEF Moves
      <4>2. QED
        BY <1>1, <2>1, <3>2, <4>1, OthersRecover
    <3>3. QED
      BY <3>1, <3>2
  <2>2. CASE Environment
    <3>1. \A q \in Procs : call'[q] = NoCall
      BY <2>2, OnlyHalts DEF Halt
    <3>2. QED
      BY <3>1 DEF NoCall, RecoversOrphans
  <2>3. CASE UNCHANGED vars
    BY <1>1, <2>3 DEF vars, RecoversOrphans, Orphan, Ahead, Committing
  <2>4. QED
    BY <2>1, <2>2, <2>3 DEF Next, CallerStep
<1>7. QED
  BY <1>3, <1>4, <1>5, <1>6 DEF AtomicInv, DivergenceInv

\* A journal that a restart leaves can always be rolled forward: nothing but
\* its own transaction touches its targets until it is recovered.
THEOREM JournalsStayRecoverable ==
  ASSUME OnlyRestarts, NEW age, Newer(age)
  PROVE  Spec => []Recoverable
<1>1. Spec => []AtomicInv(age)
  BY AtomicInvInit, AtomicInvNext, PTL DEF Spec
<1>2. AtomicInv(age) => Recoverable
  BY DEF AtomicInv
<1>3. QED
  BY <1>1, <1>2, PTL

-----------------------------------------------------------------------------
(* The refinement.                                                         *)

\* What a reader that knows the journals sees: the replacement in every file
\* a journal on disk names, and elsewhere what is there.
Seen(f) ==
    /\ \A t \in Txns : jstate[t] = "active" /\ f \in Targets(jentries[t]) => View[f] = jentries[t][f].after
    /\ (\A t \in Txns : jstate[t] = "active" => f \notin Targets(jentries[t])) => View[f] = disk[f]

Legible ==
    /\ TypeOK /\ EntriesOK /\ JournalsDisjoint /\ Recoverable
    /\ \A t \in Txns : jstate[t] # "invalid"

LEMMA ViewIsSeen == Legible => \A f \in Files : Seen(f)
<1> SUFFICES ASSUME Legible, NEW f \in Files PROVE Seen(f)
  OBVIOUS
<1> DEFINE Rolls(t) == OnDisk(t) /\ f \in Targets(jentries[t]) /\ disk[f] = jentries[t][f].before
<1>1. ~(\E t \in Txns : Rolls(t)) => View[f] = disk[f]
  BY DEF View
<1>2. (\E t \in Txns : Rolls(t)) => View[f] = jentries[CHOOSE u \in Txns : Rolls(u)][f].after
  BY DEF View
<1>3. \A t \in Txns : OnDisk(t) <=> jstate[t] = "active"
  BY DEF Legible, OnDisk
<1>4. ASSUME NEW t \in Txns, jstate[t] = "active", f \in Targets(jentries[t])
      PROVE  View[f] = jentries[t][f].after
  <2>1. \A u \in Txns : Rolls(u) => u = t
    BY <1>3, <1>4 DEF Legible, JournalsDisjoint
  <2>2. CASE Rolls(t)
    <3>1. (CHOOSE u \in Txns : Rolls(u)) = t
      <4> HIDE DEF Rolls
      <4>1. QED
        BY <2>1, <2>2
    <3>2. QED
      BY <1>2, <2>2, <3>1
  <2>3. CASE ~Rolls(t)
    <3>1. disk[f] = jentries[t][f].after
      BY <1>3, <1>4, <2>3 DEF Legible, Recoverable
    <3>2. ~ \E u \in Txns : Rolls(u)
      BY <2>1, <2>3
    <3>3. QED
      BY <1>1, <3>1, <3>2
  <2>4. QED
    BY <2>2, <2>3
<1>5. ASSUME \A t \in Txns : jstate[t] = "active" => f \notin Targets(jentries[t])
      PROVE  View[f] = disk[f]
  BY <1>1, <1>3, <1>5
<1>6. QED
  BY <1>4, <1>5 DEF Seen

LEMMA ViewIsSeenNext == Legible' => \A f \in Files : Seen(f)'
<1>1. (Legible => \A f \in Files : Seen(f))'
  BY ViewIsSeen, PTL
<1>2. QED
  BY <1>1

LEMMA AtomicInvIsLegible ==
  ASSUME NEW age, AtomicInv(age)
  PROVE  Legible
  BY DEF AtomicInv, AppliedInv, StandInv, JournalInv, IInv, Legible

LEMMA AtomicInvIsLegibleNext ==
  ASSUME NEW age, AtomicInv(age)'
  PROVE  Legible'
  BY DEF AtomicInv, AppliedInv, StandInv, JournalInv, IInv, Legible, EntriesOK, JournalsDisjoint,
         OnDisk, Recoverable, TypeOK, Normal, Targets

LEMMA ViewMoves ==
  ASSUME Legible, Legible',
         NEW g, \A f \in Files : View'[f] = g[f]
  PROVE  View' = [f \in Files |-> g[f]]
  BY DEF View, OnDisk, Targets

\* Persisting a journal replaces all its targets at once.
LEMMA CommitReplaces ==
  ASSUME Legible, Legible', NEW t \in Txns, NEW w \in Requests, Commits(t, w)
  PROVE  Atomic!Replace(w)
<1>1. Atomic!Named(w) = Targets(w)
  BY DEF Atomic!Named, Targets
<1>2. \A f \in Files : Seen(f) /\ Seen(f)'
  BY ViewIsSeen, ViewIsSeenNext
<1>3. /\ jstate'[t] = "active" /\ jentries'[t] = w
      /\ \A u \in Txns : u # t => jstate'[u] = jstate[u] /\ jentries'[u] = jentries[u]
  BY DEF Commits, Legible, TypeOK
<1>4. ASSUME NEW f \in Targets(w) PROVE View[f] = w[f].before /\ View'[f] = w[f].after
  <2>1. f \in Files /\ disk[f] = w[f].before
    BY TargetsAreFiles DEF Commits
  <2>2. \A u \in Txns : jstate[u] = "active" => f \notin Targets(jentries[u])
    BY DEF Commits, OnDisk
  <2>3. View[f] = disk[f]
    BY <1>2, <2>1, <2>2 DEF Seen
  <2>4. View'[f] = w[f].after
    BY <1>2, <1>3, <1>4, <2>1 DEF Seen, Targets
  <2>5. QED
    BY <2>1, <2>3, <2>4
<1>5. ASSUME NEW f \in Files, f \notin Targets(w) PROVE View'[f] = View[f]
  <2>1. CASE \E u \in Txns : jstate[u] = "active" /\ f \in Targets(jentries[u])
    <3>1. PICK u \in Txns : jstate[u] = "active" /\ f \in Targets(jentries[u])
      BY <2>1
    <3>2. u # t
      BY <3>1 DEF Commits
    <3>3. View[f] = jentries[u][f].after
      BY <1>2, <3>1 DEF Seen
    <3>4. View'[f] = jentries'[u][f].after
      BY <1>2, <1>3, <3>1, <3>2 DEF Seen, Targets
    <3>5. QED
      BY <1>3, <3>2, <3>3, <3>4
  <2>2. CASE \A u \in Txns : jstate[u] = "active" => f \notin Targets(jentries[u])
    <3>1. \A u \in Txns : jstate'[u] = "active" => f \notin Targets(jentries[u])'
      BY <1>3, <1>5, <2>2 DEF Targets
    <3>2. View'[f] = disk'[f] /\ View[f] = disk[f]
      BY <1>2, <2>2, <3>1 DEF Seen
    <3>3. QED
      BY <3>2 DEF Commits
  <2>3. QED
    BY <2>1, <2>2
<1>6. View' = [f \in Files |-> IF f \in Targets(w) THEN w[f].after ELSE View[f]]
  <2> DEFINE g == [f \in Files |-> IF f \in Targets(w) THEN w[f].after ELSE View[f]]
  <2>1. \A f \in Files : View'[f] = g[f]
    BY <1>4, <1>5
  <2>2. View' = [f \in Files |-> g[f]]
    <3> HIDE DEF g
    <3>1. QED
      BY <2>1, ViewMoves
  <2>3. QED
    BY <2>2
<1>7. QED
  BY <1>1, <1>4, <1>6 DEF Atomic!Replace

\* No other step shows.
LEMMA RestIsInvisible ==
  ASSUME Legible, Legible', Effect, ~ \E t \in Txns, w \in Requests : Commits(t, w)
  PROVE  View' = View
<1>1. \A f \in Files : Seen(f) /\ Seen(f)'
  BY ViewIsSeen, ViewIsSeenNext
<1>2. ASSUME NEW t \in Txns, NEW g \in Files, RollsForward(t, g), NEW f \in Files
      PROVE  View'[f] = View[f]
  <2>1. CASE \E u \in Txns : jstate[u] = "active" /\ f \in Targets(jentries[u])
    BY <1>1, <1>2, <2>1 DEF RollsForward, Seen, Targets
  <2>2. CASE \A u \in Txns : jstate[u] = "active" => f \notin Targets(jentries[u])
    <3>1. f # g
      BY <1>2, <2>2 DEF RollsForward
    <3>2. \A u \in Txns : jstate'[u] = "active" => f \notin Targets(jentries[u])'
      BY <1>2, <2>2 DEF RollsForward, Targets
    <3>3. View'[f] = disk'[f] /\ View[f] = disk[f]
      BY <1>1, <2>2, <3>2 DEF Seen
    <3>4. QED
      BY <1>2, <3>1, <3>3 DEF RollsForward, Legible, TypeOK
  <2>3. QED
    BY <2>1, <2>2
<1>3. ASSUME NEW t \in Txns, Forgets(t), NEW f \in Files
      PROVE  View'[f] = View[f]
  <2>1. /\ jentries' = jentries /\ disk' = disk /\ jstate'[t] = "removed"
        /\ \A u \in Txns : u # t => jstate'[u] = jstate[u]
    BY <1>3 DEF Forgets, Legible, TypeOK
  <2>2. CASE \E u \in Txns : u # t /\ jstate[u] = "active" /\ f \in Targets(jentries[u])
    BY <1>1, <2>1, <2>2 DEF Seen, Targets
  <2>3. CASE \A u \in Txns : u # t /\ jstate[u] = "active" => f \notin Targets(jentries[u])
    <3>1. \A u \in Txns : jstate'[u] = "active" => f \notin Targets(jentries[u])'
      BY <2>1, <2>3 DEF Targets
    <3>2. View'[f] = disk[f]
      BY <1>1, <2>1, <3>1 DEF Seen
    <3>3. CASE f \in Targets(jentries[t])
      BY <1>1, <1>3, <3>2, <3>3 DEF Seen, Forgets
    <3>4. CASE f \notin Targets(jentries[t])
      BY <1>1, <2>3, <3>2, <3>4 DEF Seen
    <3>5. QED
      BY <3>3, <3>4
  <2>4. QED
    BY <2>2, <2>3
<1>4. CASE UNCHANGED <<disk, jstate, jentries>>
  BY <1>4 DEF View, OnDisk, Targets
<1>5. CASE \A f \in Files : View'[f] = View[f]
  <2>1. View' = [f \in Files |-> View[f]]
    BY <1>5, ViewMoves
  <2>2. View = [f \in Files |-> View[f]]
    BY DEF View
  <2>3. QED
    BY <2>1, <2>2
<1>6. QED
  BY <1>2, <1>3, <1>4, <1>5 DEF Effect

LEMMA RefinedInit == Init => Atomic!Init
<1> SUFFICES ASSUME Init PROVE View \in Disks
  BY DEF Atomic!Init
<1>1. disk \in Disks /\ disk \in [Files -> Contents \cup {Absent}]
  BY DisksAssumption DEF Init
<1>2. \A t \in Txns : ~OnDisk(t)
  BY DEF Init, OnDisk
<1>3. View = [f \in Files |-> disk[f]]
  BY <1>2 DEF View
<1>4. QED
  BY <1>1, <1>3

LEMMA RefinedStep ==
  ASSUME OnlyRestarts, NEW age, Newer(age), AtomicInv(age), AtomicInv(age)', [Next]_vars
  PROVE  [Atomic!Next]_View
<1>1. Legible /\ Legible' /\ Effect
  BY AtomicInvIsLegible, AtomicInvIsLegibleNext, StepHasEffect
<1>2. ASSUME NEW t \in Txns, NEW w \in Requests, Commits(t, w) PROVE Atomic!Next
  BY <1>1, <1>2, CommitReplaces DEF Atomic!Next
<1>3. CASE ~ \E t \in Txns, w \in Requests : Commits(t, w)
  BY <1>1, <1>3, RestIsInvisible
<1>4. QED
  BY <1>2, <1>3

\* Transactions are atomic: to whoever knows the journals, each happens in one
\* step, at the moment its journal is persisted, from exactly the contents its
\* plan expects, whichever calls a restart cuts short and whoever recovers.
THEOREM TransactionsAreAtomic ==
  ASSUME OnlyRestarts, NEW age, Newer(age)
  PROVE  Spec => ImplementsAtomicStore
<1>1. Spec => []AtomicInv(age)
  BY AtomicInvInit, AtomicInvNext, PTL DEF Spec
<1>2. Init => Atomic!Init
  BY RefinedInit
<1>3. AtomicInv(age) /\ AtomicInv(age)' /\ [Next]_vars => [Atomic!Next]_View
  BY RefinedStep
<1>4. QED
  BY <1>1, <1>2, <1>3, PTL DEF Spec, ImplementsAtomicStore, Atomic!Spec
=============================================================================
