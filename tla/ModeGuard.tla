----------------------------- MODULE ModeGuard -----------------------------
(***************************************************************************)
(* The operating mode of a server, kam-state/src/mode.rs: one atomic byte  *)
(* that any number of callers restrict at the same time, each in a loop of *)
(* a load and compare_exchanges.                                           *)
(***************************************************************************)
EXTENDS Integers

CONSTANTS Callers, Start   \* who restricts the mode, and the mode the server starts in

Modes == {"read-only", "manufacturing", "write", "experimental"}

ASSUME StartAssumption == Start \in Modes

\* How much a mode allows; write and experimental allow the same.
Tier(m) == IF m = "read-only" THEN 0 ELSE IF m = "manufacturing" THEN 1 ELSE 2

\* The more restrictive of two modes, the first of two alike.
Restricted(m, other) == IF Tier(other) < Tier(m) THEN other ELSE m

VARIABLES
    mode,       \* the byte
    caller,     \* caller[p]: what p asked for, and what it saw last
    promised    \* the modes that returned calls have asked for

modeVars == <<mode, caller, promised>>

CallerState == [at : {"idle", "loop"}, want : Modes, seen : Modes]

ModeInit ==
    /\ mode = Start
    /\ caller = [p \in Callers |-> [at |-> "idle", want |-> Start, seen |-> Start]]
    /\ promised = {}

\* restrict_to loads the byte ...
RestrictTo(p, m) ==
    /\ caller[p].at = "idle"
    /\ caller' = [caller EXCEPT ![p] = [at |-> "loop", want |-> m, seen |-> mode]]
    /\ UNCHANGED <<mode, promised>>

Returned(p) ==
    /\ caller' = [caller EXCEPT ![p].at = "idle"]
    /\ promised' = promised \cup {caller[p].want}

\* ... and returns when it asks for no less than it saw,
NothingToDo(p) ==
    /\ caller[p].at = "loop"
    /\ Restricted(caller[p].seen, caller[p].want) = caller[p].seen
    /\ Returned(p)
    /\ UNCHANGED mode

\* A fault to detect: a plain store.
StoreWithoutCompare(p) ==
    LET next == Restricted(caller[p].seen, caller[p].want)
    IN  /\ caller[p].at = "loop" /\ next # caller[p].seen
        /\ mode' = next
        /\ Returned(p)

\* or exchanges the byte if nobody else did meanwhile, else looks again.
CompareExchange(p) ==
    LET next == Restricted(caller[p].seen, caller[p].want)
    IN  /\ caller[p].at = "loop" /\ next # caller[p].seen
        /\ IF mode = caller[p].seen
           THEN mode' = next /\ Returned(p)
           ELSE /\ caller' = [caller EXCEPT ![p].seen = mode]
                /\ UNCHANGED <<mode, promised>>

ModeNext == \E p \in Callers : (\E m \in Modes : RestrictTo(p, m)) \/ NothingToDo(p) \/ CompareExchange(p)

ModeSpec == ModeInit /\ [][ModeNext]_modeVars
-----------------------------------------------------------------------------
ModeTypeOK ==
    /\ mode \in Modes /\ promised \subseteq Modes
    /\ caller \in [Callers -> CallerState]

\* Every restriction that was made holds from then on, however many callers
\* restrict the mode at once (`can only move toward more restrictive').
RestrictionsHold == \A m \in promised : Tier(mode) <= Tier(m)

\* The inductive form: what a caller saw was never tighter than the mode is now.
ModeInv ==
    /\ ModeTypeOK
    /\ RestrictionsHold
    /\ \A p \in Callers : caller[p].at = "loop" => Tier(mode) <= Tier(caller[p].seen)
=============================================================================
