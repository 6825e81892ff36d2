----------------------------- MODULE TaskStore -----------------------------
(***************************************************************************)
(* The tasks of a session, kam-state/src/task.rs: bounded in number,       *)
(* whatever their status, and bounded in every list.  Each operation holds *)
(* the store's mutex from its first line to its last.                      *)
(***************************************************************************)
EXTENDS Integers, Sequences, SequencesExt

CONSTANTS
    Constraints,   \* what a user may lay down as a must-hold condition
    StoreCapacity, MaxList,
    MaxTasks       \* bound: tasks started

ASSUME ListAssumption == MaxList \in Nat \ {0}
ASSUME TasksAssumption == StoreCapacity \in Nat \ {0} /\ MaxTasks \in Nat

VARIABLES
    held,       \* the ids of the tasks that are kept, oldest first
    task,       \* task[id]: the record, also of a task no longer kept
    nextId,
    accepted    \* the constraints that update_task answered it had added

taskVars == <<held, task, nextId, accepted>>

NewTask == [constraints |-> <<>>, assumptions |-> <<>>, facts |-> <<>>]

TaskIds == 1..MaxTasks

TaskInit ==
    /\ held = <<>> /\ nextId = 0
    /\ task = [id \in TaskIds |-> NewTask]
    /\ accepted = [id \in TaskIds |-> {}]

Held(id) == Contains(held, id)

\* push_rolling: what is there already is not added again, the oldest goes.
Rolling(list, x) ==
    IF Contains(list, x) THEN list
    ELSE IF Len(list) >= MaxList THEN Append(Tail(list), x)
    ELSE Append(list, x)

\* start_task: the oldest task goes, whatever its status.
StartTask ==
    /\ nextId < MaxTasks
    /\ nextId' = nextId + 1
    /\ LET more == Append(held, nextId') IN held' = IF Len(more) > StoreCapacity THEN Tail(more) ELSE more
    /\ UNCHANGED <<task, accepted>>

\* push_strict: refused when the list is full.
Strict(list, x) == Contains(list, x) \/ Len(list) < MaxList

\* update_task with a constraint: the answer says if it was refused.
AddConstraint(id, x) ==
    /\ Held(id) /\ Strict(task[id].constraints, x)
    /\ task' = [task EXCEPT ![id].constraints = IF Contains(@, x) THEN @ ELSE Append(@, x)]
    /\ accepted' = [accepted EXCEPT ![id] = @ \cup {x}]
    /\ UNCHANGED <<held, nextId>>

\* The supervisor and the verification agent append to their task's record.
AddAssumption(id, x) ==
    /\ Held(id)
    /\ task' = [task EXCEPT ![id].assumptions = Rolling(@, x)]
    /\ UNCHANGED <<held, nextId, accepted>>

AddVerifiedFact(id, x) ==
    /\ Held(id)
    /\ task' = [task EXCEPT ![id].facts = Rolling(@, x)]
    /\ UNCHANGED <<held, nextId, accepted>>

TaskNext ==
    \/ StartTask
    \/ \E id \in TaskIds : \E x \in Constraints : AddConstraint(id, x) \/ AddAssumption(id, x) \/ AddVerifiedFact(id, x)
-----------------------------------------------------------------------------
TaskTypeOK ==
    /\ nextId \in 0..MaxTasks /\ Len(held) <= StoreCapacity
    /\ \A k \in DOMAIN held : held[k] \in 1..nextId
    /\ \A id \in TaskIds : \A list \in {"constraints", "assumptions", "facts"} : Len(task[id][list]) <= MaxList

\* A constraint that was accepted is in its task's record for good (`must not
\* drop one silently'), and the tasks that are kept are the newest ones.
ConstraintsKept ==
    /\ \A id \in TaskIds : \A x \in accepted[id] : Contains(task[id].constraints, x)
    /\ \A k \in DOMAIN held : held[k] = nextId - Len(held) + k
=============================================================================
