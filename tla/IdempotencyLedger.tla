------------------------- MODULE IdempotencyLedger -------------------------
(***************************************************************************)
(* The ledger of kam-state/src/ledger.rs, which remembers what a batch     *)
(* with an operation key answered, so that a client that retries the batch *)
(* gets that answer and no second run.  Its three operations hold the      *)
(* ledger's mutex from beginning to end, so each of them is one step.      *)
(***************************************************************************)
EXTENDS Integers, Sequences, FiniteSets, Sublists

CONSTANTS
    Ids,       \* operation keys, chosen by the clients
    Results,   \* what a finished operation may have answered
    Unknown,   \* the entry of a key the ledger does not hold
    InFlight,  \* the entry of a key that is claimed and not yet finished
    Capacity   \* how many keys the ledger means to hold

ASSUME EntriesAssumption == Unknown # InFlight /\ {Unknown, InFlight} \cap Results = {}
ASSUME CapacityAssumption == Capacity \in Nat \ {0}

VARIABLES
    entries,  \* entries[id]: what the ledger holds for id
    order     \* the keys in the order eviction looks at them, oldest first

ledgerVars == <<entries, order>>

LedgerInit ==
    /\ entries = [id \in Ids |-> Unknown]
    /\ order = <<>>

Known(e) == {id \in Ids : e[id] # Unknown}

\* A fault to detect: the oldest keys go, finished or not.
EvictedAny(e, o) ==
    {o[i] : i \in {j \in DOMAIN o : j <= Cardinality(Known(e)) - Capacity}}

\* The keys that eviction drops: the oldest finished ones, as many as there
\* are too many, passing over those in flight.
Evicted(e, o) ==
    LET done == {i \in DOMAIN o : e[o[i]] \in Results}
    IN  {o[i] : i \in {j \in done : Rank(done, j) <= Cardinality(Known(e)) - Capacity}}

\* The queue without these keys.
Without(o, gone) == Sublist(o, {i \in DOMAIN o : o[i] \notin gone})

\* claim, when the key is not known: the caller owns it from here on.
ClaimFresh(id) ==
    LET e    == [entries EXCEPT ![id] = InFlight]
        o    == Append(order, id)
        gone == Evicted(e, o)
    IN  /\ entries[id] = Unknown
        /\ entries' = [k \in Ids |-> IF k \in gone THEN Unknown ELSE e[k]]
        /\ order' = Without(o, gone)

\* complete: a key the ledger no longer holds is left alone.
Complete(id, r) ==
    /\ entries' = [entries EXCEPT ![id] = IF @ = Unknown THEN Unknown ELSE r]
    /\ UNCHANGED order

\* A fault to detect: a key that is gone from the map but not from the queue.
AbandonEntryOnly(id) ==
    /\ entries' = [entries EXCEPT ![id] = Unknown]
    /\ UNCHANGED order

\* abandon: the operation never ran, so a retry may run it.
Abandon(id) ==
    /\ entries' = [entries EXCEPT ![id] = Unknown]
    /\ order' = Without(order, {id})

LedgerNext ==
    \E id \in Ids :
        \/ ClaimFresh(id)
        \/ \E r \in Results : Complete(id, r)
        \/ Abandon(id)

LedgerSpec == LedgerInit /\ [][LedgerNext]_ledgerVars

-----------------------------------------------------------------------------
EntriesOK == entries \in [Ids -> Results \cup {Unknown, InFlight}]

\* The types, and that map and queue agree: the queue lists each key the map
\* holds, once.  evict relies on it to find what it may drop (evict, abandon).
LedgerOK ==
    /\ EntriesOK
    /\ order \in Seq(Ids)
    /\ {order[i] : i \in DOMAIN order} = Known(entries)
    /\ Len(order) = Cardinality(Known(entries))

\* The step is the claim of key id.
Claims(id) == entries[id] = Unknown /\ entries'[id] = InFlight

\* The step forgets key id.
Forgets(id) == entries[id] # Unknown /\ entries'[id] = Unknown

\* Whoever claims a key never makes the ledger forget one that is still in
\* flight, however full it is (`In-flight keys are never evicted').
InFlightNeverForgotten ==
    [][\A id, k \in Ids : Claims(k) /\ Forgets(id) => entries[id] \in Results]_ledgerVars

\* The ledger never holds more than `capacity' keys (ledger.rs:51, "A ledger
\* holding at most `capacity` keys").
WithinCapacity == Cardinality(Known(entries)) <= Capacity
=============================================================================
