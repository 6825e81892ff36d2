--------------------------- MODULE EvidenceStore ---------------------------
(***************************************************************************)
(* The evidence store of kam-evidence/src/store.rs: artefacts kept under   *)
(* handles, within a number of entries and a number of bytes.  put and get *)
(* hold the store's mutex from beginning to end.                           *)
(***************************************************************************)
EXTENDS Integers, Sequences, Sublists

CONSTANTS
    Kinds,           \* what an artefact may be filed as
    Sizes,           \* how many bytes a body may have
    EntryCapacity, MaxBytes,
    MaxPuts          \* bound: artefacts put

ASSUME SizesAssumption == Sizes \subseteq Nat
ASSUME EvidenceLimitsAssumption == {EntryCapacity, MaxBytes} \subseteq Nat \ {0} /\ MaxPuts \in Nat

VARIABLES
    kept,       \* the entries, oldest first
    bytes,      \* the running total of their sizes
    highWater,  \* the highest id ever issued
    put         \* every artefact ever put, in order: what the handles stand for

evidenceVars == <<kept, bytes, highWater, put>>

Artefact == [kind : Kinds, size : Sizes]
Entry == [id : Nat, kind : Kinds, size : Nat]

EvidenceInit == kept = <<>> /\ bytes = 0 /\ highWater = 0 /\ put = <<>>

\* The entries from the i-th on, and their bytes when the total was n.
From(entries, i) == SubSeq(entries, i, Len(entries))
SizesOf(entries) == [i \in DOMAIN entries |-> entries[i].size]
Remaining(entries, n, i) == n - Total(SizesOf(entries), i - 1)

\* put's loop: the oldest entry goes while there are too many or too much.
FirstKept(entries, n) ==
    CHOOSE i \in 1..(Len(entries) + 1) :
        /\ Len(entries) - i + 1 <= EntryCapacity /\ Remaining(entries, n, i) <= MaxBytes
        /\ \A j \in 1..(i - 1) : Len(entries) - j + 1 > EntryCapacity \/ Remaining(entries, n, j) > MaxBytes

Put(a) ==
    LET grown == Append(kept, [id |-> highWater + 1, kind |-> a.kind, size |-> a.size])
        first == FirstKept(grown, bytes + a.size)
    IN  /\ highWater < MaxPuts
        /\ highWater' = highWater + 1
        /\ kept' = From(grown, first)
        /\ bytes' = Remaining(grown, bytes + a.size, first)
        /\ put' = Append(put, a)

\* What get answers for a handle.
Get(kind, id) ==
    LET with == {i \in DOMAIN kept : kept[i].id = id}
    IN  IF \E i \in with : kept[i].kind = kind THEN "found"
        ELSE IF id <= highWater /\ with = {} THEN "expired" ELSE "unknown"

EvidenceNext == \E a \in Artefact : Put(a)

EvidenceSpec == EvidenceInit /\ [][EvidenceNext]_evidenceVars
-----------------------------------------------------------------------------
EvidenceTypeOK ==
    /\ kept \in Seq(Entry) /\ bytes \in Nat /\ highWater \in 0..MaxPuts
    /\ put \in Seq(Artefact)

\* The bytes of the last n artefacts put.
LastBytes(n) == Total(SizesOf(put), Len(put)) - Total(SizesOf(put), Len(put) - n)

\* The store holds the longest run of newest artefacts that fits both bounds,
\* and answers for every handle it ever issued: found, with what was put, for
\* those, expired for all the others, whatever was put since (put's running
\* count of bytes, its loop, and get).
KeepsTheNewest ==
    LET fits(n) == n <= EntryCapacity /\ LastBytes(n) <= MaxBytes
        held    == CHOOSE n \in 0..Len(put) : fits(n) /\ \A m \in 0..Len(put) : fits(m) => m <= n
    IN  \A id \in 1..Len(put) :
          /\ Get(put[id].kind, id) = IF id > Len(put) - held THEN "found" ELSE "expired"
          /\ Get(put[id].kind, id) = "found" =>
               \E i \in DOMAIN kept : kept[i] = [id |-> id, kind |-> put[id].kind, size |-> put[id].size]
=============================================================================
