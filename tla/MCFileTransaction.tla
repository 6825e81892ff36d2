------------------------- MODULE MCFileTransaction -------------------------
(***************************************************************************)
(* Instances of FileTransaction: two files, the first a schematic that     *)
(* exists, the second one that a transaction may create.                   *)
(***************************************************************************)
EXTENDS FileTransaction, TLC

CONSTANTS p1, p2, v0, v1, v2, vx

E(old, new) == [before |-> old, after |-> new]
On(f, e) == f :> e @@ [g \in Files |-> NoChange]

\* Both files at once, the second by creating it.
Both == 1 :> E(v0, v1) @@ 2 :> E(Absent, v1)
\* The schematic alone, there and back again.
There == On(1, E(v0, v1))
Back == On(1, E(v1, v0))
\* Plans that follow the first one, and plans that compete with it.
Follow == On(1, E(v1, v2))
Compete == On(1, E(v0, v2))
Grow == On(2, E(Absent, v2))
\* A plan that normalize_transitions turns down.
Idle == On(1, E(v0, v0))

TwoProcs == {p1, p2}
TwoFiles == {1, 2}
Start0 == {1 :> v0 @@ 2 :> Absent}
OneSchematic == {1}
None == {}

CoreRequests == {Both, Compete, Follow, Back, Idle}
CoreSaves == {On(1, E(v1, v2))}
AtomicRequests == {Both, Compete, Follow, Grow}
LiveRequests == {Both}
ApartRequests == {Compete, Grow}
UndoRequests == {There, Back}
ForeignRequests == {Both}
ForeignSaves == {On(1, E(v1, v2))}
ForeignContents == {vx}

Symmetry == Permutations(Procs)
=============================================================================
