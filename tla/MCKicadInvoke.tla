--------------------------- MODULE MCKicadInvoke ---------------------------
(***************************************************************************)
(* Instances of KicadInvoke: document 1 exists, document 2 may be created. *)
(***************************************************************************)
EXTENDS KicadInvoke, TLC

CONSTANTS s1, s2, k1, k2, t1, t2, t3, t4

Edit(d, t) == [kind |-> "edit", doc |-> d, text |-> t]
Create(d, t) == [kind |-> "create", doc |-> d, text |-> t]
Refused == [kind |-> "refused", doc |-> 1, text |-> t1]

\* The defaults of kicad_invoke: stop at the first failure, and undo.
Batch(id, calls) == [op |-> id, based |-> FALSE, calls |-> calls, roots |-> {1, 2}, stop |-> TRUE,
                     atomic |-> TRUE, diff |-> TRUE, verify |-> "none"]

Grow == Batch(k1, <<Edit(1, t1), Create(2, t2)>>)
GrowVerified == [Grow EXCEPT !.verify = "auto"]
GrowMistyped == [Grow EXCEPT !.verify = "bad"]
GrowBased == [Grow EXCEPT !.based = TRUE]
Fresh == [Batch(k1, <<Create(2, t2)>>) EXCEPT !.verify = "auto"]
Other == Batch(k2, <<Edit(1, t3)>>)
Doomed == Batch(k2, <<Edit(1, t3), Refused>>)
DoomedCreation == Batch(k2, <<Create(2, t3), Refused>>)
Loose == [Batch(k2, <<Refused, Edit(1, t4)>>) EXCEPT !.stop = FALSE, !.atomic = FALSE, !.diff = FALSE]
Keyless == [Batch(NoId, <<Edit(1, t4)>>) EXCEPT !.roots = {}]

OneTask == {s1}
TwoTasks == {s1, s2}
TwoDocs == {1, 2}
TwoIds == {k1, k2}
Start0 == {1 :> <<>> @@ 2 :> Absent}

HttpRequests == {GrowVerified, GrowMistyped, Other, Keyless}
StdioRequests == {GrowVerified, GrowBased, Fresh, DoomedCreation, Loose}
RescanRequests == {DoomedCreation, Other}
LiveRequests == {GrowVerified, Doomed}
RetryRequests == {GrowBased}
DropRequests == {GrowVerified}

Symmetry == Permutations(Tasks)
=============================================================================
