---------------------------- MODULE AtomicStore ----------------------------
(***************************************************************************)
(* What a project transaction promises its caller: all the files it names  *)
(* change in one step, from exactly the contents it expects to exactly the *)
(* contents it gives, or none does.                                        *)
(***************************************************************************)
CONSTANTS Files, Contents, Absent, NoChange, Disks, Requests, Saves

VARIABLE store  \* store[f]: the content of file f

Named(w) == {f \in Files : w[f] # NoChange}

Init == store \in Disks

Replace(w) ==
    /\ \A f \in Named(w) : store[f] = w[f].before
    /\ store' = [f \in Files |-> IF f \in Named(w) THEN w[f].after ELSE store[f]]

Next == \E w \in Requests \cup Saves : Replace(w)

Spec == Init /\ [][Next]_store
=============================================================================
