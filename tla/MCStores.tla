------------------------------ MODULE MCStores ------------------------------
(***************************************************************************)
(* Instances of the stores, small enough to see every one of them full.    *)
(***************************************************************************)
EXTENDS Stores, TLC

CONSTANTS k1, k2, k3, k4, k5, answer, s1, r1, r2, r3, r4, r5

\* Five keys compete for a ledger of two: enough for two keys in flight to stand
\* before, between and after finished ones.
FiveIds == {k1, k2, k3, k4, k5}

\* Runs with one image, with two, with none, and with too many to keep them.
FiveRuns == {r1, r2, r3, r4, r5}
Images == (r1 :> 1) @@ (r2 :> 2) @@ (r3 :> 2) @@ (r4 :> 1) @@ (r5 :> 3)

\* Two clients over two toolsets, one loaded at the start and a tool of the other one too.
AllToolsets == {"sch", "pcb"}
AllTools == {"add", "wire", "route"}
OfToolset == [ts \in AllToolsets |-> IF ts = "sch" THEN {"add", "wire"} ELSE {"route"}]
Asked(kind, names) == [kind |-> kind, names |-> names]
Asks == {Asked("load_toolset", <<"sch", "nonesuch">>), Asked("load_toolset", <<"pcb">>),
         Asked("load_tools", <<"add", "route">>), Asked("load_tools", <<"nonesuch">>),
         Asked("unload_toolset", <<"sch">>), Asked("call", <<"route">>), Asked("call", <<"add">>)}
=============================================================================
