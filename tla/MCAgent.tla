------------------------------ MODULE MCAgent ------------------------------
(***************************************************************************)
(* One agent and one caller of apply_plan over a schematic, the sheet below*)
(* it and a project that does not exist yet.                               *)
(***************************************************************************)
EXTENDS AgentLoop

AllDocs == {"top", "sub", "new"}
Below == [d \in AllDocs |-> IF d = "top" THEN {"sub"} ELSE {}]
Start == {[d \in AllDocs |-> CASE d = "new" -> Absent [] d = "sub" -> {"fault"} [] d = "top" -> {}]}
NoneOrNumbers == [n \in {"1"} |-> 1]

Op(id, kind, steps, arg) == [id |-> id, op |-> kind, steps |-> steps, arg |-> arg]
Plan(ops, posts, policy) == [ops |-> ops, posts |-> posts, policy |-> policy]

\* Plans that compile: over documents by path, with each kind of promise, and
\* over a project they create, by each form of reference.
GoodPlans == {
    Plan(<<Op("a", "place", 1, Path("top"))>>, {"erc_clean"}, "atomic"),
    Plan(<<Op("a", "call", 1, Path("sub")), Op("b", "place", 1, Path("top"))>>, {"erc"}, "stop"),
    Plan(<<Op("a", "create", 1, Project("new")), Op("b", "place", 2, Omitted), Op("c", "call", 1, Reference(<<"b", 1>>))>>,
         {"erc_clean"}, "atomic"),
    Plan(<<Op("1", "create", 1, Project("new")), Op("b", "place", 1, Reference(Position(0))),
           Op("c", "place", 1, Reference(<<"create">>))>>, {}, "continue")}

\* Plans that do not compile: a forward reference, one to itself, an ambiguous
\* number, an ambiguous type, a validator nobody knows.
BadPlans == {
    Plan(<<Op("a", "place", 1, Reference(<<"b">>)), Op("b", "create", 1, Project("new"))>>, {}, "atomic"),
    Plan(<<Op("a", "place", 1, Reference(<<"a">>))>>, {}, "atomic"),
    Plan(<<Op("1", "create", 1, Project("new")), Op("b", "create", 1, Project("new")), Op("c", "place", 1, Reference(<<"1">>))>>, {}, "atomic"),
    Plan(<<Op("a", "create", 1, Project("new")), Op("b", "create", 1, Project("new")), Op("c", "place", 1, Reference(<<"create">>))>>, {}, "atomic"),
    Plan(<<Op("a", "place", 1, Path("top"))>>, {"erc_cleen"}, "atomic")}

EscapingPlan == Plan(<<Op("a", "create", 1, Project("new")), Op("b", "call", 1, Escaped(<<"a">>))>>, {}, "atomic")

AllPlans == GoodPlans \cup BadPlans
PlansThatEscape == GoodPlans \cup {EscapingPlan}
=============================================================================
