------------------------------ MODULE MCProject ------------------------------
(***************************************************************************)
(* What lies around a project: the library tables, the parts database, the *)
(* reviews and the packages made of a board, the viewer.  They share       *)
(* nothing, so each behaviour exercises one of them, the one in view: the  *)
(* tables of footprints or of symbols, for no reader of one kind looks at  *)
(* the other; searches beside one download at a time, or two downloads and *)
(* what they leave running.                                                *)
(***************************************************************************)
EXTENDS LibraryTables, PartsCatalogue, BoardReview, SchematicViewer

VARIABLE scene  \* what is in view

U(form, at) == [form |-> form, at |-> at]
MCUris == {U("plain", "own"), U("plain", "mine"), U("project", "own"), U("variable", "A"), U("relative", "own")}
\* The project's directory has a library where the global table's has none and the process's another.
MCBeside == [project |-> [own |-> "own"], global |-> [own |-> "spare"], cwd |-> [own |-> "mine"]]
Def(units, parent) == [units |-> units, parent |-> parent]
\* D only renames R, E adds a unit to it, F draws its unit again, without a pin.
MCShelf == [A |-> [R |-> Def(<<{1, 2}>>, NoParent), D |-> Def(<<>>, "R"), E |-> Def(2 :> {3}, "R"), F |-> Def(<<{1}>>, "R")],
            own |-> [R |-> Def(<<{1, 2, 3}>>, NoParent), E |-> Def(<<{1, 2, 3, 4}>>, "R")],
            mine |-> [C |-> Def(<<{9}>>, NoParent)]]
MCTemplates == [template |-> <<Row("A", U("variable", "A"), FALSE)>>]
Global == <<Row("K", U("variable", "template"), TRUE)>>
MCTables0 == {[kind \in Kinds |-> [scope \in Scopes |-> IF scope = "global" THEN g ELSE <<>>]] : g \in {Global, <<>>}}

\* A small library and one of two chunks.
MCChunks == [c \in Catalogues |-> IF c = "all" THEN 2 ELSE 1]

\* A sheet of three points, with a chip, a resistor and perhaps a capacitor.
Part(ref, kind, pins) == [ref |-> ref, kind |-> kind, pins |-> pins, complete |-> {"value", "footprint", "mpn"}]
Sheet(children, more) ==
  [children |-> children, labels |-> <<"VCC", "RST", "VCC">>,
   parts |-> {Part("U1", "ic", [power |-> 1, reset |-> 2]), Part("R1", "resistor", [a |-> 2, b |-> 3])} \cup more]
Capacitor == Part("C1", "bulk", [a |-> 1, b |-> 2])
Main == Sheet(<<"sub">>, {Capacitor})
MCSheets == {Sheet(<<>>, {}), Sheet(<<>>, {Capacitor}), Main}
Board(rules, ratsnest, parity, dfm) ==
  [drc |-> [violations |-> rules, unconnected_items |-> ratsnest, schematic_parity |-> parity], dfm |-> dfm]
MCBoards == {Board("none", "none", "none", "none"), Board("none", "error", "none", "none"), Board("none", "none", "warning", "error")}
MCStarts == {[board |-> Board("none", "none", "none", "none"),
              sheets |-> [f \in Files |-> IF f = Root THEN main ELSE Sheet(<<>>, {Capacitor})]] : main \in {Main, Broken}}
MCLeftovers == {NoFile, [p \in Passes |-> "none"]}

\* Two designs that share a sheet of another directory.
MCDir == [f \in SheetFiles |-> IF f = "t" THEN "far" ELSE "near"]
MCDrawings == [f \in SheetFiles |-> IF f = "a" THEN {{}, {"t"}} ELSE {{}}]

ProjectInit ==
  /\ TablesInit /\ CatalogueInit /\ ReviewInit /\ ViewerInit
  /\ scene \in Kinds \cup {"searches", "downloads", "review", "viewer"}
  /\ scene # "viewer" => disk["a"].kids = {}
  /\ scene # "symbol" => tables["symbol"]["global"] = <<>>
  /\ scene # "review" => sheets[Root] = Broken /\ report = NoFile

\* Searches beside at most one download, or downloads alone.
CatalogueScene ==
  \/ scene = "searches" /\ CatalogueNext /\ Cardinality({d \in Downloads : loader'[d] # IdleLoader}) <= 1
  \/ scene = "downloads" /\ UNCHANGED <<ticks, questions>> /\ CatalogueNext

ProjectNext ==
  /\ \/ scene \in Kinds /\ TablesOf(scene) /\ UNCHANGED <<catalogueVars, reviewVars, viewerVars>>
     \/ CatalogueScene /\ UNCHANGED <<tableVars, reviewVars, viewerVars>>
     \/ scene = "review" /\ ReviewNext /\ UNCHANGED <<tableVars, catalogueVars, viewerVars>>
     \/ scene = "viewer" /\ ViewerNext /\ UNCHANGED <<tableVars, catalogueVars, reviewVars>>
  /\ UNCHANGED scene

ProjectSpec == ProjectInit /\ [][ProjectNext]_<<tableVars, catalogueVars, reviewVars, viewerVars, scene>>
=============================================================================
