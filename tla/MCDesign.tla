------------------------------ MODULE MCDesign ------------------------------
(***************************************************************************)
(* The design tools that read first and write later: the board brought to  *)
(* agree with its schematic, commands on one schematic, the pages of the   *)
(* sheet tree, symbols found in an index of the libraries, the wires of a  *)
(* sheet, and the objects a sheet is edited as.  They share nothing, so    *)
(* each behaviour exercises one of them, the one in view.                  *)
(***************************************************************************)
EXTENDS PcbSync, SchematicCommand, SheetPages, SymbolIndex, Wiring, SchematicObjects

CONSTANTS r, h, n1, n2, A, B, a, b, s, v1, v2, Main, sub1, sub2

VARIABLE view  \* the tool in view

\* Two symbols, a schematic saved in ten forms, and boards that hold their
\* footprints linked, unlinked, under another name, twice, or not at all.
Symbol(path, ref, net) == [path |-> path, ref |-> ref, value |-> "10k", fp |-> r, net |-> net,
                           inBom |-> TRUE, onBoard |-> TRUE, dnp |-> FALSE]
S1 == Symbol("p1", "R1", n1)
S2 == Symbol("p2", "R2", n2)
MCSchematics == {
  <<S1, S2>>, <<S1>>, <<Symbol("p1", "R1", n2), S2>>, <<S1, Symbol("p2", "R3", n2)>>,
  <<[S1 EXCEPT !.fp = NoFootprint], S2>>, <<S1, [S2 EXCEPT !.onBoard = FALSE]>>,
  <<[S1 EXCEPT !.dnp = TRUE, !.value = "22k"], S2>>, <<S1, [S2 EXCEPT !.fp = h]>>,
  <<S1, [S2 EXCEPT !.ref = "R1"]>>, <<Symbol("p3", "R1", NoNet), S2>>}
\* What is saved at first; the user goes on to any of the others.
FirstSaved == {<<S1, S2>>, <<Symbol("p3", "R1", NoNet), S2>>}

Linked(path, ref, net) == [kiid |-> <<"old", ref>>, ref |-> ref, value |-> "10k", fp |-> r, path |-> path, net |-> net,
                           dnp |-> FALSE, free |-> FALSE, at |-> "placed"]
F1 == Linked("p1", "R1", n1)
F2 == Linked("p2", "R2", n2)
MCStartBoards == {
  {}, {F1, F2}, {Linked(NoPath, "R1", n1), F2}, {Linked(NoPath, "R9", n1), F2},
  {Linked("p1", "R2", n1), Linked("p2", "R1", n2)}, {F1, [Linked(NoPath, "REF**", NoNet) EXCEPT !.fp = h, !.free = TRUE]},
  {F1, [F2 EXCEPT !.ref = "R1"]}}

\* A symbol and a sheet side by side in front of a footer, and a symbol without any.
Library == Block(NoId, "lib_symbols", v1)
MCDocuments == {
  <<Library, Block(a, "symbol", v1), Block(s, "sheet", v1), Block(NoId, "sheet_instances", v1)>>,
  <<Library, Block(b, "symbol", v1)>>}

\* An empty root; the two other files are yet to be made.
MCProjects == {[f \in Files |-> IF f = Main THEN <<>> ELSE Missing]}

\* Two libraries with a symbol each; the second may get what the first has, and the
\* symbol without a sign that callers ask for.
MCShelf == [l \in Libraries |-> IF l = Power THEN {"R", "+5V", "5V"} ELSE {"R"}]
MCStarts == {[l \in Libraries |-> IF l = Power THEN {"+5V"} ELSE {"R"}]}
MCFolded == [stem \in {"R", "+5V", "5V"} |-> IF stem = "R" THEN "r" ELSE stem]
MCToggled == [stem \in {"R", "5V"} |-> IF stem = "R" THEN "+r" ELSE "+5V"]
MCAsks == {[lib |-> Power, stem |-> "5V"], [lib |-> "regulator", stem |-> "R"]}

\* A cross of five points, with pins at the ends of a horizontal and a vertical.
MCPoints == {<<0, 1>>, <<1, 1>>, <<2, 1>>, <<1, 0>>, <<1, 2>>}
MCStartPins == {{}, {<<0, 1>>}, {<<0, 1>>, <<1, 2>>}}
MCPlaces == {<<1, 1>>, <<2, 1>>}

\* A chip of two units and what else a sheet holds, in KiCad's order; and a sheet
\* with one of the units and an alias, in another; a sheet with nothing on it.
Field(name, value, at) == [name |-> name, value |-> value, at |-> at, private |-> FALSE]
Cost == [name |-> "Cost", value |-> "1", at |-> 0, private |-> TRUE]
Node(kind, id, tags, props) == [kind |-> kind, id |-> id, tags |-> tags, props |-> props]
Spot(x) == "at" :> [x |-> x, turn |-> 0]
Unit(id, x, ref) == Node("symbol", id, Spot(x) @@ "lib_id" :> "L" @@ "lib_name" :> "L_1" @@ "convert" :> 2,
                         <<Field("Reference", ref, x + 1), Cost, Field("Value", "v", x)>>)
Table(kind) == Node(kind, kind, "body" :> "as it was", <<>>)
Lead(id, p, q) == Node("wire", id, "pts" :> <<p, q>> @@ "stroke" :> "dash", <<>>)
Tag == Node("label", "l1", Spot(4) @@ "text" :> "N" @@ "effects" :> [font |-> "big", justify |-> 0] @@ "fields_autoplaced" :> "yes", <<>>)
Box == Node("sheet", "s1", Spot(6) @@ "size" :> 2 @@ "exclude_from_sim" :> "no", <<Field("Sheetname", "sub", 5)>>)
MCDrawings == {
  <<>>,
  <<Table("lib_symbols"), Lead("w1", 2, 4), Lead("w2", 3, 4), Tag, Box, Unit("a", 2, "U1"), Unit("b", 3, "U1"), Table("sheet_instances")>>,
  <<Table("lib_symbols"), Node("bus_alias", "B", "members" :> <<"X">>, <<>>), Unit("a", 3, "U1"), Lead("w1", 2, 4), Box, Table("sheet_instances")>>}
Job(op, id, ref, to, low, high) == [op |-> op, target |-> [id |-> id, ref |-> ref], to |-> to, low |-> low, high |-> high]
MCObjectCalls ==
  {Job("move", "b", NoRef, 5, 0, 0), Job("move", "a", "U1", 5, 0, 0), Job("turn", "a", NoRef, 9, 0, 0),
   Job("delete", "b", NoRef, 0, 0, 0), Job("delete", "a", "U1", 0, 0, 0), Job("region", "a", NoRef, 1, 1, 3),
   Job("drag", "a", NoRef, 7, 4, 4), Job("move_sheet", "s1", NoRef, 1, 0, 0)}
  \cup {[op |-> "alias", name |-> "B", members |-> <<"Y", "Z">>],
        [op |-> "add", node |-> Node("junction", "j1", Spot(4) @@ "diameter" :> 0, <<>>)],
        [op |-> "label", node |-> Node("global_label", "g1", Spot(4) @@ "text" :> "G" @@ "shape" :> "input", <<>>), to |-> 9]}

\* The servers are alike.
MCSymmetry == Permutations(Processes)

DesignInit ==
    /\ SyncInit /\ CommandInit /\ PageInit /\ IndexInit /\ WiringInit /\ ObjectsInit
    /\ view \in {"sync", "command", "pages", "index", "wiring", "objects"}
    /\ IF view = "sync" THEN sch \in FirstSaved ELSE sch = <<S1>> /\ board = {}
    /\ view # "command" => Len(document) = 2
    /\ view # "objects" => drawing = <<>>
    /\ view = "wiring" <=> sheet.pins # {}

DesignNext ==
    /\ \/ view = "sync" /\ SyncNext /\ UNCHANGED <<commandVars, pageVars, indexVars, wiringVars, objectVars>>
       \/ view = "command" /\ CommandNext /\ UNCHANGED <<syncVars, pageVars, indexVars, wiringVars, objectVars>>
       \/ view = "pages" /\ PageNext /\ UNCHANGED <<syncVars, commandVars, indexVars, wiringVars, objectVars>>
       \/ view = "index" /\ IndexNext /\ UNCHANGED <<syncVars, commandVars, pageVars, wiringVars, objectVars>>
       \/ view = "wiring" /\ WiringNext /\ UNCHANGED <<syncVars, commandVars, pageVars, indexVars, objectVars>>
       \/ view = "objects" /\ ObjectsNext /\ UNCHANGED <<syncVars, commandVars, pageVars, indexVars, wiringVars>>
    /\ UNCHANGED view

DesignSpec == DesignInit /\ [][DesignNext]_<<syncVars, commandVars, pageVars, indexVars, wiringVars, objectVars, view>>
=============================================================================
