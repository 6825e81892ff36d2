------------------------------- MODULE MCTools -------------------------------
(* Two callers at a bench of two boards, three schematics, a library and the  *)
(* project's settings.  The first caller asks for every tool in turn, the     *)
(* second for one that works on the same documents.                           *)
EXTENDS DesignTools, ToolCatalogue

CONSTANTS b1, b2, s1, s2, s3, lib, c1, c2

MCCallers == {c1, c2}
MCBoards == {b1, b2}
MCSheets == {s1, s2, s3}
MCFiles == {lib, Project}

Req(tool, doc, ref, to, sub) ==
  LET q == [tool |-> tool, doc |-> doc, ref |-> ref, to |-> to, sub |-> sub]
  IN [tool |-> tool, doc |-> doc, ref |-> ref, to |-> to, run |-> ProgramOf(q)]
Reqs(tools, doc, ref, to, sub) == {Req(t, doc, ref, to, sub) : t \in tools}

BoardAsks ==
  Reqs({"place_component", "place_component_array", "add_net", "route_trace", "add_via", "add_copper_pour",
        "route_differential_pair", "set_board_size", "add_board_outline", "add_board_text", "import_svg_logo",
        "add_layer", "add_mounting_hole", "add_zone"}, b1, "U3", "U4", NoDoc)
  \cup Reqs({"move_component", "rotate_component", "delete_component", "edit_component", "find_component",
             "get_component_list", "flip_component", "align_components", "delete_trace", "query_traces",
             "get_nets_list", "get_board_extents", "set_active_layer", "refill_zones", "save_project"},
            b1, "U1", "U2", NoDoc)
  \cup Reqs({"duplicate_component", "route_pad_to_pad", "modify_trace", "copy_routing_pattern"}, b1, "U1", "U3", NoDoc)
NewAsks == Reqs({"add_schematic_component", "add_power_symbol", "batch_place_components", "batch_add_wire",
                 "batch_add_junction", "apply_template"}, s1, "W1", "W2", NoDoc)
SheetAsks ==
  NewAsks \cup Reqs({"create_schematic"}, s3, "R1", "W1", NoDoc)
  \cup Reqs({"add_wire", "split_wire_at_point", "add_net_label", "add_no_connect", "add_junction", "connect_to_net",
             "connect_pins", "add_schematic_connection", "batch_connect_to_net", "batch_connect_pins",
             "connect_passthrough", "add_schematic_text", "add_bus", "add_bus_entry", "add_bus_alias"},
            s1, "R1", "W1", NoDoc)
  \cup Reqs({"delete_schematic_component", "edit_schematic_component", "move_schematic_component",
             "rotate_schematic_component", "move_connected", "move_region", "add_component_annotation",
             "group_components", "replace_component", "delete_wire", "batch_delete_wire", "delete_net_label",
             "rotate_label", "move_labels_by_offset", "batch_rotate_labels", "delete_no_connect",
             "batch_delete_no_connect", "batch_delete", "bulk_move", "batch_edit", "batch_delete_components",
             "fix_connectivity", "edit_sheet", "move_sheet", "delete_sheet", "add_sheet_pin", "edit_sheet_pin",
             "delete_sheet_pin"}, s1, "R1", "R2", NoDoc)
  \cup Reqs({"import_sheet_pins", "renumber_sheet_pages"}, s1, "R1", "R2", s2)
  \cup Reqs({"add_hierarchical_sheet", "duplicate_sheet"}, s1, "R1", "W1", s3)
SheetRivals == {Req("add_wire", s1, "R1", "W1", NoDoc),
                Req("renumber_sheet_pages", s2, "R1", "R2", s1)}

FileAsks == Reqs({"create_footprint", "edit_footprint_pad", "register_footprint_library", "register_symbol_library",
                  "create_symbol", "delete_symbol", "set_footprint_graphics", "set_design_rules",
                  "set_layer_constraints"}, lib, "P1", "P2", NoDoc)
              \cup Reqs({"create_netclass", "assign_net_to_class"}, Project, "P1", "P2", NoDoc)

Of(tools, asks) == {a \in asks : a.tool \in tools}

\* A document that is missing holds nothing.
Bench(holds) == [d \in Docs |-> IF d \in DOMAIN holds THEN {OldItem(r) : r \in holds[d] \cup {Root}} ELSE {}]
TwoBoards == Bench(b1 :> {"U1", "U2"} @@ b2 :> {"U1"})
TwoSheets == Bench(s1 :> {"R1", "R2"} @@ s2 :> {"R1"})
Others == Bench(lib :> {"P1"} @@ Project :> {"P1"})

DaysOf(asks, rivals, docs, opens) ==
  {[asks |-> (c1 :> a) @@ (c2 :> b), file |-> docs, open |-> o] : a \in asks, b \in rivals, o \in opens}
MCDays ==
  DaysOf(BoardAsks, {Req("delete_trace", b1, "U2", "U2", NoDoc)}, TwoBoards, {<<b1>>})
    \cup DaysOf(Of({"place_component", "duplicate_component", "save_project"}, BoardAsks),
                {Req("place_component", b1, "U3", "U4", NoDoc)}, TwoBoards, {<<b2, b1>>})
    \cup DaysOf(Of({"move_component", "align_components", "modify_trace", "flip_component"}, BoardAsks),
                {Req("edit_component", b1, "U1", "U2", NoDoc)}, TwoBoards, {<<b2, b1>>})
    \cup DaysOf(SheetAsks, {Req("edit_sheet", s1, "R1", "R2", NoDoc)}, TwoSheets, {<<>>})
    \cup DaysOf(Of({"connect_to_net", "move_connected", "edit_sheet", "add_hierarchical_sheet"}, SheetAsks),
                SheetRivals, TwoSheets, {<<>>})
    \cup DaysOf(FileAsks, {Req("edit_footprint_pad", lib, "P1", "P2", NoDoc)}, Others, {<<>>})

\* A move while another board is open in front; a placement that KiCad saves and
\* does not live to confirm.
Alone(a, opens) == DaysOf({a}, {Req("find_component", b1, "U1", "U2", NoDoc)}, TwoBoards, opens)
MoveDay == Alone(Req("move_component", b1, "U1", "U2", NoDoc), {<<b2, b1>>})
PlaceDay == Alone(Req("place_component", b1, "U3", "U4", NoDoc), {<<b1>>})
=============================================================================
