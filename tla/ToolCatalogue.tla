---------------------------- MODULE ToolCatalogue ----------------------------
(* The design tools each toolset registers, and the program a call of one     *)
(* runs: one table per tools() of the code.                                   *)
EXTENDS BoardTools, SchematicTools

ProjectTools(q) == [save_project |-> SaveProject(q)]

SchComponentTools(q) ==
  [create_schematic |-> CreateSchematic(q), add_schematic_component |-> AddSchematicComponent(q),
   delete_schematic_component |-> DeleteSchematicComponent(q), edit_schematic_component |-> EditSchematicComponent(q),
   move_schematic_component |-> MoveSchematicComponent(q), rotate_schematic_component |-> RotateSchematicComponent(q),
   move_connected |-> MoveConnected(q), move_region |-> MoveRegion(q), add_component_annotation |-> AddComponentAnnotation(q),
   group_components |-> GroupComponents(q), replace_component |-> ReplaceComponent(q)]

SchWiringTools(q) ==
  [add_wire |-> AddWire(q), batch_add_wire |-> BatchAddWire(q), delete_wire |-> DeleteWire(q),
   batch_delete_wire |-> BatchDeleteWire(q), split_wire_at_point |-> SplitWireAtPoint(q),
   add_net_label |-> AddNetLabel(q), delete_net_label |-> DeleteNetLabel(q), rotate_label |-> RotateLabel(q),
   move_labels_by_offset |-> MoveLabelsByOffset(q), batch_rotate_labels |-> BatchRotateLabels(q),
   add_power_symbol |-> AddPowerSymbol(q), add_no_connect |-> AddNoConnect(q), delete_no_connect |-> DeleteNoConnect(q),
   batch_delete_no_connect |-> BatchDeleteNoConnect(q), add_junction |-> AddJunction(q),
   batch_add_junction |-> BatchAddJunction(q), connect_to_net |-> ConnectToNet(q), connect_pins |-> ConnectPins(q),
   add_schematic_connection |-> AddSchematicConnection(q)]

SchBatchTools(q) ==
  [batch_connect_to_net |-> BatchConnectToNet(q), batch_place_components |-> BatchPlaceComponents(q),
   batch_connect_pins |-> BatchConnectPins(q), batch_delete |-> BatchDelete(q), bulk_move |-> BulkMove(q),
   batch_edit |-> BatchEdit(q), batch_delete_components |-> BatchDeleteComponents(q),
   connect_passthrough |-> ConnectPassthrough(q), add_schematic_text |-> AddSchematicText(q)]

SchExportTools(q) == [fix_connectivity |-> FixConnectivity(q)]

SchBusTools(q) == [add_bus |-> AddBus(q), add_bus_entry |-> AddBusEntry(q), add_bus_alias |-> AddBusAlias(q)]

SchHierarchyTools(q) ==
  [edit_sheet |-> EditSheet(q), move_sheet |-> MoveSheet(q), delete_sheet |-> DeleteSheet(q),
   add_sheet_pin |-> AddSheetPin(q), edit_sheet_pin |-> EditSheetPin(q), delete_sheet_pin |-> DeleteSheetPin(q),
   import_sheet_pins |-> ImportSheetPins(q), add_hierarchical_sheet |-> AddHierarchicalSheet(q),
   duplicate_sheet |-> DuplicateSheet(q), renumber_sheet_pages |-> RenumberSheetPages(q)]

PcbBoardTools(q) ==
  [set_board_size |-> SetBoardSize(q), add_board_outline |-> AddBoardOutline(q), add_board_text |-> AddBoardText(q),
   import_svg_logo |-> ImportSvgLogo(q), get_board_extents |-> GetBoardExtentsTool(q), add_layer |-> AddLayer(q),
   set_active_layer |-> SetActiveLayerTool(q), add_mounting_hole |-> AddMountingHole(q), add_zone |-> AddZone(q)]

PcbComponentTools(q) ==
  [place_component |-> PlaceComponent(q), move_component |-> MoveComponent(q), rotate_component |-> RotateComponent(q),
   delete_component |-> DeleteComponent(q), edit_component |-> EditComponent(q), find_component |-> FindComponent(q),
   get_component_list |-> GetComponentList(q), flip_component |-> FlipComponent(q), place_component_array |-> PlaceArray(q),
   align_components |-> AlignComponents(q), duplicate_component |-> DuplicateComponent(q)]

PcbRoutingTools(q) ==
  [add_net |-> AddNet(q), route_trace |-> RouteTrace(q), route_pad_to_pad |-> RoutePadToPad(q), add_via |-> AddViaTool(q),
   add_copper_pour |-> AddCopperPour(q), delete_trace |-> DeleteTrace(q), query_traces |-> QueryTraces(q),
   get_nets_list |-> GetNetsList(q), modify_trace |-> ModifyTrace(q), route_differential_pair |-> RouteDiffPair(q),
   create_netclass |-> CreateNetclass(q), assign_net_to_class |-> AssignNetToClass(q)]

PcbExportTools(q) == [refill_zones |-> RefillZonesTool(q)]

LibraryTools(q) ==
  [create_footprint |-> CreateFootprint(q), edit_footprint_pad |-> EditFootprintPad(q),
   register_footprint_library |-> RegisterFootprintLibrary(q), register_symbol_library |-> RegisterSymbolLibrary(q),
   create_symbol |-> CreateSymbol(q), delete_symbol |-> DeleteSymbol(q), set_footprint_graphics |-> SetFootprintGraphics(q)]

VerificationTools(q) ==
  [set_design_rules |-> SetDesignRules(q), set_layer_constraints |-> SetLayerConstraints(q),
   copy_routing_pattern |-> CopyRoutingPattern(q)]

TemplateTools(q) == [apply_template |-> ApplyTemplate(q)]

Toolsets(q) ==
  {ProjectTools(q), SchComponentTools(q), SchWiringTools(q), SchBatchTools(q), SchExportTools(q), SchBusTools(q),
   SchHierarchyTools(q), PcbBoardTools(q), PcbComponentTools(q), PcbRoutingTools(q), PcbExportTools(q),
   LibraryTools(q), VerificationTools(q), TemplateTools(q)}

ProgramOf(q) == LET set == CHOOSE t \in Toolsets(q) : q.tool \in DOMAIN t IN set[q.tool]
=============================================================================
