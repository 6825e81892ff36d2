--------------------------- MODULE SchematicTools ---------------------------
(***************************************************************************)
(* The tools that edit documents on disk, as programs: the handlers of     *)
(* sch_components.rs, sch_wiring.rs, sch_batch.rs, sch_buses.rs,           *)
(* sch_hierarchy.rs, sch_export.rs and templates.rs over schematics, those *)
(* of library.rs, footprint_graphics.rs and verification.rs over libraries *)
(* and rule files.  A request names a document (doc), an item (ref),       *)
(* another (to) and, for sheets, the file of the sheet (sub).              *)
(***************************************************************************)
EXTENDS ToolPrograms

\* The commonest handler: read, edit the text, write it over what was read.
Checked(d, has, edit) == <<File(<<Read(d, has, {}), WriteIfUnchanged(d, edit)>>)>>

\* The edit goes into whatever the document has become, if the items it changes
\* are what they were.
CommitItems(d, has, edit) == <<File(<<Read(d, has, {}), Commit(d, edit)>>)>>

\* Where the pins are comes from a read of its own, before the document that is
\* changed and compared.
OverPins(d, edit) == <<File(<<Peek(d), Read(d, {}, {}), WriteIfUnchanged(d, edit)>>)>>
PinsAfter(d, edit) == <<File(<<Read(d, {}, {}), Peek(d), WriteIfUnchanged(d, edit)>>)>>

\* add_pin_midwire_junctions, after the symbol is on disk.
ThenJunctions(d, edit, j) == <<File(<<Read(d, {}, {}), WriteIfUnchanged(d, edit),
                                      Peek(d), Read(d, {}, {}), WriteIfUnchanged(d, Adding({j}))>>)>>
-----------------------------------------------------------------------------
\* sch_components.rs
CreateSchematic(q) == <<File(<<New(q.doc), Read(q.doc, {}, {}), WriteIfUnchanged(q.doc, Adding({}))>>)>>
AddSchematicComponent(q) == ThenJunctions(q.doc, Adding({q.ref}), q.to)
DeleteSchematicComponent(q) == Checked(q.doc, {q.ref}, Dropping({q.ref}))
EditSchematicComponent(q) == CommitItems(q.doc, {q.ref}, Setting({q.ref}, "val"))
MoveSteps(q) == <<Read(q.doc, {}, {}), Read(q.doc, {q.ref}, {}), WriteIfUnchanged(q.doc, Setting({q.ref}, "at"))>>
MoveSchematicComponent(q) == <<File(MoveSteps(q))>>
RotateSchematicComponent(q) == <<File(MoveSteps(q))>>

\* The symbol moves in one write, the wires on its pins follow in another.
MoveConnected(q) == <<File(<<Peek(q.doc)>> \o MoveSteps(q)
                           \o <<Peek(q.doc), Read(q.doc, {}, {}), WriteIfUnchanged(q.doc, Setting({q.to}, "at"))>>)>>
MoveRegion(q) == Checked(q.doc, {}, Setting({q.ref, q.to}, "at"))
AddComponentAnnotation(q) == CommitItems(q.doc, {q.ref}, Setting({q.ref}, "val"))
GroupComponents(q) == CommitItems(q.doc, {}, Setting({q.ref, q.to}, "val"))
ReplaceComponent(q) == Checked(q.doc, {q.ref}, Setting({q.ref}, "val"))

\* sch_wiring.rs
AddWire(q) == OverPins(q.doc, Adding({q.to}))
BatchAddWire(q) == PinsAfter(q.doc, Adding({q.ref, q.to}))
DeleteWire(q) == Checked(q.doc, {q.ref}, Dropping({q.ref}))
BatchDeleteWire(q) == Checked(q.doc, {q.ref}, Dropping({q.ref, q.to}))
SplitWireAtPoint(q) == Checked(q.doc, {q.ref}, Edit({q.to}, {q.ref}, {}, "val"))
AddNetLabel(q) == Checked(q.doc, {}, Adding({q.to}))
DeleteNetLabel(q) == Checked(q.doc, {q.ref}, Dropping({q.ref}))
RotateLabelSteps(d, r) == <<[Read(d, {r}, {}) EXCEPT !.soft = TRUE], WriteIfUnchanged(d, Setting({r}, "at"))>>
RotateLabel(q) == Checked(q.doc, {q.ref}, Setting({q.ref}, "at"))
MoveLabelsByOffset(q) == Checked(q.doc, {q.ref}, Setting({q.ref}, "at"))

\* One transaction for each label; a label that is not there is passed over.
BatchRotateLabels(q) == <<File(RotateLabelSteps(q.doc, q.ref)), File(RotateLabelSteps(q.doc, q.to))>>
AddPowerSymbol(q) == ThenJunctions(q.doc, Adding({q.ref}), q.to)
AddNoConnect(q) == OverPins(q.doc, Adding({q.to}))
DeleteNoConnect(q) == Checked(q.doc, {q.ref}, Dropping({q.ref}))
BatchDeleteNoConnect(q) == Checked(q.doc, {q.ref}, Dropping({q.ref, q.to}))
AddJunction(q) == OverPins(q.doc, Adding({q.to}))
BatchAddJunction(q) == PinsAfter(q.doc, Adding({q.ref, q.to}))
ConnectToNet(q) == <<File(<<Peek(q.doc), Read(q.doc, {}, {}), Peek(q.doc), WriteIfUnchanged(q.doc, Adding({q.to}))>>)>>
ConnectPins(q) == Checked(q.doc, {q.ref}, Adding({q.to}))
AddSchematicConnection(q) == Checked(q.doc, {}, Adding({q.to}))

\* sch_batch.rs, sch_export.rs, templates.rs
BatchConnectToNet(q) == Checked(q.doc, {}, Adding({q.to}))
BatchPlaceComponents(q) == Checked(q.doc, {}, Adding({q.ref, q.to}))
BatchConnectPins(q) == Checked(q.doc, {}, Adding({q.to}))
BatchDelete(q) == Checked(q.doc, {}, Dropping({q.ref, q.to}))
BulkMove(q) == Checked(q.doc, {}, Setting({q.ref, q.to}, "at"))
BatchEdit(q) == Checked(q.doc, {}, Setting({q.ref, q.to}, "val"))
BatchDeleteComponents(q) == Checked(q.doc, {}, Dropping({q.ref, q.to}))
ConnectPassthrough(q) == Checked(q.doc, {}, Adding({q.to}))
AddSchematicText(q) == Checked(q.doc, {}, Adding({q.to}))
FixConnectivity(q) == Checked(q.doc, {q.ref}, Setting({q.ref}, "at"))
ApplyTemplate(q) == Checked(q.doc, {}, Adding({q.ref, q.to}))

\* sch_buses.rs
AddBus(q) == Checked(q.doc, {}, Adding({q.to}))
AddBusEntry(q) == Checked(q.doc, {}, Adding({q.to}))
AddBusAlias(q) == Checked(q.doc, {}, Edit({q.to}, {}, {q.to}, "val"))

\* sch_hierarchy.rs.  The text is read once to be replaced and once to be
\* edited; what is committed is the sheet's item alone.
CommitSheetItem(q, edit) == <<File(<<Read(q.doc, {}, {}), Reread(q.doc, {q.ref}, {}), Commit(q.doc, edit)>>)>>
EditSheet(q) == CommitSheetItem(q, Setting({q.ref}, "val"))
MoveSheet(q) == CommitSheetItem(q, Setting({q.ref}, "at"))
DeleteSheet(q) == CommitSheetItem(q, Dropping({q.ref}))
AddSheetPin(q) == CommitSheetItem(q, Setting({q.ref}, "val"))
EditSheetPin(q) == CommitSheetItem(q, Setting({q.ref}, "val"))
DeleteSheetPin(q) == CommitSheetItem(q, Setting({q.ref}, "val"))
ImportSheetPins(q) == <<File(<<Read(q.doc, {}, {}), Reread(q.doc, {q.ref}, {}), Peek(q.sub),
                               Commit(q.doc, Setting({q.ref}, "val"))>>)>>

\* Parent and child change in one transaction over both files.
AddHierarchicalSheet(q) == <<File(<<Read(q.doc, {}, {}), Reread(q.doc, {}, {q.to}), ReadAny(q.sub, {}),
                                    Transact(q.doc, q.sub, Adding({q.to}))>>)>>
DuplicateSheet(q) == <<File(<<Read(q.doc, {}, {}), Reread(q.doc, {q.ref}, {q.to}), ReadAny(q.sub, {Root}),
                              Transact(q.doc, q.sub, Adding({q.to}))>>)>>
RenumberSheetPages(q) == <<File(<<Read(q.doc, {}, {}), Read(q.sub, {}, {}),
                                  Transact(q.doc, q.sub, Setting({q.ref, q.to}, "val"))>>)>>
-----------------------------------------------------------------------------
\* library.rs and footprint_graphics.rs.  Footprints are written over whatever
\* is there; symbols and table entries go into what was read a moment ago.
CreateFootprint(q) == <<File(<<Overwrite(q.doc, Adding({q.ref}))>>)>>
BlindEdit(d, has, edit) == <<File(<<Read(d, has, {}), Write(d, edit)>>)>>
BlindAdd(d, edit) == <<File(<<ReadAny(d, {}), Write(d, edit)>>)>>
EditFootprintPad(q) == BlindEdit(q.doc, {q.ref}, Setting({q.ref}, "val"))
RegisterInLibTable(q) == BlindAdd(q.doc, Edit({q.ref}, {}, {q.ref}, "val"))
RegisterFootprintLibrary(q) == RegisterInLibTable(q)
RegisterSymbolLibrary(q) == RegisterInLibTable(q)
CreateSymbol(q) == BlindAdd(q.doc, Adding({q.ref}))
DeleteSymbol(q) == BlindEdit(q.doc, {q.ref}, Dropping({q.ref}))
SetFootprintGraphics(q) == Checked(q.doc, {}, Edit({q.ref}, {}, {q.ref}, "val"))

\* verification.rs.  What was written is read back; if it is not there, the
\* document that was read first is put back.
ProjectRules(q) == Edit({q.ref}, {}, {q.ref}, "val")
SetDesignRules(q) == <<File(<<Read(q.doc, {}, {}), Write(q.doc, ProjectRules(q)), ReadBack(q.doc, {q.ref}, {q.ref}), Restore(q.doc)>>)>>
SetLayerConstraints(q) == <<File(<<ReadAny(q.doc, {}), Write(q.doc, ProjectRules(q)), ReadBack(q.doc, {q.ref}, {}), Restore(q.doc)>>)>>
CopyRoutingPattern(q) == BlindEdit(q.doc, {}, Adding({q.to}))
=============================================================================
