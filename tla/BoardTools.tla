----------------------------- MODULE BoardTools -----------------------------
(***************************************************************************)
(* The PCB tools as programs: the procedures of konnect-ipc/src/client.rs  *)
(* over which they are written, and the handlers of pcb_components.rs,     *)
(* pcb_routing.rs, pcb_board.rs and project.rs.  A request names a board   *)
(* (doc), an item (ref) and, where the tool has two, another (to).         *)
(***************************************************************************)
EXTENDS ToolPrograms

\* The procedures of the client that take no document ask for the first one,
\* each time they send a command.
GetItems(has, lacks) == <<First, List(has, lacks)>>
CreateItems(refs) == <<First, Create(refs)>>
UpdateItem(r, a) == <<First, Update(r, a)>>
DeleteItem(r) == <<First, Delete(r)>>
GetNets == GetItems({}, {})
RefillZones == <<First, Step("refill")>>
SetActiveLayer == <<First, Step("layer")>>
GetActiveLayer == <<First, Step("layer")>>
GetBoardExtents == GetItems({}, {})
SaveOpenDocument == <<First, First, Save>>

\* run_commit: everything between is one undo step of KiCad.
RunCommit(steps) == <<Begin>> \o steps \o <<Push>>

GetFootprint(r) == GetItems({r}, {})
FindFootprintKiid(r) == GetItems({r}, {})
MoveFootprint(r) == GetItems({r}, {}) \o UpdateItem(r, "at")
RotateFootprint(r) == GetItems({r}, {}) \o UpdateItem(r, "at")
SetFootprintValue(r) == GetItems({r}, {}) \o UpdateItem(r, "val")

\* Any error of the second lookup counts as "it is gone".
DeleteFootprint(r) == FindFootprintKiid(r) \o DeleteItem(r) \o Softly(GetItems({}, {r}))

\* The document that is the named board, for all three commands.
PlaceFootprint(b, r) == <<Find(b), List({}, {r}), Create({r}), List({r}, {})>>

AddTracks(refs) == GetNets \o CreateItems(refs)
AddVia(r) == GetNets \o CreateItems({r})
DeleteTrack(r) == DeleteItem(r)
GetTracks == GetItems({}, {})

ReplaceTrack(r, to) == RunCommit(DeleteTrack(r) \o AddTracks({to}))
-----------------------------------------------------------------------------
\* pcb_components.rs.  Appending to the file looks at nothing that is there.
InsertIntoBoard(b, refs) == File(<<Read(b, {}, {}), Write(b, Adding(refs))>>)

PlaceComponent(q) == <<Job(PlaceFootprint(q.doc, q.ref), "answer", "fallback"), InsertIntoBoard(q.doc, {q.ref})>>
MoveComponent(q) == <<Guarded(q.doc, MoveFootprint(q.ref))>>
RotateComponent(q) == <<Guarded(q.doc, RotateFootprint(q.ref))>>
DeleteComponent(q) == <<Guarded(q.doc, DeleteFootprint(q.ref))>>
EditComponent(q) == <<Guarded(q.doc, SetFootprintValue(q.ref)), Guarded(q.doc, GetFootprint(q.ref))>>
FindComponent(q) == <<Guarded(q.doc, GetFootprint(q.ref))>>
GetComponentList(q) == <<Guarded(q.doc, GetItems({}, {}))>>

\* KiCad must not confirm that it holds the board; then the file is edited.
RefuseIfOpen(b) == Job(<<Ensure(b)>>, "refuse", "next")
SetClosedBoardSide(b, r) == File(<<Read(b, {r}, {}), WriteIfUnchanged(b, Setting({r}, "at"))>>)
FlipComponent(q) == <<RefuseIfOpen(q.doc), SetClosedBoardSide(q.doc, q.ref)>>

PlaceArray(q) == <<Guarded(q.doc, GetItems({}, {q.ref, q.to})
                     \o RunCommit(CreateItems({q.ref, q.to})) \o GetItems({q.ref, q.to}, {}))>>
AlignOne(r) == GetFootprint(r) \o MoveFootprint(r)
AlignComponents(q) == <<Guarded(q.doc, RunCommit(AlignOne(q.ref) \o AlignOne(q.to)))>>
DuplicateComponent(q) == <<Guarded(q.doc, GetFootprint(q.ref)), Guarded(q.doc, PlaceFootprint(q.doc, q.to))>>

\* pcb_routing.rs
AddNet(q) == <<File(<<Read(q.doc, {}, {}), Write(q.doc, Adding({q.ref}))>>)>>
RouteTrace(q) == <<Guarded(q.doc, AddTracks({q.ref}))>>
RoutePadToPad(q) == <<Guarded(q.doc, GetItems({q.ref}, {}) \o GetItems({q.ref}, {}) \o AddTracks({q.to}))>>
AddViaTool(q) == <<Guarded(q.doc, AddVia(q.ref))>>
AddCopperPour(q) == <<File(<<Read(q.doc, {}, {}), Write(q.doc, Adding({q.ref}))>>)>>
DeleteTrace(q) == <<Guarded(q.doc, DeleteTrack(q.ref))>>
QueryTraces(q) == <<Guarded(q.doc, GetTracks)>>
GetNetsList(q) == <<Guarded(q.doc, GetNets)>>
ModifyTrace(q) == <<Guarded(q.doc, ReplaceTrack(q.ref, q.to))>>
RouteDiffPair(q) == <<Guarded(q.doc, AddTracks({q.ref, q.to}))>>

\* The project's settings are read, changed and written back as one document;
\* a class that exists is changed, one that does not is added.
CreateNetclass(q) == <<File(<<Read(Project, {}, {}), Write(Project, Edit({q.ref}, {}, {q.ref}, "val"))>>)>>
AssignNetToClass(q) == <<File(<<Read(Project, {q.ref}, {}), Write(Project, Edit({q.to}, {}, {q.to}, "val"))>>)>>

\* pcb_board.rs.  Outlines, texts and logos are created in KiCad, or appended
\* to the file when KiCad is out of reach.
DrawOrAppend(q) == <<Job(<<Ensure(q.doc)>> \o CreateItems({q.ref}), "answer", "fallback"), InsertIntoBoard(q.doc, {q.ref})>>
SetBoardSize(q) == DrawOrAppend(q)
AddBoardOutline(q) == DrawOrAppend(q)
AddBoardText(q) == DrawOrAppend(q)
ImportSvgLogo(q) == DrawOrAppend(q)
GetBoardExtentsTool(q) == <<Job(<<Ensure(q.doc)>> \o GetBoardExtents, "answer", "next"), File(<<Read(q.doc, {}, {})>>)>>
AddLayer(q) == <<File(<<Read(q.doc, {}, {q.ref}), Write(q.doc, Adding({q.ref}))>>)>>
SetActiveLayerTool(q) == <<Guarded(q.doc, SetActiveLayer \o GetActiveLayer)>>
AddMountingHole(q) == <<InsertIntoBoard(q.doc, {q.ref})>>
AddZone(q) == <<InsertIntoBoard(q.doc, {q.ref})>>

\* pcb_export.rs and project.rs.  Saving does not wait for its turn.
RefillZonesTool(q) == <<Guarded(q.doc, RefillZones)>>
SaveProject(q) == <<Direct(SaveOpenDocument)>>
=============================================================================
