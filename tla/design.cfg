\* A user who saves the schematic, edits the board and routes it twice, one refusal of
\* KiCad; two editors of one schematic, three commits and a save from Eeschema; five
\* operations on the sheets of three files; two calls on the objects of a sheet that is saved
\* from Eeschema as well; four calls on the wires of a sheet of one symbol or two.
SPECIFICATION DesignSpec
CONSTANTS
    r = r
    h = h
    n1 = n1
    n2 = n2
    NoNet = NoNet
    NoFootprint = NoFootprint
    NoPath = NoPath
    Schematics <- MCSchematics
    StartBoards <- MCStartBoards
    WithPad = {r}
    WithoutPad = {h}
    MaxMoves = 2
    MaxFaults = 1
    a = a
    b = b
    s = s
    v1 = v1
    v2 = v2
    Editors = {e1, e2}
    Documents <- MCDocuments
    NewIds = {n1}
    Values = {v1, v2}
    Paths = {h}
    NoId = NoId
    Absent = Absent
    MaxCommits = 3
    MaxSaves = 1
    A = A
    B = B
    Main = Main
    sub1 = sub1
    sub2 = sub2
    Files = {Main, sub1, sub2}
    Root = Main
    Labels = {A, B}
    SheetIds = {1, 2, 3}
    Projects <- MCProjects
    Missing = Missing
    MaxSteps = 5
    Points <- MCPoints
    StartPins <- MCStartPins
    Places <- MCPlaces
    Nets = {"A"}
    Rails = {"B"}
    NoName = NoName
    Slants = FALSE
    MaxWires = 3
    MaxLabels = 3
    MaxCalls = 4
    Processes = {p1, p2}
    Libraries = {"Device", "power"}
    Shelf <- MCShelf
    Starts <- MCStarts
    Power = "power"
    Folded <- MCFolded
    Toggled <- MCToggled
    Asks <- MCAsks
    NotInstalled = NotInstalled
    Nothing = Nothing
    MaxChanges = 2
    Handlers = {h1, h2}
    Drawings <- MCDrawings
    ObjectCalls <- MCObjectCalls
    NoCall = NoCall
    NoRef = NoRef
    MaxObjectCalls = 2
    MaxRedraws = 1
INVARIANTS
    PagesInOrder
    RewritesAreSole
    SyncHolds
PROPERTIES
    BoardPreserved
    CommandsHold
    WiringHolds
    ObjectsHold
SYMMETRY MCSymmetry
CHECK_DEADLOCK FALSE
