\* Two callers, a call cut short, an editor that opens and closes the schematic.
SPECIFICATION Spec
CONSTANTS
    p1 = p1
    p2 = p2
    v0 = v0
    v1 = v1
    v2 = v2
    vx = vx
    NoProc = NoProc
    Absent = Absent
    NoTxn = NoTxn
    NoChange = NoChange
    NoRequest = NoRequest
    Procs <- TwoProcs
    Files <- TwoFiles
    Schematics <- OneSchematic
    Contents = {v0, v1, v2}
    Txns = {1, 2}
    Requests <- CoreRequests
    Saves <- CoreSaves
    Disks <- Start0
    Edits <- None
    Damageable = {}
    MaxStops = 1
    MaxHalts = 0
    MaxEdits = 0
SYMMETRY Symmetry
INVARIANTS
    IInv
    WritersExclusive
    NoCircularWait
PROPERTIES
    NoKonnectWriteLost
    JournalsLead
