\* Two commits of different files and nothing fails.
SPECIFICATION Spec
CONSTANTS
    p1 = p1
    p2 = p2
    v0 = v0
    v1 = v1
    v2 = v2
    vx = vx
    NoProc = NoProc
    Absent = Absent
    NoTxn = NoTxn
    NoChange = NoChange
    NoRequest = NoRequest
    Procs <- TwoProcs
    Files <- TwoFiles
    Schematics <- None
    Contents = {v0, v1, v2}
    Txns = {1, 2}
    Requests <- ApartRequests
    Saves <- None
    Disks <- Start0
    Edits <- None
    Damageable = {}
    MaxStops = 0
    MaxHalts = 0
    MaxEdits = 0
SYMMETRY Symmetry
INVARIANTS
    NoMissingJournal
