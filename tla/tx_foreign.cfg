\* Another application writes a target or damages a journal; every call returns all the same.
SPECIFICATION FairSpec
CONSTANTS
    p1 = p1
    p2 = p2
    v0 = v0
    v1 = v1
    v2 = v2
    vx = vx
    NoProc = NoProc
    Absent = Absent
    NoTxn = NoTxn
    NoChange = NoChange
    NoRequest = NoRequest
    Procs <- TwoProcs
    Files <- TwoFiles
    Schematics <- None
    Contents = {v0, v1, v2, vx}
    Txns = {1, 2}
    Requests <- ForeignRequests
    Saves <- CoreSaves
    Disks <- Start0
    Edits <- ForeignContents
    Damageable = {1}
    MaxStops = 1
    MaxHalts = 0
    MaxEdits = 1
PROPERTIES
    AbandonedOnlyWhenDivergent
    CallsReturn
