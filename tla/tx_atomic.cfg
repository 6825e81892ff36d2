\* Machine restarts are the only fault: transactions are atomic.
SPECIFICATION Spec
CONSTANTS
    p1 = p1
    p2 = p2
    v0 = v0
    v1 = v1
    v2 = v2
    vx = vx
    NoProc = NoProc
    Absent = Absent
    NoTxn = NoTxn
    NoChange = NoChange
    NoRequest = NoRequest
    Procs <- TwoProcs
    Files <- TwoFiles
    Schematics <- None
    Contents = {v0, v1, v2}
    Txns = {1, 2, 3}
    Requests <- AtomicRequests
    Saves <- None
    Disks <- Start0
    Edits <- None
    Damageable = {}
    MaxStops = 0
    MaxHalts = 2
    MaxEdits = 0
SYMMETRY Symmetry
INVARIANTS
    Recoverable
PROPERTIES
    ImplementsAtomicStore
