\* One task, failures everywhere, edits by another application; every key comes free again.
SPECIFICATION FairSpec
CONSTANTS
    s1 = s1
    s2 = s2
    k1 = k1
    k2 = k2
    t1 = t1
    t2 = t2
    t3 = t3
    t4 = t4
    Tasks <- OneTask
    Docs <- TwoDocs
    Texts = {t1, t2, t3, t4}
    Absent = Absent
    Foreign = Foreign
    Ids <- TwoIds
    NoId = NoId
    Unknown = Unknown
    InFlight = InFlight
    Capacity = 2
    Requests <- StdioRequests
    NoBase = NoBase
    Disks <- Start0
    MaxReceived = 4
    MaxDrops = 0
    MaxFails = 2
    MaxEdits = 1
INVARIANTS
    UndoneStaysUndone
PROPERTIES
    BatchAtomic
    KeysComeFree
CHECK_DEADLOCK FALSE
