\* Two connections, retries while the first try runs, a client that goes away, a failure.
SPECIFICATION Spec
CONSTANTS
    s1 = s1
    s2 = s2
    k1 = k1
    k2 = k2
    t1 = t1
    t2 = t2
    t3 = t3
    t4 = t4
    Tasks <- TwoTasks
    Docs <- TwoDocs
    Texts = {t1, t2, t3, t4}
    Absent = Absent
    Foreign = Foreign
    Ids <- TwoIds
    NoId = NoId
    Unknown = Unknown
    InFlight = InFlight
    Capacity = 2
    Requests <- HttpRequests
    NoBase = NoBase
    Disks <- Start0
    MaxReceived = 3
    MaxDrops = 1
    MaxFails = 1
    MaxEdits = 0
SYMMETRY Symmetry
INVARIANTS
    OneRunPerKey
    NoDoubleApply
PROPERTIES
    AnswersStable
CHECK_DEADLOCK FALSE
