\* Two callers and the user; every tool in turn beside one that competes with it.
SPECIFICATION FairSpec
CONSTANTS
    NoDoc = NoDoc
    Project = Project
    Root = Root
    User = User
    b1 = b1
    b2 = b2
    s1 = s1
    s2 = s2
    s3 = s3
    lib = lib
    c1 = c1
    c2 = c2
    Callers <- MCCallers
    Boards <- MCBoards
    Sheets <- MCSheets
    Files <- MCFiles
    Days <- MCDays
    MaxFaults = 1
    MaxMoves = 2
PROPERTIES
    EditsStay
    CommitsHold
    CallsAnswered
CHECK_DEADLOCK FALSE
