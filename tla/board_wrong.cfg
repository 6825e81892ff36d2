\* Two boards are open in KiCad, the one the call names behind the other.
SPECIFICATION Spec
CONSTANTS
    NoDoc = NoDoc
    Project = Project
    Root = Root
    User = User
    b1 = b1
    b2 = b2
    s1 = s1
    s2 = s2
    s3 = s3
    lib = lib
    c1 = c1
    c2 = c2
    Callers <- MCCallers
    Boards <- MCBoards
    Sheets <- MCSheets
    Files <- MCFiles
    Days <- MoveDay
    MaxFaults = 0
    MaxMoves = 0
PROPERTIES
    EditsTheNamedBoard
CHECK_DEADLOCK FALSE
