\* Three steps on the library tables of footprints or of symbols; a download of two libraries
\* with searches, or two downloads, with calls that fail, end or lose their clients; a
\* review, a package or an export of a design that is saved meanwhile; a viewer of two designs.
SPECIFICATION ProjectSpec
CONSTANTS
    Nicknames = {"A", "K", "P"}
    Locations = {"A", "own", "mine", "spare", "template"}
    Stock = {"A"}
    Shelf <- MCShelf
    Templates <- MCTemplates
    Uris <- MCUris
    Beside <- MCBeside
    Exported = FALSE
    Tables0 <- MCTables0
    NoParent = NoParent
    NoLibrary = NoLibrary
    MaxTableSteps = 3
    Downloads = {d1, d2}
    Searchers = {s1}
    Catalogues = {"basic", "all"}
    Chunks <- MCChunks
    NoDatabase = NoDatabase
    Garbage = Garbage
    MaxAttempts = 2
    Ttl = 1
    Longest = 1
    MaxFetches = 2
    MaxFiles = 3
    MaxTicks = 2
    MaxAsked = 2
    Callers = {c1}
    Runs = {r1, r2}
    Root = "main"
    Files = {"main", "sub"}
    Boards <- MCBoards
    Sheets <- MCSheets
    Broken = Broken
    Starts <- MCStarts
    Leftovers <- MCLeftovers
    Omissions = {{}, {"schematic_parity"}}
    NoFile = NoFile
    NoRun = NoRun
    Rails = {"VCC", "GND"}
    Grounds = {"GND"}
    NoName = NoName
    MaxSaves = 1
    MaxTimeouts = 1
    MaxReviews = 1
    Roots = {"a", "b"}
    SheetFiles = {"a", "b", "t"}
    DirOf <- MCDir
    Drawings <- MCDrawings
    Gone = Gone
    Nothing = Nothing
    MaxOpens = 2
    MaxEdits = 2
    MaxCommands = 2
    MaxMisfires = 1
INVARIANTS
    CatalogueHolds
    ReviewsHold
    ViewerHolds
PROPERTIES
    LibrariesHold
CHECK_DEADLOCK FALSE
