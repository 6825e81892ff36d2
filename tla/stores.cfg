\* Five keys over a ledger of two; five runs in a journal of three lines and two
\* image sets, two appends cut short; five artefacts over a store of three;
\* three callers that restrict the mode; three tasks in a store of two; two clients with
\* three requests, one broken connection and toolsets loaded for a call.
SPECIFICATION StoresSpec
CONSTANTS
    k1 = k1
    k2 = k2
    k3 = k3
    k4 = k4
    k5 = k5
    answer = answer
    Ids <- FiveIds
    Results = {answer}
    Unknown = Unknown
    InFlight = InFlight
    Capacity = 2
    s1 = s1
    r1 = r1
    r2 = r2
    r3 = r3
    r4 = r4
    r5 = r5
    Servers = {s1}
    Runs <- FiveRuns
    NoRun = NoRun
    ImageFiles <- Images
    MaxEntries = 3
    MaxImageSets = 2
    MaxImageBytes = 3
    MaxEntryBytes = 2
    MaxStops = 2
    Kinds = {"diff", "evidence"}
    Sizes = {0, 1, 2, 5}
    EntryCapacity = 3
    MaxBytes = 4
    MaxPuts = 5
    Callers = {1, 2, 3}
    Start = "experimental"
    Constraints = {"rf", "clock"}
    StoreCapacity = 2
    MaxList = 1
    MaxTasks = 3
    Clients = {"a", "b"}
    Toolsets <- AllToolsets
    Tools <- AllTools
    ToolsOf <- OfToolset
    Starter = {"pcb"}
    StarterTools = {"wire"}
    Allowed = {"wire", "route"}
    AutoLoad = TRUE
    Requests <- Asks
    NoRequest = NoRequest
    Buffer = 1
    MaxRequests = 3
    MaxDrops = 1
INVARIANTS
    StoresOK
    ModeInv
    SessionOK
    StaleClientsHear
    TornLinesCostOne
PROPERTIES
    InFlightNeverForgotten
    BudgetHolds
    ClientsConverge
CHECK_DEADLOCK FALSE
