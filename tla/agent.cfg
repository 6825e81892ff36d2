\* An agent and a caller, two requests and two tasks over three documents.
SPECIFICATION FairAgentSpec
CONSTANTS
    Digits <- NoneOrNumbers
    Callers = {"agent", "caller"}
    Agents = {"agent"}
    Checked = {"sub"}
    Docs <- AllDocs
    Sheets <- Below
    Faults = {"fault"}
    Plans <- AllPlans
    Designs <- Start
    Absent = Absent
    NoDoc = NoDoc
    CacheCapacity = 2
    MaxTurns = 2
    Constraints = {}
    StoreCapacity = 1
    MaxList = 1
    MaxTasks = 2
INVARIANTS
    ReferencesResolve
    AnswersAreTrue
PROPERTIES
    TurnsEnd
CHECK_DEADLOCK FALSE
