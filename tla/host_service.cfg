CONSTANTS
    Calls = {"first", "export", "other"}
    Accounts = {"A", "B"}
    Of <- MCOf
    Graph <- MCGraph
    Exports = {"export"}
    HostGate = "host"
    Cap <- MCCap
    BuildsKept = 2
    Windows = {w1}
    MaxRevision = 2
    MaxReports = 2
    Paths = {"a", "b", "c"}
    Releases <- MCReleases
    Earlier = {"b", "c"}
    MaxOps = 2
    MaxStops = 2
    MaxFailed = 1
    ScriptCalls = {"a", "b", "d"}
    ImportedParts = {"screw", "nut"}
    Impure = {"clock"}
    Costly = {"heavy"}
    CacheBytes = 3
    MaxSaves = 1
    TabCalls = {"a", "b", "save"}
    TabPlan <- MCTabPlan
    TabSaves = {"save"}
    Cached = {"build", "print"}
    KernelRounds = 5
    AnswersKept = 2
    MaxTrouble = 2
SPECIFICATION HostSpec
CHECK_DEADLOCK FALSE
INVARIANTS GatesAreFair RightBuild ReportsStand FolderStands KeptResults ReadsThisCall TicketsStand
PROPERTIES ReportsSettle DeletedStaysDeleted CallsEnd SavesLast
