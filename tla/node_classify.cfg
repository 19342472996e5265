SPECIFICATION PartsSpec
CONSTANTS
    k1 = k1
    k2 = k2
    k3 = k3
    k4 = k4
    Kids = {k1, k2, k3}
    LastStage = 2
    StageOf <- Fork
    Lenient = FALSE
    Outcomes = {"succeeded", "failed"}
    MayFinishEarly = FALSE
    MayFail = FALSE
    OtherDrains = TRUE
    OtherSkips = TRUE
    UserOps = {"retry", "cancel", "skip", "retry_node", "cancel_node", "skip_node"}
    Budget = 3
    Seconds = 3
    Publishers = {"node", "user"}
    RepairOps = {"create", "retry", "delete", "enable", "remove", "restart"}
    RepairBudget = 1
    Feeds = {"f1"}
    Nows = {"n1", "n2"}
    Sites = {"a", "b"}
    Seeds = {"f1", "n1", "n2"}
    KnownSites = {"a"}
    OtherColumn = {"n2"}
    CacheFile <- CacheFiles
    ConfigWriters = {"c1"}
    ConfigOps = {"add", "disable", "delete", "enabled", "restore", "include_all"}
    ConfigBudget = 2
CONSTRAINT
    Uncrossed
SYMMETRY FirstTwo
INVARIANTS
    WholeGroups
    ResultsKept
    ActiveIsIngested
    SourcesAccounted
PROPERTIES
    LiveIsAccepted
    ReplacedIsKept
CHECK_DEADLOCK FALSE
