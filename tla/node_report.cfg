SPECIFICATION PartsSpec
CONSTANTS
    k1 = k1
    k2 = k2
    k3 = k3
    k4 = k4
    Kids = {k1, k2, k3, k4}
    LastStage = 2
    StageOf <- Wide
    Lenient = TRUE
    Outcomes = {"succeeded", "failed", "blocked"}
    MayFinishEarly = TRUE
    MayFail = FALSE
    OtherDrains = TRUE
    OtherSkips = FALSE
    UserOps = {}
    Budget = 0
    ChatCallers = {"chat1", "chat2"}
    EmbedCallers = {"embed1", "embed2"}
    Prompts = {"prompt"}
    Texts = {"text"}
    RetryAfter = 120
    CacheOn = TRUE
    MaxRetries = 2
    CallLimit = 1
    News = {0, 1, 2}
    BatchSize = 2
    MaxEvents = 3
    Profiles <- SixKinds
    PoolSize = 3
    SectionMax <- Limits
    Joins = 1
    ReportNodes = {"r1", "r2"}
    Selected <- OneSelected
    Watched = {}
    LlmChanges = 1
SYMMETRY FirstThree
INVARIANTS
    NewsKept
    CallsAreAccounted
    SectionsHold
PROPERTIES
    SourcesDemoteByTitle
    ReportIsWhole
    PolishEndsFirst
CHECK_DEADLOCK FALSE
