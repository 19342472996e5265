SPECIFICATION FairSpec
CONSTANTS
    k1 = k1
    k2 = k2
    k3 = k3
    k4 = k4
    Kids = {k1, k2}
    LastStage = 2
    StageOf <- Chain
    Lenient = FALSE
    Outcomes = {"succeeded", "failed", "blocked"}
    MayFinishEarly = FALSE
    MayFail = TRUE
    OtherDrains = FALSE
    OtherSkips = FALSE
    UserOps = {"retry", "cancel"}
    Budget = 3
INVARIANTS
    WakeUpDue
PROPERTIES
    NodeResumes
    NodeEnds
CHECK_DEADLOCK FALSE
