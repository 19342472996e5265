SPECIFICATION FairSpec
CONSTANTS
    k1 = k1
    k2 = k2
    k3 = k3
    k4 = k4
    Kids = {k1, k2}
    LastStage = 2
    StageOf <- Chain
    Lenient = FALSE
    Outcomes = {"succeeded"}
    MayFinishEarly = FALSE
    MayFail = FALSE
    OtherDrains = TRUE
    OtherSkips = FALSE
    UserOps = {}
    Budget = 0
PROPERTIES
    NodeResumes
CHECK_DEADLOCK FALSE
