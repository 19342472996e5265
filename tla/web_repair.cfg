SPECIFICATION Spec
CONSTANTS
    s1 = s1
    Sources = {s1}
    Rounds = 2
    Slots = 1
    Threshold = 1
    RepairEnabled = TRUE
    Failures = {"parse"}
    MayRaise = {}
    OtherDrains = FALSE
    OtherSkips = FALSE
    UserOps = {}
    Budget = 0
PROPERTIES
    SkippedAtRest
CHECK_DEADLOCK FALSE
