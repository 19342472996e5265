SPECIFICATION FairSpec
CONSTANTS
    s1 = s1
    Sources = {s1}
    Rounds = 2
    Slots = 1
    Threshold = 2
    RepairEnabled = TRUE
    Failures = {"network", "parse", "missing"}
    MayRaise = {"scrape", "exec", "repair", "finish"}
    OtherDrains = FALSE
    OtherSkips = TRUE
    UserOps = {"retry", "cancel", "skip"}
    Budget = 2
INVARIANTS
    RoundsInOrder
    NoScrapeDuringRepair
    NothingLeftBehind
    SourceIsHeard
PROPERTIES
    SucceedsWithItems
    SourceEnds
CHECK_DEADLOCK FALSE
