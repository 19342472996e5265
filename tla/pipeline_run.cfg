SPECIFICATION FairSpec
CONSTANTS
    Ingest = {"rss", "web"}
    Generations = 2
    OthersDrain = FALSE
    ClassifyOn = TRUE
    ReportOn = TRUE
    Outcomes = {"blocked", "parked"}
    ChainFails = FALSE
    UserOps = {"retry", "cancel", "skip", "cancel_run"}
    Budget = 1
INVARIANTS
    InputsStay
    FollowupDue
PROPERTIES
    IngestIsCombined
    ChainGoesOn
    RunSettles
CHECK_DEADLOCK FALSE
