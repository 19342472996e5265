SPECIFICATION Spec
CONSTANTS
    StoreTasks = {"q1", "q2"}
    StoreGroups = {"g1"}
    StoreKeyed = {"q1", "q2"}
    StoreLimit = 1
    Unrecoverable = {"q1"}
    Uncheckpointed = {"q2"}
    StoreDeps <- OneMayDepend
    StoreRenewed = {"q1"}
    StoreRestarts = 1
    ViewTasks = {"v1", "v2"}
    ViewSteps = {"s1", "s2"}
    StepOf <- TwoSteps
    Stages = {"p1", "p2"}
    StageOf <- OneStage
    Disabled = {"p2"}
    ViewCommands = 3
    Emitters = {"t1", "t2"}
    EventTypes = {"pipeline_start"}
    TaskThreads = {"t1"}
    Streams = {"w1", "w2"}
    LogSize = 1
    InboxSize = 1
    EmitLimit = 2
    ClearLimit = 1
INVARIANTS
    ImageIsCurrent
    ReadersAgree
    ViewsAgree
    StreamsMissNothing
CHECK_DEADLOCK FALSE
