SPECIFICATION Spec
CONSTANTS
    t1 = t1
    t2 = t2
    t3 = t3
    t4 = t4
    c1 = c1
    c2 = c2
    k1 = k1
    NoThread = none
    NoKey = nokey
    Tasks = {t1, t2, t3, t4}
    Callers = {c1, c2}
    Slots = 2
    Keys = {k1}
    KeyOf <- ChainKeyOf
    Limit <- MCLimit
    PoolCap = 2
    Deps <- ChainDeps
    Rank <- ChainRank
    MaxAttempts <- TwoAttempts
    Backoff = {}
    Outcomes <- Blockable
    SafeSkip = {t2}
    Renewed = {t4}
    HandlersMayRaise = FALSE
    Initial = {t1}
    CallerOps = {"register", "drain", "cancel", "retry", "skip"}
    Limits = {1}
    Budget = 2
SYMMETRY CallerSymmetry
INVARIANTS
    DependenciesSucceeded
PROPERTIES
    ImplementsTaskPool
CHECK_DEADLOCK FALSE
