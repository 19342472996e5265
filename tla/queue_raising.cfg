SPECIFICATION Spec
CONSTANTS
    t1 = t1
    t2 = t2
    t3 = t3
    t4 = t4
    c1 = c1
    c2 = c2
    k1 = k1
    NoThread = none
    NoKey = nokey
    Tasks = {t1, t2, t3}
    Callers = {c1, c2}
    Slots = 2
    Keys = {k1}
    KeyOf <- MCKeyOf
    Limit <- MCLimit
    PoolCap = 2
    Deps <- MCDeps
    Rank <- MCRank
    MaxAttempts <- TwoAttempts
    Backoff = {t1}
    Outcomes <- Fallible
    SafeSkip = {}
    Renewed = {t2}
    HandlersMayRaise = TRUE
    Initial = {t1, t2, t3}
    CallerOps = {"register", "drain", "retry", "skip"}
    Limits = {}
    Budget = 1
SYMMETRY CallerSymmetry
INVARIANTS
    ConcurrencyLimit
    OneRunPerTask
    AttemptBudget
    SomebodyWorks
PROPERTIES
    LeftReadyOnly
CHECK_DEADLOCK FALSE
