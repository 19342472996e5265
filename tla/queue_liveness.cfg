SPECIFICATION FairSpec
CONSTANTS
    t1 = t1
    t2 = t2
    t3 = t3
    t4 = t4
    c1 = c1
    c2 = c2
    k1 = k1
    NoThread = none
    NoKey = nokey
    Tasks = {t1, t2, t3}
    Callers = {c1, c2}
    Slots = 3
    Keys = {k1}
    KeyOf <- MCKeyOf
    Limit <- MCLimit
    PoolCap = 2
    Deps <- MCDeps
    Rank <- MCRank
    MaxAttempts <- OneAttempt
    Backoff = {}
    Outcomes <- Fallible
    SafeSkip = {}
    Renewed = {}
    HandlersMayRaise = FALSE
    Initial = {}
    CallerOps = {"submit", "retry"}
    Limits = {}
    Budget = 2
INVARIANTS
    QuiescentIsSettled
CHECK_DEADLOCK FALSE
PROPERTIES
    EveryTaskEnds
    EveryCallReturns
