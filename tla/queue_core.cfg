CONSTANTS
    t1 = t1
    t2 = t2
    t3 = t3
    w1 = w1
    w2 = w2
    s1 = s1
    s2 = s2
    None = None
    Tasks = {t1, t2}
    Workers = {w1, w2}
    Sweepers = {}
    MaxPriority = 1
    PriorityOf <- MCPriorityOf
    MaxRetries = 2
    Delays = {0, 1}
    BackoffCap = 1
    Visibility = 1
    LeaseGrace = 0
    FlagGrace = 1
    TaskTTL = 2
    MaxTime = 2
    Outcomes = {"ok", "error"}
    MayFail = TRUE
SPECIFICATION Spec
INVARIANTS TypeOK ExclusiveOwner OneCopy QueuedOnTheWay
