CONSTANTS
    t1 = t1
    t2 = t2
    t3 = t3
    w1 = w1
    w2 = w2
    s1 = s1
    s2 = s2
    None = None
    Tasks = {t1, t2, t3}
    Workers = {w1, w2}
    Sweepers = {}
    MaxPriority = 1
    PriorityOf <- MCPriorityOf
    MaxRetries = 1
    Delays = {0}
    BackoffCap = 1
    Visibility = 1
    LeaseGrace = 0
    FlagGrace = 1
    TaskTTL = 9
    MaxTime = 1
    Outcomes = {"ok", "error"}
    MayFail = FALSE
SPECIFICATION StreamSpec
INVARIANT NeverLost
PROPERTIES SettledStays EventuallySettled
