SPECIFICATION Spec
CONSTANTS
    p1 = p1
    p2 = p2
    c1 = c1
    c2 = c2
    None = None
    Providers = {p1}
    Callers = {c1}
    FailureThreshold = 2
    RecoveryTimeout = 1
    HalfOpenQuota = 2
    MayReload = FALSE
    MaxFlips = 2
    MaxSlips = 1
INVARIANTS OpenIsDisabled
