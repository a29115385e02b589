SPECIFICATION RouterSpec
CONSTANTS
    p1 = p1
    p2 = p2
    m1 = m1
    m2 = m2
    r1 = r1
    None = None
    Providers = {p1, p2}
    Callers = {}
    FailureThreshold = 1
    RecoveryTimeout = 0
    HalfOpenQuota = 1
    MayReload = TRUE
    MaxFlips = 0
    MaxSlips = 0
    Models = {m1, m2}
    Requests = {r1}
    Tasks <- MCOneTask
    CandidatesOf <- MCCandidatesOf
    Variants = {}
    Kinds = {"stream"}
    MaxAttempts = 2
    AnswerLength = 1
    RebalanceAfter = 0
    MayCancel = FALSE
INVARIANTS FallbacksAnnounced
