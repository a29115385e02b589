SPECIFICATION FairSpec
CONSTANTS
    n1 = n1
    n2 = n2
    n3 = n3
    None = None
    Nodes = {n1, n2}
    Strategies = {"lease", "redis", "kubernetes"}
    TTL = 2
    MaxLate = 1
    MaxWrong = 1
    MaxStops = 2
INVARIANTS TypeOK SingleLeader CommittedHolds
PROPERTIES Converges TakenOver
