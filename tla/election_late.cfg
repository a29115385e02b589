SPECIFICATION FairSpec
CONSTANTS
    n1 = n1
    n2 = n2
    n3 = n3
    None = None
    Nodes = {n1, n2}
    Strategies = {"redis"}
    TTL = 2
    MaxLate = 1
    MaxWrong = 0
    MaxStops = 0
PROPERTIES SplitBrainHeals
