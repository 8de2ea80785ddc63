SPECIFICATION Spec
CONSTANTS
    f1 = f1
    f2 = f2
    Wide = 64
    Narrow = 16
    Group = 4
    Words <- MCWords
    Calls = {k1, k2}
    Scripts <- MCScripts
    Clients = {"p1", "p2"}
    BearerTokens = {"t1"}
    ShardCount = 2
    ShardOf <- MCShardOf
    Dim = 1
    Distance <- MCDistance
    Latencies <- MCLatencies
    Cost = 2
    Capacity = 3
    Refill = 1
    MaxTime = 1
    MaxAdmin = 1
SYMMETRY MCSymmetry
CHECK_DEADLOCK FALSE
INVARIANTS
    StreamStoredAsSent
    BulkCounts
    WrittenInFull
    AnswersLocate
    TotalWithinShards
