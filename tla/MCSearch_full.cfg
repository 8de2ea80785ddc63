SPECIFICATION FairSpec
CONSTANTS
    ShardCount = 2
    Vectors <- MCVectors
    Owner <- MCOwner
    Dist <- MCDist
    TopK = 1
    Searches = {q1, q2}
CHECK_DEADLOCK FALSE
INVARIANTS
    MissingIsExplained
PROPERTY SearchReturns
