SPECIFICATION Spec
CONSTANTS
    Clients = {c1, c2}
    Nobody = nobody
    NBuckets = 2
    f = f
    junk = junk
    Junk = junk
    Requests <- MCRequests
    Dim = 1
    ShardCount = 2
    MaxId = 12
    ShardOf <- MCShardOf
    OtherIds = {12}
    MaxOthers = 1
CHECK_DEADLOCK FALSE
INVARIANTS
    CountsAddUp
    PercentilesSound
    NothingOutlivesServer
    AutoIdsDistinct
    AnswersHold
PROPERTIES
    EveryoneAnswered
    StopReturns
