SPECIFICATION RingSpec
CONSTANTS
    Keys <- MCKeys
    Positions = {0, 1, 2, 3, 4, 5, 6}
    VirtualNodes = 2
    MaxShards = 3
CHECK_DEADLOCK FALSE
PROPERTIES
    OnlyNewShardGains
    MovesOnlyFromAffected
