SPECIFICATION Spec
CONSTANTS
    Vectors = {0, 1, 11, 2, 6}
    Dist <- MCDist
    MaxLayers = 2
    M = 2
    MMax0 = 2
    EfConstruction = 3
CHECK_DEADLOCK FALSE
INVARIANTS
    GraphShape
    NobodyStuck
    ResultIsLocalMinimum
    WideSearchIsExact
    DistancesComputed
PROPERTY GraphSpec
