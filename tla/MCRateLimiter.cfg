SPECIFICATION RateSpec
CONSTANTS
    Clients = {c1, c2}
    Cost = 3
    Capacity = 7
    Refill = 2
    MaxTime = 4
INVARIANTS
    AdmissionBound
PROPERTIES
    AdmittedAfterPause
