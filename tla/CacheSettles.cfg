SPECIFICATION FairSpec
CONSTANTS
    k1 = k1  k2 = k2  k3 = k3
    c1 = c1  c2 = c2  c3 = c3
    Keys = {k1, k2, k3}
    Calls = {c1, c2, c3}
    Texts <- Overlapping
    MaxEntries = 2
    NoCall = NoCall
CHECK_DEADLOCK FALSE
INVARIANTS
    TypeOK
    OneRequest
    FlightHasOwner
    CallsEndWell
    LeastRecentIsEvicted
PROPERTIES
    EveryCallEnds
