SPECIFICATION Spec
CONSTANTS
    Kids = {k1, k2}
    Processes = {p1, p2}
    Hosts = {p1}
    TTL = 2
    FetchTime = 1
    None = None
    Static = k1
    MaxTime = 4
INVARIANTS
    TypeOK
    AcceptedWasListed
    LongListedIsKnown
CHECK_DEADLOCK FALSE
