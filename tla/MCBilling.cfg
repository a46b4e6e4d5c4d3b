SPECIFICATION FairSpec
CONSTANTS
    None = None
    Events = {e1, e2}
    Deliveries = {w1, w2, w3}
    Readers = {g1}
    Crashes = TRUE
INVARIANTS
    TypeOK
    AckedOnce
    LagHasCause
    CacheIsCommitted
PROPERTIES
    StaleEnds
    Answered
CHECK_DEADLOCK FALSE
