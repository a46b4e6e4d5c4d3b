SPECIFICATION FairSpec
CONSTANTS
    Calls = {c1, c2}
    Addresses = {a1}
    Max = 2
    Window = 2
    FlagTTL = 1
INVARIANTS
    TypeOK
    RateHolds
    LockMeetsCaller
PROPERTIES
    RefusalEnds
