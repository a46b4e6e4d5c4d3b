SPECIFICATION Spec
CONSTANTS
    Users = {u1}
    Devices = {d1}
    Refreshers = {r1, r2}
    Revokers = {v1}
    MaxJti = 2
    MaxTime = 4
    AccessTTL = 1
    BaseTTL = 3
    ExtendTTL = 1
    MaxTTL = 4
    Leeway = 1
    FlagTTL = 3
    AttemptWindow = 1
    MaxAttempts = 1
SYMMETRY Symmetry
INVARIANTS
    RevokedPairsStayOut
    FlaggedForCause
    SweptStayDead
    TypeOK
    LateRequestsRefused
PROPERTY RefreshKeysLifecycle
CHECK_DEADLOCK FALSE
