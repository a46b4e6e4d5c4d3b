SPECIFICATION Spec
CONSTANTS
    Users = {u1}
    Devices = {d1}
    Refreshers = {r1, r2}
    Revokers = {v1}
    MaxJti = 3
    MaxTime = 6
    AccessTTL = 1
    BaseTTL = 3
    ExtendTTL = 1
    MaxTTL = 4
    Leeway = 1
    FlagTTL = 3
    AttemptWindow = 1
    MaxAttempts = 1
INVARIANT RotationConsumesToken
CHECK_DEADLOCK FALSE
