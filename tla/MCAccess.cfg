SPECIFICATION Spec
CONSTANTS
    Requests = {r1, r2}
    Contents <- AnyStatus
    Limit <- OneEach
    Window = 2
    TrialLength = 0
    FlagTTL = 1
    MaxTime = 3
SYMMETRY Symmetry
INVARIANTS
    TypeOK
    TrialStartsOnce
    AdmittedEntitled
    FlagsBar
    WindowHolds
CHECK_DEADLOCK FALSE
