SPECIFICATION Spec
CONSTANTS
    Payloads <- const_Payloads
    MaxHistory = 3
    Warmup = 4
    TouchLoss <- const_TouchLoss
    MaxCount = 7
INVARIANTS
    TypeOK
    SteadyDevice
    LockIsRare
