SPECIFICATION Spec
CONSTANTS
    s1 = s1
    s2 = s2
    d1 = d1
    p1 = p1
    NoTask = NoTask
    Sockets = {s1, s2}
    Devices = {d1}
    DeviceOf <- OneDevice
    Publishers = {p1}
    RedisFails = FALSE
INVARIANTS
    ConnectedIsServed
CHECK_DEADLOCK FALSE
