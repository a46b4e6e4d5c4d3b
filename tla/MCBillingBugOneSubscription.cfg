SPECIFICATION Spec
CONSTANTS
    None = None
    Events = {e1, e2}
    Deliveries = {w1, w2}
    Readers = {}
    Crashes = FALSE
INVARIANTS
    OneSubscription
SYMMETRY Symmetry
CHECK_DEADLOCK FALSE
