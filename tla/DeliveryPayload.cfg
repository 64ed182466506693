CONSTANTS
    p1 = p1
    p2 = p2
    d1 = d1
    d2 = d2
    Process = {p1, p2}
    Delivery = {d1, d2}
    Lifecycle = {d2}
    None = None
    MaxAttempts = 2
    MaxJobs = 2
    MaxPending = 1
    MaxRearms = 0
    Scene <- Alone
SPECIFICATION Spec
INVARIANT PayloadRetained
CHECK_DEADLOCK FALSE
