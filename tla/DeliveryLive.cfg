CONSTANTS
    p1 = p1
    p2 = p2
    d1 = d1
    d2 = d2
    Process = {p1, p2}
    Delivery = {d1, d2}
    Lifecycle = {d2}
    None = None
    MaxAttempts = 2
    MaxJobs = 1
    MaxPending = 2
    MaxRearms = 1
    Scene <- Serving
SPECIFICATION FairSpec
PROPERTY DeliverySettles
CHECK_DEADLOCK FALSE
