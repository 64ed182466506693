CONSTANTS
    p1 = p1
    p2 = p2
    d1 = d1
    d2 = d2
    Process = {p1, p2}
    Delivery = {d1, d2}
    Lifecycle = {d2}
    None = None
    MaxAttempts = 2
    MaxJobs = 1
    MaxPending = 1
    MaxRearms = 0
    Scene <- HandoverOrNobody
    Thread = {1, 2, 3}
    Job = {1, 2, 3}
    OrgOf <- MCOrgOf
    EventLimit = 2
    Works <- MCWorks
SPECIFICATION MCSpec
SYMMETRY Symmetry
INVARIANTS TypeOK SlotsMatchTasks ClaimsBounded
INVARIANTS  CirclesNeedLedger
CHECK_DEADLOCK FALSE
