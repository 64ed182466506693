CONSTANTS
    p1 = p1
    p2 = p2
    a1 = a1
    a2 = a2
    r1 = r1
    u1 = u1
    u2 = u2
    i1 = i1
    i2 = i2
    v1 = v1
    v2 = v2
    g1 = g1
    g2 = g2
    t1 = t1
    t2 = t2
    Repository = {g1}
    Connector = {t1}
    User = {u1, u2}
    Founder = u1
    Invitation = {i1, i2}
    Visitor = {v1, v2}
    Nothing = Nothing
    InviteDays = 1
    Project = {p1, p2}
    Analysis = {a1, a2}
    Request = {r1}
    Rules = {"lax", "strict"}
    None = None
    Plan = {"free", "pro", "team"}
    Entitled <- MCEntitled
    Batch = 1
    Bounds <- MCBounds
SPECIFICATION Spec
CHECK_DEADLOCK FALSE
INVARIANT DeliveryPolicyWasInForce
