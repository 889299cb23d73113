SPECIFICATION Spec
CONSTANTS
    p1 = p1
    p2 = p2
    r1 = r1
    r2 = r2
    tenant = tenant
    user = user
    v1 = v1
    Nil = Nil
    Pod = {p1, p2}
    Request = {r1, r2}
    Body <- MCBodies
    Registered <- MCRegistered
    ProtocolVersion = 0
    MaxTTL = 3
    MaxMatchAllTTL = 1
    Horizon = 1
CHECK_DEADLOCK FALSE
SYMMETRY MCSymmetry
INVARIANTS
    TypeOK
    VersionFirst
    BoundedExposure
    NeverWider
    OwnAnswer
