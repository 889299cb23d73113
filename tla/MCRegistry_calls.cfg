SPECIFICATION FairSpec
CONSTANTS
    c1 = c1
    c2 = c2
    inner = inner
    tenant = tenant
    user = user
    tenantKey = tenantKey
    userKey = userKey
    otherKey = otherKey
    Nil = Nil
    Call = {c1, c2, inner}
    Inner <- MCInner
    Field = {tenant, user}
    Entry <- MCEntry
    Op <- MCOp
INVARIANTS
    TypeOK
    NoRace
    HonestRefusal
PROPERTIES
    Linear
    CallsReturn
