SPECIFICATION Spec
CONSTANTS
    g1 = g1
    tagged = tagged
    plain = plain
    acme = acme
    acme2 = acme2
    half = half
    none = none
    tenant = tenant
    user = user
    region = region
    tenantKey = tenantKey
    userKey = userKey
    regionKey = regionKey
    byTenant = byTenant
    byShadow = byShadow
    byUser = byUser
    byRegion = byRegion
    num7 = num7
    str7 = str7
    bob = bob
    eve = eve
    t7 = t7
    tBob = tBob
    tEve = tEve
    log = log
    span = span
    h1 = h1
    Nil = Nil
    Goroutine <- MCGoroutine
    Method <- MCMethod
    Names <- MCNames
    Context <- MCContext
    Field <- MCField
    Entry <- MCEntry
    Carries <- MCCarries
    Text <- MCText
    Config <- MCConfig
    Emitters <- MCEmitters
    Hook = {h1}
    Rebind = FALSE
INVARIANTS
    TypeOK
    TargetedOnly
    QuietForCause
    Agreement
    WholeEmitter
