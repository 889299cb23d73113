SPECIFICATION FairSpec
CONSTANTS
    c1 = c1
    c2 = c2
    a1 = a1
    a2 = a2
    tenant = tenant
    user = user
    v1 = v1
    Nil = Nil
    Caller <- MCCaller
    Activation <- MCTwo
    Config <- MCConfig
    Registered <- MCRegistered
    Horizon = 1
PROPERTIES
    EventuallyOff
