SPECIFICATION Spec
CONSTANTS
    a = a
    b = b
    w1 = w1
    w2 = w2
    n1 = n1
    n2 = n2
    acme = acme
    Anon = Anon
    Nil = Nil
    Over = Over
    Service = {a, b}
    Work = {w1, w2}
    Span = {n1, n2}
    Identity = {acme}
    Targetings <- MCTargetings
SYMMETRY Symmetry
INVARIANTS
    TypeOK
    KeepsBase
    OnlyForced
    NoHoles
    TargetedWorkSeen
