SPECIFICATION Spec
CONSTANTS
    app = app
    lib = lib
    bad = bad
    limelight = limelight
    a1 = a1
    a2 = a2
    l1 = l1
    b1 = b1
    b2 = b2
    r1 = r1
    s1 = s1
    s2 = s2
    Unknown = Unknown
    Original = Original
    Nil = Nil
    Package = {app, lib}
    Runtime = limelight
    Sources <- MCSources
    Content <- MCContentPlain
    Base <- MCBase
    Importable = {app, bad}
    Shim = {s1, s2}
    HashMayFail = TRUE
INVARIANTS
    CacheFresh
