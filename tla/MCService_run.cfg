SPECIFICATION Spec
CONSTANTS
    abc = abc
    zzz = zzz
    Nil = Nil
    Program <- MCProgram
    Client = {c1}
    Value = {abc, zzz}
    Header <- MCHeader
    Config <- MCConfig
INVARIANTS
    TypeOK
    Ready
    EveryTargetedLine
    TrueLine
PROPERTIES
    Confined
