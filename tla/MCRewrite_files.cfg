SPECIFICATION Spec
CONSTANTS
    Files <- MCFiles
INVARIANTS
    TypeOK
    Spliced
    Resolves
    FirstAnswered
\* A file is rewritten once.
CHECK_DEADLOCK FALSE
