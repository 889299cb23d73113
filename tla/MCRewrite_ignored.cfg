SPECIFICATION Spec
CONSTANTS
    Files <- MCFiles
INVARIANTS
    NoneIgnored
\* A file is rewritten once.
CHECK_DEADLOCK FALSE
