\* Calls of library functions end.
SPECIFICATION StringsSpec
CONSTANTS
    MEM = 4
    BYTE = 3
    COUNT = 3
INVARIANT UnequalIsNegative
CHECK_DEADLOCK FALSE
