\* Two threads allocate at the same time.
CONSTANTS
    Thread = {t1, t2}
    BITS = 3
    LENGTH = 3
    PTES = 3
    TABLES = 3
    KernPages = 1
    SysBytes = 1
    RunPages = 2
    NFrames = 3
    t1 = t1
    t2 = t2
SPECIFICATION VmmSpec
SYMMETRY Symmetry
INVARIANT PageExclusive
CHECK_DEADLOCK FALSE
