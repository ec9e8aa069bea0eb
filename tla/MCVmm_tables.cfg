\* More directory entries than different page tables.
CONSTANTS
    Thread = {t1}
    BITS = 2
    LENGTH = 4
    PTES = 2
    TABLES = 2
    KernPages = 1
    SysBytes = 1
    RunPages = 2
    NFrames = 4
    t1 = t1
SPECIFICATION SoloSpec
INVARIANT ImageStays
CHECK_DEADLOCK FALSE
