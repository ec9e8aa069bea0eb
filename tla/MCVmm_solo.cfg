\* Allocation and release, one thread at a time.
CONSTANTS
    Thread = {t1, t2}
    BITS = 3
    LENGTH = 3
    PTES = 4
    TABLES = 2
    KernPages = 2
    SysBytes = 1
    RunPages = 2
    NFrames = 4
    t1 = t1
    t2 = t2
SPECIFICATION SoloSpec
SYMMETRY Symmetry
INVARIANTS PageExclusive BitmapAccurate FrameExclusive UserPagesPrivate ReleasedGone
CHECK_DEADLOCK FALSE
