CONSTANTS
    MaxOrder = 2
    NPages = 9
SPECIFICATION PmmSpec
INVARIANT HeldDisjoint
CHECK_DEADLOCK FALSE
