CONSTANTS
    MaxOrder = 2
    NPages = 14
SPECIFICATION SoundSpec
INVARIANTS Partition ListsSound HeldFits
PROPERTIES MergesWithBuddy ImplementsAllocator
CHECK_DEADLOCK FALSE
