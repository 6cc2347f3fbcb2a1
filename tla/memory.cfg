SPECIFICATION UserSpec
CONSTANTS
    MaxBlocks = 36
    MemStart = 7
    P = 8
    KernelEntries = 5
    HeapPage = 56
    HeapPages = 2
    ImagePage = 45
    ImagePages <- Images
    StackPage = 55
    PageSize = 2
    Increments <- Steps
    Mallocs = {1}
    META_SIZE = 1
    Sizes = {1, 3}
INVARIANTS TypeOK Isolated KernelShared BreakBacked BlocksInBreak NullOnlyWhenFull
CHECK_DEADLOCK FALSE
