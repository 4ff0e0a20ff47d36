SPECIFICATION BSpec
CONSTANTS
    PageSize = 4
    PerByte = 4
    BitmapSize = 16
    KernelOffset = 192
    kernel_start = 20
    kernel_end = 240
    Low = 4
    MemoryMaps <- MCMemoryMaps
    Slots = 3
    Infos <- MCInfos
INVARIANTS
    KnowsItsMemory
    BitmapExact
    KernelNotAllocated
PROPERTIES
    WalkEnds
CHECK_DEADLOCK FALSE
