SPECIFICATION Spec
CONSTANTS
    PageSize = 4
    PerByte = 4
    BitmapSize = 16
    KernelOffset = 192
    kernel_start = 20
    kernel_end = 234
    Low = 4
    MemoryMaps <- Maps
INVARIANT KernelNotAllocated
CHECK_DEADLOCK FALSE
