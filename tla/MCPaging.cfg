SPECIFICATION PSpec
CONSTANTS
    PageSize = 4
    PerByte = 4
    BitmapSize = 64
    KernelOffset = 768
    kernel_start = 16
    kernel_end = 800
    Low = 4
    MemoryMaps <- Maps
    Entries = 16
    KernelTables = 2
    UserTables = 3
    Directory = 5
    BootTable1 = 6
    BootTable2 = 7
    Screen = 3
    Gdt = 2
    Targets = {17, 80, 81}
    Asked = {90}
INVARIANTS
    GroundStays
    UserFenced
    LinearAfterwards
    TablesHold
PROPERTIES
    MapsOnlyItsPage
CHECK_DEADLOCK FALSE
