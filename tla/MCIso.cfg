SPECIFICATION Spec
CONSTANTS
    Extent <- MCExtent
    Root <- MCRoot
    Paths <- MCPaths
    Unended = {4}
    PVD_sector = 16
    Signed = {12, 14, 18}
    LittleEndian = {11, 12, 14}
    ForX86 = {11, 14, 18}
    SectorUnits = 2
    BufUnits = 4
INVARIANTS
    LookupsHold
    ShowsWhatIsThere
    RunsWhatWasAsked
    WildOnlyFor
CHECK_DEADLOCK FALSE
