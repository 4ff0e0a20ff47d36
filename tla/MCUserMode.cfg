SPECIFICATION Spec
CONSTANTS
    Byte = 16
    Half = 4
    Flat = 3
    TssSize = 104
    TssPlaces <- MCTssPlaces
    MaxNested = 2
    Size = 25
    Startup = 3
    Main = 4
    Deep = 6
    Handler = 3
    MaxRuns = 5
    Codes = {0, 16}
    Places = {7000}
    Addresses = {9000}
    Unmapped = {0, 16}
INVARIANTS
    SegmentsHold
    StackIsFound
    ProgramCostsOneFrame
    NamesTheFault
CHECK_DEADLOCK FALSE
