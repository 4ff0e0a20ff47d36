SPECIFICATION Spec
CONSTANTS
    BufferSize = 4
    MaxParts = 2
    Letters = {"r", "tab"}
    Run = "r"
    MaxKeys = 6
    Width = 5
    Height = 3
    MaxOps = 100
    MaxCell = 24
    TabKey = "tab"
    Outputs <- MCOutputs
INVARIANTS
    ScreenShowsLine
    TerminalHolds
    LineHolds
PROPERTIES
    RunsWhatWasTyped
CHECK_DEADLOCK FALSE
