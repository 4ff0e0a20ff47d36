SPECIFICATION KSpec
CONSTANTS
    Wrap = 4
    MaxBytes = 8
    Letters = {"a"}
    MaxEvents = 4
    MaxExits = 2
INVARIANTS
    KeysInOrder
    NoExtraKeys
    KeysDecoded
    OneInventedPerExit
PROPERTIES
    TypedInTheEnd
    ImplementsQueue
CHECK_DEADLOCK FALSE
