SPECIFICATION Spec
CONSTANTS
    Units = 2
    Sizes = {1, 2}
    Sectors = 2
    MaxCount = 2
INVARIANTS
    AnswersHold
PROPERTIES
    CallsEnd
    ImplementsDisc
CHECK_DEADLOCK FALSE
