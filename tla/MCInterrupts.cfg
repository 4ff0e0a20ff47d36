SPECIFICATION Spec
CONSTANTS
    Lines = {0, 1, 6, 12, 14}
    TickWrap = 3
INVARIANTS
    NeverLeftInService
    OneHandlerAtATime
    HaltsOnlyByFault
PROPERTIES
    ServedOnce
    DevicesServed
CHECK_DEADLOCK FALSE
