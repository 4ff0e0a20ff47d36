SPECIFICATION Spec
CONSTANTS
    Wrap = 8
    Second = 3
    MaxAsked = 4
PROPERTIES
    KeepsTime
    SleepEnds
