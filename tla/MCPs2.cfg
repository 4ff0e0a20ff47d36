SPECIFICATION SetupSpec
CONSTANTS
    MaxKeys = 2
INVARIANTS
    QuietSetupWorks
    ResultTells
PROPERTIES
    KeysHeard
CHECK_DEADLOCK FALSE
