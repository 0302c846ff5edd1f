\* Up to three items; one retry or one rerun; one job is executed again.
SPECIFICATION ItemsFairSpec
CONSTANTS
    Modes <- Supported
    MaxCount = 3
    MaxRetry = 1
    MaxRerun = 1
    MaxAgain = 1
CHECK_DEADLOCK FALSE
INVARIANTS
    ItemsInv
    VerdictCoversItems
PROPERTIES
    ItemsEnd
