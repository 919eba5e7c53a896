CONSTANTS
    nof_workers = 1
    Spaced = TRUE
SPECIFICATION FairSpec
PROPERTY StopEnds
CHECK_DEADLOCK FALSE
