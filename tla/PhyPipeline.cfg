CONSTANTS
    nof_workers = 2
    Spaced = TRUE
SPECIFICATION FairSpec
INVARIANTS PhyTypeOK OneOnAir
PROPERTIES InSequence JobKept GoesOnReceiving StopReachesPool
CHECK_DEADLOCK FALSE
