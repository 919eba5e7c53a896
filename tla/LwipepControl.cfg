CONSTANTS
    WlanSettings <- MCWlanOnOff
    Reports = 2
SPECIFICATION Spec
INVARIANTS TypeOK HdlMutexFree UpdateHasDecision
PROPERTIES DecisionFresh AutoControlAlive
