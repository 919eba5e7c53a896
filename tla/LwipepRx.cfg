CONSTANTS
    BUFFER_SIZE = 4
    p1 = p1
    p2 = p2
    Pdu <- MCPdu
    SeqNum = {0, 1, 2, 3}
    ReorderTimes = {0, 2}
    DefaultReorderTime = 2
    MaxRcv = 1
SPECIFICATION Spec
INVARIANTS TypeOK OneOwner GapHasTimer
PROPERTIES ExpiryReleases HeadMoves
CHECK_DEADLOCK FALSE
