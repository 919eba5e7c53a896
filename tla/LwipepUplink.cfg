CONSTANTS
    BUFFER_SIZE = 6
    Pdu <- MCPdu
    SeqNum <- MCSeq
    ReorderTimes = {40}
    DefaultReorderTime = 1
    MaxRcv = 20
    MaxSent = 7
    MaxCopies = 2
    MaxSpan = 4
    Doubled = {1}
    LateExpiry = TRUE
SPECIFICATION USpec
INVARIANTS InOrderUntilExcused NothingLost NoExtraCopies
PROPERTY BufferedDrains
CHECK_DEADLOCK FALSE
