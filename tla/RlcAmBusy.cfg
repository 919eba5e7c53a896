CONSTANTS
    MOD = 4
    RLC_AM_WINDOW_SIZE = 2
    SduUnits = 1
    HasTimers = TRUE
    poll_pdu <- Infinity
    poll_periodicity = 8
    MaxSdu = 4
    t_status_prohibit = 0
    Grants = {1}
    Spare = {0}
    MaxAir = 2
    MaxLosses = 1
    Losable = {"data", "poll", "again", "report"}
    ReportsOvertake = FALSE
    Meanwhile = TRUE
    SlowPoll = TRUE
SPECIFICATION Spec
PROPERTY ReliableIfBusy
CHECK_DEADLOCK FALSE
