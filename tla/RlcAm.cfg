CONSTANTS
    MOD = 4
    RLC_AM_WINDOW_SIZE = 2
    SduUnits = 2
    HasTimers = TRUE
    poll_pdu = 1
    poll_periodicity = 8
    MaxSdu = 2
    t_status_prohibit = 1
    Grants = {1, 2}
    Spare = {0, 2}
    MaxAir = 2
    MaxLosses = 1
    Losable = {"data", "poll", "again", "report"}
    ReportsOvertake = FALSE
    Meanwhile = TRUE
    SlowPoll = TRUE
SPECIFICATION SafetySpec
INVARIANTS RlcAmTypeOK ReleasedReceived WindowsAgree
PROPERTY InOrder
CHECK_DEADLOCK FALSE
