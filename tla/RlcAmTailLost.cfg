CONSTANTS
    MOD = 4
    RLC_AM_WINDOW_SIZE = 2
    SduUnits = 1
    HasTimers = TRUE
    poll_pdu <- Infinity
    poll_periodicity = 8
    MaxSdu = 2
    t_status_prohibit = 0
    Grants = {1}
    Spare = {2}
    MaxAir = 2
    MaxLosses = 1
    Losable = {"poll"}
    ReportsOvertake = FALSE
    Meanwhile = FALSE
    SlowPoll = TRUE
SPECIFICATION Spec
PROPERTY RequestedAgain
CHECK_DEADLOCK FALSE
