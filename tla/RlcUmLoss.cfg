CONSTANTS
    MOD = 8
    rx_window_size = 4
    SduUnits = 2
    Grants = {1, 3}
    Brink = FALSE
    MaxSdu = 5
    MaxAir = 2
    MaxLosses = 1
    Overtaking = FALSE
SPECIFICATION Spec
INVARIANT OnlyDamagedMissing
CHECK_DEADLOCK FALSE
