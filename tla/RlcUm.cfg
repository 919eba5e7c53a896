CONSTANTS
    MOD = 8
    rx_window_size = 4
    SduUnits = 2
    Grants = {1, 3}
    Brink = TRUE
    MaxSdu = 5
    MaxAir = 2
    MaxLosses = 1
    Overtaking = TRUE
SPECIFICATION Spec
INVARIANTS UmTypeOK IntactInOrder CompleteIfUndisturbed GapIsTimed
CHECK_DEADLOCK FALSE
