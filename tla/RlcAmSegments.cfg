CONSTANTS
    Lengths = {1, 8}
    Headers <- Tables
    Grants = {8, 9, 13}
    MaxAttempts = 2
    MaxCramped = 1
    MaxAir = 2
SPECIFICATION Spec
INVARIANTS HeaderRestored FitsGrant
CHECK_DEADLOCK FALSE
