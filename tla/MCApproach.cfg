CONSTANTS
    Clearances = {0, 2, 3}
    AVOID_SIDE_MIN = 1
    QR_FRESH_SEC = 1
    APPROACH_QR_GRACE_SEC = 2
    APPROACH_STALL_SEC = 1
    APPROACH_MAX_SEC = 3
    ARRIVAL_QR_MAX_AGE = 5
    WAIT_TIMEOUT = 4
    AVOID_HOLD_SEC = 2
SPECIFICATION FairSpec
INVARIANTS
    ApproachTypeOK
    ArrivesInTime
PROPERTIES
    ArrivesOnce
    DodgeSideHolds
    ApproachEnds
