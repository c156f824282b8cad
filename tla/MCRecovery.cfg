CONSTANTS
    Readings <- MCReadings
    Horizon = 7
    None = None
    Inputs <- MCInputs
    SeekSpeeds <- MCSeekSpeeds
    STUCK_SPEED_MIN = 10
    STUCK_CONTACT_DIST = 45
    RECOVERY_FRONT_CLEAR = 100
    RECOVERY_REAR_MIN = 30
    RECOVERY_ESCAPE_MIN_CORRIDOR = 90
    STUCK_CONTACT_SEC = 2
    STUCK_WINDOW_SEC = 3
    RECOVERY_COOLDOWN_SEC = 4
    RECOVERY_MIN_REVERSE_SEC = 1
    RECOVERY_MAX_REVERSE_SEC = 5
    RECOVERY_ESCAPE_MAX_SEC = 4
SPECIFICATION FairSpec
INVARIANTS
    RecoveryTypeOK
    RecoveryIsBounded
    RearIsRespected
PROPERTIES
    StuckTakesDriving
    WedgedIsNoticed
