CONSTANTS
    None = None
    Depth = 2
    MAX_RETRIES = 0
    UID_MOD = 256
    SERVER_UID = 50
    UID_MAX = 255
    SERVER_RETRIES = 0
    Patients <- MCPatients
    Hospitals <- MCHospitals
    Fakes = {}
    Codes <- MCCodes
    FIRST_PATIENT = "PATIENT_1"
    Route <- MCRoute
    ZoneChecks = TRUE
    MaxSends = 4
    MaxLosses = 0
    MaxRejections = 1
SPECIFICATION Spec
PROPERTY
    ParkingGoesOn
CHECK_DEADLOCK FALSE
