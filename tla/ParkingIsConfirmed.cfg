CONSTANTS
    None = None
    Depth = 2
    MAX_RETRIES = 0
    UID_MOD = 256
    SERVER_UID = 50
    UID_MAX = 255
    SERVER_RETRIES = 1
    Patients <- MCPatients
    Hospitals <- MCHospitals
    Fakes = {}
    Codes <- MCCodes
    FIRST_PATIENT = "PATIENT_1"
    Route <- MCRoute
    ZoneChecks = FALSE
    MaxSends = 4
    MaxLosses = 0
    MaxRejections = 0
SPECIFICATION Spec
INVARIANT
    ParkingIsConfirmed
CHECK_DEADLOCK FALSE
