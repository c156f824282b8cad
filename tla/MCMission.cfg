CONSTANTS
    None = None
    Depth = 1
    MAX_RETRIES = 0
    UID_MOD = 256
    Patients <- MCPatients
    Hospitals <- MCHospitals
    Fakes <- MCFakes
    Codes <- MCCodes
    FIRST_PATIENT = "PATIENT_1"
    MaxSends = 2
SPECIFICATION Spec
INVARIANTS
    MissionTypeOK
    ArrivalIsCommitted
    ApproachIsForTarget
    WaitsForWhatItSent
CHECK_DEADLOCK FALSE
