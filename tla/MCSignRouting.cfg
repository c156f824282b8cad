CONSTANTS
    None = None
    Patients <- MCPatients
    Hospitals <- MCHospitals
    FIRST_PATIENT = "PATIENT_1"
    Sightings <- MCPublished
    Frames <- MCFrames
    IMAGE_WIDTH = 8
SPECIFICATION Spec
INVARIANTS
    SignRoutingTypeOK
    TableIsTrue
    ObeysLatestBoard
    TurnServesTarget
    CoolingHoldsNoTurn
