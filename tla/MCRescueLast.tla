----------------------------- MODULE MCRescueLast -----------------------------
(* The last patient: the delivery the server answers with OK, the exit and    *)
(* the parking.                                                               *)
EXTENDS Rescue

MCPatients  == {"PATIENT_1"}
MCHospitals == {"HOSPITAL_1"}
MCCodes     == MCPatients \cup MCHospitals
MCRoute     == [b \in MCPatients \cup MCHospitals |->
                CASE b = "PATIENT_1" -> "HOSPITAL_1"
                  [] b = "HOSPITAL_1" -> "OK"]

\* The pairings of this instance are a tour, as those of the sample server.
ASSUME TourAssumption == RouteIsTour
=============================================================================
