----------------------------- MODULE MCRescueNext -----------------------------
(* Two patients and two hospitals: from the first patient to the second        *)
(* assignment, the answers that move the mission on and those that come again. *)
(* The code of the second hospital is never read.                              *)
EXTENDS Rescue

MCPatients  == {"PATIENT_1", "PATIENT_2"}
MCHospitals == {"HOSPITAL_1", "HOSPITAL_2"}
MCCodes     == MCPatients \cup {"HOSPITAL_1"}
MCRoute     == [b \in MCPatients \cup MCHospitals |->
                CASE b = "PATIENT_1" -> "HOSPITAL_1"
                  [] b = "HOSPITAL_1" -> "PATIENT_2"
                  [] b = "PATIENT_2" -> "HOSPITAL_2"
                  [] b = "HOSPITAL_2" -> "OK"]

\* The pairings of this instance are a tour, as those of the sample server.
ASSUME TourAssumption == RouteIsTour
=============================================================================
