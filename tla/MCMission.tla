----------------------------- MODULE MCMission -----------------------------
(***************************************************************************)
(* Mission for TLC, next to a peer that sends whatever it likes: any       *)
(* answer at any moment, asked for or not, and acknowledgments of what the *)
(* link waits for.  What the buggy publishes is read at once.              *)
(***************************************************************************)
EXTENDS Mission

MCPatients  == {"PATIENT_1"}
MCHospitals == {"HOSPITAL_1", "HOSPITAL_2"}
MCFakes     == {}

\* Frames in which each strategy in turn is the first to read a code, those
\* that show none or another text, and one that is no image.
MCFrames ==
    { [ image |-> TRUE, gray |-> g, equalised |-> e, cv |-> c ] :
        g \in { << >>, <<"">>, <<"", "HOSPITAL_1">>, <<"PATIENT_1", "HOSPITAL_1">> },
        e \in { << >>, <<"HOSPITAL_2">> },
        c \in { "", "PATIENT_1", "ADVERT" } }
      \cup { [ image |-> FALSE, gray |-> <<"ADVERT">>, equalised |-> << >>, cv |-> "" ] }

Detector == INSTANCE QrDetector WITH PYZBAR_AVAILABLE <- TRUE

MCCodes == Detector!PublishedOf(MCFrames)

vars == <<topicVars, link, missionVars>>

Init == TopicInit /\ MissionInit

Said == { Message(0, 0, p, 0) :
             p \in Patients \cup Hospitals \cup {"OK", "INVALID"} }
           \cup { Message(link.uid, 1, None, 0) }

AnyServer ==
    /\ toBuggy = << >>
    /\ \E m \in Said : toBuggy' = << m >>
    /\ toServer' = << >>
    /\ UNCHANGED <<link, missionVars>>

Next == MissionNext \/ AnyServer

Spec == Init /\ [][Next]_vars
=============================================================================
