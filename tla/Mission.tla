------------------------------- MODULE Mission -------------------------------
(***************************************************************************)
(* The mission state machine of the buggy: class LineFollower of           *)
(* b3rb_ros_line_follower.py, without what only steers.                    *)
(*                                                                         *)
(* The node runs on rclpy's single-threaded executor, so each callback and *)
(* each 20 Hz control_loop tick is one step; steps interleave freely.  The *)
(* actions below are control_loop (one action per branch), the server      *)
(* callback (one per message and branch), the QR callback and the passage  *)
(* of time.                                                                *)
(*                                                                         *)
(* Abstractions.  Clocks: a deadline is a Boolean that the passage of time *)
(* raises, the age of the latest QR decode one of three classes.           *)
(* Distances: whether something blocks the road, whether the approach has  *)
(* covered its 3.7 m, whether the buggy is stuck, are choices.  Speed: one *)
(* of stop, forward, reverse.  Letters "A", "X", ... and names "PATIENT_1" *)
(* stand for each other one to one (CODE_TO_NAME), so a building is its    *)
(* name, and a text on the wire is a format and a building.                *)
(***************************************************************************)
EXTENDS ServerLink

CONSTANTS
    Patients,        \* PATIENT_1, ...
    Hospitals,       \* HOSPITAL_1, ...
    Fakes,           \* FAKE_HOSPITAL_1, ...
    FIRST_PATIENT,   \* the patient every mission starts with
    Codes,           \* what the QR detector may publish
    MaxSends         \* bound on the messages of a behaviour

Buildings == Patients \cup Hospitals \cup Fakes

State == {"INIT", "SEEK_PATIENT", "AT_BUILDING", "WAIT_ASSIGNMENT",
          "SEEK_HOSPITAL", "WAIT_NEXT", "SEEK_EXIT", "PARKING", "DONE",
          "RECOVERY"}

ASSUME MissionAssumption ==
    /\ FIRST_PATIENT \in Patients
    /\ Patients \cap Hospitals = {}
    /\ Fakes \cap (Patients \cup Hospitals) = {}
    /\ {"OK", "INVALID", "PARKED"} \cap Buildings = {}
    /\ None \notin Buildings \cup State \cup {"OK", "INVALID", "PARKED"}
    /\ MaxSends \in Nat

\* PAYLOAD_FORMATS, indexed from 1
PAYLOAD_FORMATS == << "CODE", "RAW", "NAME" >>

\* Where INVALID says "not parked correctly" and there is no target.
Parking == {"SEEK_EXIT", "PARKING", "DONE"}
Waiting == {"WAIT_ASSIGNMENT", "WAIT_NEXT"}

VARIABLES
    link,                   \* server: the ServerLink
    state,
    overdue,                \* time_in_state() is past the state's timeout
    recovery_return_state,
    \* where the mission stands
    target_building, assigned_hospital, pending_delivery, delivered,
    registered,
    \* the wire format
    payload_index, payload_proven, last_tx_building,
    \* the latest QR decode
    last_qr, qr_age,
    \* the approach: approach_since and approach_target are set and cleared
    \* together, so approach_target = None says that there is none
    approach_target, arrival_building,
    \* the latest drive command
    speed,
    \* parking
    park,                   \* park_started and PARK_WINDOW_SEC
    announce_due,           \* PARK_ANNOUNCE_EVERY since last_park_announce
    parked_sent

stateVars    == <<state, overdue, recovery_return_state>>
goalVars     == <<target_building, assigned_hospital, pending_delivery,
                  delivered, registered>>
formatVars   == <<payload_index, payload_proven, last_tx_building>>
qrVars       == <<last_qr, qr_age>>
approachVars == <<approach_target, arrival_building>>
parkVars     == <<park, announce_due, parked_sent>>
missionVars  == <<stateVars, goalVars, formatVars, qrVars, approachVars,
                  speed, parkVars>>

MissionInit ==
    /\ link = InitLink
    /\ state = "INIT"
    /\ overdue = FALSE
    /\ target_building = None
    /\ assigned_hospital = None
    /\ pending_delivery = None
    /\ delivered = 0
    /\ registered = {}
    /\ payload_index = 1
    /\ payload_proven = FALSE
    /\ last_tx_building = None
    /\ last_qr = None
    /\ qr_age = "stale"
    /\ approach_target = None
    /\ arrival_building = None
    /\ speed = "stop"
    /\ recovery_return_state = None
    /\ park = "unstarted"
    /\ announce_due = TRUE
    /\ parked_sent = FALSE

-----------------------------------------------------------------------------
(* Helpers *)

\* set_state: the clock of a state restarts only when the state changes.
\* The state that RECOVERY interrupts is remembered until RECOVERY is left;
\* the code keeps it longer, and reads it nowhere else.
SetState(new) ==
    /\ state' = new
    /\ overdue' = (overdue /\ new = state)
    /\ recovery_return_state' = IF new = "RECOVERY" THEN state ELSE None

\* The state to search in when what we were doing fell through.
Resume == IF assigned_hospital # None THEN "SEEK_HOSPITAL" ELSE "SEEK_PATIENT"

\* Mutant: a patient already registered is adopted as a target again.
EffectiveTargetAgain ==
    IF target_building # None THEN target_building
    ELSE IF state \notin Parking /\ last_qr \in Patients
    THEN last_qr
    ELSE None

\* effective_target
EffectiveTarget ==
    IF target_building # None THEN target_building
    ELSE IF state \notin Parking /\ last_qr \in Patients \ registered
    THEN last_qr
    ELSE None

\* qr_is_fresh: decoded less than QR_FRESH_SEC ago.
QrIsFresh == last_qr # None /\ qr_age = "fresh"

\* server_payload
Text(index, building) ==
    [format |-> PAYLOAD_FORMATS[index], building |-> building]
ParkedText == [format |-> "CODE", building |-> "PARKED"]

\* mark_payload_proven
MarkPayloadProven ==
    payload_proven' = (payload_proven \/ last_tx_building # None)

\* can_retry_format
CanRetryFormat ==
    /\ ~payload_proven
    /\ payload_index < Len(PAYLOAD_FORMATS)
    /\ last_tx_building # None
    /\ QrIsFresh
    /\ last_qr = last_tx_building

CancelApproach ==
    /\ approach_target' = None
    /\ arrival_building' = None

\* The link is left as after `step', its messages published after `before'.
Emit(before, step) ==
    /\ link' = step.link
    /\ toServer' = Publish(toServer, before \o step.out)

\* A message of the mission: tick() has left the link as in `t'.
EmitSend(t, text) ==
    /\ link.sent < MaxSends
    /\ Emit(t.out, Send(t.link, text))

-----------------------------------------------------------------------------
(* control_loop.  Every tick begins with server.tick(), whose outcome is   *)
(* the argument t; the drive command is published at the end of the tick.  *)

\* Mutant: a recovery can itself be interrupted by a recovery.
EntersRecoveryAgain(t) ==
    /\ state \notin {"DONE"} \cup Waiting
    /\ speed = "forward"
    /\ SetState("RECOVERY")
    /\ speed' = "reverse"
    /\ Emit(<< >>, t)
    /\ UNCHANGED <<toBuggy, goalVars, formatVars, qrVars, approachVars,
                   parkVars>>

\* Mutant: a buggy that is done can be found stuck.
EntersRecoveryWhenDone(t) ==
    /\ state \notin {"RECOVERY"} \cup Waiting
    /\ speed = "forward"
    /\ SetState("RECOVERY")
    /\ speed' = "reverse"
    /\ Emit(<< >>, t)
    /\ UNCHANGED <<toBuggy, goalVars, formatVars, qrVars, approachVars,
                   parkVars>>

\* is_stuck, enter_recovery and the first step of drive_recovery, which can
\* only reverse: RECOVERY_MIN_REVERSE_SEC has not gone by.
EntersRecovery(t) ==
    /\ state \notin {"RECOVERY", "DONE"} \cup Waiting
    /\ speed = "forward"
    /\ SetState("RECOVERY")
    /\ speed' = "reverse"
    /\ Emit(<< >>, t)
    /\ UNCHANGED <<toBuggy, goalVars, formatVars, qrVars, approachVars,
                   parkVars>>

\* drive_recovery: the REVERSE phase, then the ESCAPE phase.
Recovers(t) ==
    /\ state = "RECOVERY"
    /\ speed' \in {speed, "forward"}
    /\ Emit(<< >>, t)
    /\ UNCHANGED <<toBuggy, stateVars, goalVars, formatVars, qrVars,
                   approachVars, parkVars>>

\* finish_recovery, which leaves the last command standing.
FinishesRecovery(t) ==
    /\ state = "RECOVERY"
    /\ SetState(IF recovery_return_state # None THEN recovery_return_state
                                                ELSE "SEEK_PATIENT")
    /\ Emit(<< >>, t)
    /\ UNCHANGED <<toBuggy, goalVars, formatVars, qrVars, approachVars, speed,
                   parkVars>>

Starts(t) ==
    /\ state = "INIT"
    /\ target_building' = FIRST_PATIENT
    /\ SetState("SEEK_PATIENT")
    /\ Emit(<< >>, t)
    /\ UNCHANGED <<toBuggy, assigned_hospital, pending_delivery, delivered,
                   registered, formatVars, qrVars, approachVars, speed,
                   parkVars>>

\* fresh_on_target, when there is no approach yet: it begins in this tick.
FreshOnTarget ==
    /\ approach_target = None
    /\ QrIsFresh
    /\ last_qr = EffectiveTarget

\* drive_seeking.  Following the lane and dodging what blocks the road leave the
\* approach as it is.  So does the emergency brake, which returns before a fresh
\* decode is looked at.
Cruises == UNCHANGED approachVars

\* A fresh decode of the target begins the approach.
BeginsApproach ==
    /\ FreshOnTarget
    /\ approach_target' = last_qr
    /\ UNCHANGED arrival_building

\* early_loss, or APPROACH_MAX_SEC.
AbandonsApproach ==
    /\ approach_target # None
    /\ CancelApproach

\* Mutant: the arrival is derived from what the camera reads now.
ArrivesWhereItReads ==
    /\ approach_target # None
    /\ arrival_building' = last_qr
    /\ UNCHANGED approach_target

\* The approach has come level with the building.
Arrives ==
    /\ approach_target # None
    /\ arrival_building' = approach_target
    /\ UNCHANGED approach_target

DriveSeeking(after) ==
    /\ speed' = "forward"
    /\ \/ after = state /\ (Cruises \/ BeginsApproach \/ AbandonsApproach)
       \/ after = "AT_BUILDING" /\ Arrives

Seeks(t) ==
    /\ state \in {"SEEK_PATIENT", "SEEK_HOSPITAL"}
    /\ \E after \in {state, "AT_BUILDING"} :
          DriveSeeking(after) /\ SetState(after)
    /\ Emit(<< >>, t)
    /\ UNCHANGED <<toBuggy, goalVars, formatVars, qrVars, parkVars>>

\* SEEK_EXIT: drive_seeking, then the parking window and its announcements,
\* whatever state drive_seeking has left.
SeeksExit(t) ==
    /\ state = "SEEK_EXIT"
    /\ park' = IF park = "unstarted" THEN "open" ELSE park
    /\ \E after \in {state, "AT_BUILDING"} :
          /\ DriveSeeking(after)
          /\ SetState(IF park = "closed" THEN "DONE" ELSE after)
    /\ IF park # "closed" /\ announce_due
       THEN EmitSend(t, ParkedText) /\ announce_due' = FALSE
       ELSE Emit(<< >>, t) /\ UNCHANGED announce_due
    /\ UNCHANGED <<toBuggy, goalVars, formatVars, qrVars, parked_sent>>

\* PARKING and DONE
StaysStopped(t) ==
    /\ state \in {"PARKING", "DONE"}
    /\ speed' = "stop"
    /\ Emit(<< >>, t)
    /\ UNCHANGED <<toBuggy, stateVars, goalVars, formatVars, qrVars,
                   approachVars, parkVars>>

-----------------------------------------------------------------------------
(* handle_at_building, after drive_stop *)

\* What the approach committed to, and whether it was read lately enough.
ArrivedAt == IF arrival_building # None THEN arrival_building ELSE last_qr
ReadOf(building) == last_qr = building /\ qr_age # "stale"

\* Mutant: the buggy is not stopped before it transmits.
AtBuildingRolling ==
    /\ state = "AT_BUILDING"
    /\ speed' = speed
    /\ arrival_building' = None

\* drive_stop, and the commitment is taken.
AtBuilding ==
    /\ state = "AT_BUILDING"
    /\ speed' = "stop"
    /\ arrival_building' = None

\* Arrived with no building, or with one not read in ARRIVAL_QR_MAX_AGE.
BacksOut(t) ==
    /\ AtBuilding
    /\ ArrivedAt = None \/ ~ReadOf(ArrivedAt)
    /\ approach_target' = None
    /\ SetState(Resume)
    /\ Emit(<< >>, t)
    /\ UNCHANGED <<toBuggy, goalVars, formatVars, qrVars, parkVars>>

\* transmit_building
Transmits(t, building) ==
    /\ last_tx_building' = building
    /\ EmitSend(t, Text(payload_index, building))
    /\ UNCHANGED <<payload_index, payload_proven>>

RegistersPatient(t) ==
    /\ AtBuilding
    /\ ArrivedAt \in Patients
    /\ ReadOf(ArrivedAt)
    /\ Transmits(t, ArrivedAt)
    /\ registered' = registered \cup {ArrivedAt}
    /\ SetState("WAIT_ASSIGNMENT")
    /\ UNCHANGED <<toBuggy, target_building, assigned_hospital,
                   pending_delivery, delivered, qrVars, approach_target,
                   parkVars>>

\* Mutant: the delivery is counted when it is transmitted.
DeliversCounting(t) ==
    /\ AtBuilding
    /\ ArrivedAt \in Hospitals
    /\ ReadOf(ArrivedAt)
    /\ ArrivedAt = assigned_hospital
    /\ Transmits(t, ArrivedAt)
    /\ pending_delivery' = ArrivedAt
    /\ delivered' = delivered + 1
    /\ SetState("WAIT_NEXT")
    /\ UNCHANGED <<toBuggy, target_building, assigned_hospital, registered,
                   qrVars, approach_target, parkVars>>

DeliversToHospital(t) ==
    /\ AtBuilding
    /\ ArrivedAt \in Hospitals
    /\ ReadOf(ArrivedAt)
    /\ ArrivedAt = assigned_hospital
    /\ Transmits(t, ArrivedAt)
    /\ pending_delivery' = ArrivedAt
    /\ SetState("WAIT_NEXT")
    /\ UNCHANGED <<toBuggy, target_building, assigned_hospital, delivered,
                   registered, qrVars, approach_target, parkVars>>

\* A fake hospital, or a hospital that is not the assigned one.
SkipsBuilding(t) ==
    /\ AtBuilding
    /\ ArrivedAt \in Fakes \cup Hospitals
    /\ ArrivedAt # assigned_hospital
    /\ ReadOf(ArrivedAt)
    /\ SetState("SEEK_HOSPITAL")
    /\ Emit(<< >>, t)
    /\ UNCHANGED <<toBuggy, goalVars, formatVars, qrVars, approach_target,
                   parkVars>>

-----------------------------------------------------------------------------
(* WAIT_ASSIGNMENT and WAIT_NEXT *)

Waits(t) ==
    /\ state \in Waiting
    /\ ~overdue
    /\ speed' = "stop"
    /\ Emit(<< >>, t)
    /\ UNCHANGED <<toBuggy, stateVars, goalVars, formatVars, qrVars,
                   approachVars, parkVars>>

\* WAIT_ASSIGNMENT_TIMEOUT
GivesUpAssignment(t) ==
    /\ state = "WAIT_ASSIGNMENT"
    /\ overdue
    /\ speed' = "stop"
    /\ SetState("SEEK_PATIENT")
    /\ Emit(<< >>, t)
    /\ UNCHANGED <<toBuggy, goalVars, formatVars, qrVars, approachVars,
                   parkVars>>

\* WAIT_NEXT_TIMEOUT
GivesUpDelivery(t) ==
    /\ state = "WAIT_NEXT"
    /\ overdue
    /\ speed' = "stop"
    /\ pending_delivery' = None
    /\ SetState(Resume)
    /\ Emit(<< >>, t)
    /\ UNCHANGED <<toBuggy, target_building, assigned_hospital, delivered,
                   registered, formatVars, qrVars, approachVars, parkVars>>

ControlLoop(t) ==
    \/ EntersRecovery(t) \/ Recovers(t) \/ FinishesRecovery(t)
    \/ Starts(t) \/ Seeks(t) \/ SeeksExit(t) \/ StaysStopped(t)
    \/ BacksOut(t) \/ RegistersPatient(t) \/ DeliversToHospital(t)
    \/ SkipsBuilding(t)
    \/ Waits(t) \/ GivesUpAssignment(t) \/ GivesUpDelivery(t)

-----------------------------------------------------------------------------
(* server_communication_callback.  Every action takes the oldest message   *)
(* off the topic; h is what server.handle() makes of it.                   *)

Handled == Handle(link, Head(toBuggy))

Hears(payloads) ==
    /\ Received(toBuggy)
    /\ Handled.payload \in payloads
    /\ toBuggy' = Tail(toBuggy)

\* Acknowledge (or take the acknowledgment) and publish nothing more.
Acknowledged == Emit(<< >>, Handled)

\* An acknowledgment; or INVALID once the deliveries are over, where it says
\* that the buggy is not parked correctly.
HearsNothingNew ==
    /\ \/ Hears({None})
       \/ Hears({"INVALID"}) /\ state \in Parking
    /\ Acknowledged
    /\ UNCHANGED missionVars

\* INVALID while the code just transmitted is still in view: retry in place
\* with the next format (retry_alternate_format) and restart the wait.
RetriesFormat ==
    /\ Hears({"INVALID"})
    /\ state \notin Parking
    /\ CanRetryFormat
    /\ payload_index' = payload_index + 1
    /\ EmitSend(Handled, Text(payload_index + 1, last_tx_building))
    /\ overdue' = FALSE
    /\ UNCHANGED <<state, recovery_return_state, goalVars, payload_proven,
                   last_tx_building, qrVars, approachVars, speed, parkVars>>

\* Any other INVALID rejects the zone; drop the approach.
ZoneRejected ==
    /\ Hears({"INVALID"})
    /\ state \notin Parking
    /\ ~CanRetryFormat
    /\ CancelApproach
    /\ Acknowledged
    /\ UNCHANGED <<formatVars, qrVars, speed, parkVars>>

\* ... a delivery: go back to the hospital.
DeliveryRejected ==
    /\ ZoneRejected
    /\ pending_delivery # None
    /\ pending_delivery' = None
    /\ assigned_hospital' = pending_delivery
    /\ target_building' = pending_delivery
    /\ SetState("SEEK_HOSPITAL")
    /\ UNCHANGED <<delivered, registered>>

\* ... a registration: go back to the patient, ...
RegistrationRejected ==
    /\ ZoneRejected
    /\ pending_delivery = None
    /\ target_building \in Patients
    /\ registered' = registered \ {target_building}
    /\ SetState("SEEK_PATIENT")
    /\ UNCHANGED <<target_building, assigned_hospital, pending_delivery,
                   delivered>>

\* ... or nothing in particular.
ResumesSearch ==
    /\ ZoneRejected
    /\ pending_delivery = None
    /\ target_building \notin Patients
    /\ SetState(Resume)
    /\ UNCHANGED goalVars

\* OK to the delivery of the last patient.  The approach stays as it was.
CompletesDeliveries ==
    /\ Hears({"OK"})
    /\ pending_delivery # None
    /\ MarkPayloadProven
    /\ delivered' = delivered + 1
    /\ pending_delivery' = None
    /\ assigned_hospital' = None
    /\ target_building' = None
    /\ SetState("SEEK_EXIT")
    /\ Acknowledged
    /\ UNCHANGED <<registered, payload_index, last_tx_building, qrVars,
                   approachVars, speed, parkVars>>

\* Any other OK is taken as the answer to PARKED.
ParkingConfirmed ==
    /\ Hears({"OK"})
    /\ pending_delivery = None
    /\ MarkPayloadProven
    /\ parked_sent' = TRUE
    /\ SetState("DONE")
    /\ Acknowledged
    /\ UNCHANGED <<goalVars, payload_index, last_tx_building, qrVars,
                   approachVars, speed, park, announce_due>>

\* Mutant: an assignment does not replace one that is still there.
HospitalAssignedOnce ==
    /\ Hears(Hospitals)
    /\ MarkPayloadProven
    /\ assigned_hospital' = IF assigned_hospital = None THEN Handled.payload
                                                       ELSE assigned_hospital
    /\ target_building' = assigned_hospital'
    /\ CancelApproach
    /\ SetState("SEEK_HOSPITAL")
    /\ Acknowledged
    /\ UNCHANGED <<pending_delivery, delivered, registered, payload_index,
                   last_tx_building, qrVars, speed, parkVars>>

HospitalAssigned ==
    /\ Hears(Hospitals)
    /\ MarkPayloadProven
    /\ assigned_hospital' = Handled.payload
    /\ target_building' = Handled.payload
    /\ CancelApproach
    /\ SetState("SEEK_HOSPITAL")
    /\ Acknowledged
    /\ UNCHANGED <<pending_delivery, delivered, registered, payload_index,
                   last_tx_building, qrVars, speed, parkVars>>

\* Mutant: the approach to the old target goes on.
NextPatientKeepsApproach ==
    /\ Hears(Patients)
    /\ MarkPayloadProven
    /\ pending_delivery' = None
    /\ target_building' = Handled.payload
    /\ SetState("SEEK_PATIENT")
    /\ Acknowledged
    /\ UNCHANGED <<delivered, assigned_hospital, registered, payload_index,
                   last_tx_building, qrVars, approachVars, speed, parkVars>>

\* Mutant: the delivery is counted and stays pending.
NextPatientKeepsDelivery ==
    /\ Hears(Patients)
    /\ MarkPayloadProven
    /\ delivered' = IF pending_delivery # None THEN delivered + 1 ELSE delivered
    /\ target_building' = Handled.payload
    /\ CancelApproach
    /\ SetState("SEEK_PATIENT")
    /\ Acknowledged
    /\ UNCHANGED <<pending_delivery, assigned_hospital, registered,
                   payload_index, last_tx_building, qrVars, speed, parkVars>>

\* The next patient, which confirms the delivery that is pending.
NextPatient ==
    /\ Hears(Patients)
    /\ MarkPayloadProven
    /\ IF pending_delivery # None
       THEN /\ delivered' = delivered + 1
            /\ pending_delivery' = None
            /\ assigned_hospital' = None
       ELSE UNCHANGED <<delivered, pending_delivery, assigned_hospital>>
    /\ target_building' = Handled.payload
    /\ CancelApproach
    /\ SetState("SEEK_PATIENT")
    /\ Acknowledged
    /\ UNCHANGED <<registered, payload_index, last_tx_building, qrVars, speed,
                   parkVars>>

ServerCallback ==
    \/ HearsNothingNew \/ RetriesFormat
    \/ DeliveryRejected \/ RegistrationRejected \/ ResumesSearch
    \/ CompletesDeliveries \/ ParkingConfirmed
    \/ HospitalAssigned \/ NextPatient

-----------------------------------------------------------------------------
(* The QR callback and the passage of time *)

\* qr_detection_callback: a text without the name of a building is ignored.
ReadsQr(text) ==
    /\ text \in Buildings
    /\ last_qr' = text
    /\ qr_age' = "fresh"
    /\ UNCHANGED <<link, topicVars, stateVars, goalVars, formatVars,
                   approachVars, speed, parkVars>>

\* QR_FRESH_SEC, then ARRIVAL_QR_MAX_AGE, have gone by since the decode.
QrAges ==
    /\ last_qr # None
    /\ qr_age # "stale"
    /\ qr_age' = IF qr_age = "fresh" THEN "recent" ELSE "stale"
    /\ UNCHANGED <<link, topicVars, stateVars, goalVars, formatVars, last_qr,
                   approachVars, speed, parkVars>>

\* The wait has outlived its timeout.
WaitExpires ==
    /\ state \in Waiting
    /\ overdue' = TRUE
    /\ UNCHANGED <<link, topicVars, state, recovery_return_state, goalVars,
                   formatVars, qrVars, approachVars, speed, parkVars>>

\* PARK_WINDOW_SEC, or PARK_ANNOUNCE_EVERY, has gone by.
ParkingClock ==
    /\ park = "open"
    /\ \/ park' = "closed" /\ UNCHANGED announce_due
       \/ announce_due' = TRUE /\ UNCHANGED park
    /\ UNCHANGED <<link, topicVars, stateVars, goalVars, formatVars, qrVars,
                   approachVars, speed, parked_sent>>

MissionNext ==
    \/ ControlLoop(Tick(link, FALSE))
    \/ link.pending # None /\ ControlLoop(Tick(link, TRUE))
    \/ ServerCallback
    \/ \E text \in Codes : ReadsQr(text)
    \/ QrAges
    \/ WaitExpires
    \/ ParkingClock

(***************************************************************************)
(* The mission among whatever else happens: a step is one of the node's    *)
(* own or leaves the mission alone, and the topic may then change in any   *)
(* way, so nothing is assumed of the server or of the messages it sends.   *)
(***************************************************************************)
MissionSpec == MissionInit /\ [][MissionNext]_missionVars

-----------------------------------------------------------------------------
\* The shape of the mission's variables: an approach, an arrival and a
\* transmission only ever name patients and hospitals, never a fake one.
MissionTypeOK ==
    /\ state \in State
    /\ overdue \in BOOLEAN
    /\ recovery_return_state \in (State \ {"RECOVERY"}) \cup {None}
    /\ target_building \in Patients \cup Hospitals \cup {None}
    /\ assigned_hospital \in Hospitals \cup {None}
    /\ pending_delivery \in Hospitals \cup {None}
    /\ delivered \in Nat
    /\ registered \subseteq Patients
    /\ payload_index \in DOMAIN PAYLOAD_FORMATS
    /\ payload_proven \in BOOLEAN
    /\ last_tx_building \in Patients \cup Hospitals \cup {None}
    /\ last_qr \in Buildings \cup {None}
    /\ qr_age \in {"fresh", "recent", "stale"}
    /\ approach_target \in Patients \cup Hospitals \cup {None}
    /\ arrival_building \in Patients \cup Hospitals \cup {None}
    /\ speed \in {"stop", "forward", "reverse"}
    /\ park \in {"unstarted", "open", "closed"}
    /\ announce_due \in BOOLEAN
    /\ parked_sent \in BOOLEAN

\* At a building, also when a recovery has interrupted the stop, there is an
\* arrival to act upon and it is the one of the approach under way, whatever
\* the server has said since: handle_at_building never falls back on
\* whatever code the camera read last ("must not re-derive the building").
ArrivalIsCommitted ==
    "AT_BUILDING" \in {state, recovery_return_state} =>
        /\ arrival_building # None
        /\ arrival_building = approach_target

\* The building being approached is the one the mission is about: an answer
\* that changes the target drops the approach to the old one, however late
\* it comes (server_communication_callback, drive_seeking).
ApproachIsForTarget ==
    approach_target # None /\ target_building # None =>
        approach_target = target_building

\* A buggy that waits for an answer waits for the answer to the building it
\* sent last, stands still, and has booked it: a patient as registered, a
\* hospital, the assigned one, as pending ("Leaving the zone before the
\* assignment arrives is explicitly a penalty").
WaitsForWhatItSent ==
    /\ state \in Waiting => speed = "stop"
    /\ state = "WAIT_ASSIGNMENT" => last_tx_building \in registered
    /\ state = "WAIT_NEXT" =>
          /\ pending_delivery # None
          /\ pending_delivery = last_tx_building
          /\ pending_delivery = assigned_hospital
=============================================================================
