--------------------------- MODULE Mission_proofs ---------------------------
(***************************************************************************)
(* The invariants of Mission, for any number of buildings, any server and  *)
(* any behaviour of the topic.                                             *)
(*                                                                         *)
(* They are proved together: what the buggy arrives at depends on what it  *)
(* approaches, and what it approaches on its target.  Two facts they need  *)
(* are stated here only: a mission that has not begun does not move, so    *)
(* Starts finds no approach when it sets the first target; and a recovery  *)
(* never returns to a state that stands still, where is_stuck never looks. *)
(***************************************************************************)
EXTENDS Mission, TLAPS

\* INIT is where nothing has happened: the buggy stands and nothing is being
\* approached.
NotBegun == state = "INIT" => approach_target = None /\ speed = "stop"

\* A recovery interrupts motion.
ReturnsToMotion == recovery_return_state \notin Waiting \cup {"INIT"}

MissionInv ==
    /\ MissionTypeOK
    /\ ArrivalIsCommitted
    /\ ApproachIsForTarget
    /\ WaitsForWhatItSent
    /\ NotBegun
    /\ ReturnsToMotion

-----------------------------------------------------------------------------
\* None is no building and no state.
LEMMA NoneIsNothing ==
    /\ None \notin Buildings
    /\ None \notin State
    /\ FIRST_PATIENT \in Patients
BY MissionAssumption

\* There are three formats.
LEMMA ThreeFormats ==
    /\ DOMAIN PAYLOAD_FORMATS = 1 .. 3
    /\ Len(PAYLOAD_FORMATS) = 3
BY DEF PAYLOAD_FORMATS

\* An effective target is a patient or a hospital, and where a target was
\* given, the target (effective_target).
LEMMA EffectiveTargetIsReal ==
    ASSUME MissionInv
    PROVE  /\ EffectiveTarget \in Patients \cup Hospitals \cup {None}
           /\ target_building # None => EffectiveTarget = target_building
BY DEF MissionInv, MissionTypeOK, EffectiveTarget

\* The search is resumed in a state where the buggy seeks.
LEMMA ResumeSeeks == Resume \in {"SEEK_HOSPITAL", "SEEK_PATIENT"}
BY DEF Resume

\* The mission begins in the invariant.
LEMMA InitHolds == MissionInit => MissionInv
<1> SUFFICES ASSUME MissionInit PROVE MissionInv
  OBVIOUS
<1> USE NoneIsNothing DEF MissionInit, State, Waiting
<1>1. MissionTypeOK
  <2>1. payload_index \in DOMAIN PAYLOAD_FORMATS
    BY ThreeFormats
  <2>2. delivered \in Nat
    OBVIOUS
  <2> QED
    BY <2>1, <2>2 DEF MissionTypeOK
<1>2. ArrivalIsCommitted
  BY DEF ArrivalIsCommitted
<1>3. ApproachIsForTarget /\ WaitsForWhatItSent
  BY DEF ApproachIsForTarget, WaitsForWhatItSent
<1>4. NotBegun /\ ReturnsToMotion
  BY DEF NotBegun, ReturnsToMotion
<1> QED
  BY <1>1, <1>2, <1>3, <1>4 DEF MissionInv

\* A step that leaves the mission alone keeps the invariant.
LEMMA StutterHolds == MissionInv /\ UNCHANGED missionVars => MissionInv'
BY DEF missionVars, stateVars, goalVars, formatVars, qrVars, approachVars,
       parkVars, MissionInv, MissionTypeOK, ArrivalIsCommitted,
       ApproachIsForTarget, WaitsForWhatItSent, NotBegun, ReturnsToMotion

-----------------------------------------------------------------------------
\* Every branch of control_loop keeps the invariant.
LEMMA ControlLoopHolds ==
    ASSUME MissionInv, NEW t, ControlLoop(t)
    PROVE  MissionInv'
<1> USE NoneIsNothing
        DEF MissionInv, MissionTypeOK, ArrivalIsCommitted,
            ApproachIsForTarget, WaitsForWhatItSent, NotBegun,
            ReturnsToMotion, State, Waiting,
            Parking, SetState, stateVars, goalVars, formatVars, qrVars,
            approachVars, parkVars
<1>1. CASE EntersRecovery(t)
  BY <1>1 DEF EntersRecovery
<1>2. CASE Recovers(t)
  BY <1>2 DEF Recovers
<1>3. CASE FinishesRecovery(t)
  BY <1>3 DEF FinishesRecovery
<1>4. CASE Starts(t)
  BY <1>4 DEF Starts
<1>5. CASE Seeks(t)
  BY <1>5, EffectiveTargetIsReal
     DEF Seeks, DriveSeeking, Cruises, BeginsApproach, FreshOnTarget,
         AbandonsApproach,
         Arrives, CancelApproach, QrIsFresh
<1>6. CASE SeeksExit(t)
  <2>1. PICK after \in {state, "AT_BUILDING"} :
           DriveSeeking(after)
             /\ SetState(IF park = "closed" THEN "DONE" ELSE after)
    BY <1>6 DEF SeeksExit
  <2>2. /\ state = "SEEK_EXIT"
        /\ park' = IF park = "unstarted" THEN "open" ELSE park
        /\ announce_due' \in BOOLEAN
        /\ UNCHANGED <<goalVars, formatVars, qrVars, parked_sent>>
    BY <1>6 DEF SeeksExit
  <2>3. CASE after = state
    BY <2>1, <2>2, <2>3, EffectiveTargetIsReal
       DEF DriveSeeking, Cruises, BeginsApproach, FreshOnTarget,
           AbandonsApproach,
           CancelApproach, QrIsFresh
  <2>4. CASE after = "AT_BUILDING"
    BY <2>1, <2>2, <2>4 DEF DriveSeeking, Arrives
  <2> QED
    BY <2>1, <2>3, <2>4
<1>7. CASE StaysStopped(t)
  BY <1>7 DEF StaysStopped
<1>8. CASE BacksOut(t)
  BY <1>8, ResumeSeeks DEF BacksOut, AtBuilding
<1>9. CASE RegistersPatient(t)
  BY <1>9 DEF RegistersPatient, AtBuilding, Transmits, ArrivedAt
<1>10. CASE DeliversToHospital(t)
  BY <1>10 DEF DeliversToHospital, AtBuilding, Transmits, ArrivedAt
<1>11. CASE SkipsBuilding(t)
  BY <1>11 DEF SkipsBuilding, AtBuilding
<1>12. CASE Waits(t)
  BY <1>12 DEF Waits
<1>13. CASE GivesUpAssignment(t)
  BY <1>13 DEF GivesUpAssignment
<1>14. CASE GivesUpDelivery(t)
  BY <1>14, ResumeSeeks DEF GivesUpDelivery
<1> QED
  BY <1>1, <1>2, <1>3, <1>4, <1>5, <1>6, <1>7, <1>8, <1>9, <1>10, <1>11,
     <1>12, <1>13, <1>14 DEF ControlLoop

\* So does everything the server can say.
LEMMA ServerCallbackHolds ==
    ASSUME MissionInv, ServerCallback
    PROVE  MissionInv'
<1> USE NoneIsNothing
        DEF MissionInv, MissionTypeOK, ArrivalIsCommitted,
            ApproachIsForTarget, WaitsForWhatItSent, NotBegun,
            ReturnsToMotion, State, Waiting,
            Parking, SetState, stateVars, goalVars, formatVars, qrVars,
            approachVars, parkVars, CancelApproach, ZoneRejected,
            MarkPayloadProven
<1>1. CASE HearsNothingNew
  BY <1>1, StutterHolds DEF HearsNothingNew
<1>2. CASE RetriesFormat
  <2>1. payload_index \in 1 .. 3 /\ payload_index < 3
    BY <1>2, ThreeFormats DEF RetriesFormat, CanRetryFormat
  <2>2. payload_index' \in DOMAIN PAYLOAD_FORMATS
    BY <1>2, <2>1, ThreeFormats DEF RetriesFormat
  <2>3. overdue' \in BOOLEAN
    BY <1>2 DEF RetriesFormat
  <2>4. /\ recovery_return_state' = recovery_return_state
        /\ UNCHANGED <<state, goalVars, payload_proven, last_tx_building,
                       qrVars, approachVars, speed, parkVars>>
    BY <1>2 DEF RetriesFormat
  <2> QED
    BY <2>2, <2>3, <2>4
<1>3. CASE DeliveryRejected
  BY <1>3 DEF DeliveryRejected
<1>4. CASE RegistrationRejected
  BY <1>4 DEF RegistrationRejected
<1>5. CASE ResumesSearch
  BY <1>5, ResumeSeeks DEF ResumesSearch
<1>6. CASE CompletesDeliveries
  BY <1>6 DEF CompletesDeliveries
<1>7. CASE ParkingConfirmed
  BY <1>7 DEF ParkingConfirmed
<1>8. CASE HospitalAssigned
  BY <1>8 DEF HospitalAssigned, Hears
<1>9. CASE NextPatient
  BY <1>9 DEF NextPatient, Hears
<1> QED
  BY <1>1, <1>2, <1>3, <1>4, <1>5, <1>6, <1>7, <1>8, <1>9
     DEF ServerCallback

\* So do the camera and the clock.
LEMMA SurroundingsHold ==
    ASSUME MissionInv,
           (\E text \in Codes : ReadsQr(text)) \/ QrAges \/ WaitExpires \/ ParkingClock
    PROVE  MissionInv'
<1> USE DEF MissionInv, MissionTypeOK, ArrivalIsCommitted,
            ApproachIsForTarget, WaitsForWhatItSent, NotBegun,
            ReturnsToMotion, State, Waiting, stateVars, goalVars, formatVars,
            qrVars, approachVars, parkVars
<1>1. CASE \E text \in Codes : ReadsQr(text)
  BY <1>1 DEF ReadsQr
<1>2. CASE QrAges
  BY <1>2 DEF QrAges
<1>3. CASE WaitExpires
  BY <1>3 DEF WaitExpires
<1>4. CASE ParkingClock
  <2>1. announce_due' \in BOOLEAN /\ park' \in {"open", "closed"}
    BY <1>4 DEF ParkingClock
  <2>2. UNCHANGED <<stateVars, goalVars, formatVars, qrVars, approachVars,
                    speed, parked_sent>>
    BY <1>4 DEF ParkingClock
  <2> QED
    BY <2>1, <2>2
<1> QED
  BY <1>1, <1>2, <1>3, <1>4

\* The conjunction of the invariants is inductive.
LEMMA NextHolds == MissionInv /\ [MissionNext]_missionVars => MissionInv'
BY ControlLoopHolds, ServerCallbackHolds, SurroundingsHold, StutterHolds
   DEF MissionNext

\* What holds of every mission.
THEOREM MissionInvariance == MissionSpec => []MissionInv
BY InitHolds, NextHolds, PTL DEF MissionSpec

-----------------------------------------------------------------------------
\* Every variable of the mission keeps its shape: nothing but patients and
\* hospitals is ever approached, arrived at or transmitted.
THEOREM MissionTypeCorrect == MissionSpec => []MissionTypeOK
BY MissionInvariance, PTL DEF MissionInv

\* Wherever the buggy acts upon an arrival, it is the one its approach
\* committed to (handle_at_building, enter_recovery).
THEOREM ArrivalCommitted == MissionSpec => []ArrivalIsCommitted
BY MissionInvariance, PTL DEF MissionInv

\* What is approached is what the mission is about, at whatever moment the
\* server changes its mind (server_communication_callback).
THEOREM ApproachFollowsTarget == MissionSpec => []ApproachIsForTarget
BY MissionInvariance, PTL DEF MissionInv

\* A wait is for what was sent last, with the buggy standing still.
THEOREM WaitsAreBooked == MissionSpec => []WaitsForWhatItSent
BY MissionInvariance, PTL DEF MissionInv
=============================================================================
