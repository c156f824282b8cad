------------------------------ MODULE Approach ------------------------------
(***************************************************************************)
(* Driving to a building: drive_seeking and dodge_left of class            *)
(* LineFollower (b3rb_ros_line_follower.py), with handle_at_building, the  *)
(* waits that follow it and the QR, LiDAR, odometry and server callbacks.  *)
(*                                                                         *)
(* Which building it is belongs to Mission: here the latest decode is of   *)
(* the building sought, which is the committed one during an approach, or  *)
(* of another.  What makes the buggy stuck belongs to Recovery: here it    *)
(* may be whenever it drives.  Time passes in units; the timer fires at    *)
(* least once in each (due), and an age stops counting when it is beyond   *)
(* what it is compared with.                                               *)
(***************************************************************************)
EXTENDS Integers

CONSTANTS
    Clearances,             \* what the LiDAR may show to a side
    AVOID_SIDE_MIN,         \* room enough to dodge to a side
    \* units of time
    QR_FRESH_SEC, APPROACH_QR_GRACE_SEC, APPROACH_STALL_SEC,
    APPROACH_MAX_SEC, ARRIVAL_QR_MAX_AGE, WAIT_TIMEOUT, AVOID_HOLD_SEC

\* WAIT_TIMEOUT stands for WAIT_ASSIGNMENT_TIMEOUT and WAIT_NEXT_TIMEOUT.
ASSUME ApproachAssumption ==
    /\ Clearances \subseteq Nat
    /\ AVOID_SIDE_MIN \in Nat
    /\ { QR_FRESH_SEC, APPROACH_QR_GRACE_SEC, APPROACH_STALL_SEC,
         APPROACH_MAX_SEC, ARRIVAL_QR_MAX_AGE, WAIT_TIMEOUT,
         AVOID_HOLD_SEC } \subseteq Nat \ {0}
    /\ QR_FRESH_SEC <= APPROACH_QR_GRACE_SEC
    /\ APPROACH_QR_GRACE_SEC <= ARRIVAL_QR_MAX_AGE
    /\ APPROACH_MAX_SEC + QR_FRESH_SEC < ARRIVAL_QR_MAX_AGE
    /\ APPROACH_MAX_SEC <= WAIT_TIMEOUT

VARIABLES
    state,                  \* SEEK_* and WAIT_* without their suffixes
    recovery_return_state,
    over,                   \* no hospital is assigned: OK has come
    waited,                 \* time_in_state, in WAIT
    \* the latest decode
    qr, qr_age,
    \* approach_since and what has been covered since
    approaching, held, advanced, stalled,
    \* the road ahead and the dodge
    road, side, hold,
    due,                    \* the timer has not fired in this unit
    \* history
    acted,                  \* the approach has led to AT_BUILDING, and
                            \* handle_at_building has run
    delayed,                \* a recovery has come between the two
    quiet                   \* since the latest dodge

stateVars == <<state, recovery_return_state, over, waited>>
qrVars == <<qr, qr_age>>
approachVars == <<approaching, held, advanced, stalled>>
dodgeVars == <<side, hold, quiet>>
pastVars == <<acted, delayed>>
vars == <<stateVars, qrVars, approachVars, road, dodgeVars, due, pastVars>>

Seeking == {"SEEK", "EXIT"}
Driving == Seeking \cup {"AT_BUILDING"}
Sides == {"left", "right"}
None == "none"

\* How far the buggy is from where the approach began, against
\* MIN_ARRIVAL_ADVANCE_M, half of APPROACH_ADVANCE_M and all of it.
Advances == {"begun", "early", "past half", "level"}

Init ==
    /\ state = "SEEK"
    /\ recovery_return_state = "SEEK"
    /\ over = FALSE
    /\ waited = 0
    /\ qr = "other"
    /\ qr_age = ARRIVAL_QR_MAX_AGE + 1
    /\ approaching = FALSE
    /\ held = 0
    /\ advanced = "begun"
    /\ stalled = 0
    /\ road = "clear"
    /\ side = None
    /\ hold = 0
    /\ quiet = AVOID_HOLD_SEC
    /\ due = TRUE
    /\ acted = FALSE
    /\ delayed = FALSE

-----------------------------------------------------------------------------
(* dodge_left *)

Opposite(s) == IF s = "left" THEN "right" ELSE "left"

\* The lane says where to go, the LiDAR whether there is room; a lane that is
\* lost or runs straight leaves it to the room alone.
Choice(lane, clear) ==
    IF lane \in Sides /\ clear[lane] > AVOID_SIDE_MIN THEN lane
    ELSE IF lane \in Sides /\ clear[Opposite(lane)] > AVOID_SIDE_MIN
    THEN Opposite(lane)
    ELSE IF clear["left"] > clear["right"] THEN "left" ELSE "right"

Choices == { Choice(lane, clear) : lane \in Sides \cup {"straight", "lost"},
                                   clear \in [Sides -> Clearances] }

\* Mutant: the hold runs from the decision, not from the latest call.
DodgesUnrenewed ==
    /\ quiet' = 0
    /\ IF side # None /\ hold < AVOID_HOLD_SEC
       THEN UNCHANGED <<side, hold>>
       ELSE side' \in Choices /\ hold' = 0

\* A side is held while calls come, and AVOID_HOLD_SEC longer.
Dodges ==
    /\ quiet' = 0
    /\ hold' = 0
    /\ IF side # None /\ hold < AVOID_HOLD_SEC
       THEN side' = side
       ELSE side' \in Choices

\* drive_seeking, avoidance: a clear road forgets a side that has expired.
Avoids ==
    IF road # "clear" THEN Dodges
    ELSE /\ side' = IF hold >= AVOID_HOLD_SEC THEN None ELSE side
         /\ UNCHANGED <<hold, quiet>>

-----------------------------------------------------------------------------
(* drive_seeking, arrival *)

FreshOnTarget == state = "SEEK" /\ qr = "sought" /\ qr_age < QR_FRESH_SEC

\* There is no approach any more; the latest decode may be of what is sought
\* now.
EndsApproach ==
    /\ approaching' = FALSE
    /\ held' = 0
    /\ advanced' = "begun"
    /\ stalled' = 0
    /\ qr' \in {"sought", "other"}

\* Mutant: every fresh decode begins the approach afresh.
BeginsAgain ==
    /\ FreshOnTarget
    /\ approaching' = TRUE
    /\ held' = 0
    /\ advanced' = "begun"
    /\ stalled' = 0
    /\ acted' = FALSE
    /\ UNCHANGED <<state, qr, delayed>>

BeginsApproach ==
    /\ ~approaching
    /\ FreshOnTarget
    /\ approaching' = TRUE
    /\ acted' = FALSE
    /\ UNCHANGED <<state, qr, held, advanced, stalled, delayed>>

PastHalf == advanced \in {"past half", "level"}

\* Mutant: the cap on an approach is left out.
GivesUpOnLoss ==
    /\ qr_age > APPROACH_QR_GRACE_SEC
    /\ ~PastHalf
    /\ stalled >= APPROACH_STALL_SEC

\* early_loss, or APPROACH_MAX_SEC.
GivesUp ==
    \/ held > APPROACH_MAX_SEC
    \/ /\ qr_age > APPROACH_QR_GRACE_SEC
       /\ ~PastHalf
       /\ stalled >= APPROACH_STALL_SEC

AbandonsApproach ==
    /\ approaching
    /\ GivesUp
    /\ EndsApproach
    /\ UNCHANGED <<state, pastVars>>

\* The nearest thing around is closer than it ever was in this approach, has
\* receded by RECEDING_MARGIN since, or neither.
Arrived(near) ==
    \/ advanced = "level"
    \/ near # "closer" /\ stalled > APPROACH_STALL_SEC /\ PastHalf
    \/ near = "receded" /\ advanced # "begun"

PursuesApproach(near) ==
    /\ approaching
    /\ ~GivesUp
    /\ stalled' = IF near = "closer" THEN 0 ELSE stalled
    /\ IF Arrived(near) THEN state' = "AT_BUILDING" /\ delayed' = FALSE
                        ELSE UNCHANGED <<state, delayed>>
    /\ UNCHANGED <<qr, approaching, held, advanced, acted>>

Cruises ==
    /\ ~approaching
    /\ ~FreshOnTarget
    /\ UNCHANGED <<state, qr, approachVars, pastVars>>

\* drive_seeking.  What is close ahead is all that counts in such a tick.
Seeks ==
    /\ state \in Seeking
    /\ Avoids
    /\ IF road = "close"
       THEN UNCHANGED <<state, qr, approachVars, pastVars>>
       ELSE \/ BeginsApproach \/ AbandonsApproach \/ Cruises
            \/ \E near \in {"closer", "same", "receded"} :
                  PursuesApproach(near)
    /\ UNCHANGED <<recovery_return_state, over, waited, qr_age>>

\* control_loop, SEEK_EXIT: PARK_WINDOW_SEC ends it over drive_seeking.
ExitCloses ==
    /\ state = "EXIT"
    /\ Avoids
    /\ state' = "DONE"
    /\ IF road # "close" /\ approaching /\ GivesUp
       THEN EndsApproach
       ELSE UNCHANGED <<qr, approachVars>>
    /\ UNCHANGED <<recovery_return_state, over, waited, qr_age, pastVars>>

-----------------------------------------------------------------------------
(* handle_at_building *)

Readable == qr = "sought" /\ qr_age <= ARRIVAL_QR_MAX_AGE

\* Mutant: the approach is kept.
BacksOutThrashing ==
    /\ state = "AT_BUILDING"
    /\ ~Readable
    /\ state' = "SEEK"
    /\ acted' = TRUE
    /\ UNCHANGED <<recovery_return_state, over, waited, qrVars, approachVars,
                   dodgeVars, delayed>>

\* No recent read: the approach is cancelled.
BacksOut ==
    /\ state = "AT_BUILDING"
    /\ ~Readable
    /\ EndsApproach
    /\ state' = "SEEK"
    /\ acted' = TRUE
    /\ UNCHANGED <<recovery_return_state, over, waited, qr_age, dodgeVars,
                   delayed>>

\* Transmits and waits; a hospital that is not the assigned one is skipped,
\* which is any hospital once OK has come.
ActsOnArrival ==
    /\ state = "AT_BUILDING"
    /\ Readable
    /\ state' \in {"WAIT"} \cup IF over THEN {"SEEK"} ELSE {}
    /\ waited' = 0
    /\ acted' = TRUE
    /\ UNCHANGED <<recovery_return_state, over, qrVars, approachVars,
                   dodgeVars, delayed>>

\* WAIT_ASSIGNMENT and WAIT_NEXT, which give up in time.
Waits ==
    /\ state = "WAIT"
    /\ IF waited > WAIT_TIMEOUT THEN state' = "SEEK" /\ waited' = 0
                                ELSE UNCHANGED <<state, waited>>
    /\ UNCHANGED <<recovery_return_state, over, qrVars, approachVars,
                   dodgeVars, pastVars>>

Rests ==
    /\ state = "DONE"
    /\ UNCHANGED <<stateVars, qrVars, approachVars, dodgeVars, pastVars>>

-----------------------------------------------------------------------------
(* Recovery, of which Recovery tells the rest. *)

\* Mutant: a recovery interrupts whatever is there, a recovery too.
EntersRecoveryAgain ==
    /\ state' = "RECOVERY"
    /\ recovery_return_state' = state
    /\ delayed' = (delayed \/ state = "AT_BUILDING")
    /\ UNCHANGED <<over, waited, qrVars, approachVars, dodgeVars, acted>>

EntersRecovery ==
    /\ state \in Driving
    /\ state' = "RECOVERY"
    /\ recovery_return_state' = state
    /\ delayed' = (delayed \/ state = "AT_BUILDING")
    /\ UNCHANGED <<over, waited, qrVars, approachVars, dodgeVars, acted>>

Recovers ==
    /\ state = "RECOVERY"
    /\ \/ UNCHANGED <<state, recovery_return_state>>
       \/ state' = recovery_return_state /\ recovery_return_state' = "SEEK"
    /\ UNCHANGED <<over, waited, qrVars, approachVars, dodgeVars, pastVars>>

ControlLoop ==
    /\ due' = FALSE
    /\ \/ EntersRecovery \/ Recovers
       \/ Seeks \/ ExitCloses
       \/ BacksOut \/ ActsOnArrival \/ Waits \/ Rests
    /\ UNCHANGED road

-----------------------------------------------------------------------------
(* Callbacks *)

\* qr_detection_callback
ReadsQr ==
    /\ qr' \in IF state = "EXIT" /\ ~approaching THEN {"other"}
                                                ELSE {"sought", "other"}
    /\ qr_age' = 0
    /\ UNCHANGED <<stateVars, approachVars, road, dodgeVars, due, pastVars>>

\* lidar_callback: front_dist against OBSTACLE_SLOW_DIST and
\* OBSTACLE_STOP_DIST.
LidarCallback ==
    /\ road' \in {"clear", "near", "close"}
    /\ UNCHANGED <<stateVars, qrVars, approachVars, dodgeVars, due, pastVars>>

\* odometry_callback: the distance to where the approach began grows and
\* shrinks by less than half an approach between two messages.
OdometryCallback ==
    /\ approaching
    /\ state \in Driving \cup {"RECOVERY"}
    /\ advanced' \in CASE advanced = "begun" -> {"early"}
                       [] advanced = "early" -> {"begun", "past half"}
                       [] advanced = "past half" -> {"early", "level"}
                       [] advanced = "level" -> {"past half"}
    /\ UNCHANGED <<stateVars, qrVars, approaching, held, stalled, road,
                   dodgeVars, due, pastVars>>

Answered(new) ==
    /\ state' = new
    /\ recovery_return_state' = "SEEK"
    /\ waited' = 0
    /\ UNCHANGED <<qr_age, road, dodgeVars, due, pastVars>>

\* HOSPITAL and PATIENT.
Assigned == Answered("SEEK") /\ over' = FALSE /\ EndsApproach

\* INVALID; in the exit run it says nothing, and while the code is in view it
\* may be answered with another format, which restarts the wait.
Rejected ==
    /\ state \notin {"EXIT", "DONE"}
    /\ \/ Answered("SEEK") /\ EndsApproach
       \/ /\ qr_age < QR_FRESH_SEC
          /\ waited' = 0
          /\ UNCHANGED <<state, recovery_return_state, qrVars, approachVars,
                         road, dodgeVars, due, pastVars>>
    /\ UNCHANGED over

\* OK to the last delivery.  The approach stays.
Completed ==
    /\ Answered("EXIT")
    /\ over' = TRUE
    /\ qr' = IF approaching THEN qr ELSE "other"
    /\ UNCHANGED approachVars

\* Any other OK.
ParkingConfirmed == Answered("DONE") /\ UNCHANGED <<over, qr, approachVars>>

Older(age, most) == IF age < most THEN age + 1 ELSE most

TimePasses ==
    /\ ~due
    /\ due' = TRUE
    /\ waited' = IF state = "WAIT" THEN Older(waited, WAIT_TIMEOUT + 1)
                                 ELSE waited
    /\ qr_age' = Older(qr_age, ARRIVAL_QR_MAX_AGE + 1)
    /\ held' = IF approaching THEN Older(held, APPROACH_MAX_SEC + 1)
                             ELSE held
    /\ stalled' = IF approaching THEN Older(stalled, APPROACH_STALL_SEC + 1)
                                ELSE stalled
    /\ hold' = IF side # None THEN Older(hold, AVOID_HOLD_SEC) ELSE hold
    /\ quiet' = Older(quiet, AVOID_HOLD_SEC)
    /\ UNCHANGED <<state, recovery_return_state, over, qr, approaching,
                   advanced, road, side, pastVars>>

Next ==
    \/ ControlLoop
    \/ ReadsQr \/ LidarCallback \/ OdometryCallback
    \/ Assigned \/ Rejected \/ Completed \/ ParkingConfirmed
    \/ TimePasses

Spec == Init /\ [][Next]_vars

\* The executor serves the timer, and time goes on.
FairSpec == Spec /\ WF_vars(ControlLoop) /\ WF_vars(TimePasses)

-----------------------------------------------------------------------------
\* Type invariant.
ApproachTypeOK ==
    /\ state \in Driving \cup {"WAIT", "DONE", "RECOVERY"}
    /\ recovery_return_state \in Driving
    /\ over \in BOOLEAN
    /\ waited \in 0..WAIT_TIMEOUT + 1
    /\ qr \in {"sought", "other"}
    /\ qr_age \in 0..ARRIVAL_QR_MAX_AGE + 1
    /\ approaching \in BOOLEAN
    /\ held \in 0..APPROACH_MAX_SEC + 1
    /\ advanced \in Advances
    /\ stalled \in 0..APPROACH_STALL_SEC + 1
    /\ road \in {"clear", "near", "close"}
    /\ side \in Sides \cup {None}
    /\ hold \in 0..AVOID_HOLD_SEC
    /\ due \in BOOLEAN
    /\ acted \in BOOLEAN
    /\ delayed \in BOOLEAN
    /\ quiet \in 0..AVOID_HOLD_SEC

\* The gate on the age of the decode is never tighter than the approach is
\* long: unless a recovery comes between, an arrival is not turned away
\* because of its age, however long the road was blocked on the way ("so any
\* decode still inside the approach window is trustworthy by construction").
ArrivesInTime ==
    state = "AT_BUILDING" /\ ~delayed => qr_age <= ARRIVAL_QR_MAX_AGE

\* While deliveries go on, one approach leads to one arrival: having been
\* there, turned away or given up waiting, the buggy does not arrive again
\* before another decode begins another approach ("re-arrive, get rejected
\* again, and thrash").
ArrivesOnce ==
    [][ (state \in Seeking) /\ state' = "AT_BUILDING" /\ ~over => ~acted ]_vars

\* The side of a dodge does not change before AVOID_HOLD_SEC has gone by
\* without one, whatever the lane and the LiDAR say meanwhile ("Decide once,
\* hold until clear").
DodgeSideHolds ==
    [][ side # None /\ side' = Opposite(side) => quiet >= AVOID_HOLD_SEC ]_vars

\* A buggy that goes on seeking on an open road does not stay committed to
\* one building for ever, however often it reads the code and gets closer.
ApproachEnds ==
    <>[](state = "SEEK" /\ road # "close") => []<>(~approaching)
=============================================================================
