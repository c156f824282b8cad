------------------------------ MODULE Recovery ------------------------------
(***************************************************************************)
(* Being stuck and getting free: is_stuck, enter_recovery, drive_recovery  *)
(* and finish_recovery of class LineFollower (b3rb_ros_line_follower.py),  *)
(* with the 20 Hz control_loop that calls them and the LiDAR and odometry  *)
(* callbacks they depend on.                                               *)
(*                                                                         *)
(* Time passes in units; the timer fires at least once in each (due), so   *)
(* every age is a number of units since the event and stops counting at    *)
(* Horizon, beyond every threshold.  Of the mission there remain whether   *)
(* the buggy seeks, acts upon an arrival or stands (HALT: the two waits    *)
(* and DONE), and that an answer may come at any time and end any of them, *)
(* a recovery too.                                                         *)
(***************************************************************************)
EXTENDS Integers

CONSTANTS
    Readings,                      \* what a scan may show (Lidar)
    Horizon,                       \* bound on every age
    SeekSpeeds,                    \* what drive_seeking may command (Steering)
    STUCK_SPEED_MIN,               \* hundredths
    \* centimetres
    STUCK_CONTACT_DIST, RECOVERY_FRONT_CLEAR, RECOVERY_REAR_MIN,
    RECOVERY_ESCAPE_MIN_CORRIDOR,
    \* units of time
    STUCK_CONTACT_SEC, STUCK_WINDOW_SEC, RECOVERY_COOLDOWN_SEC,
    RECOVERY_MIN_REVERSE_SEC, RECOVERY_MAX_REVERSE_SEC,
    RECOVERY_ESCAPE_MAX_SEC

ASSUME RecoveryAssumption ==
    /\ Readings \subseteq [front : Nat, rear : Nat, corridor : Nat]
    /\ Horizon \in Nat
    /\ SeekSpeeds \subseteq Int
    /\ STUCK_SPEED_MIN \in Nat
    /\ STUCK_CONTACT_SEC \in 1..Horizon - 2
    /\ STUCK_WINDOW_SEC \in 1..Horizon - 2
    /\ RECOVERY_COOLDOWN_SEC \in 1..Horizon - 2
    /\ RECOVERY_MAX_REVERSE_SEC \in 1..Horizon - 2
    /\ RECOVERY_ESCAPE_MAX_SEC \in 1..Horizon - 2
    /\ RECOVERY_MIN_REVERSE_SEC \in 1..RECOVERY_MAX_REVERSE_SEC
    /\ \A d \in { STUCK_CONTACT_DIST, RECOVERY_FRONT_CLEAR,
                  RECOVERY_REAR_MIN, RECOVERY_ESCAPE_MIN_CORRIDOR } : d \in Nat

VARIABLES
    state,
    recovery_return_state,
    speed,                  \* target_speed
    seen,                   \* the latest reading
    front_dist,             \* its front, eased
    clocks,                 \* what is_stuck remembers
    phase, phase_age,       \* recovery_phase, recovery_phase_started
    due,                    \* the timer has not fired in this unit
    \* history
    drove,                  \* how long forward motion has been commanded
    pressed,                \* how long the buggy has backed towards
                            \* something it sees behind it
    interrupted             \* an answer has ended the latest recovery

moveVars == <<state, recovery_return_state, speed, phase, phase_age>>
lidarVars == <<seen, front_dist>>
pastVars == <<drove, pressed, interrupted>>
vars == <<moveVars, lidarVars, clocks, due, pastVars>>

Driving == {"SEEK", "AT_BUILDING"}

\* Where the buggy is since last_progress_time, and the ages of that time,
\* of contact_since, if set, and of last_recovery_time.
Clocks == [ pose     : {"unknown", "near", "moved"},
            progress : 0..Horizon,
            touching : BOOLEAN,
            contact  : 0..Horizon,
            recovery : 0..Horizon ]

Init ==
    /\ state = "SEEK"
    /\ recovery_return_state = "SEEK"
    /\ speed = "stop"
    /\ seen \in Readings
    /\ front_dist = seen.front
    /\ clocks = [ pose |-> "unknown", progress |-> 0, touching |-> FALSE,
                  contact |-> 0, recovery |-> Horizon ]
    /\ phase = "REVERSE"
    /\ phase_age = 0
    /\ due = TRUE
    /\ drove = 0
    /\ pressed = 0
    /\ interrupted = FALSE

-----------------------------------------------------------------------------
(* is_stuck *)

\* last_progress is where the buggy is now.
HereAndNow(c) ==
    [ c EXCEPT !.pose = IF @ = "moved" THEN "near" ELSE @, !.progress = 0 ]

InContact == front_dist < STUCK_CONTACT_DIST

PressedTooLong ==
    InContact /\ clocks.touching /\ clocks.contact > STUCK_CONTACT_SEC

\* Mutant: standing still does not restart the clocks.
LookedDriving ==
    IF speed # "forward" \/ clocks.recovery < RECOVERY_COOLDOWN_SEC
    THEN clocks
    ELSE LET c == IF InContact /\ clocks.touching THEN clocks
                  ELSE [clocks EXCEPT !.touching = InContact, !.contact = 0]
         IN  IF c.pose = "moved" /\ ~PressedTooLong THEN HereAndNow(c) ELSE c

\* What is_stuck leaves in the clocks.
Looked ==
    IF speed # "forward"
    THEN [HereAndNow(clocks) EXCEPT !.touching = FALSE, !.contact = 0]
    ELSE IF clocks.recovery < RECOVERY_COOLDOWN_SEC
    THEN clocks
    ELSE LET c == IF InContact /\ clocks.touching THEN clocks
                  ELSE [clocks EXCEPT !.touching = InContact, !.contact = 0]
         IN  IF c.pose = "moved" /\ ~PressedTooLong THEN HereAndNow(c) ELSE c

\* Mutant: only odometry is trusted.
StuckByOdometry ==
    /\ speed = "forward"
    /\ clocks.recovery >= RECOVERY_COOLDOWN_SEC
    /\ clocks.pose = "near" /\ clocks.progress > STUCK_WINDOW_SEC

\* What is_stuck returns: in contact for too long, or no ground covered.
Stuck ==
    /\ speed = "forward"
    /\ clocks.recovery >= RECOVERY_COOLDOWN_SEC
    /\ \/ PressedTooLong
       \/ clocks.pose = "near" /\ clocks.progress > STUCK_WINDOW_SEC

-----------------------------------------------------------------------------
(* control_loop.  The commanded speed is kept in `drove' and `pressed' as  *)
(* long as it stands.                                                      *)

Commands(new) ==
    /\ speed' = new
    /\ drove' = IF new = "forward" THEN drove ELSE 0
    /\ pressed' = IF new = "reverse" THEN pressed ELSE 0

\* set_state; what RECOVERY keeps is forgotten with it.
Leaves(new) ==
    /\ state' = new
    /\ phase' = "REVERSE"
    /\ phase_age' = 0
    /\ recovery_return_state' = "SEEK"

\* Mutant: a recovery interrupts whatever is there, a recovery too.
EntersRecoveryAgain ==
    /\ Stuck
    /\ state' = "RECOVERY"
    /\ recovery_return_state' = state
    /\ phase' = "REVERSE"
    /\ phase_age' = 0
    /\ clocks' = Looked
    /\ Commands("reverse")
    /\ interrupted' = FALSE

\* enter_recovery and the first step of drive_recovery, which reverses.
EntersRecovery ==
    /\ state \in Driving
    /\ Stuck
    /\ state' = "RECOVERY"
    /\ recovery_return_state' = state
    /\ phase' = "REVERSE"
    /\ phase_age' = 0
    /\ clocks' = Looked
    /\ Commands("reverse")
    /\ interrupted' = FALSE

\* Mutant: the rear is not looked at.
BackedOffBlindly ==
    /\ phase_age >= RECOVERY_MIN_REVERSE_SEC
    /\ \/ front_dist >= RECOVERY_FRONT_CLEAR
       \/ phase_age > RECOVERY_MAX_REVERSE_SEC

\* The end of the REVERSE phase: not before RECOVERY_MIN_REVERSE_SEC.
BackedOff ==
    /\ phase_age >= RECOVERY_MIN_REVERSE_SEC
    /\ \/ seen.rear < RECOVERY_REAR_MIN
       \/ front_dist >= RECOVERY_FRONT_CLEAR
       \/ phase_age > RECOVERY_MAX_REVERSE_SEC

\* drive_recovery, REVERSE.  In the tick that ends it the last command
\* stands.
Reverses ==
    /\ state = "RECOVERY"
    /\ phase = "REVERSE"
    /\ IF BackedOff
       THEN /\ phase' = "ESCAPE"
            /\ phase_age' = 0
            /\ UNCHANGED <<speed, drove, pressed>>
       ELSE /\ Commands("reverse")
            /\ UNCHANGED <<phase, phase_age>>
    /\ UNCHANGED <<state, recovery_return_state, clocks, interrupted>>

\* Mutant: the escape turn has no cap.
EscapedForGood == seen.corridor >= RECOVERY_ESCAPE_MIN_CORRIDOR

Escaped ==
    \/ seen.corridor >= RECOVERY_ESCAPE_MIN_CORRIDOR
    \/ phase_age > RECOVERY_ESCAPE_MAX_SEC

\* drive_recovery, ESCAPE.
Escapes ==
    /\ state = "RECOVERY"
    /\ phase = "ESCAPE"
    /\ ~Escaped
    /\ Commands("forward")
    /\ UNCHANGED <<state, recovery_return_state, phase, phase_age, clocks,
                   interrupted>>

\* finish_recovery, which commands nothing.
FinishesRecovery ==
    /\ state = "RECOVERY"
    /\ phase = "ESCAPE"
    /\ Escaped
    /\ Leaves(recovery_return_state)
    /\ clocks' = [HereAndNow(clocks) EXCEPT !.recovery = 0,
                                            !.touching = FALSE, !.contact = 0]
    /\ UNCHANGED <<speed, drove, pressed, interrupted>>

\* What is_stuck takes for an attempt to move.
SeekCommands ==
    { IF s >= STUCK_SPEED_MIN THEN "forward" ELSE "stop" : s \in SeekSpeeds }

\* SEEK_PATIENT, SEEK_HOSPITAL and SEEK_EXIT.  drive_seeking may arrive; the
\* parking window may close.
Seeks ==
    /\ state = "SEEK"
    /\ ~Stuck
    /\ clocks' = Looked
    /\ \E command \in SeekCommands : Commands(command)
    /\ state' \in {"SEEK", "AT_BUILDING", "HALT"}
    /\ UNCHANGED <<recovery_return_state, phase, phase_age, interrupted>>

\* AT_BUILDING: transmits and waits, or backs out.
ActsOnArrival ==
    /\ state = "AT_BUILDING"
    /\ ~Stuck
    /\ clocks' = Looked
    /\ Commands("stop")
    /\ state' \in {"SEEK", "HALT"}
    /\ UNCHANGED <<recovery_return_state, phase, phase_age, interrupted>>

\* WAIT_ASSIGNMENT and WAIT_NEXT, which may time out, and DONE.
Halts ==
    /\ state = "HALT"
    /\ Commands("stop")
    /\ state' \in {"HALT", "SEEK"}
    /\ UNCHANGED <<recovery_return_state, phase, phase_age, clocks,
                   interrupted>>

ControlLoop ==
    /\ due' = FALSE
    /\ \/ EntersRecovery \/ Reverses \/ Escapes \/ FinishesRecovery
       \/ Seeks \/ ActsOnArrival \/ Halts
    /\ UNCHANGED lidarVars

-----------------------------------------------------------------------------
\* server_communication_callback: an answer sets the state, and ends a
\* recovery without finish_recovery.
Answered ==
    /\ \E new \in {"SEEK", "HALT"} : Leaves(new)
    /\ interrupted' = (interrupted \/ state = "RECOVERY")
    /\ UNCHANGED <<speed, lidarVars, clocks, due, drove, pressed>>

\* odometry_callback: the wheels report ground covered since last_progress,
\* or not.
OdometryCallback ==
    /\ \E pose \in {"near", "moved"} : clocks' = [clocks EXCEPT !.pose = pose]
    /\ UNCHANGED <<moveVars, lidarVars, due, pastVars>>

\* lidar_callback: closing is taken at once, opening is averaged in.
LidarCallback(reading) ==
    /\ seen' = reading
    /\ front_dist' = IF reading.front <= seen.front THEN reading.front
                     ELSE (front_dist + reading.front) \div 2
    /\ pressed' = IF reading.rear < RECOVERY_REAR_MIN THEN pressed ELSE 0
    /\ UNCHANGED <<moveVars, clocks, due, drove, interrupted>>

Older(age) == IF age = Horizon THEN age ELSE age + 1

TimePasses ==
    /\ ~due
    /\ due' = TRUE
    /\ clocks' = [ clocks EXCEPT !.progress = Older(@),
                                 !.contact = IF clocks.touching
                                             THEN Older(@) ELSE @,
                                 !.recovery = Older(@) ]
    /\ phase_age' = IF state = "RECOVERY" THEN Older(phase_age) ELSE phase_age
    /\ drove' = IF speed = "forward" THEN Older(drove) ELSE drove
    /\ pressed' = IF speed = "reverse" /\ seen.rear < RECOVERY_REAR_MIN
                  THEN Older(pressed) ELSE pressed
    /\ UNCHANGED <<state, recovery_return_state, speed, phase, lidarVars,
                   interrupted>>

Next ==
    \/ ControlLoop
    \/ Answered
    \/ OdometryCallback
    \/ \E reading \in Readings : LidarCallback(reading)
    \/ TimePasses

Spec == Init /\ [][Next]_vars

\* The executor serves the timer, and time goes on.
FairSpec == Spec /\ WF_vars(ControlLoop) /\ WF_vars(TimePasses)

-----------------------------------------------------------------------------
\* Type invariant.
RecoveryTypeOK ==
    /\ state \in Driving \cup {"HALT", "RECOVERY"}
    /\ recovery_return_state \in Driving
    /\ speed \in {"stop", "forward", "reverse"}
    /\ seen \in Readings
    /\ front_dist \in Nat
    /\ clocks \in Clocks
    /\ phase \in {"REVERSE", "ESCAPE"}
    /\ phase_age \in 0..Horizon
    /\ due \in BOOLEAN
    /\ drove \in 0..Horizon
    /\ pressed \in 0..Horizon
    /\ interrupted \in BOOLEAN

\* No phase of a recovery outlives its cap by more than the tick that ends
\* it, whatever the sensors report and however often the clocks were left
\* standing ("safety caps", drive_recovery).
RecoveryIsBounded ==
    state = "RECOVERY" =>
        phase_age <= 1 + IF phase = "REVERSE" THEN RECOVERY_MAX_REVERSE_SEC
                                              ELSE RECOVERY_ESCAPE_MAX_SEC

\* Nothing but driving makes the buggy stuck: a recovery begins only after
\* forward motion has been commanded for longer than the shorter window,
\* without a wait or another recovery in between ("Not trying to move - not
\* stuck"), unless an answer has cut the recovery before short.
StuckTakesDriving ==
    [][ state # "RECOVERY" /\ state' = "RECOVERY" /\ ~interrupted =>
            drove > STUCK_CONTACT_SEC \/ drove > STUCK_WINDOW_SEC ]_vars

\* The buggy does not back towards something it sees close behind it for
\* longer than RECOVERY_MIN_REVERSE_SEC and the two ticks in which the phase
\* and the recovery may end, which command nothing: the reverse stands for
\* them ("stop reversing if something is this close behind").
RearIsRespected == pressed <= RECOVERY_MIN_REVERSE_SEC + 2

\* A buggy that keeps its nose against something and means to go on enters
\* RECOVERY again and again, whatever ground the wheels report ("stuck,
\* whatever the odometry claims").
WedgedIsNoticed ==
    <>[](InContact /\ state \in {"SEEK", "RECOVERY"}) => []<>(state = "RECOVERY")
=============================================================================
