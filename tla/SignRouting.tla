---------------------------- MODULE SignRouting ----------------------------
(***************************************************************************)
(* How the buggy remembers what a sign board says: the routing table, the  *)
(* turn it latches for its target, and the ways a latched turn is spent    *)
(* (class LineFollower of b3rb_ros_line_follower.py).                      *)
(*                                                                         *)
(* A destination is its building (NAME_TO_CODE is one to one).  Ranges are *)
(* read anew by each callback and are choices here; so is how far the road *)
(* has turned since the turn was latched.  Deadlines are Booleans that the *)
(* passage of time lowers.  Steering is left out: of a frame of edge       *)
(* vectors there remain the columns of its boundaries, of the fork its     *)
(* branch.                                                                 *)
(***************************************************************************)
EXTENDS Integers, Sequences

CONSTANTS
    None,
    Patients,
    Hospitals,
    FIRST_PATIENT,
    Sightings,      \* what the sign detector may make of a board
    Frames,         \* what the edge vector node may make of an image
    IMAGE_WIDTH

Targets == Patients \cup Hospitals
Turns == {"LEFT", "RIGHT"}
Directions == Turns \cup {"STRAIGHT"}
Tables == [Targets -> Directions \cup {None}]

ASSUME RoutingAssumption ==
    /\ FIRST_PATIENT \in Patients
    /\ None \notin Targets \cup Directions
    /\ Sightings \subseteq [board : Tables, table : Tables]
    /\ Frames \subseteq UNION { [1..n -> 0..IMAGE_WIDTH] : n \in 0..2 }
    /\ IMAGE_WIDTH \in Nat \ {0}

VARIABLES
    begun,              \* the state is no longer INIT
    target_building,
    routing_table,
    table_live,         \* SIGN_TABLE_TTL_SEC since routing_time
    pending,            \* pending_turn, pending_turn_yaw
    cooling,            \* TURN_COOLDOWN_SEC since turn_committed_at
    have_pose,
    was_lane_visible,
    fork_live,          \* fork_until
    branch,             \* fork_take_left
    \* history
    shown,              \* the board last read
    steered             \* the pending turn has steered and no ordinary lane
                        \* of two boundaries has been seen since

lookVars == <<routing_table, table_live, shown>>
laneVars == <<was_lane_visible, fork_live, branch, steered>>
vars == <<begun, target_building, lookVars, pending, cooling, have_pose,
          laneVars>>

\* A pending turn: how far the buggy has rotated since it was latched, if it
\* knew its heading then; the assigned target it was latched for, None if that
\* was an adopted one, and at how many junctions it has steered (history).
NoTurn == [turn |-> None, yaw |-> "unknown", of |-> None, uses |-> 0]

Init ==
    /\ begun = FALSE
    /\ target_building = None
    /\ routing_table = [b \in Targets |-> None]
    /\ table_live = FALSE
    /\ pending = NoTurn
    /\ cooling = FALSE
    /\ have_pose = FALSE
    /\ was_lane_visible = TRUE
    /\ fork_live = FALSE
    /\ branch = None
    /\ shown = [b \in Targets |-> None]
    /\ steered = FALSE

-----------------------------------------------------------------------------
\* effective_target: what the server or the start assigned, else a patient
\* whose code was read last.
EffectiveTarget(assigned, adopted) ==
    IF assigned # None THEN assigned ELSE adopted

\* Mutant: TURN_COOLDOWN_SEC is not looked at.
LatchedAtOnce(held, assigned, adopted, table, live) ==
    LET target == EffectiveTarget(assigned, adopted)
    IN  IF /\ target # None
           /\ live
           /\ table[target] \notin {None, held.turn}
        THEN [ turn |-> table[target],
               yaw  |-> IF have_pose THEN "short" ELSE "unknown",
               of   |-> assigned,
               uses |-> 0 ]
        ELSE held

\* Mutant: a turn that is pending is not replaced.
LatchedFirst(held, assigned, adopted, table, live) ==
    LET target == EffectiveTarget(assigned, adopted)
    IN  IF /\ target # None
           /\ live
           /\ ~cooling
           /\ held.turn = None
           /\ table[target] # None
        THEN [ turn |-> table[target],
               yaw  |-> IF have_pose THEN "short" ELSE "unknown",
               of   |-> assigned,
               uses |-> 0 ]
        ELSE held

\* latch_turn_for_target
Latched(held, assigned, adopted, table, live) ==
    LET target == EffectiveTarget(assigned, adopted)
    IN  IF /\ target # None
           /\ live
           /\ ~cooling
           /\ table[target] \notin {None, held.turn}
        THEN [ turn |-> table[target],
               yaw  |-> IF have_pose THEN "short" ELSE "unknown",
               of   |-> assigned,
               uses |-> 0 ]
        ELSE held

\* clear_pending_turn
Clear == pending' = NoTurn /\ cooling' = TRUE

\* control_loop in INIT: whatever a passing patient had latched stays, unless
\* the first patient is on the table too.
Starts ==
    /\ ~begun
    /\ begun' = TRUE
    /\ target_building' = FIRST_PATIENT
    /\ pending' = Latched(pending, FIRST_PATIENT, None, routing_table, table_live)
    /\ UNCHANGED <<lookVars, cooling, have_pose, laneVars>>

\* Mutant: the new table is laid over the old one.
SignBoardOverlaid(sighting, adopted) ==
    LET table == [ b \in Targets |-> IF sighting.table[b] # None
                                     THEN sighting.table[b]
                                     ELSE routing_table[b] ]
    IN  /\ adopted # None => target_building = None
        /\ routing_table' = table
        /\ table_live' = TRUE
        /\ shown' = sighting.board
        /\ pending' = Latched(pending, target_building, adopted, table, TRUE)
        /\ UNCHANGED <<begun, target_building, cooling, have_pose, laneVars>>

\* sign_board_callback: the new table replaces the old one.
SignBoardCallback(sighting, adopted) ==
    /\ adopted # None => target_building = None
    /\ routing_table' = sighting.table
    /\ table_live' = TRUE
    /\ shown' = sighting.board
    /\ pending' = Latched(pending, target_building, adopted,
                          sighting.table, TRUE)
    /\ UNCHANGED <<begun, target_building, cooling, have_pose, laneVars>>

\* Mutant: the turn for the old target stays pending.
AnsweredKeepsTurn(building) ==
    /\ begun
    /\ target_building' = building
    /\ pending' = Latched(pending, building, None, routing_table, table_live)
    /\ UNCHANGED <<begun, lookVars, cooling, have_pose, laneVars>>

\* server_communication_callback, HOSPITAL and PATIENT: the turn goes without
\* a cooldown, and one for the new target is latched from the table at hand.
\* INVALID changes nothing here: the target it restores is the target still.
Answered(building) ==
    /\ begun
    /\ target_building' = building
    /\ pending' = Latched(NoTurn, building, None, routing_table, table_live)
    /\ UNCHANGED <<begun, lookVars, cooling, have_pose, laneVars>>

\* OK for the last delivery: the target goes, the turn stays.
Completed ==
    /\ begun
    /\ target_building \in Hospitals
    /\ target_building' = None
    /\ UNCHANGED <<begun, lookVars, pending, cooling, have_pose, laneVars>>

\* odometry_callback, as far as turn_completed (TURN_DONE_YAW_DEG) reads it.
OdometryCallback(rotated) ==
    /\ have_pose' = TRUE
    /\ pending' = IF pending.yaw = "unknown" THEN pending
                  ELSE [pending EXCEPT !.yaw = IF rotated THEN "past" ELSE "short"]
    /\ UNCHANGED <<begun, target_building, lookVars, cooling, laneVars>>

-----------------------------------------------------------------------------
(* edge_vectors_callback: a fork, a lane, or neither.                      *)

\* Mutant: STRAIGHT is taken for a branch.
CommandedAny == pending.turn

\* The pending turn, if it names a side.
Commanded == IF pending.turn \in Turns THEN pending.turn ELSE None

\* The pending turn steers; once per junction counts.
Used == [pending EXCEPT !.uses = IF steered \/ @ = 2 THEN @ ELSE @ + 1]

\* FORK_WIDTH_RATIO: no lane is learned narrower than a quarter of the image
\* (lane_width_px).
CanBeFork(frame) ==
    Len(frame) = 2 /\ 400 * (frame[2] - frame[1]) > 145 * IMAGE_WIDTH

WiderBranch(frame) ==
    IF frame[1] > IMAGE_WIDTH - frame[2] THEN "LEFT" ELSE "RIGHT"

\* The buggy points into the middle of the branch's opening, |dev| < 0.15.
PointsInto(taken, frame) ==
    LET aim2 == IF taken = "LEFT" THEN frame[1] ELSE frame[2] + IMAGE_WIDTH
        off  == IMAGE_WIDTH - aim2
    IN  100 * off < 15 * IMAGE_WIDTH /\ -100 * off < 15 * IMAGE_WIDTH

\* in_fork, with nothing within OBSTACLE_SLOW_DIST ahead: returns before it
\* has looked at was_lane_visible.
FollowsFork(frame, wide) ==
    LET taken == CASE branch # None    -> branch
                   [] branch = None /\ Commanded # None -> Commanded
                   [] OTHER            -> WiderBranch(frame)
    IN  /\ Len(frame) = 2
        /\ wide => CanBeFork(frame)
        /\ wide \/ fork_live
        /\ fork_live' = TRUE
        /\ branch' = taken
        /\ IF Commanded # None /\ PointsInto(taken, frame)
           THEN Clear
           ELSE /\ pending' = IF taken = Commanded THEN Used ELSE pending
                /\ UNCHANGED cooling
        /\ steered' = (steered \/ taken = Commanded)
        /\ UNCHANGED <<begun, target_building, lookVars, have_pose,
                       was_lane_visible>>

\* One boundary, or two of an ordinary lane, or two beyond an obstacle: a
\* pending turn is over if a frame without its lane was seen before.  The
\* fork's branch is forgotten in a frame with two boundaries only.
FollowsLane(frame, wide, clear) ==
    /\ Len(frame) > 0
    /\ wide => CanBeFork(frame)
    /\ (wide \/ fork_live) /\ Len(frame) = 2 => ~clear
    /\ fork_live' = (fork_live \/ wide)
    /\ branch' = IF Len(frame) = 2 THEN None ELSE branch
    /\ was_lane_visible' = TRUE
    /\ steered' = (steered /\ (Len(frame) = 1 \/ wide \/ fork_live))
    /\ IF ~was_lane_visible /\ pending.turn # None
       THEN Clear
       ELSE UNCHANGED <<pending, cooling>>
    /\ UNCHANGED <<begun, target_building, lookVars, have_pose>>

\* No boundary: a pending turn steers, and was_lane_visible is set only
\* without one.
LosesLane(frame) ==
    /\ Len(frame) = 0
    /\ IF Commanded # None
       THEN /\ pending' = Used
            /\ steered' = TRUE
            /\ UNCHANGED was_lane_visible
       ELSE /\ was_lane_visible' = FALSE
            /\ UNCHANGED <<pending, steered>>
    /\ UNCHANGED <<begun, target_building, lookVars, cooling, have_pose,
                   fork_live, branch>>

\* drive_seeking: STRAIGHT ends at a side opening (junction_turn_bias), LEFT
\* and RIGHT with a rotation of 55 degrees (turn_completed).  Other ticks
\* only steer.
DrivesSeeking(opening) ==
    /\ begun
    /\ \/ pending.turn = "STRAIGHT" /\ opening
       \/ pending.turn \in Turns /\ pending.yaw = "past"
    /\ Clear
    /\ UNCHANGED <<begun, target_building, lookVars, have_pose, laneVars>>

\* INIT lasts one tick of 50 ms, a table 30 s.
TableExpires ==
    /\ begun
    /\ table_live
    /\ table_live' = FALSE
    /\ UNCHANGED <<begun, target_building, routing_table, shown, pending,
                   cooling, have_pose, laneVars>>

CoolingEnds ==
    /\ cooling
    /\ cooling' = FALSE
    /\ UNCHANGED <<begun, target_building, lookVars, pending, have_pose,
                   laneVars>>

ForkExpires ==
    /\ fork_live
    /\ fork_live' = FALSE
    /\ UNCHANGED <<begun, target_building, lookVars, pending, cooling,
                   have_pose, was_lane_visible, branch, steered>>

Next ==
    \/ Starts
    \/ \E sighting \in Sightings, adopted \in Patients \cup {None} :
          SignBoardCallback(sighting, adopted)
    \/ \E building \in Targets : Answered(building)
    \/ Completed
    \/ \E rotated \in BOOLEAN : OdometryCallback(rotated)
    \/ \E frame \in Frames, wide \in BOOLEAN : FollowsFork(frame, wide)
    \/ \E frame \in Frames, wide, clear \in BOOLEAN :
          FollowsLane(frame, wide, clear)
    \/ \E frame \in Frames : LosesLane(frame)
    \/ \E opening \in BOOLEAN : DrivesSeeking(opening)
    \/ TableExpires
    \/ CoolingEnds
    \/ ForkExpires

Spec == Init /\ [][Next]_vars

-----------------------------------------------------------------------------
\* Type invariant.
SignRoutingTypeOK ==
    /\ begun \in BOOLEAN
    /\ target_building \in Targets \cup {None}
    /\ routing_table \in Tables
    /\ shown \in Tables
    /\ table_live \in BOOLEAN
    /\ pending \in [ turn : Directions \cup {None},
                     yaw  : {"unknown", "short", "past"},
                     of   : Targets \cup {None},
                     uses : 0..2 ]
    /\ cooling \in BOOLEAN
    /\ have_pose \in BOOLEAN
    /\ was_lane_visible \in BOOLEAN
    /\ fork_live \in BOOLEAN
    /\ branch \in Turns \cup {None}
    /\ steered \in BOOLEAN

\* The table never says of a destination what the board last read does not
\* say, whichever of its letters and arrows were seen and however surely
\* ("Tolerances are expressed as multiples of the letter's own box size").
TableIsTrue ==
    \A b \in Targets : routing_table[b] \in {None, shown[b]}

\* A turn that is pending is the one the table gives for the target, if it
\* gives one: neither a new board, a new target nor a cooldown in between
\* leaves an older instruction standing (latch_turn_for_target).
ObeysLatestBoard ==
    /\ pending.turn # None
    /\ target_building # None
    /\ routing_table[target_building] # None
    => pending.turn = routing_table[target_building]

\* No turn that was latched for one destination is taken on the way to
\* another.  Once the deliveries are done there is no other; a patient
\* adopted before the first tick is the exception (control_loop, INIT).
TurnServesTarget ==
    pending.turn # None /\ target_building # None =>
        pending.of \in {target_building, None}

\* While the cooldown runs no turn is pending, whatever boards and answers
\* come: "after turning, ignore the same instruction briefly".
CoolingHoldsNoTurn == cooling => pending.turn = None

\* Claimed by edge_vectors_callback: the instruction is cleared when the lane
\* is seen again, "so we do not turn again at the following junction".
TurnsOnce == pending.uses <= 1
=============================================================================
