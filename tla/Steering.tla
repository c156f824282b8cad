------------------------------ MODULE Steering ------------------------------
(***************************************************************************)
(* What the buggy is told to do while it seeks: the steering that          *)
(* edge_vectors_callback derives from the lane, what drive_seeking adds to *)
(* it for a sign, a bearing and an obstacle, and the speed it drives at    *)
(* (class LineFollower of b3rb_ros_line_follower.py).                      *)
(*                                                                         *)
(* Speeds, turns and deviations are in hundredths, distances in            *)
(* centimetres, angles in degrees; a turn to the left is positive.  Where  *)
(* the code computes in floating point, a product is cut to a whole        *)
(* hundredth towards zero, a quotient to the next one below.               *)
(***************************************************************************)
EXTENDS Integers

CONSTANTS None, Inputs

SPEED_MAX == 100
TURN_MAX == 100
SPEED_CRUISE == 75
SPEED_CORNER == 35
SPEED_APPROACH == 50
TURN_SLOWDOWN_GAIN == 60
LANE_KP == 85
LANE_KP_FAR == 135
LANE_KD == 30
TURN_SMOOTHING == 55
LANE_LOST_DECAY == 97
YAW_HOLD_KP == 90
LANE_WIDTH_LEARN_RATE == 10
LANE_WIDTH_INIT_FRAC == 70
SINGLE_EDGE_MARGIN == 118
FORK_KP == 85
FORK_SPEED == 22
CURVE_LEAN_GAIN == 30
CURVE_LEAN_MAX_PX == 80
OBSTACLE_STOP_DIST == 55
OBSTACLE_SLOW_DIST == 180
OBSTACLE_BIAS_MAX == 75
AVOID_LANE_FLOOR == 35
AVOID_BRAKE_SPEED == 20
APPROACH_REACQUIRE_SPEED == 14
DEVIATION_SLOW == 35
SPEED_TURN_HARD == 26
TURN_COMMIT_STEER == 75
JUNCTION_OPENING_DIST == 400
TURN_EARLY_BIAS == 40
LANE_EFFORT_FULL == 55
GOAL_BIAS_MAX == 45
BEARING_DEADZONE_DEG == 20

Turns == {"LEFT", "RIGHT"}

\* What one tick of drive_seeking goes by: lane_turn, lane_deviation and
\* lane_confidence; the pending turn, and whether its rotation is completed;
\* the bearing error of the target, if it is known and not near; left_clear,
\* right_clear and front_dist; which way dodge_left goes; whether a fork is
\* on; whether the tick begins in an approach, and what it makes of it: none,
\* one in which the code is read or half the way is covered, or one in which
\* the code is lost early.
ASSUME SteeringAssumption ==
    /\ Inputs \subseteq
          [ lane       : -TURN_MAX..TURN_MAX,
            deviation  : Int,
            confidence : 0..2,
            pending    : Turns \cup {"STRAIGHT", None},
            rotated    : BOOLEAN,
            bearing    : (-180..180) \cup {None},
            left       : Nat,
            right      : Nat,
            front      : Nat,
            dodge_left : BOOLEAN,
            fork       : BOOLEAN,
            committed  : BOOLEAN,
            approach   : {"none", "sure", "lost"} ]
    /\ None \notin Turns \cup {"STRAIGHT"}
    /\ None \notin -180..180

Mag(x) == IF x < 0 THEN -x ELSE x

\* x, and no more than `most' to either side.
Clip(x, most) == IF x > most THEN most ELSE IF x < -most THEN -most ELSE x

\* So many hundredths of x.
Part(x, hundredths) ==
    IF x >= 0 THEN (x * hundredths) \div 100 ELSE -(((-x) * hundredths) \div 100)

Smaller(a, b) == IF a < b THEN a ELSE b

-----------------------------------------------------------------------------
(* edge_vectors_callback *)

\* The width of the image, and the lane width before any has been learned.
FrameWidth(image_width) == IF image_width = 0 THEN 320 ELSE image_width
FirstWidth(width) == (LANE_WIDTH_INIT_FRAC * width) \div 100

\* Implausible widths are not learned from.
LearnedWidth(learned, width, observed) ==
    IF 25 * width < 100 * observed /\ 100 * observed < 150 * width
    THEN ((100 - LANE_WIDTH_LEARN_RATE) * learned
             + LANE_WIDTH_LEARN_RATE * observed) \div 100
    ELSE learned

\* The lane's centre between two boundaries, shifted outwards in a bend; and
\* beside one, half a lane and a margin from it.
CentreOfTwo(x1, x2, lean) ==
    (x1 + x2) \div 2 - Clip(Part(lean, CURVE_LEAN_GAIN), CURVE_LEAN_MAX_PX)

CentreOfOne(x, width, learned) ==
    IF 2 * x < width THEN x + (learned * SINGLE_EDGE_MARGIN) \div 200
                     ELSE x - (learned * SINGLE_EDGE_MARGIN) \div 200

Deviation(centre, width) == (100 * (width - 2 * centre)) \div width

\* PD on the deviation and its rate of change, then the EMA.
LaneTurn(turn, deviation, rate) ==
    LET kp  == IF Mag(deviation) < DEVIATION_SLOW THEN LANE_KP ELSE LANE_KP_FAR
        raw == Part(deviation, kp) + Part(rate, LANE_KD)
    IN  Clip(Part(turn, TURN_SMOOTHING) + Part(raw, 100 - TURN_SMOOTHING),
             TURN_MAX)

\* At a fork the turn is direct.
ForkTurn(deviation) == Clip(Part(deviation, FORK_KP), TURN_MAX)

\* No boundary: a pending turn steers; else the latest turn fades, and after
\* LANE_LOST_MAX_SEC (long) the heading is held that the lane was lost with,
\* which is `off' hundredths of a radian away.
BlindTurn(turn, pending, long, off) ==
    CASE pending = "LEFT"  -> TURN_COMMIT_STEER
      [] pending = "RIGHT" -> -TURN_COMMIT_STEER
      [] pending \notin Turns /\ ~long -> Part(turn, LANE_LOST_DECAY)
      [] OTHER -> IF off = None THEN 0 ELSE Clip(Part(off, YAW_HOLD_KP), TURN_MAX)

-----------------------------------------------------------------------------
(* drive_seeking *)

\* How much of LANE_EFFORT_FULL the lane controller leaves.
Slack(lane) == LANE_EFFORT_FULL - Smaller(Mag(lane), LANE_EFFORT_FULL)

Against(bias, lane) == (bias < 0 /\ lane > 0) \/ (bias > 0 /\ lane < 0)

\* junction_turn_bias: towards the pending turn where the road opens on that
\* side, less the harder the lane controller works against it.
JunctionBias(i) ==
    IF \/ i.pending \notin Turns
       \/ (IF i.pending = "LEFT" THEN i.left ELSE i.right) < JUNCTION_OPENING_DIST
    THEN 0
    ELSE LET size == IF i.confidence <= 1 THEN TURN_EARLY_BIAS
                                          ELSE TURN_EARLY_BIAS \div 2
             bias == IF i.pending = "LEFT" THEN size ELSE -size
         IN  IF Against(bias, i.lane)
             THEN IF i.pending = "LEFT"
                  THEN (size * Slack(i.lane)) \div LANE_EFFORT_FULL
                  ELSE -((size * Slack(i.lane)) \div LANE_EFFORT_FULL)
             ELSE bias

\* What is pending when the bearing is looked at: junction_turn_bias has
\* spent STRAIGHT at an opening, turn_completed a turn.
StillPending(i) ==
    \/ i.pending = "STRAIGHT" /\ i.left < JUNCTION_OPENING_DIST
                              /\ i.right < JUNCTION_OPENING_DIST
    \/ i.pending \in Turns /\ ~i.rotated

\* goal_steer_bias, which neither argues with a sign nor with a lane.
GoalBias(i) ==
    IF \/ StillPending(i)
       \/ i.confidence >= 1
       \/ i.bearing = None
       \/ Mag(i.bearing) < BEARING_DEADZONE_DEG
       \/ i.front <= OBSTACLE_SLOW_DIST
       \/ i.committed
    THEN 0
    ELSE Part(Clip((i.bearing * 200) \div 180, 100), GOAL_BIAS_MAX)

\* OBSTACLE_BIAS_MAX, by how near the obstacle is.
Severe(front) ==
    (OBSTACLE_BIAS_MAX * (OBSTACLE_SLOW_DIST - front))
       \div (OBSTACLE_SLOW_DIST - OBSTACLE_STOP_DIST)

\* The dodge, scaled back if it fights the lane, but never below the floor.
DodgeBias(i) ==
    LET full == IF i.front >= OBSTACLE_SLOW_DIST THEN 0 ELSE Severe(i.front)
        kept == (100 * Slack(i.lane)) \div LANE_EFFORT_FULL
        part == IF kept < AVOID_LANE_FLOOR THEN AVOID_LANE_FLOOR ELSE kept
        bias == IF i.dodge_left THEN full ELSE -full
    IN  IF Against(bias, i.lane) THEN Part(bias, part) ELSE bias

AvoidsAgainstLane(i) ==
    /\ i.front < OBSTACLE_SLOW_DIST
    /\ Against(IF i.dodge_left THEN Severe(i.front) ELSE -Severe(i.front), i.lane)

\* Dead ahead there is room for the lane and an escape only.
EmergencyTurn(i) ==
    Part(i.lane, 55) + IF i.dodge_left THEN Part(55, 45) ELSE -Part(55, 45)

TurnOf(i) ==
    IF i.front < OBSTACLE_STOP_DIST THEN Clip(EmergencyTurn(i), TURN_MAX)
    ELSE Clip(Clip(Clip(i.lane + JunctionBias(i), TURN_MAX) + GoalBias(i),
                   TURN_MAX) + DodgeBias(i), TURN_MAX)

\* The speed schedule of the open road: steering bleeds it, and every reason
\* to slow down caps it.
Cap(reason, speed) == IF reason THEN speed ELSE SPEED_CRUISE

Bled(turn) ==
    SPEED_CRUISE - (TURN_SLOWDOWN_GAIN * Mag(turn)
                       * (SPEED_CRUISE - SPEED_CORNER)) \div 10000

CruiseSpeed(i) ==
    Smaller(Bled(TurnOf(i)),
    Smaller(Cap(AvoidsAgainstLane(i), AVOID_BRAKE_SPEED),
    Smaller(Cap(i.fork, FORK_SPEED),
    Smaller(Cap(Mag(i.deviation) > DEVIATION_SLOW, SPEED_TURN_HARD),
    Smaller(Cap(i.confidence <= 1, SPEED_CORNER),
            Cap(i.confidence = 0, SPEED_APPROACH))))))

\* drive_seeking: the speed it commands.
SpeedOf(i) ==
    CASE i.front < OBSTACLE_STOP_DIST -> AVOID_BRAKE_SPEED
      [] i.front >= OBSTACLE_STOP_DIST /\ i.approach = "sure" -> SPEED_APPROACH
      [] i.front >= OBSTACLE_STOP_DIST /\ i.approach = "lost" ->
            APPROACH_REACQUIRE_SPEED
      [] OTHER -> CruiseSpeed(i)

-----------------------------------------------------------------------------
\* While the lane controller works with LANE_EFFORT_FULL on a lane it sees,
\* the buggy turns the way the lane does, whatever a sign, a bearing and an
\* obstacle ahead ask for together ("Lane keeping outranks routing
\* preference"; "Keep the camera lane controller dominant").
LaneOutranks ==
    \A i \in Inputs :
       i.confidence >= 1 =>
          /\ i.lane >= LANE_EFFORT_FULL => TurnOf(i) > 0
          /\ i.lane <= -LANE_EFFORT_FULL => TurnOf(i) < 0
=============================================================================
