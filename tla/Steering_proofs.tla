-------------------------- MODULE Steering_proofs --------------------------
(***************************************************************************)
(* What drive_seeking makes of anything it may be given: a turn and a      *)
(* speed within bounds, and a turn that a working lane controller decides; *)
(* and what edge_vectors_callback learns of the lane from anything seen.   *)
(***************************************************************************)
EXTENDS Steering, TLAPS

LEMMA ClipBounds ==
    ASSUME NEW x \in Int, NEW most \in Nat
    PROVE  /\ Clip(x, most) \in -most..most
           /\ x > 0 /\ most > 0 => Clip(x, most) > 0
           /\ x < 0 /\ most > 0 => Clip(x, most) < 0
           /\ x \in -most..most => Clip(x, most) = x
BY DEF Clip

\* What is added to a turn leaves it within TURN_MAX.
LEMMA AddedTurn ==
    ASSUME NEW turn \in -100..100, NEW bias \in -100..100
    PROVE  /\ Clip(turn + bias, 100) \in -100..100
           /\ turn >= 55 /\ bias >= 0 => Clip(turn + bias, 100) >= 55
           /\ turn <= -55 /\ bias <= 0 => Clip(turn + bias, 100) <= -55
           /\ turn >= 55 /\ bias >= -26 => Clip(turn + bias, 100) > 0
           /\ turn <= -55 /\ bias <= 26 => Clip(turn + bias, 100) < 0
           /\ bias = 0 => Clip(turn + bias, 100) = turn
BY DEF Clip

\* The fields of an input.
LEMMA InputFields ==
    ASSUME NEW i \in Inputs
    PROVE  /\ i.lane \in -100..100
           /\ i.deviation \in Int
           /\ i.confidence \in 0..2
           /\ i.bearing \in (-180..180) \cup {None}
           /\ i.front \in Nat
           /\ i.dodge_left \in BOOLEAN
BY SteeringAssumption DEF TURN_MAX

\* The slack is what effort leaves of LANE_EFFORT_FULL.
LEMMA SlackBounds ==
    ASSUME NEW lane \in -100..100
    PROVE  /\ Slack(lane) \in 0..55
           /\ lane >= 55 \/ lane <= -55 => Slack(lane) = 0
BY DEF Slack, Smaller, Mag, LANE_EFFORT_FULL

\* The bias for a sign is at most TURN_EARLY_BIAS, and against a lane that
\* works with full effort there is none.
LEMMA JunctionBiasBounds ==
    ASSUME NEW i \in Inputs
    PROVE  /\ JunctionBias(i) \in -40..40
           /\ i.lane >= 55 => JunctionBias(i) >= 0
           /\ i.lane <= -55 => JunctionBias(i) <= 0
<1> DEFINE size == IF i.confidence <= 1 THEN TURN_EARLY_BIAS
                                        ELSE TURN_EARLY_BIAS \div 2
           scaled == (size * Slack(i.lane)) \div LANE_EFFORT_FULL
<1>1. size \in 0..40 /\ Slack(i.lane) \in 0..55
  BY InputFields, SlackBounds DEF TURN_EARLY_BIAS
<1>2. /\ scaled \in 0..40
      /\ i.lane >= 55 \/ i.lane <= -55 => scaled = 0
  <2>1. CASE i.confidence <= 1
    BY <2>1, <1>1, InputFields, SlackBounds DEF LANE_EFFORT_FULL, TURN_EARLY_BIAS
  <2>2. CASE ~(i.confidence <= 1)
    BY <2>2, <1>1, InputFields, SlackBounds DEF LANE_EFFORT_FULL, TURN_EARLY_BIAS
  <2> QED
    BY <2>1, <2>2
<1>3. \/ JunctionBias(i) = 0
      \/ /\ JunctionBias(i) = size
         /\ ~Against(size, i.lane)
      \/ /\ JunctionBias(i) = -size
         /\ ~Against(-size, i.lane)
      \/ JunctionBias(i) = scaled /\ Against(size, i.lane)
      \/ JunctionBias(i) = -scaled /\ Against(-size, i.lane)
  BY DEF JunctionBias
<1> HIDE DEF size, scaled
<1> QED
  BY <1>1, <1>2, <1>3, InputFields DEF Against

\* A bearing counts for at most GOAL_BIAS_MAX, and for nothing while the lane
\* is seen.
LEMMA GoalBiasBounds ==
    ASSUME NEW i \in Inputs
    PROVE  /\ GoalBias(i) \in -45..45
           /\ i.confidence >= 1 => GoalBias(i) = 0
<1> DEFINE share == Clip((i.bearing * 200) \div 180, 100)
<1>1. ASSUME i.bearing # None
      PROVE  Part(share, GOAL_BIAS_MAX) \in -45..45
  <2>1. (i.bearing * 200) \div 180 \in Int
    BY <1>1, InputFields
  <2> DEFINE wanted == (i.bearing * 200) \div 180
  <2> HIDE DEF wanted
  <2>2. share \in -100..100
    <3>1. Clip(wanted, 100) \in -100..100
      BY <2>1 DEF wanted, Clip
    <3> QED
      BY <3>1 DEF wanted
  <2> HIDE DEF share
  <2> QED
    BY <2>2 DEF Part, GOAL_BIAS_MAX
<1> HIDE DEF share
<1>2. GoalBias(i) = 0 \/ (i.bearing # None /\ GoalBias(i) = Part(share, GOAL_BIAS_MAX))
  BY DEF GoalBias, share
<1>3. i.confidence >= 1 => GoalBias(i) = 0
  BY DEF GoalBias
<1> QED
  BY <1>1, <1>2, <1>3

\* A dodge counts for at most OBSTACLE_BIAS_MAX, and against a lane that works
\* with full effort for AVOID_LANE_FLOOR of it.
LEMMA DodgeBiasBounds ==
    ASSUME NEW i \in Inputs, i.front >= OBSTACLE_STOP_DIST
    PROVE  /\ DodgeBias(i) \in -75..75
           /\ i.lane >= 55 => DodgeBias(i) >= -26
           /\ i.lane <= -55 => DodgeBias(i) <= 26
<1> DEFINE full == IF i.front >= OBSTACLE_SLOW_DIST THEN 0 ELSE Severe(i.front)
           kept == (100 * Slack(i.lane)) \div LANE_EFFORT_FULL
           part == IF kept < AVOID_LANE_FLOOR THEN AVOID_LANE_FLOOR ELSE kept
           bias == IF i.dodge_left THEN full ELSE -full
<1>1. full \in 0..75
  BY InputFields DEF Severe, OBSTACLE_SLOW_DIST, OBSTACLE_STOP_DIST,
                     OBSTACLE_BIAS_MAX
<1>2. /\ part \in 35..100
      /\ i.lane >= 55 \/ i.lane <= -55 => part = 35
  <2>1. /\ kept \in 0..100
        /\ i.lane >= 55 \/ i.lane <= -55 => kept = 0
    <3> DEFINE slack == Slack(i.lane)
    <3>1. /\ slack \in 0..55
          /\ i.lane >= 55 \/ i.lane <= -55 => slack = 0
      BY InputFields, SlackBounds
    <3> HIDE DEF slack
    <3>2. /\ (100 * slack) \div 55 \in 0..100
          /\ slack = 0 => (100 * slack) \div 55 = 0
      BY <3>1
    <3> QED
      BY <3>1, <3>2 DEF slack, LANE_EFFORT_FULL
  <2> HIDE DEF kept
  <2> QED
    BY <2>1 DEF AVOID_LANE_FLOOR
<1>3. bias \in -75..75
  <2> HIDE DEF full
  <2> QED
    BY <1>1, InputFields
<1>4. DodgeBias(i) = IF Against(bias, i.lane) THEN Part(bias, part) ELSE bias
  BY DEF DodgeBias
<1> HIDE DEF full, kept, part, bias
<1>5. \A n \in 0..75 : (n * part) \div 100 \in 0..75
  <2> TAKE n \in 0..75
  <2>1. n * part \in Int /\ 0 <= n * part /\ n * part <= n * 100
    BY <1>2
  <2> DEFINE product == n * part
  <2> HIDE DEF product
  <2>2. product \in Int /\ 0 <= product /\ product <= 7500
    BY <2>1 DEF product
  <2>3. product \div 100 \in 0..75
    BY <2>2
  <2> QED
    BY <2>3 DEF product
<1>6. \A n \in 0..75 : part = 35 => (n * part) \div 100 <= 26
  OBVIOUS
<1>7. /\ Part(bias, part) \in -75..75
      /\ part = 35 => Part(bias, part) \in -26..26
  <2>1. CASE bias >= 0
    <3>1. Part(bias, part) = (bias * part) \div 100
      BY <2>1 DEF Part
    <3> QED
      BY <2>1, <3>1, <1>3, <1>5, <1>6
  <2>2. CASE ~(bias >= 0)
    <3>1. -bias \in 0..75
      BY <2>2, <1>3
    <3>2. Part(bias, part) = -(((-bias) * part) \div 100)
      BY <2>2 DEF Part
    <3> DEFINE opposite == -bias
    <3> HIDE DEF opposite
    <3>3. /\ (opposite * part) \div 100 \in 0..75
          /\ part = 35 => (opposite * part) \div 100 <= 26
      BY <3>1, <1>5, <1>6 DEF opposite
    <3> QED
      BY <3>2, <3>3 DEF opposite
  <2> QED
    BY <2>1, <2>2
<1> QED
  BY <1>2, <1>3, <1>4, <1>7, InputFields DEF Against

-----------------------------------------------------------------------------
\* Whatever a tick goes by, the buggy is told to turn by no more than TURN_MAX.
THEOREM TurnIsBounded == \A i \in Inputs : TurnOf(i) \in -TURN_MAX..TURN_MAX
<1> SUFFICES ASSUME NEW i \in Inputs PROVE TurnOf(i) \in -TURN_MAX..TURN_MAX
  OBVIOUS
<1>1. CASE i.front < OBSTACLE_STOP_DIST
  <2>1. EmergencyTurn(i) \in Int
    BY InputFields DEF EmergencyTurn, Part
  <2>2. TurnOf(i) = Clip(EmergencyTurn(i), 100)
    BY <1>1 DEF TurnOf, TURN_MAX
  <2>3. Clip(EmergencyTurn(i), 100) \in -100..100
    <3> DEFINE turn == EmergencyTurn(i)
    <3>1. turn \in Int
      BY <2>1
    <3> HIDE DEF turn
    <3>2. Clip(turn, 100) \in -100..100
      BY <3>1 DEF Clip
    <3> QED
      BY <3>2 DEF turn
  <2> QED
    BY <2>2, <2>3 DEF TURN_MAX
<1>2. CASE i.front >= OBSTACLE_STOP_DIST
  <2> DEFINE a == Clip(i.lane + JunctionBias(i), 100)
             b == Clip(a + GoalBias(i), 100)
  <2>1. a \in -100..100
    <3>1. i.lane \in -100..100 /\ JunctionBias(i) \in -100..100
      BY InputFields, JunctionBiasBounds
    <3> QED
      BY <3>1, AddedTurn
  <2> HIDE DEF a
  <2>2. b \in -100..100
    <3>1. GoalBias(i) \in -100..100
      BY GoalBiasBounds
    <3> QED
      BY <2>1, <3>1, AddedTurn
  <2> HIDE DEF b
  <2>3. Clip(b + DodgeBias(i), 100) \in -100..100
    <3>1. DodgeBias(i) \in -100..100
      BY <1>2, DodgeBiasBounds
    <3> QED
      BY <2>2, <3>1, AddedTurn
  <2>4. TurnOf(i) = Clip(b + DodgeBias(i), 100)
    BY <1>2, InputFields DEF TurnOf, TURN_MAX, OBSTACLE_STOP_DIST, a, b
  <2> QED
    BY <2>3, <2>4 DEF TURN_MAX
<1> QED
  BY <1>1, <1>2, InputFields DEF OBSTACLE_STOP_DIST

\* A seeking buggy is always told to drive: no lane, fork, obstacle or
\* approach slows it below APPROACH_REACQUIRE_SPEED, which is more than
\* STUCK_SPEED_MIN, so is_stuck never takes seeking for standing still.
THEOREM SeekingIsDriving ==
    \A i \in Inputs : SpeedOf(i) \in APPROACH_REACQUIRE_SPEED..SPEED_CRUISE
<1> SUFFICES ASSUME NEW i \in Inputs
             PROVE  SpeedOf(i) \in APPROACH_REACQUIRE_SPEED..SPEED_CRUISE
  OBVIOUS
<1>1. Bled(TurnOf(i)) \in 51..75
  <2> DEFINE turn == TurnOf(i)
  <2>1. turn \in -100..100
    BY TurnIsBounded DEF TURN_MAX
  <2> HIDE DEF turn
  <2>2. Mag(turn) \in 0..100
    BY <2>1 DEF Mag
  <2>3. (60 * Mag(turn) * 40) \div 10000 \in 0..24
    BY <2>2
  <2> QED
    BY <2>3 DEF Bled, turn, SPEED_CRUISE, SPEED_CORNER, TURN_SLOWDOWN_GAIN
<1>3. \A a, b \in 20..75 : Smaller(a, b) \in 20..75
  BY DEF Smaller
<1>4. CruiseSpeed(i) \in 20..75
  <2> DEFINE bled  == Bled(TurnOf(i))
             avoid == Cap(AvoidsAgainstLane(i), 20)
             fork  == Cap(i.fork, 22)
             bend  == Cap(Mag(i.deviation) > DEVIATION_SLOW, 26)
             one   == Cap(i.confidence <= 1, 35)
             lost  == Cap(i.confidence = 0, 50)
  <2>1. /\ bled \in 20..75 /\ avoid \in 20..75 /\ fork \in 20..75
        /\ bend \in 20..75 /\ one \in 20..75 /\ lost \in 20..75
    BY <1>1 DEF Cap, SPEED_CRUISE
  <2>2. CruiseSpeed(i) =
           Smaller(bled, Smaller(avoid, Smaller(fork,
              Smaller(bend, Smaller(one, lost)))))
    BY DEF CruiseSpeed, AVOID_BRAKE_SPEED, FORK_SPEED, SPEED_TURN_HARD,
           SPEED_CORNER, SPEED_APPROACH
  <2> HIDE DEF bled, avoid, fork, bend, one, lost
  <2> DEFINE slowest == Smaller(one, lost)
             slower == Smaller(bend, slowest)
             slow   == Smaller(fork, slower)
             near   == Smaller(avoid, slow)
  <2>3. slowest \in 20..75
    BY <2>1, <1>3
  <2>4. CruiseSpeed(i) = Smaller(bled, near)
    BY <2>2
  <2> HIDE DEF slowest
  <2>5. slower \in 20..75
    BY <2>1, <2>3, <1>3
  <2> HIDE DEF slower
  <2>6. slow \in 20..75
    BY <2>1, <2>5, <1>3
  <2> HIDE DEF slow
  <2>7. near \in 20..75
    BY <2>1, <2>6, <1>3
  <2> HIDE DEF near
  <2>8. Smaller(bled, near) \in 20..75
    BY <2>1, <2>7, <1>3
  <2> QED
    BY <2>4, <2>8
<1>5. SpeedOf(i) \in {AVOID_BRAKE_SPEED, SPEED_APPROACH,
                      APPROACH_REACQUIRE_SPEED, CruiseSpeed(i)}
  BY InputFields DEF SpeedOf, OBSTACLE_STOP_DIST
<1> QED
  BY <1>4, <1>5 DEF AVOID_BRAKE_SPEED, SPEED_APPROACH,
     APPROACH_REACQUIRE_SPEED, SPEED_CRUISE

\* While the lane controller works with LANE_EFFORT_FULL on a lane it sees,
\* the buggy turns the way the lane does, whatever a sign, a bearing and an
\* obstacle ahead ask for together ("Lane keeping outranks routing
\* preference"; "Keep the camera lane controller dominant").
THEOREM LaneOutranksTheRest == LaneOutranks
<1> SUFFICES ASSUME NEW i \in Inputs, i.confidence >= 1
             PROVE  /\ i.lane >= 55 => TurnOf(i) > 0
                    /\ i.lane <= -55 => TurnOf(i) < 0
  BY DEF LaneOutranks, LANE_EFFORT_FULL
<1>1. CASE i.front < OBSTACLE_STOP_DIST
  <2>1. /\ EmergencyTurn(i) \in Int
        /\ i.lane >= 55 => EmergencyTurn(i) > 0
        /\ i.lane <= -55 => EmergencyTurn(i) < 0
    BY InputFields DEF EmergencyTurn, Part
  <2> QED
    BY <1>1, <2>1, ClipBounds DEF TurnOf, TURN_MAX
<1>2. CASE i.front >= OBSTACLE_STOP_DIST
  <2> DEFINE a == Clip(i.lane + JunctionBias(i), 100)
             goal == GoalBias(i)
             b == Clip(a + goal, 100)
  <2>1. /\ a \in -100..100
        /\ i.lane >= 55 => a >= 55
        /\ i.lane <= -55 => a <= -55
    <3>1. /\ i.lane \in -100..100
          /\ JunctionBias(i) \in -100..100
          /\ i.lane >= 55 => JunctionBias(i) >= 0
          /\ i.lane <= -55 => JunctionBias(i) <= 0
      BY InputFields, JunctionBiasBounds
    <3> DEFINE lane == i.lane
               junction == JunctionBias(i)
    <3>2. /\ lane \in -100..100 /\ junction \in -100..100
          /\ lane >= 55 => junction >= 0
          /\ lane <= -55 => junction <= 0
      BY <3>1
    <3> HIDE DEF lane, junction
    <3>3. /\ Clip(lane + junction, 100) \in -100..100
          /\ lane >= 55 => Clip(lane + junction, 100) >= 55
          /\ lane <= -55 => Clip(lane + junction, 100) <= -55
      BY <3>2, AddedTurn
    <3> QED
      BY <3>3 DEF lane, junction
  <2> HIDE DEF a
  <2>2. b = a
    <3>1. goal = 0 /\ goal \in -100..100
      BY GoalBiasBounds
    <3> HIDE DEF goal
    <3> QED
      BY <2>1, <3>1, AddedTurn
  <2>3. TurnOf(i) = Clip(b + DodgeBias(i), 100)
    BY <1>2, InputFields DEF TurnOf, TURN_MAX, OBSTACLE_STOP_DIST, a
  <2> HIDE DEF b
  <2>4. /\ DodgeBias(i) \in -100..100
        /\ i.lane >= 55 => DodgeBias(i) >= -26
        /\ i.lane <= -55 => DodgeBias(i) <= 26
    BY <1>2, DodgeBiasBounds
  <2>5. /\ a >= 55 /\ DodgeBias(i) >= -26 => Clip(a + DodgeBias(i), 100) > 0
        /\ a <= -55 /\ DodgeBias(i) <= 26 => Clip(a + DodgeBias(i), 100) < 0
    BY <2>1, <2>4, AddedTurn
  <2> QED
    BY <2>1, <2>2, <2>3, <2>4, <2>5
<1> QED
  BY <1>1, <1>2, InputFields DEF OBSTACLE_STOP_DIST

-----------------------------------------------------------------------------
\* The lane width as edge_vectors_callback learns it, frame after frame: a
\* frame of the camera, whose width is always the same, may show any distance
\* between its two boundaries.
VARIABLE lane_width_px

Learns(width) ==
    \E observed \in Nat :
        lane_width_px' = LearnedWidth(lane_width_px, width, observed)

\* From a quarter of the image to one and a half times its width.
PlausibleWidths(width) ==
    { learned \in Nat : width <= 4 * learned /\ 2 * learned <= 3 * width }

\* FORK_WIDTH_RATIO: the boundaries are too far apart for the lane learned.
Forks(observed) == 100 * observed > 145 * lane_width_px

LEMMA FirstWidthIsPlausible ==
    ASSUME NEW width \in Nat \ {0, 1}
    PROVE  FirstWidth(width) \in PlausibleWidths(width)
BY DEF FirstWidth, LANE_WIDTH_INIT_FRAC, PlausibleWidths

\* An average weighted nine to one lies between the two.
LEMMA AverageLiesBetween ==
    ASSUME NEW a \in Nat, NEW b \in Nat
    PROVE  /\ (90 * a + 10 * b) \div 100 \in Nat
           /\ a <= b => (90 * a + 10 * b) \div 100 \in a..b
           /\ b <= a => (90 * a + 10 * b) \div 100 \in b..a
OBVIOUS

LEMMA LearningKeepsPlausible ==
    ASSUME NEW width \in Nat \ {0, 1},
           NEW learned \in PlausibleWidths(width), NEW observed \in Nat
    PROVE  LearnedWidth(learned, width, observed) \in PlausibleWidths(width)
<1> DEFINE average == (90 * learned + 10 * observed) \div 100
<1>1. learned \in Nat /\ width <= 4 * learned /\ 2 * learned <= 3 * width
  BY DEF PlausibleWidths
<1>2. /\ average \in Nat
      /\ learned <= observed => average \in learned..observed
      /\ observed <= learned => average \in observed..learned
  BY <1>1, AverageLiesBetween
<1>3. LearnedWidth(learned, width, observed) =
         IF 25 * width < 100 * observed /\ 100 * observed < 150 * width
         THEN average ELSE learned
  BY DEF LearnedWidth, LANE_WIDTH_LEARN_RATE
<1> HIDE DEF average
<1>4. 25 * width < 100 * observed /\ 100 * observed < 150 * width
      => width <= 4 * average /\ 2 * average <= 3 * width
  BY <1>1, <1>2
<1> QED
  BY <1>1, <1>2, <1>3, <1>4 DEF PlausibleWidths

\* Whatever the frames show, the width learned from them stays between a quarter
\* of the image and one and a half times its width: a fork, a sign or a wall
\* taken for a boundary is not learned from beyond that.
THEOREM WidthStaysPlausible ==
    ASSUME NEW width \in Nat \ {0, 1}
    PROVE  lane_width_px = FirstWidth(width) /\ [][Learns(width)]_lane_width_px
           => [](lane_width_px \in PlausibleWidths(width))
<1>1. lane_width_px = FirstWidth(width) => lane_width_px \in PlausibleWidths(width)
  BY FirstWidthIsPlausible
<1>2. lane_width_px \in PlausibleWidths(width) /\ [Learns(width)]_lane_width_px
      => (lane_width_px \in PlausibleWidths(width))'
  <2>1. SUFFICES ASSUME lane_width_px \in PlausibleWidths(width),
                        [Learns(width)]_lane_width_px
                 PROVE  lane_width_px' \in PlausibleWidths(width)
    BY DEF PlausibleWidths
  <2>2. CASE Learns(width)
    BY <2>1, <2>2, LearningKeepsPlausible DEF Learns
  <2>3. CASE UNCHANGED lane_width_px
    BY <2>1, <2>3
  <2> QED
    BY <2>1, <2>2, <2>3
<1> QED
  BY <1>1, <1>2, PTL

\* So however narrow the lane that was learned, boundaries at most 1.45 quarters
\* of the image apart are a lane and no fork: what is learned can never make a
\* fork of every frame.
THEOREM NarrowFramesAreNoFork ==
    ASSUME NEW width \in Nat \ {0, 1}
    PROVE  lane_width_px = FirstWidth(width) /\ [][Learns(width)]_lane_width_px
           => [](\A observed \in Nat :
                    400 * observed <= 145 * width => ~Forks(observed))
<1>1. lane_width_px \in PlausibleWidths(width)
      => \A observed \in Nat : 400 * observed <= 145 * width => ~Forks(observed)
  BY DEF PlausibleWidths, Forks
<1> QED
  BY <1>1, WidthStaysPlausible, PTL
=============================================================================
