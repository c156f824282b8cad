----------------------------- MODULE MCRecovery -----------------------------
(* Scans of thirteen beams: nothing near; a wall ahead, near or at 1.2 m; the *)
(* same, or nothing, with something behind, on either side of the last beam;  *)
(* a pole beside the front sector and within the corridor.  The speeds of a    *)
(* seeking buggy are what Steering makes of lanes of every effort, and of      *)
(* every combination of signs, bearings, obstacles and approaches with them.  *)
EXTENDS Recovery, Steering

Far == 1000

Sensor == INSTANCE Lidar WITH
    Step <- 30,
    Sin <- [b \in 0..180 |-> CASE b = 0 -> 0 [] b = 30 -> 500 [] b = 60 -> 866
                               [] b = 90 -> 1000 [] OTHER -> 0],
    FRONT_ARC_DEG <- 30,
    REAR_ARC_DEG <- 30,
    CORRIDOR_ARC_DEG <- 80,
    CORRIDOR_HALF_WIDTH <- 55

Scan(ahead, beside, left, right) ==
    [ i \in 1..13 |-> CASE i = 7 -> ahead [] i = 9 -> beside
                        [] i = 12 -> left [] i = 2 -> right [] OTHER -> Far ]

MCReadings ==
    { Sensor!Reading(s) :
        s \in { Scan(Far, Far, Far, Far), Scan(40, Far, Far, Far),
                Scan(120, Far, Far, Far), Scan(40, Far, 20, Far),
                Scan(Far, Far, 20, Far), Scan(40, Far, Far, 20),
                Scan(Far, 60, 20, Far) } }

\* From a boundary near the middle of the image to one at its edge, the lane
\* width learned from one frame of each; and from frames without one.
MCDeviations ==
    LET width   == FrameWidth(0)
        learned == LearnedWidth(FirstWidth(width), width, 200)
    IN  { Deviation(CentreOfTwo(x, 260, lean), width) :
             x \in {40, 120}, lean \in {-60, 60} }
          \cup { Deviation(CentreOfOne(x, width, learned), width) :
                   x \in {60, 150, 250} }

MCLanes ==
    { LaneTurn(turn, d, rate) : turn \in {-100, 0, 100}, d \in MCDeviations,
                                rate \in {-200, 0} }
      \cup { ForkTurn(d) : d \in MCDeviations }
      \cup { BlindTurn(60, pending, long, 40) :
                pending \in Turns \cup {None}, long \in BOOLEAN }

MCInputs ==
    [ lane       : MCLanes,
      deviation  : {0, -50},
      confidence : 0..2,
      pending    : Turns \cup {"STRAIGHT", None},
      rotated    : {FALSE},
      bearing    : {None, -90, 120},
      left       : {100, 500},
      right      : {100, 500},
      front      : {40, 60, 500},
      dodge_left : BOOLEAN,
      fork       : {FALSE},
      committed  : {FALSE},
      approach   : {"none"} ]
    \cup
    [ lane       : MCLanes,
      deviation  : {0},
      confidence : {0, 2},
      pending    : {"LEFT"},
      rotated    : BOOLEAN,
      bearing    : {120},
      left       : {100},
      right      : {100},
      front      : {40, 120, 500},
      dodge_left : {TRUE},
      fork       : BOOLEAN,
      committed  : BOOLEAN,
      approach   : {"none", "sure", "lost"} ]

MCSeekSpeeds == {14, 20, 22, 26, 35} \cup 50..75

\* These are the speeds that Steering makes of the inputs, and the lane
\* outranks the rest in all of them.
ASSUME SteeringOfInputs ==
    /\ SeekSpeeds = { SpeedOf(i) : i \in Inputs }
    /\ LaneOutranks
=============================================================================
