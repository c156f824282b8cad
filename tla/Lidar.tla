------------------------------- MODULE Lidar -------------------------------
(***************************************************************************)
(* What lidar_callback of b3rb_ros_line_follower.py makes of one scan, as  *)
(* far as stuck detection and recovery read it.  A scan is a sequence of   *)
(* ranges in centimetres; the first is taken at -180 degrees (angle_min)   *)
(* and the last at +180.  A range that is not valid is Far.                *)
(***************************************************************************)
EXTENDS Integers, Sequences, FiniteSetsExt

CONSTANTS
    Far,                   \* float('inf')
    Step,                  \* angle_increment, degrees
    Sin,                   \* [0..180 -> thousandths], for the bearings of beams
    FRONT_ARC_DEG,
    REAR_ARC_DEG,
    CORRIDOR_ARC_DEG,
    CORRIDOR_HALF_WIDTH    \* centimetres

Bearing(i) == Step * (i - 1) - 180

\* idx_for: the nearest beam, and never beyond either end of the scan.
IdxFor(scan, bearing) ==
    LET i == (2 * (bearing + 180) + Step) \div (2 * Step) + 1
    IN  Max({1, Min({Len(scan), i})})

Sector(scan, center, half) ==
    { i \in IdxFor(scan, center - half)..IdxFor(scan, center + half) :
         scan[i] \in 6..Far - 1 }

\* sector_min
SectorMin(scan, center, half) ==
    Min({Far} \cup { scan[i] : i \in Sector(scan, center, half) })

Abs(n) == IF n < 0 THEN -n ELSE n

\* The collision corridor: returns projected into forward and lateral.
Forward(scan, i) == (scan[i] * Sin[90 - Abs(Bearing(i))]) \div 1000
Lateral(scan, i) == scan[i] * Sin[Abs(Bearing(i))]
Corridor(scan) ==
    Min({Far} \cup
        { Forward(scan, i) :
             i \in { j \in Sector(scan, 0, CORRIDOR_ARC_DEG) :
                        /\ Abs(Bearing(j)) < 90
                        /\ Lateral(scan, j) < 1000 * CORRIDOR_HALF_WIDTH } })

\* lidar_callback: front_dist_raw, rear_clear and corridor_dist.  Behind the
\* buggy the sector runs past the last beam and ends there: of +/- 30 degrees
\* about 180 only the half on the left is looked at.
Reading(scan) ==
    [ front    |-> SectorMin(scan, 0, FRONT_ARC_DEG),
      rear     |-> SectorMin(scan, 180, REAR_ARC_DEG),
      corridor |-> Corridor(scan) ]
=============================================================================
