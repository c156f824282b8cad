------------------------- MODULE SignRouting_proofs -------------------------
(***************************************************************************)
(* What SignRouting keeps for any destinations, any sightings of boards    *)
(* and any frames: the pending turn is the latest board's, it was latched  *)
(* for the target, and none is pending while the cooldown runs.            *)
(*                                                                         *)
(* The second half is about the detector: its pairing of any letters with  *)
(* any arrows, by induction over the letters that have picked, and so the  *)
(* truth of the routing table for any boards that are legible to it.       *)
(***************************************************************************)
EXTENDS SignRouting, TLAPS, FiniteSetTheorems, WellFoundedInduction

CONSTANTS
    LETTERBOX_SIZE, SCORE_THRESHOLD, PAIR_MAX_DX_MULT, PAIR_MAX_DY_MULT

Detector == INSTANCE SignDetector WITH LETTERS <- Targets, ARROWS <- Directions

\* INIT is over long before a table can expire, so a table read in it can
\* still be used when the first target is set.
NotBegun ==
    ~begun => /\ target_building = None
              /\ pending.of = None
              /\ table_live \/ \A b \in Targets : routing_table[b] = None

RoutingInv ==
    /\ SignRoutingTypeOK
    /\ ObeysLatestBoard
    /\ TurnServesTarget
    /\ CoolingHoldsNoTurn
    /\ NotBegun

NoTurnType == [ turn : Directions \cup {None},
                yaw  : {"unknown", "short", "past"},
                of   : Targets \cup {None},
                uses : 0..2 ]

LEMMA InitRouting == Init => RoutingInv
<1> SUFFICES ASSUME Init PROVE RoutingInv
  OBVIOUS
<1> USE RoutingAssumption DEF Init, NoTurn
<1>1. SignRoutingTypeOK
  <2>1. pending \in NoTurnType
    BY DEF NoTurnType
  <2>2. routing_table \in Tables /\ shown \in Tables
    BY DEF Tables
  <2> QED
    BY <2>1, <2>2 DEF SignRoutingTypeOK, NoTurnType
<1>2. ObeysLatestBoard /\ TurnServesTarget /\ CoolingHoldsNoTurn /\ NotBegun
  BY DEF ObeysLatestBoard, TurnServesTarget, CoolingHoldsNoTurn, NotBegun
<1> QED
  BY <1>1, <1>2 DEF RoutingInv

\* What latch_turn_for_target returns: the turn held before, or the one the
\* table gives; and the latter wherever it may latch.
LEMMA LatchedTurn ==
    ASSUME NEW held \in NoTurnType,
           NEW assigned \in Targets \cup {None},
           NEW adopted \in Patients \cup {None},
           NEW table \in Tables,
           NEW live \in BOOLEAN
    PROVE  LET latched == Latched(held, assigned, adopted, table, live)
               target  == EffectiveTarget(assigned, adopted)
           IN  /\ latched \in NoTurnType
               /\ latched = held \/ (latched.of = assigned /\ ~cooling)
               /\ (target # None /\ live /\ ~cooling /\ table[target] # None)
                     => latched.turn = table[target]
<1> SUFFICES ASSUME NEW latched, latched = Latched(held, assigned, adopted, table, live),
                    NEW target, target = EffectiveTarget(assigned, adopted)
             PROVE  /\ latched \in NoTurnType
                    /\ latched = held \/ (latched.of = assigned /\ ~cooling)
                    /\ (target # None /\ live /\ ~cooling /\ table[target] # None)
                          => latched.turn = table[target]
  OBVIOUS
<1>1. target \in Targets \cup {None}
  BY DEF EffectiveTarget, Targets
<1>2. target # None => table[target] \in Directions \cup {None}
  BY <1>1 DEF Tables
<1>3. CASE target # None /\ live /\ ~cooling
           /\ table[target] \notin {None, held.turn}
  <2> DEFINE yaw == IF have_pose THEN "short" ELSE "unknown"
  <2>1. latched =
           [turn |-> table[target], yaw |-> yaw, of |-> assigned, uses |-> 0]
    BY <1>3 DEF Latched
  <2>2. yaw \in {"unknown", "short", "past"}
    OBVIOUS
  <2> HIDE DEF yaw
  <2>3. table[target] \in Directions \cup {None} /\ 0 \in 0..2
    BY <1>2, <1>3
  <2>4. latched \in NoTurnType
    BY <2>1, <2>2, <2>3 DEF NoTurnType
  <2>5. latched.of = assigned /\ latched.turn = table[target]
    BY <2>1
  <2> QED
    BY <1>3, <2>4, <2>5
<1>4. CASE ~(target # None /\ live /\ ~cooling
             /\ table[target] \notin {None, held.turn})
  <2>1. latched = held
    BY <1>4 DEF Latched
  <2> QED
    BY <1>4, <2>1
<1> QED
  BY <1>3, <1>4

LEMMA NextRouting == RoutingInv /\ [Next]_vars => RoutingInv'
<1> SUFFICES ASSUME RoutingInv, [Next]_vars PROVE RoutingInv'
  OBVIOUS
<1> USE RoutingAssumption
<1> USE DEF RoutingInv
<1>0. pending \in NoTurnType /\ NoTurn \in NoTurnType
  BY DEF SignRoutingTypeOK, NoTurnType, NoTurn
<1>1. CASE Starts
  <2> DEFINE latched ==
         Latched(pending, FIRST_PATIENT, None, routing_table, table_live)
  <2>1. FIRST_PATIENT \in Targets /\ FIRST_PATIENT # None
    BY DEF Targets
  <2>2. EffectiveTarget(FIRST_PATIENT, None) = FIRST_PATIENT
    BY <2>1 DEF EffectiveTarget
  <2>3. /\ latched \in NoTurnType
        /\ latched = pending \/ (latched.of = FIRST_PATIENT /\ ~cooling)
        /\ (table_live /\ ~cooling /\ routing_table[FIRST_PATIENT] # None)
              => latched.turn = routing_table[FIRST_PATIENT]
    <3>1. routing_table \in Tables /\ table_live \in BOOLEAN
      BY DEF SignRoutingTypeOK
    <3> HIDE RoutingAssumption DEF RoutingInv
    <3> QED
      BY <1>0, <2>1, <2>2, <3>1, LatchedTurn
  <2>4. pending' = latched /\ target_building' = FIRST_PATIENT
        /\ routing_table' = routing_table /\ cooling' = cooling
    BY <1>1 DEF Starts, lookVars
  <2> HIDE DEF latched
  <2>5. SignRoutingTypeOK'
    BY <1>1, <2>1, <2>3, <2>4
       DEF Starts, SignRoutingTypeOK, NoTurnType, lookVars, laneVars
  <2>6. ObeysLatestBoard'
    BY <1>1, <2>1, <2>3, <2>4
       DEF Starts, ObeysLatestBoard, CoolingHoldsNoTurn, NotBegun,
           SignRoutingTypeOK
  <2>7. TurnServesTarget'
    <3>1. pending.turn # None => pending.of = None
      BY <1>1 DEF Starts, NotBegun
    <3> QED
      BY <2>3, <2>4, <3>1 DEF TurnServesTarget
  <2>8. CoolingHoldsNoTurn' /\ NotBegun'
    BY <1>1, <2>3, <2>4 DEF Starts, CoolingHoldsNoTurn, NotBegun
  <2> QED
    BY <2>5, <2>6, <2>7, <2>8
<1>2. ASSUME NEW sighting \in Sightings, NEW adopted \in Patients \cup {None},
             SignBoardCallback(sighting, adopted)
      PROVE  RoutingInv'
  <2> DEFINE latched ==
         Latched(pending, target_building, adopted, sighting.table, TRUE)
  <2>1. sighting.table \in Tables /\ sighting.board \in Tables
        /\ target_building \in Targets \cup {None} /\ TRUE \in BOOLEAN
    BY DEF SignRoutingTypeOK
  <2> DEFINE target == EffectiveTarget(target_building, adopted)
  <2>2. target_building # None => target = target_building
    BY DEF EffectiveTarget
  <2> HIDE DEF target
  <2>3. /\ latched \in NoTurnType
        /\ latched = pending \/ (latched.of = target_building /\ ~cooling)
        /\ (target # None /\ ~cooling /\ sighting.table[target] # None)
              => latched.turn = sighting.table[target]
    <3> DEFINE live == TRUE
    <3>1. latched = Latched(pending, target_building, adopted,
                            sighting.table, live)
      OBVIOUS
    <3>2. target = EffectiveTarget(target_building, adopted)
      BY DEF target
    <3>3. live \in BOOLEAN /\ live /\ cooling \in BOOLEAN
      BY DEF SignRoutingTypeOK
    <3> HIDE DEF latched, live
    <3>4. latched \in NoTurnType
      BY <1>0, <2>1, <3>1, <3>2, <3>3, LatchedTurn
    <3>5. CASE target # None /\ ~cooling
               /\ sighting.table[target] \notin {None, pending.turn}
      <4>1. latched.of = target_building
            /\ latched.turn = sighting.table[target]
        BY <3>1, <3>2, <3>3, <3>5 DEF Latched
      <4> QED
        BY <3>4, <3>5, <4>1
    <3>6. CASE ~(target # None /\ ~cooling
                 /\ sighting.table[target] \notin {None, pending.turn})
      <4>1. latched = pending
        BY <3>1, <3>2, <3>6 DEF Latched
      <4> QED
        BY <3>4, <3>6, <4>1
    <3> QED
      BY <3>5, <3>6
  <2>4. pending' = latched /\ target_building' = target_building
        /\ routing_table' = sighting.table /\ cooling' = cooling
    BY <1>2 DEF SignBoardCallback
  <2> HIDE DEF latched
  <2>5. SignRoutingTypeOK'
    BY <1>2, <2>1, <2>3, <2>4
       DEF SignBoardCallback, SignRoutingTypeOK, NoTurnType, laneVars
  <2>6. ObeysLatestBoard' /\ TurnServesTarget'
    BY <2>2, <2>3, <2>4
       DEF ObeysLatestBoard, CoolingHoldsNoTurn, TurnServesTarget
  <2>7. CoolingHoldsNoTurn'
    BY <2>3, <2>4 DEF CoolingHoldsNoTurn
  <2>8. NotBegun'
    BY <1>2, <2>3, <2>4 DEF SignBoardCallback, NotBegun
  <2> QED
    BY <2>5, <2>6, <2>7, <2>8
<1>3. ASSUME NEW building \in Targets, Answered(building)
      PROVE  RoutingInv'
  <2> DEFINE latched ==
         Latched(NoTurn, building, None, routing_table, table_live)
  <2>1. building # None
    OBVIOUS
  <2>2. EffectiveTarget(building, None) = building
    BY <2>1 DEF EffectiveTarget
  <2>3. /\ latched \in NoTurnType
        /\ latched = NoTurn \/ (latched.of = building /\ ~cooling)
        /\ (table_live /\ ~cooling /\ routing_table[building] # None)
              => latched.turn = routing_table[building]
    <3>1. routing_table \in Tables /\ table_live \in BOOLEAN
      BY DEF SignRoutingTypeOK
    <3> HIDE RoutingAssumption DEF RoutingInv
    <3> QED
      BY <1>0, <2>1, <2>2, <3>1, LatchedTurn
  <2>4. latched # NoTurn => table_live
    BY DEF Latched
  <2>5. pending' = latched /\ target_building' = building
        /\ routing_table' = routing_table /\ cooling' = cooling
    BY <1>3 DEF Answered, lookVars
  <2>6. NoTurn.turn = None
    BY DEF NoTurn
  <2> HIDE DEF latched
  <2>7. SignRoutingTypeOK'
    BY <1>3, <2>3, <2>5
       DEF Answered, SignRoutingTypeOK, NoTurnType, lookVars, laneVars
  <2>8. ObeysLatestBoard' /\ TurnServesTarget' /\ CoolingHoldsNoTurn'
    BY <2>3, <2>4, <2>5, <2>6
       DEF ObeysLatestBoard, TurnServesTarget, CoolingHoldsNoTurn
  <2>9. NotBegun'
    BY <1>3 DEF Answered, NotBegun
  <2> QED
    BY <2>7, <2>8, <2>9
<1>4. CASE Completed
  <2>1. SignRoutingTypeOK'
    BY <1>4 DEF Completed, SignRoutingTypeOK, lookVars, laneVars
  <2> QED
    BY <1>4, <2>1
       DEF Completed, ObeysLatestBoard, TurnServesTarget, CoolingHoldsNoTurn,
           NotBegun
\* The other actions leave target and table alone, and keep the pending turn
\* or clear it.
<1>5. ASSUME UNCHANGED <<begun, target_building, routing_table, shown>>,
             table_live' = table_live \/ begun,
             pending' \in NoTurnType,
             \/ Clear
             \/ /\ pending'.turn = pending.turn
                /\ pending'.of = pending.of
                /\ cooling' = cooling \/ cooling' = FALSE
      PROVE  /\ ObeysLatestBoard' /\ TurnServesTarget'
             /\ CoolingHoldsNoTurn' /\ NotBegun'
             /\ cooling' \in BOOLEAN
  <2>1. CASE Clear
    BY <1>5, <2>1
       DEF Clear, NoTurn, ObeysLatestBoard, TurnServesTarget,
           CoolingHoldsNoTurn, NotBegun
  <2>2. CASE /\ pending'.turn = pending.turn
             /\ pending'.of = pending.of
             /\ cooling' = cooling \/ cooling' = FALSE
    <3>1. ObeysLatestBoard' /\ TurnServesTarget'
      BY <1>5, <2>2 DEF ObeysLatestBoard, TurnServesTarget
    <3>2. CoolingHoldsNoTurn'
      BY <2>2 DEF CoolingHoldsNoTurn
    <3>4. cooling' \in BOOLEAN
      BY <2>2, Zenon DEF SignRoutingTypeOK
    <3>3. NotBegun'
      BY <1>5, <2>2 DEF NotBegun
    <3> QED
      BY <3>1, <3>2, <3>3, <3>4
  <2> QED
    BY <1>5, <2>1, <2>2
<1>6. Used \in NoTurnType /\ Used.turn = pending.turn /\ Used.of = pending.of
  BY <1>0 DEF Used, NoTurnType
<1>7. Clear => pending' \in NoTurnType
  BY <1>0 DEF Clear
<1>8. ASSUME NEW rotated \in BOOLEAN, OdometryCallback(rotated)
      PROVE  RoutingInv'
  <2>1. /\ pending' \in NoTurnType
        /\ pending'.turn = pending.turn /\ pending'.of = pending.of
    BY <1>0, <1>8 DEF OdometryCallback, NoTurnType
  <2>2. UNCHANGED <<begun, target_building, lookVars, cooling, laneVars>>
    BY <1>8 DEF OdometryCallback
  <2>3. SignRoutingTypeOK'
    BY <1>8, <2>1, <2>2
       DEF OdometryCallback, SignRoutingTypeOK, NoTurnType, lookVars, laneVars
  <2> QED
    BY <1>5, <2>1, <2>2, <2>3 DEF lookVars
<1>9. ASSUME NEW frame \in Frames, NEW wide \in BOOLEAN,
             FollowsFork(frame, wide)
      PROVE  RoutingInv'
  <2> DEFINE taken == CASE branch # None    -> branch
                   [] branch = None /\ Commanded # None -> Commanded
                   [] OTHER            -> WiderBranch(frame)
  <2>1. taken \in Turns
    BY DEF Commanded, WiderBranch, SignRoutingTypeOK, Turns
  <2>2. /\ branch' = taken
        /\ \/ Clear
           \/ (pending' = Used \/ pending' = pending) /\ cooling' = cooling
        /\ steered' = (steered \/ taken = Commanded)
        /\ fork_live' = TRUE
        /\ UNCHANGED <<begun, target_building, lookVars, have_pose,
                       was_lane_visible>>
    BY <1>9 DEF FollowsFork
  <2> HIDE DEF taken
  <2>3. pending' \in NoTurnType
    BY <1>0, <1>6, <1>7, <2>2
  <2>4. /\ ObeysLatestBoard' /\ TurnServesTarget'
        /\ CoolingHoldsNoTurn' /\ NotBegun'
        /\ cooling' \in BOOLEAN
    BY <1>5, <1>6, <2>2, <2>3 DEF lookVars
  <2>5. SignRoutingTypeOK'
    BY <2>1, <2>2, <2>3, <2>4 DEF SignRoutingTypeOK, NoTurnType, lookVars
  <2> QED
    BY <2>4, <2>5
<1>10. ASSUME NEW frame \in Frames, NEW wide \in BOOLEAN,
              NEW clear \in BOOLEAN, FollowsLane(frame, wide, clear)
       PROVE  RoutingInv'
  <2>1. /\ branch' = branch \/ branch' = None
        /\ Clear \/ (pending' = pending /\ cooling' = cooling)
        /\ steered' \in BOOLEAN /\ fork_live' \in BOOLEAN
        /\ was_lane_visible' = TRUE
        /\ UNCHANGED <<begun, target_building, lookVars, have_pose>>
    BY <1>10 DEF FollowsLane
  <2>2. pending' \in NoTurnType
    BY <1>0, <1>7, <2>1
  <2>3. /\ ObeysLatestBoard' /\ TurnServesTarget'
        /\ CoolingHoldsNoTurn' /\ NotBegun'
        /\ cooling' \in BOOLEAN
    BY <1>5, <2>1, <2>2 DEF lookVars
  <2>4. SignRoutingTypeOK'
    BY <2>1, <2>2, <2>3 DEF SignRoutingTypeOK, NoTurnType, lookVars
  <2> QED
    BY <2>3, <2>4
<1>11. ASSUME NEW frame \in Frames, LosesLane(frame)
       PROVE  RoutingInv'
  <2>1. /\ pending' = Used \/ pending' = pending
        /\ steered' \in BOOLEAN /\ was_lane_visible' \in BOOLEAN
        /\ UNCHANGED <<begun, target_building, lookVars, cooling, have_pose,
                       fork_live, branch>>
    BY <1>11 DEF LosesLane, SignRoutingTypeOK
  <2>2. pending' \in NoTurnType
    BY <1>0, <1>6, <2>1
  <2>3. /\ ObeysLatestBoard' /\ TurnServesTarget'
        /\ CoolingHoldsNoTurn' /\ NotBegun'
        /\ cooling' \in BOOLEAN
    BY <1>5, <1>6, <2>1, <2>2 DEF lookVars
  <2>4. SignRoutingTypeOK'
    BY <2>1, <2>2, <2>3 DEF SignRoutingTypeOK, NoTurnType, lookVars
  <2> QED
    BY <2>3, <2>4
<1>12. ASSUME NEW opening \in BOOLEAN, DrivesSeeking(opening)
       PROVE  RoutingInv'
  <2>1. /\ Clear
        /\ UNCHANGED <<begun, target_building, lookVars, have_pose, laneVars>>
    BY <1>12 DEF DrivesSeeking
  <2>2. /\ ObeysLatestBoard' /\ TurnServesTarget'
        /\ CoolingHoldsNoTurn' /\ NotBegun'
        /\ cooling' \in BOOLEAN
    BY <1>5, <1>7, <2>1 DEF lookVars
  <2>3. SignRoutingTypeOK'
    BY <1>7, <2>1, <2>2
       DEF SignRoutingTypeOK, NoTurnType, lookVars, laneVars
  <2> QED
    BY <2>2, <2>3
<1>13. ASSUME UNCHANGED <<begun, target_building, routing_table, shown, pending,
                          have_pose, was_lane_visible, branch, steered>>,
              table_live' = table_live \/ (begun /\ table_live' = FALSE),
              cooling' = cooling \/ cooling' = FALSE,
              fork_live' = fork_live \/ fork_live' = FALSE
       PROVE  RoutingInv'
  <2> HIDE RoutingAssumption
  <2>1. /\ ObeysLatestBoard' /\ TurnServesTarget'
        /\ CoolingHoldsNoTurn' /\ NotBegun'
        /\ cooling' \in BOOLEAN
    BY <1>0, <1>5, <1>13
  <2>2. SignRoutingTypeOK
    OBVIOUS
  <2> HIDE DEF RoutingInv
  <2>3. table_live' \in BOOLEAN /\ fork_live' \in BOOLEAN
    BY <1>13, <2>2 DEF SignRoutingTypeOK
  <2>4. SignRoutingTypeOK'
    BY <1>13, <2>1, <2>2, <2>3 DEF SignRoutingTypeOK
  <2> QED
    BY <2>1, <2>4 DEF RoutingInv
<1>14. CASE TableExpires
  BY <1>13, <1>14 DEF TableExpires, laneVars
<1>15. CASE CoolingEnds
  BY <1>13, <1>15 DEF CoolingEnds, lookVars, laneVars
<1>16. CASE ForkExpires
  BY <1>13, <1>16 DEF ForkExpires, lookVars
<1>17. CASE UNCHANGED vars
  BY <1>13, <1>17 DEF vars, lookVars, laneVars
<1> QED
  BY <1>1, <1>2, <1>3, <1>4, <1>8, <1>9, <1>10, <1>11, <1>12, <1>14, <1>15,
     <1>16, <1>17 DEF Next

\* The conjunction the properties rest on holds throughout.
THEOREM RoutingInvariance == Spec => []RoutingInv
BY InitRouting, NextRouting, PTL DEF Spec

\* The type invariant of the sign routing.
THEOREM RoutingTypeCorrect == Spec => []SignRoutingTypeOK
<1>1. RoutingInv => SignRoutingTypeOK
  BY DEF RoutingInv
<1> QED
  BY <1>1, RoutingInvariance, PTL

\* The pending turn is the one the latest board gives for the target.
THEOREM LatestBoardIsObeyed == Spec => []ObeysLatestBoard
<1>1. RoutingInv => ObeysLatestBoard
  BY DEF RoutingInv
<1> QED
  BY <1>1, RoutingInvariance, PTL

\* No turn outlives the target it was latched for.
THEOREM TurnsServeTarget == Spec => []TurnServesTarget
<1>1. RoutingInv => TurnServesTarget
  BY DEF RoutingInv
<1> QED
  BY <1>1, RoutingInvariance, PTL

\* No turn is pending during the cooldown.
THEOREM NoTurnWhileCooling == Spec => []CoolingHoldsNoTurn
<1>1. RoutingInv => CoolingHoldsNoTurn
  BY DEF RoutingInv
<1> QED
  BY <1>1, RoutingInvariance, PTL

-----------------------------------------------------------------------------
(***************************************************************************)
(* What the sign detector makes of any outputs of its classifier.  The     *)
(* pairing is a recursion over the letters; as the induction theorems of   *)
(* the library cannot be used here, induction is over sets of numbers.     *)
(***************************************************************************)
LEMMA LeastNatural ==
    ASSUME NEW T, T \subseteq Nat, T # {}
    PROVE  \E n \in T : \A m \in T : n <= m
<1> DEFINE R == {ss \in Nat \X Nat : ss[1] < ss[2]}
<1>1. IsWellFoundedOn(R, Nat)
  BY NatLessThanWellFounded DEF OpToRel
<1>2. \A m, n \in Nat : <<m, n>> \in R <=> m < n
  OBVIOUS
<1> HIDE DEF R
<1>3. PICK n \in T : \A m \in T : ~ (<<m, n>> \in R)
  BY <1>1, WFMin
<1>4. \A m \in T : ~ (m < n)
  BY <1>2, <1>3
<1>5. \A m, k \in Nat : ~ (m < k) => k <= m
  OBVIOUS
<1> QED BY <1>3, <1>4, <1>5

\* Induction over 0 .. N, for a set of numbers.
LEMMA OneByOne ==
    ASSUME NEW N \in Nat, NEW T, 0 \in T,
           \A k \in 0 .. N : k \in T /\ k < N => k + 1 \in T
    PROVE  0 .. N \subseteq T
<1> DEFINE B == (0 .. N) \ T
<1> SUFFICES ASSUME B # {} PROVE FALSE
  OBVIOUS
<1>1. PICK n \in B : \A m \in B : n <= m
  <2>1. B \subseteq Nat
    OBVIOUS
  <2> QED BY <2>1, LeastNatural
<1>2. n # 0 /\ n \in 0 .. N
  OBVIOUS
<1>3. n - 1 \in 0 .. N /\ n - 1 < N /\ (n - 1) + 1 = n /\ ~ (n <= n - 1)
  BY <1>2
<1>4. n - 1 \in T
  BY <1>1, <1>3
<1> QED BY <1>3, <1>4

\* What a list of detections is, as far as the pairing looks.
Detected(d) ==
    /\ IsFiniteSet(DOMAIN d) /\ DOMAIN d \subseteq Nat
    /\ \A i \in DOMAIN d : d[i].score \in 0 .. 100
                           /\ d[i].cx \in Int /\ d[i].cy \in Int

\* Each direction in the table is an arrow of its own, which a letter for that
\* destination reaches.
EachHasItsOwn(d, table, arrows) ==
    \E claim \in [{l \in Targets : table[l] # None} -> arrows] :
        /\ \A l \in Targets : table[l] # None =>
              /\ d[claim[l]].name = table[l]
              /\ \E i \in Detector!LettersOf(d) :
                    d[i].name = l /\ Detector!Reaches(d[i], d[claim[l]])
        /\ \A l, m \in Targets :
              table[l] # None /\ table[m] # None /\ claim[l] = claim[m] => l = m

LEMMA SurestIs ==
    ASSUME NEW d, Detected(d), NEW left, left \subseteq DOMAIN d, left # {}
    PROVE  Detector!Surest(d, left) \in left
<1> DEFINE doubt(i) == 100 - d[i].score
           P(i) == \A j \in left :
                      \/ d[i].score > d[j].score
                      \/ d[i].score = d[j].score /\ i <= j
<1>1. \A i \in left : doubt(i) \in Nat /\ d[i].score \in Int /\ i \in Nat
  BY DEF Detected
<1>2. PICK least \in {doubt(i) : i \in left} :
         \A m \in {doubt(i) : i \in left} : least <= m
  <2>1. {doubt(i) : i \in left} \subseteq Nat /\ {doubt(i) : i \in left} # {}
    BY <1>1
  <2> QED BY <2>1, LeastNatural
<1> DEFINE sure == {i \in left : doubt(i) = least}
<1>3. PICK i \in sure : \A j \in sure : i <= j
  <2>1. sure \subseteq Nat /\ sure # {}
    BY <1>1, <1>2
  <2> QED BY <2>1, LeastNatural
<1>4. P(i)
  <2> SUFFICES ASSUME NEW j \in left
               PROVE  \/ d[i].score > d[j].score
                      \/ d[i].score = d[j].score /\ i <= j
    OBVIOUS
  <2>1. doubt(i) <= doubt(j) /\ (doubt(i) = doubt(j) => i <= j)
    BY <1>2, <1>3
  <2> QED BY <1>1, <1>3, <2>1
<1>5. \E k \in left : P(k)
  BY <1>3, <1>4
<1> HIDE DEF P
<1>6. (CHOOSE k \in left : P(k)) \in left
  BY <1>5
<1> QED BY <1>6 DEF Detector!Surest, P

LEMMA NearestIs ==
    ASSUME NEW d, Detected(d), NEW letter \in DOMAIN d,
           NEW near, near \subseteq DOMAIN d, near # {},
           \A i \in near : Detector!Reaches(d[letter], d[i])
    PROVE  Detector!Nearest(d, letter, near) \in near
<1> DEFINE cost(i) == Detector!Cost(d[letter], d[i])
           P(i) == \A j \in near :
                      \/ cost(i) < cost(j)
                      \/ cost(i) = cost(j) /\ i <= j
<1>1. \A i \in near : cost(i) \in Nat /\ i \in Nat
  <2> SUFFICES ASSUME NEW i \in near PROVE cost(i) \in Nat /\ i \in Nat
    OBVIOUS
  <2>1. /\ d[letter].cx \in Int /\ d[letter].cy \in Int
        /\ d[i].cx \in Int /\ d[i].cy \in Int /\ i \in Nat
    BY DEF Detected
  <2>2. d[i].cy > d[letter].cy
    BY DEF Detector!Reaches
  <2> QED BY <2>1, <2>2 DEF Detector!Cost, Detector!Aside
<1> HIDE DEF cost
<1>2. PICK least \in {cost(i) : i \in near} :
         \A m \in {cost(i) : i \in near} : least <= m
  <2>1. {cost(i) : i \in near} \subseteq Nat /\ {cost(i) : i \in near} # {}
    BY <1>1
  <2> QED BY <2>1, LeastNatural
<1> DEFINE cheap == {i \in near : cost(i) = least}
<1>3. PICK i \in cheap : \A j \in cheap : i <= j
  <2>1. cheap \subseteq Nat /\ cheap # {}
    BY <1>1, <1>2
  <2> QED BY <2>1, LeastNatural
<1>4. P(i)
  <2> SUFFICES ASSUME NEW j \in near
               PROVE  cost(i) < cost(j) \/ (cost(i) = cost(j) /\ i <= j)
    OBVIOUS
  <2>1. cost(i) <= cost(j) /\ (cost(i) = cost(j) => i <= j)
    BY <1>2, <1>3
  <2> QED BY <1>1, <1>3, <2>1
<1>5. \E k \in near : P(k)
  BY <1>3, <1>4
<1> HIDE DEF P
<1>6. (CHOOSE k \in near : P(k)) \in near
  BY <1>5
<1> QED BY <1>6 DEF Detector!Nearest, P, cost

\* What one letter after the other leaves for the rest.
Picking(d, n, acc) ==
    /\ acc \in [left : SUBSET Detector!LettersOf(d),
                used : SUBSET Detector!ArrowsOf(d),
                table : [Targets -> Directions \cup {None}]]
    /\ IsFiniteSet(acc.left) /\ Cardinality(acc.left) = n
    /\ EachHasItsOwn(d, acc.table, acc.used)

LEMMA PickKeeps ==
    ASSUME NEW d, Detected(d), NEW n \in Nat, n # 0, NEW acc, Picking(d, n, acc)
    PROVE  Picking(d, n - 1, Detector!Pick(d, acc))
<1> DEFINE letter == Detector!Surest(d, acc.left)
           near   == { i \in Detector!ArrowsOf(d) \ acc.used :
                          Detector!Reaches(d[letter], d[i]) }
           arrow  == Detector!Nearest(d, letter, near)
           name   == d[letter].name
           new    == Detector!Pick(d, acc)
<1> SUFFICES Picking(d, n - 1, new)
  OBVIOUS
<1>1. /\ acc.left \subseteq Detector!LettersOf(d)
      /\ acc.used \subseteq Detector!ArrowsOf(d)
      /\ acc.table \in [Targets -> Directions \cup {None}]
      /\ IsFiniteSet(acc.left) /\ Cardinality(acc.left) = n
      /\ EachHasItsOwn(d, acc.table, acc.used)
      /\ acc = [left |-> acc.left, used |-> acc.used, table |-> acc.table]
  BY DEF Picking
<1>2. acc.left # {}
  BY <1>1, FS_EmptySet
<1>3. /\ Detector!LettersOf(d) \subseteq DOMAIN d
      /\ \A i \in Detector!LettersOf(d) : d[i].name \in Targets
      /\ Detector!ArrowsOf(d) \subseteq DOMAIN d
      /\ \A i \in Detector!ArrowsOf(d) : d[i].name \in Directions
  BY DEF Detector!LettersOf, Detector!ArrowsOf
<1>4. letter \in acc.left
  BY <1>1, <1>2, <1>3, SurestIs
<1>5. IsFiniteSet(acc.left \ {letter}) /\ Cardinality(acc.left \ {letter}) = n - 1
  BY <1>1, <1>4, FS_RemoveElement
<1>6. letter \in Detector!LettersOf(d) /\ name \in Targets /\ letter \in DOMAIN d
  BY <1>1, <1>3, <1>4
<1>7. new = IF near = {}
            THEN [acc EXCEPT !.left = @ \ {letter}]
            ELSE [[acc EXCEPT !.left = @ \ {letter}] EXCEPT
                     !.used = @ \cup {arrow},
                     !.table[name] = d[arrow].name]
  BY DEF Detector!Pick
<1>8. CASE near = {}
  <2>1. /\ new.left = acc.left \ {letter}
        /\ new.used = acc.used /\ new.table = acc.table
        /\ new = [left |-> new.left, used |-> new.used, table |-> new.table]
    BY <1>1, <1>7, <1>8
  <2> HIDE DEF new, letter, near
  <2> QED BY <1>1, <1>5, <2>1 DEF Picking
<1>9. CASE near # {}
  <2>1. arrow \in near
    <3>1. near \subseteq DOMAIN d
      BY <1>3
    <3> QED BY <1>6, <1>9, <3>1, NearestIs
  <2>2. /\ arrow \in Detector!ArrowsOf(d) /\ arrow \notin acc.used
        /\ Detector!Reaches(d[letter], d[arrow])
        /\ d[arrow].name \in Directions
    BY <1>3, <2>1
  <2>3. /\ new.left = acc.left \ {letter}
        /\ new.used = acc.used \cup {arrow}
        /\ new.table = [acc.table EXCEPT ![name] = d[arrow].name]
        /\ new = [left |-> new.left, used |-> new.used, table |-> new.table]
    BY <1>1, <1>7, <1>9
  <2> HIDE DEF new, letter, near, arrow
  <2>4. /\ new.left \subseteq Detector!LettersOf(d)
        /\ new.used \subseteq Detector!ArrowsOf(d)
        /\ new.table \in [Targets -> Directions \cup {None}]
    BY <1>1, <2>2, <2>3
  <2>5. EachHasItsOwn(d, new.table, new.used)
    <3>1. PICK claim \in [{l \in Targets : acc.table[l] # None} -> acc.used] :
             /\ \A l \in Targets : acc.table[l] # None =>
                   /\ d[claim[l]].name = acc.table[l]
                   /\ \E i \in Detector!LettersOf(d) :
                         d[i].name = l /\ Detector!Reaches(d[i], d[claim[l]])
             /\ \A l, m \in Targets :
                   acc.table[l] # None /\ acc.table[m] # None
                      /\ claim[l] = claim[m] => l = m
      BY <1>1 DEF EachHasItsOwn
    <3>2. \A l \in Targets : new.table[l] =
             IF l = name THEN d[arrow].name ELSE acc.table[l]
      BY <1>1, <2>3
    <3> DEFINE given == {l \in Targets : new.table[l] # None}
               more == [l \in given |-> IF l = name THEN arrow ELSE claim[l]]
    <3>3. \A l \in given : l # name =>
             acc.table[l] # None /\ claim[l] \in acc.used /\ more[l] = claim[l]
      BY <3>1, <3>2
    <3>4. name \in given => more[name] = arrow
      OBVIOUS
    <3> HIDE DEF more
    <3>5. more \in [given -> new.used]
      BY <2>3, <3>3, <3>4 DEF more
    <3>6. \A l \in Targets : new.table[l] # None =>
             /\ d[more[l]].name = new.table[l]
             /\ \E i \in Detector!LettersOf(d) :
                   d[i].name = l /\ Detector!Reaches(d[i], d[more[l]])
      BY <1>6, <2>2, <3>1, <3>2, <3>3, <3>4
    <3>7. \A l, m \in Targets :
             new.table[l] # None /\ new.table[m] # None /\ more[l] = more[m]
                => l = m
      BY <2>2, <3>1, <3>3, <3>4
    <3> QED BY <3>5, <3>6, <3>7 DEF EachHasItsOwn
  <2> QED BY <1>5, <2>3, <2>4, <2>5 DEF Picking
<1> QED BY <1>8, <1>9

LEMMA PickingBegins ==
    ASSUME NEW d, Detected(d)
    PROVE  LET letters == Detector!LettersOf(d) IN
           /\ Cardinality(letters) \in Nat
           /\ Picking(d, Cardinality(letters),
                      [left |-> letters, used |-> {},
                       table |-> [l \in Targets |-> None]])
<1> DEFINE letters == Detector!LettersOf(d)
           none == [l \in Targets |-> None]
<1>1. IsFiniteSet(letters) /\ Cardinality(letters) \in Nat
  <2>1. letters \subseteq DOMAIN d
    BY DEF Detector!LettersOf
  <2> QED BY <2>1, FS_Subset, FS_CardinalityType DEF Detected
<1>2. EachHasItsOwn(d, none, {})
  <2> DEFINE given == {l \in Targets : none[l] # None}
  <2>1. given = {} /\ \A l \in Targets : none[l] = None
    OBVIOUS
  <2>2. [l \in given |-> l] \in [given -> {}]
    BY <2>1
  <2> QED BY <2>1, <2>2 DEF EachHasItsOwn
<1> HIDE DEF letters
<1> QED BY <1>1, <1>2 DEF Picking, letters

\* The recursion of the pairing is well founded: letter after letter picks.
Picks(d, n, after) ==
    after = [k \in 0 .. n |->
                IF k = 0
                THEN [left  |-> Detector!LettersOf(d), used |-> {},
                      table |-> [l \in Targets |-> None]]
                ELSE Detector!Pick(d, after[k - 1])]

LEMMA PicksInTurn ==
    ASSUME NEW d, NEW N \in Nat
    PROVE  \E after : Picks(d, N, after)
<1> DEFINE first == [left  |-> Detector!LettersOf(d), used |-> {},
                     table |-> [l \in Targets |-> None]]
           T == {n \in 0 .. N : \E after : Picks(d, n, after)}
<1>1. 0 \in T
  <2> DEFINE after == [k \in 0 .. 0 |-> first]
  <2>1. after = [k \in 0 .. 0 |-> IF k = 0 THEN first
                                  ELSE Detector!Pick(d, after[k - 1])]
    OBVIOUS
  <2> HIDE DEF after
  <2>2. Picks(d, 0, after)
    BY <2>1 DEF Picks
  <2> QED BY <2>2
<1>2. ASSUME NEW n \in 0 .. N, n \in T, n < N
      PROVE  n + 1 \in T
  <2>1. PICK before : Picks(d, n, before)
    BY <1>2
  <2> DEFINE after == [k \in 0 .. n + 1 |->
                          IF k <= n THEN before[k]
                                    ELSE Detector!Pick(d, before[n])]
  <2>2. \A k \in 0 .. n : before[k] =
           IF k = 0 THEN first ELSE Detector!Pick(d, before[k - 1])
    BY <2>1 DEF Picks
  <2>3. ASSUME NEW k \in 0 .. n + 1
        PROVE  after[k] = IF k = 0 THEN first ELSE Detector!Pick(d, after[k - 1])
    <3> HIDE DEF first
    <3>1. CASE k = 0
      <4>1. k \in 0 .. n /\ k <= n
        BY <3>1
      <4>2. after[k] = before[k]
        BY <4>1
      <4> HIDE DEF after
      <4> QED BY <2>2, <3>1, <4>1, <4>2
    <3>2. CASE k # 0 /\ k <= n
      <4>1. k \in 0 .. n /\ k - 1 \in 0 .. n + 1 /\ k - 1 <= n
        BY <3>2
      <4>2. after[k] = before[k] /\ after[k - 1] = before[k - 1]
        BY <3>2, <4>1
      <4> HIDE DEF after
      <4> QED BY <2>2, <3>2, <4>1, <4>2
    <3>3. CASE k = n + 1
      <4>1. k # 0 /\ k - 1 = n /\ ~ (k <= n) /\ n \in 0 .. n + 1
        BY <3>3
      <4>2. after[k] = Detector!Pick(d, before[n]) /\ after[n] = before[n]
        BY <4>1
      <4> HIDE DEF after
      <4> QED BY <4>1, <4>2
    <3>4. k = 0 \/ (k # 0 /\ k <= n) \/ k = n + 1
      OBVIOUS
    <3> HIDE DEF after
    <3> QED BY <3>1, <3>2, <3>3, <3>4
  <2>4. after = [k \in 0 .. n + 1 |->
                    IF k = 0 THEN first ELSE Detector!Pick(d, after[k - 1])]
    <3>1. after = [k \in 0 .. n + 1 |-> after[k]]
      OBVIOUS
    <3> HIDE DEF after
    <3> QED BY <2>3, <3>1
  <2> HIDE DEF after
  <2>5. Picks(d, n + 1, after)
    BY <2>4 DEF Picks
  <2>6. n + 1 \in 0 .. N
    BY <1>2
  <2> QED BY <2>5, <2>6
<1>3. 0 .. N \subseteq T
  <2> HIDE DEF T
  <2> QED BY <1>1, <1>2, OneByOne
<1> QED BY <1>3

\* The pairing gives each letter an arrow that it reaches or none, and no arrow
\* to two letters (pair_letters_with_arrows).
THEOREM EachLetterHasItsOwnArrow ==
    ASSUME NEW d, Detected(d)
    PROVE  EachHasItsOwn(d, Detector!PairLettersWithArrows(d),
                         Detector!ArrowsOf(d))
<1> DEFINE N == Cardinality(Detector!LettersOf(d))
           after == CHOOSE f : Picks(d, N, f)
<1>1. N \in Nat
  BY PickingBegins
<1>2. Picks(d, N, after)
  BY <1>1, PicksInTurn
<1>3. Detector!PairLettersWithArrows(d) = after[N].table
  <2>1. Detector!Cardinality(Detector!LettersOf(d)) = N
    BY DEF Detector!Cardinality, Cardinality
  <2> QED BY <2>1 DEF Detector!PairLettersWithArrows, Picks
<1> HIDE DEF after
<1> DEFINE T == {k \in 0 .. N : Picking(d, N - k, after[k])}
<1>4. 0 \in T
  <2>1. after[0] = [left  |-> Detector!LettersOf(d), used |-> {},
                    table |-> [l \in Targets |-> None]]
    BY <1>1, <1>2 DEF Picks
  <2>2. Picking(d, N, after[0])
    BY <2>1, PickingBegins
  <2> HIDE DEF N
  <2>3. N - 0 = N /\ 0 \in 0 .. N
    BY <1>1
  <2> QED BY <2>2, <2>3
<1>5. ASSUME NEW k \in 0 .. N, k \in T, k < N
      PROVE  k + 1 \in T
  <2>1. /\ k + 1 \in 0 .. N /\ k + 1 # 0 /\ (k + 1) - 1 = k
        /\ N - k \in Nat /\ N - k # 0 /\ (N - k) - 1 = N - (k + 1)
    BY <1>1, <1>5
  <2>2. after[k + 1] = Detector!Pick(d, after[k])
    BY <1>2, <2>1 DEF Picks
  <2>3. Picking(d, (N - k) - 1, Detector!Pick(d, after[k]))
    BY <1>5, <2>1, PickKeeps
  <2> QED BY <2>1, <2>2, <2>3
<1>6. N \in T
  <2> HIDE DEF N, T
  <2>1. 0 .. N \subseteq T
    BY <1>1, <1>4, <1>5, OneByOne
  <2> QED BY <1>1, <2>1
<1>7. /\ after[N].used \subseteq Detector!ArrowsOf(d)
      /\ EachHasItsOwn(d, after[N].table, after[N].used)
  BY <1>6 DEF Picking
<1> HIDE DEF N
<1>8. EachHasItsOwn(d, after[N].table, Detector!ArrowsOf(d))
  <2> DEFINE table == after[N].table
             used == after[N].used
             arrows == Detector!ArrowsOf(d)
  <2>1. used \subseteq arrows /\ EachHasItsOwn(d, table, used)
    BY <1>7
  <2> HIDE DEF table, used, arrows
  <2>2. EachHasItsOwn(d, table, arrows)
    BY <2>1 DEF EachHasItsOwn
  <2> QED BY <2>2 DEF table, arrows
<1> QED BY <1>3, <1>8

\* So of a legible board no direction is read that is not on it, whatever part
\* of the board was detected.
LEMMA LegibleIsTrue ==
    ASSUME NEW outputs, Detected(outputs), NEW board,
           Detector!Legible(Detector!Collect(outputs), board)
    PROVE  \A l \in Targets : Detector!Table(outputs)[l] \in {None, board[l]}
<1> DEFINE d == Detector!Collect(outputs)
           table == Detector!PairLettersWithArrows(d)
<1>1. /\ DOMAIN d \subseteq DOMAIN outputs
      /\ \A i \in DOMAIN d : d[i] = outputs[i]
  BY DEF Detector!Collect, Detector!Restrict
<1>2. Detected(d)
  BY <1>1, FS_Subset DEF Detected
<1> HIDE DEF d
<1>3. EachHasItsOwn(d, table, Detector!ArrowsOf(d))
  BY <1>2, EachLetterHasItsOwnArrow
<1> HIDE DEF table
<1>4. \A l \in Targets : table[l] \in {None, board[l]}
  <2> SUFFICES ASSUME NEW l \in Targets, table[l] # None
               PROVE  table[l] = board[l]
    OBVIOUS
  <2>1. PICK j \in Detector!ArrowsOf(d), i \in Detector!LettersOf(d) :
           /\ d[j].name = table[l] /\ d[i].name = l
           /\ Detector!Reaches(d[i], d[j])
    BY <1>3 DEF EachHasItsOwn
  <2> QED BY <2>1 DEF Detector!Legible, d
<1> QED BY <1>4 DEF Detector!Table, table, d

\* What the detector may make of the boards of a run.
ReadsLegibleBoards ==
    \A s \in Sightings : \E outputs :
        /\ Detected(outputs)
        /\ Detector!Legible(Detector!Collect(outputs), s.board)
        /\ s.table = Detector!Table(outputs)

\* The routing table is true of the board last read, of which any letters and
\* arrows may have been missed: nothing of an older board is left in it
\* (camera_image_callback and sign_board_callback together).
THEOREM TableStaysTrue == ReadsLegibleBoards /\ Spec => []TableIsTrue
<1>1. Init => TableIsTrue
  BY DEF Init, TableIsTrue
<1>2. ReadsLegibleBoards /\ TableIsTrue /\ [Next]_vars => TableIsTrue'
  <2> SUFFICES ASSUME ReadsLegibleBoards, TableIsTrue, [Next]_vars
               PROVE  TableIsTrue'
    OBVIOUS
  <2>1. ASSUME UNCHANGED <<routing_table, shown>>
        PROVE  TableIsTrue'
    BY <2>1 DEF TableIsTrue
  <2>2. ASSUME NEW s \in Sightings, NEW adopted, SignBoardCallback(s, adopted)
        PROVE  TableIsTrue'
    <3>1. PICK outputs : /\ Detected(outputs)
                         /\ Detector!Legible(Detector!Collect(outputs), s.board)
                         /\ s.table = Detector!Table(outputs)
      BY DEF ReadsLegibleBoards
    <3>2. \A l \in Targets : s.table[l] \in {None, s.board[l]}
      BY <3>1, LegibleIsTrue
    <3> QED BY <2>2, <3>2 DEF SignBoardCallback, TableIsTrue
  <2> QED
    BY <2>1, <2>2 DEF Next, Starts, Answered, Completed, OdometryCallback,
           FollowsFork, FollowsLane, LosesLane, DrivesSeeking, TableExpires,
           CoolingEnds, ForkExpires, lookVars, vars
<1> DEFINE I == ReadsLegibleBoards /\ TableIsTrue
<1>3. ReadsLegibleBoards /\ Init => I
  BY <1>1
<1>4. I /\ [Next]_vars => I'
  BY <1>2 DEF ReadsLegibleBoards
<1>5. I => TableIsTrue
  OBVIOUS
<1> HIDE DEF I
<1> QED BY <1>3, <1>4, <1>5, PTL DEF Spec
=============================================================================
