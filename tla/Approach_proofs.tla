-------------------------- MODULE Approach_proofs --------------------------
(***************************************************************************)
(* What Approach keeps whatever its constants are: no arrival comes too    *)
(* late for its decode, one approach leads to one arrival, and the side of *)
(* a dodge holds.                                                          *)
(***************************************************************************)
EXTENDS Approach, TLAPS

\* The latest decode is at most QR_FRESH_SEC older than the approach.
AgeFollowsApproach ==
    /\ approaching /\ held <= APPROACH_MAX_SEC => qr_age <= held + QR_FRESH_SEC
    /\ ~approaching => held = 0

\* ... and is a tick older when the buggy acts on its arrival.
ArrivalAge ==
    /\ state = "AT_BUILDING" /\ ~delayed =>
          qr_age <= APPROACH_MAX_SEC + QR_FRESH_SEC + IF due THEN 1 ELSE 0
    /\ state = "RECOVERY" /\ recovery_return_state = "AT_BUILDING" => delayed

\* An approach that has led to a building and is not over has been held for
\* too long when the buggy seeks again: the wait was longer.
Expiring ==
    /\ state = "WAIT" /\ approaching => held > APPROACH_MAX_SEC \/ held >= waited
    /\ ~over /\ acted /\ approaching =>
          /\ state = "SEEK" => held > APPROACH_MAX_SEC
          /\ state = "RECOVERY" /\ recovery_return_state = "SEEK" =>
                held > APPROACH_MAX_SEC
    /\ state = "EXIT" => over
    /\ state = "RECOVERY" /\ recovery_return_state = "EXIT" => over

HoldIsQuiet == side # None => hold = quiet

ApproachInv ==
    /\ ApproachTypeOK
    /\ AgeFollowsApproach
    /\ ArrivalAge
    /\ Expiring
    /\ HoldIsQuiet

LEMMA InitApproach == Init => ApproachInv
<1> SUFFICES ASSUME Init PROVE ApproachInv
  OBVIOUS
<1> USE ApproachAssumption DEF Init
<1>1. ApproachTypeOK
  <2>1. /\ waited \in 0..WAIT_TIMEOUT + 1
        /\ qr_age \in 0..ARRIVAL_QR_MAX_AGE + 1
        /\ held \in 0..APPROACH_MAX_SEC + 1
        /\ stalled \in 0..APPROACH_STALL_SEC + 1
        /\ hold \in 0..AVOID_HOLD_SEC
        /\ quiet \in 0..AVOID_HOLD_SEC
    OBVIOUS
  <2>2. state \in Driving /\ recovery_return_state \in Driving
    BY DEF Driving, Seeking
  <2> QED
    BY <2>1, <2>2, Zenon DEF ApproachTypeOK, Advances
<1>2. AgeFollowsApproach /\ ArrivalAge /\ Expiring /\ HoldIsQuiet
  BY DEF AgeFollowsApproach, ArrivalAge, Expiring, HoldIsQuiet, None
<1> QED
  BY <1>1, <1>2 DEF ApproachInv

-----------------------------------------------------------------------------
(* Avoidance *)

DodgeType ==
    /\ side \in Sides \cup {None}
    /\ hold \in 0..AVOID_HOLD_SEC
    /\ quiet \in 0..AVOID_HOLD_SEC

\* Whatever the lane and the LiDAR say, the decision is a side.
LEMMA ChoicesAreSides == Choices \subseteq Sides
BY DEF Choices, Choice, Sides, Opposite

LEMMA AvoidsKeeps ==
    ASSUME DodgeType, HoldIsQuiet, Avoids
    PROVE  DodgeType' /\ HoldIsQuiet'
<1> USE ApproachAssumption, ChoicesAreSides
<1>1. CASE road # "clear"
  <2>1. quiet' = 0 /\ hold' = 0 /\ side' \in Sides \cup {None}
    BY <1>1 DEF Avoids, Dodges, DodgeType
  <2> QED
    BY <2>1 DEF DodgeType, HoldIsQuiet
<1>2. CASE road = "clear"
  BY <1>2 DEF Avoids, DodgeType, HoldIsQuiet
<1> QED
  BY <1>1, <1>2

\* A dodge changes sides only after the hold.
LEMMA AvoidsHolds ==
    ASSUME DodgeType, HoldIsQuiet, Avoids, side # None, side' = Opposite(side)
    PROVE  quiet >= AVOID_HOLD_SEC
<1> USE ApproachAssumption
<1>1. side \in Sides
  BY DEF DodgeType
<1>2. side' # side /\ side' # None
  BY <1>1 DEF Opposite, Sides, None
<1>3. ~(hold < AVOID_HOLD_SEC)
  BY <1>2 DEF Avoids, Dodges
<1> QED
  BY <1>3 DEF HoldIsQuiet, DodgeType

-----------------------------------------------------------------------------
(* control_loop *)

\* All but the dodge, which Avoids alone changes.
CoreType ==
    /\ state \in Driving \cup {"WAIT", "DONE", "RECOVERY"}
    /\ recovery_return_state \in Driving
    /\ waited \in 0..WAIT_TIMEOUT + 1
    /\ qr \in {"sought", "other"}
    /\ qr_age \in 0..ARRIVAL_QR_MAX_AGE + 1
    /\ held \in 0..APPROACH_MAX_SEC + 1
    /\ advanced \in Advances
    /\ stalled \in 0..APPROACH_STALL_SEC + 1

Flags == /\ over \in BOOLEAN /\ approaching \in BOOLEAN
         /\ acted \in BOOLEAN /\ delayed \in BOOLEAN

CoreInv ==
    CoreType /\ Flags /\ AgeFollowsApproach /\ ArrivalAge /\ Expiring

\* A tick of drive_seeking, after the dodge.
LEMMA DrivesKeeps ==
    ASSUME CoreInv, state \in Seeking, due' = FALSE,
           UNCHANGED <<recovery_return_state, over, waited, qr_age>>,
           \/ UNCHANGED <<state, qr, approachVars, pastVars>>
           \/ BeginsApproach \/ AbandonsApproach
           \/ \E near \in {"closer", "same", "receded"} : PursuesApproach(near)
    PROVE  CoreInv'
<1> USE ApproachAssumption DEF CoreInv, Seeking, Driving, approachVars, pastVars
<1>1. CASE UNCHANGED <<state, qr, approachVars, pastVars>>
  <2>1. CoreType' /\ Flags'
    BY <1>1 DEF CoreType, Flags
  <2>2. AgeFollowsApproach' /\ ArrivalAge' /\ Expiring'
    BY <1>1 DEF AgeFollowsApproach, ArrivalAge, Expiring, CoreType
  <2> QED
    BY <2>1, <2>2
<1>2. CASE BeginsApproach
  <2>1. /\ held = 0 /\ qr_age < QR_FRESH_SEC /\ acted' = FALSE
        /\ approaching' = TRUE
        /\ UNCHANGED <<state, qr, held, advanced, stalled, delayed>>
    BY <1>2 DEF BeginsApproach, FreshOnTarget, AgeFollowsApproach
  <2>2a. CoreType'
    BY <2>1 DEF CoreType
  <2>2b. Flags'
    BY <2>1 DEF Flags
  <2>2. CoreType' /\ Flags'
    BY <2>2a, <2>2b
  <2>3. AgeFollowsApproach'
    BY <2>1 DEF AgeFollowsApproach, CoreType
  <2>4. ArrivalAge' /\ Expiring'
    BY <2>1 DEF ArrivalAge, Expiring
  <2> QED
    BY <2>2, <2>3, <2>4
<1>3. CASE AbandonsApproach
  <2>1. /\ approaching' = FALSE /\ held' = 0 /\ stalled' = 0
        /\ advanced' \in Advances /\ qr' \in {"sought", "other"}
        /\ UNCHANGED <<state, acted, delayed>>
    BY <1>3 DEF AbandonsApproach, EndsApproach, Advances
  <2>2a. CoreType'
    BY <2>1 DEF CoreType
  <2>2b. Flags'
    BY <2>1 DEF Flags
  <2>2. CoreType' /\ Flags'
    BY <2>2a, <2>2b
  <2>3. AgeFollowsApproach' /\ ArrivalAge' /\ Expiring'
    BY <2>1 DEF AgeFollowsApproach, ArrivalAge, Expiring
  <2> QED
    BY <2>2, <2>3
<1>4. ASSUME NEW near \in {"closer", "same", "receded"}, PursuesApproach(near)
      PROVE  CoreInv'
  <2>1. /\ approaching /\ held <= APPROACH_MAX_SEC
        /\ stalled' \in 0..APPROACH_STALL_SEC + 1
        /\ UNCHANGED <<qr, approaching, held, advanced, acted>>
        /\ \/ state' = "AT_BUILDING" /\ delayed' = FALSE
           \/ UNCHANGED <<state, delayed>>
    BY <1>4 DEF PursuesApproach, GivesUp, CoreType
  <2>2. CoreType'
    BY <2>1 DEF CoreType
  <2>3. Flags'
    BY <2>1 DEF Flags
  <2>4. AgeFollowsApproach'
    BY <2>1 DEF AgeFollowsApproach
  <2>5. qr_age <= APPROACH_MAX_SEC + QR_FRESH_SEC
    BY <2>1 DEF AgeFollowsApproach, CoreType
  <2>6. ArrivalAge'
    BY <2>1, <2>5 DEF ArrivalAge
  <2>7. Expiring'
    BY <2>1 DEF Expiring
  <2> QED
    BY <2>2, <2>3, <2>4, <2>6, <2>7
<1> QED
  BY <1>1, <1>2, <1>3, <1>4

LEMMA SeeksKeeps == CoreInv /\ Seeks /\ due' = FALSE => CoreInv'
<1> SUFFICES ASSUME CoreInv, Seeks, due' = FALSE PROVE CoreInv'
  OBVIOUS
<1>1. /\ state \in Seeking
      /\ UNCHANGED <<recovery_return_state, over, waited, qr_age>>
      /\ \/ UNCHANGED <<state, qr, approachVars, pastVars>>
         \/ BeginsApproach \/ AbandonsApproach
         \/ \E near \in {"closer", "same", "receded"} : PursuesApproach(near)
  BY DEF Seeks, Cruises
<1> QED
  BY <1>1, DrivesKeeps

\* What the other branches of control_loop do to an approach.
LEMMA BranchesKeep ==
    ASSUME CoreInv, due' = FALSE,
           \/ ExitCloses \/ BacksOut \/ ActsOnArrival \/ Waits \/ Rests
           \/ EntersRecovery \/ Recovers
    PROVE  CoreInv'
<1> USE ApproachAssumption
    DEF CoreInv, Seeking, Driving, stateVars, qrVars, approachVars, pastVars
<1>1. CASE ExitCloses
  <2>0. /\ state' = "DONE"
        /\ UNCHANGED <<recovery_return_state, over, waited, qr_age, acted,
                       delayed>>
    BY <1>1 DEF ExitCloses
  <2>1. ArrivalAge' /\ Expiring'
    BY <2>0 DEF ArrivalAge, Expiring
  <2>2. CASE EndsApproach
    <3>1. /\ approaching' = FALSE /\ held' = 0 /\ stalled' = 0
          /\ advanced' \in Advances /\ qr' \in {"sought", "other"}
      BY <2>2 DEF EndsApproach, Advances
    <3>2. CoreType'
      BY <2>0, <3>1 DEF CoreType
    <3>3. Flags'
      BY <2>0, <3>1 DEF Flags
    <3> QED
      BY <2>1, <3>1, <3>2, <3>3 DEF AgeFollowsApproach
  <2>3. CASE UNCHANGED <<qr, approachVars>>
    <3>1. CoreType'
      BY <2>0, <2>3 DEF CoreType
    <3>2. Flags'
      BY <2>0, <2>3 DEF Flags
    <3> QED
      BY <2>0, <2>1, <2>3, <3>1, <3>2 DEF AgeFollowsApproach
  <2> QED
    BY <1>1, <2>2, <2>3 DEF ExitCloses
<1>2. CASE BacksOut
  <2>1. /\ state' = "SEEK" /\ approaching' = FALSE /\ held' = 0 /\ stalled' = 0
        /\ advanced' \in Advances /\ qr' \in {"sought", "other"}
        /\ acted' = TRUE
        /\ UNCHANGED <<recovery_return_state, over, waited, qr_age, delayed>>
    BY <1>2 DEF BacksOut, EndsApproach, Advances
  <2>2a. CoreType'
    BY <2>1 DEF CoreType
  <2>2b. Flags'
    BY <2>1 DEF Flags
  <2>2. CoreType' /\ Flags'
    BY <2>2a, <2>2b
  <2>3. AgeFollowsApproach' /\ ArrivalAge' /\ Expiring'
    BY <2>1 DEF AgeFollowsApproach, ArrivalAge, Expiring
  <2> QED
    BY <2>2, <2>3
<1>3. CASE ActsOnArrival
  <2>1. /\ state' = "WAIT" \/ (state' = "SEEK" /\ over)
        /\ waited' = 0 /\ acted' = TRUE
        /\ UNCHANGED <<recovery_return_state, over, qr, qr_age, approaching,
                       held, advanced, stalled, delayed>>
    BY <1>3 DEF ActsOnArrival
  <2>2a. CoreType'
    BY <2>1 DEF CoreType
  <2>2b. Flags'
    BY <2>1 DEF Flags
  <2>2. CoreType' /\ Flags'
    BY <2>2a, <2>2b
  <2>3. AgeFollowsApproach' /\ ArrivalAge'
    BY <2>1 DEF AgeFollowsApproach, ArrivalAge
  <2>4. Expiring'
    BY <2>1 DEF Expiring, CoreType
  <2> QED
    BY <2>2, <2>3, <2>4
<1>4. CASE Waits
  <2>1. /\ state = "WAIT"
        /\ \/ waited > WAIT_TIMEOUT /\ state' = "SEEK" /\ waited' = 0
           \/ UNCHANGED <<state, waited>>
        /\ UNCHANGED <<recovery_return_state, over, qr, qr_age, approaching,
                       held, advanced, stalled, acted, delayed>>
    BY <1>4 DEF Waits
  <2>2a. CoreType'
    BY <2>1 DEF CoreType
  <2>2b. Flags'
    BY <2>1 DEF Flags
  <2>2. CoreType' /\ Flags'
    BY <2>2a, <2>2b
  <2>3. AgeFollowsApproach' /\ ArrivalAge'
    BY <2>1 DEF AgeFollowsApproach, ArrivalAge
  <2>4. Expiring'
    BY <2>1 DEF Expiring, CoreType
  <2> QED
    BY <2>2, <2>3, <2>4
<1>5. CASE Rests
  <2>1. UNCHANGED <<state, recovery_return_state, over, waited, qr, qr_age,
                    approaching, held, advanced, stalled, acted, delayed>>
        /\ state = "DONE"
    BY <1>5 DEF Rests
  <2>2a. CoreType'
    BY <2>1 DEF CoreType
  <2>2b. Flags'
    BY <2>1 DEF Flags
  <2>2. CoreType' /\ Flags'
    BY <2>2a, <2>2b
  <2>3. AgeFollowsApproach' /\ ArrivalAge' /\ Expiring'
    BY <2>1 DEF AgeFollowsApproach, ArrivalAge, Expiring
  <2> QED
    BY <2>2, <2>3
<1>6. CASE EntersRecovery
  <2>1. /\ state \in {"SEEK", "EXIT", "AT_BUILDING"} /\ state' = "RECOVERY"
        /\ recovery_return_state' = state
        /\ delayed' \in BOOLEAN
        /\ delayed \/ state = "AT_BUILDING" => delayed'
        /\ UNCHANGED <<over, waited, qr, qr_age, approaching, held, advanced,
                       stalled, acted>>
    BY <1>6 DEF EntersRecovery, Flags
  <2>2. CoreType'
    BY <2>1 DEF CoreType
  <2>3. Flags'
    BY <2>1 DEF Flags
  <2>4. AgeFollowsApproach' /\ ArrivalAge' /\ Expiring'
    BY <2>1 DEF AgeFollowsApproach, ArrivalAge, Expiring
  <2> QED
    BY <2>2, <2>3, <2>4
<1>7. CASE Recovers
  <2>1. /\ state = "RECOVERY"
        /\ \/ UNCHANGED <<state, recovery_return_state>>
           \/ state' = recovery_return_state /\ recovery_return_state' = "SEEK"
        /\ UNCHANGED <<over, waited, qr, qr_age, approaching, held, advanced,
                       stalled, acted, delayed>>
    BY <1>7 DEF Recovers
  <2>2a. CoreType'
    BY <2>1 DEF CoreType
  <2>2b. Flags'
    BY <2>1 DEF Flags
  <2>2. CoreType' /\ Flags'
    BY <2>2a, <2>2b
  <2>3. AgeFollowsApproach' /\ ArrivalAge' /\ Expiring'
    BY <2>1 DEF AgeFollowsApproach, ArrivalAge, Expiring, CoreType
  <2> QED
    BY <2>2, <2>3
<1> QED
  BY <1>1, <1>2, <1>3, <1>4, <1>5, <1>6, <1>7

-----------------------------------------------------------------------------
(* Callbacks and time *)

LEMMA ReadsQrKeeps == CoreInv /\ ReadsQr => CoreInv'
<1> SUFFICES ASSUME CoreInv, ReadsQr PROVE CoreInv'
  OBVIOUS
<1> USE ApproachAssumption DEF CoreInv
<1>1. /\ qr' \in {"sought", "other"} /\ qr_age' = 0
      /\ UNCHANGED <<state, recovery_return_state, over, waited, approaching,
                     held, advanced, stalled, due, acted, delayed>>
  BY DEF ReadsQr, stateVars, approachVars, pastVars
<1>2. CoreType'
  BY <1>1 DEF CoreType
<1>3. Flags'
  BY <1>1 DEF Flags
<1>4. AgeFollowsApproach' /\ ArrivalAge'
  BY <1>1 DEF AgeFollowsApproach, ArrivalAge, CoreType
<1>5. Expiring'
  BY <1>1 DEF Expiring
<1> QED
  BY <1>2, <1>3, <1>4, <1>5

LEMMA OdometryKeeps == CoreInv /\ OdometryCallback => CoreInv'
<1> SUFFICES ASSUME CoreInv, OdometryCallback PROVE CoreInv'
  OBVIOUS
<1> USE DEF CoreInv
<1>1. /\ advanced' \in Advances
      /\ UNCHANGED <<state, recovery_return_state, over, waited, qr, qr_age,
                     approaching, held, stalled, due, acted, delayed>>
  BY DEF OdometryCallback, stateVars, qrVars, pastVars, CoreType, Advances
<1>2. CoreType'
  BY <1>1 DEF CoreType
<1>3. Flags'
  BY <1>1 DEF Flags
<1>4. AgeFollowsApproach' /\ ArrivalAge' /\ Expiring'
  BY <1>1 DEF AgeFollowsApproach, ArrivalAge, Expiring
<1> QED
  BY <1>2, <1>3, <1>4

\* The five answers: those that end the approach, and those that leave it.
LEMMA AnswersKeep ==
    ASSUME CoreInv, Assigned \/ Rejected \/ Completed \/ ParkingConfirmed
    PROVE  CoreInv'
<1> USE ApproachAssumption DEF CoreInv, pastVars, Driving, Seeking
<1>1. CASE EndsApproach /\ Answered("SEEK") /\ over' \in {FALSE, over}
  <2>1. /\ state' = "SEEK" /\ recovery_return_state' = "SEEK" /\ waited' = 0
        /\ approaching' = FALSE /\ held' = 0 /\ stalled' = 0
        /\ advanced' \in Advances /\ qr' \in {"sought", "other"}
        /\ UNCHANGED <<qr_age, acted, delayed>>
    BY <1>1 DEF EndsApproach, Answered, Advances
  <2>2. CoreType'
    BY <2>1 DEF CoreType
  <2>3. Flags'
    BY <2>1, <1>1 DEF Flags
  <2>4. AgeFollowsApproach' /\ ArrivalAge' /\ Expiring'
    BY <2>1 DEF AgeFollowsApproach, ArrivalAge, Expiring
  <2> QED
    BY <2>2, <2>3, <2>4
<1>2. CASE /\ waited' = 0
           /\ UNCHANGED <<state, recovery_return_state, over, qrVars,
                          approachVars, due, pastVars>>
  <2>1. UNCHANGED <<state, recovery_return_state, over, qr, qr_age,
                    approaching, held, advanced, stalled, due, acted, delayed>>
    BY <1>2 DEF qrVars, approachVars
  <2>2. CoreType'
    BY <1>2, <2>1 DEF CoreType
  <2>3. Flags'
    BY <2>1 DEF Flags
  <2>4. AgeFollowsApproach' /\ ArrivalAge'
    BY <2>1 DEF AgeFollowsApproach, ArrivalAge
  <2>5. Expiring'
    BY <1>2, <2>1 DEF Expiring, CoreType
  <2> QED
    BY <2>2, <2>3, <2>4, <2>5
<1>3. ASSUME NEW new \in {"EXIT", "DONE"}, Answered(new),
             over' \in {TRUE, over}, new = "EXIT" => over',
             qr' \in {"sought", "other"}, UNCHANGED approachVars
      PROVE  CoreInv'
  <2>1. /\ state' = new /\ recovery_return_state' = "SEEK" /\ waited' = 0
        /\ UNCHANGED <<qr_age, approaching, held, advanced, stalled, acted,
                       delayed>>
    BY <1>3 DEF Answered, approachVars
  <2>2. CoreType'
    BY <1>3, <2>1 DEF CoreType
  <2>3. Flags'
    BY <1>3, <2>1 DEF Flags
  <2>4. AgeFollowsApproach' /\ ArrivalAge'
    BY <1>3, <2>1 DEF AgeFollowsApproach, ArrivalAge
  <2>5. Expiring'
    BY <1>3, <2>1 DEF Expiring
  <2> QED
    BY <2>2, <2>3, <2>4, <2>5
<1>4. CASE Assigned
  BY <1>1, <1>4 DEF Assigned
<1>5. CASE Rejected
  BY <1>1, <1>2, <1>5 DEF Rejected
<1>6. CASE Completed
  <2>1. qr' \in {"sought", "other"}
    BY <1>6 DEF Completed, CoreType
  <2> QED
    BY <1>3, <1>6, <2>1 DEF Completed
<1>7. CASE ParkingConfirmed
  <2>1. qr' \in {"sought", "other"}
    BY <1>7 DEF ParkingConfirmed, CoreType
  <2> QED
    BY <1>3, <1>7, <2>1 DEF ParkingConfirmed
<1> QED
  BY <1>4, <1>5, <1>6, <1>7

\* Ageing adds at most one and stays within its bound.
LEMMA OlderIsBounded ==
    ASSUME NEW most \in Nat, NEW age \in 0..most, NEW older,
           older = Older(age, most)
    PROVE  /\ older \in 0..most
           /\ age <= older /\ older <= age + 1
           /\ older = most \/ older = age + 1
BY DEF Older

LEMMA TimeKeeps == CoreInv /\ TimePasses => CoreInv'
<1> SUFFICES ASSUME CoreInv, TimePasses PROVE CoreInv'
  OBVIOUS
<1> USE ApproachAssumption DEF CoreInv, TimePasses, pastVars
<1>1. /\ WAIT_TIMEOUT + 1 \in Nat /\ ARRIVAL_QR_MAX_AGE + 1 \in Nat
      /\ APPROACH_MAX_SEC + 1 \in Nat /\ APPROACH_STALL_SEC + 1 \in Nat
  OBVIOUS
<1>2. /\ waited' \in 0..WAIT_TIMEOUT + 1 /\ waited' <= waited + 1
  <2>1. PICK w : w = Older(waited, WAIT_TIMEOUT + 1)
    OBVIOUS
  <2>2. w \in 0..WAIT_TIMEOUT + 1 /\ w <= waited + 1
    BY <1>1, <2>1, OlderIsBounded DEF CoreType
  <2> QED
    BY <2>1, <2>2 DEF CoreType
<1>3. qr_age' \in 0..ARRIVAL_QR_MAX_AGE + 1 /\ qr_age' <= qr_age + 1
  BY <1>1, OlderIsBounded DEF CoreType
<1>4. /\ held' \in 0..APPROACH_MAX_SEC + 1 /\ held <= held'
      /\ approaching => held' = APPROACH_MAX_SEC + 1 \/ held' = held + 1
      /\ ~approaching => held' = held
  <2>1. PICK h : h = Older(held, APPROACH_MAX_SEC + 1)
    OBVIOUS
  <2>2. /\ h \in 0..APPROACH_MAX_SEC + 1 /\ held <= h
        /\ h = APPROACH_MAX_SEC + 1 \/ h = held + 1
    BY <1>1, <2>1, OlderIsBounded DEF CoreType
  <2> QED
    BY <2>1, <2>2 DEF CoreType
<1>5. stalled' \in 0..APPROACH_STALL_SEC + 1
  <2>1. PICK s : s = Older(stalled, APPROACH_STALL_SEC + 1)
    OBVIOUS
  <2>2. s \in 0..APPROACH_STALL_SEC + 1
    BY <1>1, <2>1, OlderIsBounded DEF CoreType
  <2> QED
    BY <2>1, <2>2 DEF CoreType
<1>6. /\ ~due /\ due'
      /\ UNCHANGED <<state, recovery_return_state, over, qr, approaching,
                     advanced, acted, delayed>>
  OBVIOUS
<1>7. CoreType'
  BY <1>2, <1>3, <1>4, <1>5, <1>6 DEF CoreType
<1>8. Flags'
  BY <1>6 DEF Flags
<1>9. AgeFollowsApproach'
  BY <1>3, <1>4, <1>6 DEF AgeFollowsApproach, CoreType
<1>10. ArrivalAge'
  BY <1>3, <1>6 DEF ArrivalAge, CoreType
<1>11. Expiring'
  BY <1>2, <1>4, <1>6 DEF Expiring, CoreType
<1> QED
  BY <1>7, <1>8, <1>9, <1>10, <1>11

-----------------------------------------------------------------------------
Outside == road \in {"clear", "near", "close"} /\ due \in BOOLEAN

LEMMA Parts == ApproachInv <=> CoreInv /\ DodgeType /\ HoldIsQuiet /\ Outside
BY DEF ApproachInv, ApproachTypeOK, CoreInv, CoreType, Flags, DodgeType, Outside

\* No step moves the dodge but a tick of drive_seeking, and time.
LEMMA DodgeKeeps ==
    ASSUME DodgeType, HoldIsQuiet, Outside, Next
    PROVE  DodgeType' /\ HoldIsQuiet' /\ Outside'
<1> USE ApproachAssumption
<1>1. Outside'
  BY DEF Outside, Next, ControlLoop, ReadsQr, LidarCallback, OdometryCallback,
         Assigned, Rejected, Completed, ParkingConfirmed, Answered, TimePasses
<1>2. CASE Seeks \/ ExitCloses
  BY <1>1, <1>2, AvoidsKeeps DEF Seeks, ExitCloses
<1>3. CASE TimePasses
  <2>1. hold' \in 0..AVOID_HOLD_SEC /\ quiet' \in 0..AVOID_HOLD_SEC
        /\ side' = side
    BY <1>3, OlderIsBounded DEF TimePasses, DodgeType
  <2>2. side # None => hold' = quiet'
    BY <1>3 DEF TimePasses, HoldIsQuiet
  <2> QED
    BY <1>1, <2>1, <2>2 DEF DodgeType, HoldIsQuiet
<1>4. CASE UNCHANGED dodgeVars
  BY <1>1, <1>4 DEF dodgeVars, DodgeType, HoldIsQuiet
<1>5. Seeks \/ ExitCloses \/ TimePasses \/ UNCHANGED dodgeVars
  BY DEF Next, ControlLoop, EntersRecovery, Recovers, BacksOut, ActsOnArrival,
         Waits, Rests, ReadsQr, LidarCallback, OdometryCallback, Assigned,
         Rejected, Completed, ParkingConfirmed, Answered
<1> QED
  BY <1>2, <1>3, <1>4, <1>5

LEMMA NextApproach == ApproachInv /\ [Next]_vars => ApproachInv'
<1> SUFFICES ASSUME ApproachInv, [Next]_vars PROVE ApproachInv'
  OBVIOUS
<1>1. CASE Next
  <2>1. CoreInv'
    <3>1. CASE ControlLoop
      BY <3>1, Parts, SeeksKeeps, BranchesKeep DEF ControlLoop
    <3>2. CASE LidarCallback
      BY <3>2, Parts
         DEF LidarCallback, stateVars, qrVars, approachVars, pastVars, CoreInv,
             CoreType, Flags, AgeFollowsApproach, ArrivalAge, Expiring
    <3> QED
      BY <1>1, <3>1, <3>2, Parts, ReadsQrKeeps, OdometryKeeps, AnswersKeep,
         TimeKeeps DEF Next
  <2>2. DodgeType' /\ HoldIsQuiet' /\ Outside'
    BY <1>1, Parts, DodgeKeeps
  <2>3. ApproachTypeOK'
    BY <2>1, <2>2 DEF CoreInv, CoreType, Flags, DodgeType, Outside,
                      ApproachTypeOK
  <2> QED
    BY <2>1, <2>2, <2>3 DEF ApproachInv, CoreInv
<1>2. CASE UNCHANGED vars
  BY <1>2 DEF vars, stateVars, qrVars, approachVars, dodgeVars, pastVars,
              ApproachInv, ApproachTypeOK, AgeFollowsApproach, ArrivalAge,
              Expiring, HoldIsQuiet
<1> QED
  BY <1>1, <1>2

\* The invariant of every approach, whatever its constants.
THEOREM ApproachInvariance == Spec => []ApproachInv
<1> QED
  BY InitApproach, NextApproach, PTL DEF Spec

\* Every variable of Approach stays within its type.
THEOREM ApproachTypeCorrect == Spec => []ApproachTypeOK
<1>1. ApproachInv => ApproachTypeOK
  BY DEF ApproachInv
<1> QED
  BY <1>1, ApproachInvariance, PTL

\* No arrival is turned away for the age of its decode.
THEOREM ArrivalIsInTime == Spec => []ArrivesInTime
<1>1. ApproachInv => ArrivesInTime
  BY ApproachAssumption
     DEF ApproachInv, ApproachTypeOK, ArrivalAge, ArrivesInTime
<1> QED
  BY <1>1, ApproachInvariance, PTL

\* One approach leads to one arrival while deliveries go on.
THEOREM ArrivalIsUnique == Spec => ArrivesOnce
<1> DEFINE Once == (state \in Seeking) /\ state' = "AT_BUILDING" /\ ~over => ~acted
<1>1. ApproachInv /\ [Next]_vars => [Once]_vars
  <2> SUFFICES ASSUME ApproachInv, Next, state \in Seeking,
                      state' = "AT_BUILDING", ~over
               PROVE  ~acted
    OBVIOUS
  <2>1. state # "AT_BUILDING" /\ state # "RECOVERY" /\ state # "WAIT"
    BY DEF Seeking
  <2>2. Seeks
    BY <2>1 DEF Next, ControlLoop, EntersRecovery, Recovers, ExitCloses,
           BacksOut, ActsOnArrival, Waits, Rests, ReadsQr, LidarCallback,
           OdometryCallback, Assigned, Rejected, Completed, ParkingConfirmed,
           Answered, TimePasses, stateVars
  <2>3. PICK near : PursuesApproach(near)
    BY <2>1, <2>2 DEF Seeks, BeginsApproach, AbandonsApproach, Cruises
  <2>4. approaching /\ ~(held > APPROACH_MAX_SEC)
    BY <2>3 DEF PursuesApproach, GivesUp
  <2>5. state = "SEEK"
    BY DEF ApproachInv, Expiring, Seeking
  <2> QED
    BY <2>4, <2>5 DEF ApproachInv, Expiring
<1> QED
  BY <1>1, ApproachInvariance, PTL DEF Spec, ArrivesOnce

\* A dodge keeps its side for as long as it is called, and the hold.
THEOREM DodgeIsHeld == Spec => DodgeSideHolds
<1> DEFINE Holds == side # None /\ side' = Opposite(side)
                        => quiet >= AVOID_HOLD_SEC
<1>1. ApproachInv /\ [Next]_vars => [Holds]_vars
  <2> SUFFICES ASSUME ApproachInv, Next, side # None, side' = Opposite(side)
               PROVE  quiet >= AVOID_HOLD_SEC
    OBVIOUS
  <2>1. DodgeType /\ HoldIsQuiet
    BY Parts
  <2>2. side' # side
    BY <2>1 DEF DodgeType, Opposite, Sides
  <2>3. Avoids
    BY <2>2 DEF Next, ControlLoop, Seeks, ExitCloses, EntersRecovery, Recovers,
           BacksOut, ActsOnArrival, Waits, Rests, ReadsQr, LidarCallback,
           OdometryCallback, Assigned, Rejected, Completed, ParkingConfirmed,
           Answered, TimePasses, dodgeVars
  <2> QED
    BY <2>1, <2>3, AvoidsHolds
<1> QED
  BY <1>1, ApproachInvariance, PTL DEF Spec, DodgeSideHolds
=============================================================================
