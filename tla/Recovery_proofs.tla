-------------------------- MODULE Recovery_proofs --------------------------
(***************************************************************************)
(* What Recovery keeps for any readings and any constants: its phases end  *)
(* in time, what stands behind is respected, and a recovery is begun by    *)
(* driving alone.                                                          *)
(***************************************************************************)
EXTENDS Recovery, TLAPS

Cap(p) == IF p = "REVERSE" THEN RECOVERY_MAX_REVERSE_SEC
                           ELSE RECOVERY_ESCAPE_MAX_SEC

Tick == IF due THEN 1 ELSE 0

\* A tick leaves a phase within its cap, and a unit of time adds one.
PhaseInTime == state = "RECOVERY" => phase_age <= Cap(phase) + Tick

\* How long the buggy may have pressed backwards when a tick has run: less
\* than RECOVERY_MIN_REVERSE_SEC in REVERSE, and a unit more with every tick
\* that commands nothing.
Allowance ==
    RECOVERY_MIN_REVERSE_SEC +
    IF state # "RECOVERY" THEN 1 ELSE IF phase = "REVERSE" THEN -1 ELSE 0

PressedInTime ==
    /\ speed # "reverse" \/ seen.rear >= RECOVERY_REAR_MIN => pressed = 0
    /\ state = "RECOVERY" /\ phase = "REVERSE" => pressed <= phase_age
    /\ pressed <= Allowance + Tick

\* What is_stuck has measured is no more than what has been driven.
ClocksFollowDriving ==
    state # "RECOVERY" /\ speed = "forward" /\ ~interrupted =>
        /\ clocks.touching => clocks.contact <= drove
        /\ clocks.progress <= drove

RecoveryInv ==
    /\ RecoveryTypeOK
    /\ PhaseInTime
    /\ PressedInTime
    /\ ClocksFollowDriving

LEMMA InitRecovery == Init => RecoveryInv
<1> SUFFICES ASSUME Init PROVE RecoveryInv
  OBVIOUS
<1> USE RecoveryAssumption DEF Init
<1>1. RecoveryTypeOK
  <2>1. front_dist \in Nat
    OBVIOUS
  <2>2. clocks \in Clocks
    BY DEF Clocks
  <2>3. seen \in Readings
    OBVIOUS
  <2>4. /\ state \in Driving \cup {"HALT", "RECOVERY"}
        /\ recovery_return_state \in Driving
    BY DEF Driving
  <2>5. 0 \in 0..Horizon
    OBVIOUS
  <2> QED
    BY <2>1, <2>2, <2>3, <2>4, <2>5, Zenon DEF RecoveryTypeOK
<1>2. PhaseInTime /\ PressedInTime /\ ClocksFollowDriving
  BY DEF PhaseInTime, PressedInTime, ClocksFollowDriving, Allowance, Tick, Cap
<1> QED
  BY <1>1, <1>2 DEF RecoveryInv

\* The fields of the clocks, and that they are within their ranges.
LEMMA ClockFields ==
    ASSUME RecoveryTypeOK
    PROVE  /\ clocks.pose \in {"unknown", "near", "moved"}
           /\ clocks.progress \in 0..Horizon
           /\ clocks.touching \in BOOLEAN
           /\ clocks.contact \in 0..Horizon
           /\ clocks.recovery \in 0..Horizon
BY DEF RecoveryTypeOK, Clocks

\* Ageing stays within the horizon and adds at most one.
LEMMA OlderIsBounded ==
    ASSUME NEW age \in 0..Horizon
    PROVE  /\ Older(age) \in 0..Horizon
           /\ Older(age) <= age + 1
           /\ age <= Older(age)
           /\ \A other \in 0..Horizon : other <= age => Older(other) <= Older(age)
BY RecoveryAssumption DEF Older

\* is_stuck leaves the clocks well formed; while the command is forward it
\* lets none of them grow, and otherwise it restarts them.
LEMMA LookedClocks ==
    ASSUME RecoveryTypeOK, NEW looked, looked = Looked
    PROVE  /\ looked \in Clocks
           /\ speed = "forward" =>
                 /\ looked.touching => clocks.touching \/ looked.contact = 0
                 /\ looked.contact <= clocks.contact
                 /\ looked.progress <= clocks.progress
           /\ speed # "forward" => ~looked.touching /\ looked.progress = 0
<1> USE RecoveryAssumption
<1> DEFINE touched == [clocks EXCEPT !.touching = InContact, !.contact = 0]
           c == IF InContact /\ clocks.touching THEN clocks ELSE touched
<1>0. InContact \in BOOLEAN
  BY DEF InContact
<1>1. touched \in Clocks /\ clocks \in Clocks
  <2>1. clocks \in Clocks /\ 0 \in 0..Horizon
    BY DEF RecoveryTypeOK
  <2> QED
    BY <2>1, <1>0, Zenon DEF Clocks
<1>2. /\ touched.contact = 0
      /\ touched.progress = clocks.progress
  BY <1>1 DEF RecoveryTypeOK, Clocks
<1>3. c \in Clocks
  BY <1>1
<1>4. /\ c.touching => clocks.touching \/ c.contact = 0
      /\ c.contact <= clocks.contact
      /\ c.progress <= clocks.progress
  <2>1. CASE InContact /\ clocks.touching
    BY <2>1, ClockFields
  <2>2. CASE ~(InContact /\ clocks.touching)
    BY <2>2, <1>2, ClockFields
  <2> QED
    BY <2>1, <2>2
<1>5. \A d \in Clocks : /\ HereAndNow(d) \in Clocks
                        /\ HereAndNow(d).touching = d.touching
                        /\ HereAndNow(d).contact = d.contact
                        /\ HereAndNow(d).progress = 0
  <2> TAKE d \in Clocks
  <2> DEFINE e == [d EXCEPT !.progress = 0]
             pose == IF d.pose = "moved" THEN "near" ELSE d.pose
  <2>1. e \in Clocks /\ e.touching = d.touching /\ e.contact = d.contact
        /\ e.progress = 0 /\ e.pose = d.pose
    <3>1. 0 \in 0..Horizon
      OBVIOUS
    <3> QED
      BY <3>1, Zenon DEF Clocks
  <2>2. pose \in {"unknown", "near", "moved"}
    BY DEF Clocks
  <2>3. HereAndNow(d) = [e EXCEPT !.pose = pose]
    BY DEF HereAndNow, Clocks
  <2> HIDE DEF e, pose
  <2> QED
    BY <2>1, <2>2, <2>3, Zenon DEF Clocks
<1>6. CASE speed # "forward"
  <2> DEFINE h == HereAndNow(clocks)
  <2>1. h \in Clocks /\ h.progress = 0
    BY <1>1, <1>5
  <2>2. looked = [h EXCEPT !.touching = FALSE, !.contact = 0]
    BY <1>6 DEF Looked
  <2> HIDE DEF h
  <2>3. looked \in Clocks /\ looked.progress = 0 /\ looked.touching = FALSE
    BY <2>1, <2>2 DEF Clocks
  <2> QED
    BY <2>3, <1>6
<1>7. CASE speed = "forward" /\ clocks.recovery < RECOVERY_COOLDOWN_SEC
  <2>1. looked = clocks
    BY <1>7 DEF Looked
  <2> QED
    BY <1>7, <2>1, <1>1, ClockFields
<1>8. CASE speed = "forward" /\ ~(clocks.recovery < RECOVERY_COOLDOWN_SEC)
  <2>1. looked = c \/ looked = HereAndNow(c)
    BY <1>8 DEF Looked
  <2> HIDE DEF c
  <2>2. c.progress \in Nat /\ clocks.progress \in Nat
    BY <1>3, <1>1 DEF Clocks
  <2> QED
    BY <1>8, <2>1, <2>2, <1>3, <1>4, <1>5, ClockFields
<1> QED
  BY <1>6, <1>7, <1>8

-----------------------------------------------------------------------------
LEMMA AnsweredKeeps == RecoveryInv /\ Answered => RecoveryInv'
<1> SUFFICES ASSUME RecoveryInv, Answered PROVE RecoveryInv'
  OBVIOUS
<1> USE RecoveryAssumption
    DEF RecoveryInv, Answered, Leaves, Driving
<1>1. RecoveryTypeOK'
  <2>1. /\ state' \in Driving \cup {"HALT", "RECOVERY"}
        /\ recovery_return_state' \in Driving
        /\ phase' \in {"REVERSE", "ESCAPE"}
        /\ phase_age' \in 0..Horizon
    OBVIOUS
  <2>2. interrupted' \in BOOLEAN
    BY DEF RecoveryTypeOK
  <2> QED
    BY <2>1, <2>2 DEF RecoveryTypeOK, lidarVars
<1>2. PhaseInTime' /\ ClocksFollowDriving'
  BY DEF PhaseInTime, ClocksFollowDriving, RecoveryTypeOK, lidarVars
<1>3. PressedInTime'
  BY DEF PressedInTime, Allowance, Tick, RecoveryTypeOK, lidarVars
<1> QED
  BY <1>1, <1>2, <1>3

LEMMA OdometryKeeps == RecoveryInv /\ OdometryCallback => RecoveryInv'
<1> SUFFICES ASSUME RecoveryInv, OdometryCallback PROVE RecoveryInv'
  OBVIOUS
<1> USE DEF RecoveryInv, moveVars, lidarVars, pastVars
<1>1. PICK pose \in {"near", "moved"} :
         clocks' = [clocks EXCEPT !.pose = pose]
  BY DEF OdometryCallback
<1>2. /\ clocks' \in Clocks
      /\ clocks'.touching = clocks.touching
      /\ clocks'.contact = clocks.contact
      /\ clocks'.progress = clocks.progress
  <2>1. clocks \in Clocks /\ pose \in {"unknown", "near", "moved"}
    BY DEF RecoveryTypeOK
  <2> QED
    BY <1>1, <2>1, Zenon DEF Clocks
<1>3. UNCHANGED <<moveVars, lidarVars, due, pastVars>>
  BY DEF OdometryCallback
<1>4. RecoveryTypeOK'
  BY <1>2, <1>3 DEF RecoveryTypeOK
<1>5. PhaseInTime' /\ PressedInTime'
  BY <1>3 DEF PhaseInTime, PressedInTime, Allowance, Tick, Cap
<1>6. ClocksFollowDriving'
  BY <1>2, <1>3 DEF ClocksFollowDriving
<1> QED
  BY <1>4, <1>5, <1>6

LEMMA LidarKeeps ==
    ASSUME RecoveryInv, NEW reading \in Readings, LidarCallback(reading)
    PROVE  RecoveryInv'
<1> USE RecoveryAssumption DEF RecoveryInv, LidarCallback, moveVars
<1>1. reading.front \in Nat /\ reading.rear \in Nat
  OBVIOUS
<1>2. RecoveryTypeOK'
  <2>1. front_dist' \in Nat
    BY <1>1 DEF RecoveryTypeOK
  <2>2. pressed' \in 0..Horizon
    BY DEF RecoveryTypeOK
  <2> QED
    BY <2>1, <2>2 DEF RecoveryTypeOK
<1>3. PhaseInTime'
  BY DEF PhaseInTime, Tick
<1>4. PressedInTime'
  BY <1>1 DEF PressedInTime, Allowance, Tick, RecoveryTypeOK
<1>5. ClocksFollowDriving'
  BY DEF ClocksFollowDriving
<1> QED
  BY <1>2, <1>3, <1>4, <1>5

LEMMA TimeKeeps == RecoveryInv /\ TimePasses => RecoveryInv'
<1> SUFFICES ASSUME RecoveryInv, TimePasses PROVE RecoveryInv'
  OBVIOUS
<1> USE RecoveryAssumption DEF RecoveryInv
<1>1. /\ clocks' \in Clocks
      /\ clocks'.touching = clocks.touching
      /\ clocks'.progress = Older(clocks.progress)
      /\ clocks.touching => clocks'.contact = Older(clocks.contact)
  <2> DEFINE contact == IF clocks.touching THEN Older(clocks.contact)
                        ELSE clocks.contact
             progress == Older(clocks.progress)
             recovery == Older(clocks.recovery)
  <2>1. contact \in 0..Horizon /\ progress \in 0..Horizon
        /\ recovery \in 0..Horizon
    BY ClockFields, OlderIsBounded
  <2>2. clocks' = [ clocks EXCEPT !.progress = progress,
                                 !.contact = contact, !.recovery = recovery ]
    BY DEF TimePasses, Clocks, RecoveryTypeOK
  <2>3. clocks.touching => contact = Older(clocks.contact)
    OBVIOUS
  <2> HIDE DEF contact, progress, recovery
  <2>4. clocks \in Clocks
    BY DEF RecoveryTypeOK
  <2>5. /\ clocks' \in Clocks
        /\ clocks'.touching = clocks.touching
        /\ clocks'.progress = progress
        /\ clocks'.contact = contact
    BY <2>1, <2>2, <2>4, Zenon DEF Clocks
  <2> QED
    BY <2>3, <2>5 DEF progress
<1>2. /\ phase_age' \in 0..Horizon
      /\ phase_age' <= phase_age + 1
      /\ state = "RECOVERY" => phase_age' = Older(phase_age)
  BY OlderIsBounded DEF TimePasses, RecoveryTypeOK
<1>3. /\ drove' \in 0..Horizon
      /\ speed = "forward" => drove' = Older(drove)
  BY OlderIsBounded DEF TimePasses, RecoveryTypeOK
<1>4. /\ pressed' \in 0..Horizon
      /\ pressed' <= pressed + 1
      /\ pressed' = pressed \/ pressed' = Older(pressed)
      /\ speed # "reverse" \/ seen.rear >= RECOVERY_REAR_MIN
            => pressed' = pressed
  <2>1. seen.rear \in Nat
    BY DEF RecoveryTypeOK
  <2> QED
    BY <2>1, OlderIsBounded DEF TimePasses, RecoveryTypeOK
<1>5. ~due /\ due' /\ UNCHANGED <<state, recovery_return_state, speed, phase,
                                 seen, front_dist, interrupted>>
  BY DEF TimePasses, lidarVars
<1>6. RecoveryTypeOK'
  BY <1>1, <1>2, <1>3, <1>4, <1>5 DEF RecoveryTypeOK
<1>7. PhaseInTime'
  <2>1. Cap(phase) \in Nat
    BY DEF Cap
  <2> QED
    BY <2>1, <1>2, <1>5 DEF PhaseInTime, Tick, RecoveryTypeOK, Cap
<1>8. PressedInTime'
  <2>1. pressed <= Allowance /\ pressed' <= Allowance + 1
    BY <1>4, <1>5 DEF PressedInTime, Tick, Allowance, RecoveryTypeOK
  <2>2. state = "RECOVERY" /\ phase = "REVERSE" => pressed' <= phase_age'
    BY <1>2, <1>4, OlderIsBounded DEF PressedInTime, RecoveryTypeOK
  <2> QED
    BY <2>1, <2>2, <1>4, <1>5 DEF PressedInTime, Allowance, Tick
<1>9. ClocksFollowDriving'
  BY <1>1, <1>3, <1>5, ClockFields, OlderIsBounded
     DEF ClocksFollowDriving, RecoveryTypeOK
<1> QED
  BY <1>6, <1>7, <1>8, <1>9

-----------------------------------------------------------------------------
(* control_loop *)

\* The conjuncts of ControlLoop that every disjunct shares.
TickFrame == due' = FALSE /\ UNCHANGED lidarVars

\* A tick keeps the types if what it commands has them.
LEMMA TypeKept ==
    ASSUME RecoveryTypeOK, TickFrame,
           state' \in Driving \cup {"HALT", "RECOVERY"},
           recovery_return_state' \in Driving,
           speed' \in {"stop", "forward", "reverse"},
           clocks' \in Clocks,
           phase' \in {"REVERSE", "ESCAPE"},
           phase_age' \in 0..Horizon,
           drove' \in 0..Horizon,
           pressed' \in 0..Horizon,
           interrupted' \in BOOLEAN
    PROVE  RecoveryTypeOK'
<1>1. due' \in BOOLEAN /\ seen' \in Readings /\ front_dist' \in Nat
  BY DEF RecoveryTypeOK, TickFrame, lidarVars
<1> QED
  BY <1>1, Zenon DEF RecoveryTypeOK

LEMMA EntersKeeps == RecoveryInv /\ EntersRecovery /\ TickFrame => RecoveryInv'
<1> SUFFICES ASSUME RecoveryInv, EntersRecovery, TickFrame PROVE RecoveryInv'
  OBVIOUS
<1> USE RecoveryAssumption DEF RecoveryInv, TickFrame, lidarVars
<1>1. /\ speed = "forward" /\ speed' = "reverse"
      /\ drove' = 0 /\ pressed' = pressed
      /\ state' = "RECOVERY" /\ phase' = "REVERSE" /\ phase_age' = 0
  BY DEF EntersRecovery, Commands, Stuck
<1>2. pressed = 0
  BY <1>1 DEF PressedInTime
<1>3. clocks' \in Clocks
  BY LookedClocks DEF EntersRecovery
<1>4. RecoveryTypeOK'
  <2>1. recovery_return_state' \in Driving
    BY DEF EntersRecovery
  <2>2. interrupted' \in BOOLEAN
    BY DEF EntersRecovery
  <2> QED
    BY <1>1, <1>2, <1>3, <2>1, <2>2 DEF RecoveryTypeOK
<1>5. PhaseInTime' /\ PressedInTime' /\ ClocksFollowDriving'
  BY <1>1, <1>2 DEF PhaseInTime, PressedInTime, ClocksFollowDriving, Allowance,
                    Tick, Cap
<1> QED
  BY <1>4, <1>5

LEMMA ReversesKeeps == RecoveryInv /\ Reverses /\ TickFrame => RecoveryInv'
<1> SUFFICES ASSUME RecoveryInv, Reverses, TickFrame PROVE RecoveryInv'
  OBVIOUS
<1> USE RecoveryAssumption DEF RecoveryInv, TickFrame, lidarVars
<1>1. /\ state = "RECOVERY" /\ phase = "REVERSE"
      /\ UNCHANGED <<state, recovery_return_state, clocks, interrupted>>
  BY DEF Reverses
<1>0. interrupted' \in BOOLEAN
  BY <1>1 DEF RecoveryTypeOK
<1>2. seen.rear \in Nat /\ phase_age \in Nat /\ pressed \in Nat
  BY DEF RecoveryTypeOK
<1>3. pressed <= phase_age /\ pressed <= RECOVERY_MIN_REVERSE_SEC
  BY <1>1, <1>2 DEF PressedInTime, Allowance, Tick
<1>4. CASE BackedOff
  <2>1. /\ phase' = "ESCAPE" /\ phase_age' = 0
        /\ UNCHANGED <<speed, drove, pressed>>
    BY <1>4 DEF Reverses
  <2>2. RecoveryTypeOK'
    <3>1. /\ state' \in Driving \cup {"HALT", "RECOVERY"}
          /\ recovery_return_state' \in Driving
          /\ speed' \in {"stop", "forward", "reverse"}
          /\ clocks' \in Clocks
          /\ phase' \in {"REVERSE", "ESCAPE"}
          /\ phase_age' \in 0..Horizon
          /\ drove' \in 0..Horizon
          /\ pressed' \in 0..Horizon
      BY <1>1, <2>1 DEF RecoveryTypeOK
    <3> QED
      BY <3>1, <1>0, TypeKept DEF RecoveryInv
  <2> QED
    BY <1>1, <1>2, <1>3, <2>1, <2>2
       DEF PhaseInTime, PressedInTime, ClocksFollowDriving, Allowance, Tick, Cap
<1>5. CASE ~BackedOff
  <2>1. /\ speed' = "reverse" /\ drove' = 0
        /\ pressed' = IF speed' = "reverse" THEN pressed ELSE 0
        /\ UNCHANGED <<phase, phase_age>>
    BY <1>5 DEF Reverses, Commands
  <2>2. RecoveryTypeOK'
    <3>1. /\ state' \in Driving \cup {"HALT", "RECOVERY"}
          /\ recovery_return_state' \in Driving
          /\ speed' \in {"stop", "forward", "reverse"}
          /\ clocks' \in Clocks
          /\ phase' \in {"REVERSE", "ESCAPE"}
          /\ phase_age' \in 0..Horizon
          /\ drove' \in 0..Horizon
          /\ pressed' \in 0..Horizon
      BY <1>1, <2>1 DEF RecoveryTypeOK
    <3> QED
      BY <3>1, <1>0, TypeKept DEF RecoveryInv
  <2>3. phase_age <= RECOVERY_MAX_REVERSE_SEC
    BY <1>5, <1>2 DEF BackedOff
  <2>4. pressed <= RECOVERY_MIN_REVERSE_SEC - 1
    <3>1. CASE seen.rear >= RECOVERY_REAR_MIN
      BY <3>1, <1>2 DEF PressedInTime
    <3>2. CASE seen.rear < RECOVERY_REAR_MIN
      BY <3>2, <1>5, <1>2, <1>3 DEF BackedOff
    <3> QED
      BY <1>2, <3>1, <3>2
  <2>5. PhaseInTime'
    BY <1>1, <2>1, <2>3 DEF PhaseInTime, Tick, Cap
  <2>6. PressedInTime'
    BY <1>1, <1>3, <2>1, <2>4 DEF PressedInTime, Allowance, Tick
  <2> QED
    BY <1>1, <2>1, <2>2, <2>5, <2>6 DEF ClocksFollowDriving
<1> QED
  BY <1>4, <1>5

LEMMA EscapesKeeps == RecoveryInv /\ Escapes /\ TickFrame => RecoveryInv'
<1> SUFFICES ASSUME RecoveryInv, Escapes, TickFrame PROVE RecoveryInv'
  OBVIOUS
<1> USE RecoveryAssumption DEF RecoveryInv, TickFrame, lidarVars
<1>1. /\ state = "RECOVERY" /\ phase = "ESCAPE"
      /\ speed' = "forward" /\ pressed' = 0
      /\ drove' = IF speed' = "forward" THEN drove ELSE 0
      /\ UNCHANGED <<state, recovery_return_state, phase, phase_age, clocks,
                     interrupted>>
  BY DEF Escapes, Commands
<1>0. interrupted' \in BOOLEAN
  BY <1>1 DEF RecoveryTypeOK
<1>2. phase_age <= RECOVERY_ESCAPE_MAX_SEC
  BY DEF Escapes, Escaped, RecoveryTypeOK
<1>3. RecoveryTypeOK'
  <2>1. /\ state' \in Driving \cup {"HALT", "RECOVERY"}
        /\ recovery_return_state' \in Driving
        /\ speed' \in {"stop", "forward", "reverse"}
        /\ clocks' \in Clocks
        /\ phase' \in {"REVERSE", "ESCAPE"}
        /\ phase_age' \in 0..Horizon
        /\ drove' \in 0..Horizon
        /\ pressed' \in 0..Horizon
    BY <1>1 DEF RecoveryTypeOK
  <2> QED
    BY <2>1, <1>0, TypeKept DEF RecoveryInv
<1> QED
  BY <1>1, <1>2, <1>3
     DEF PhaseInTime, PressedInTime, ClocksFollowDriving, Allowance, Tick, Cap

LEMMA FinishesKeeps ==
    RecoveryInv /\ FinishesRecovery /\ TickFrame => RecoveryInv'
<1> SUFFICES ASSUME RecoveryInv, FinishesRecovery, TickFrame
             PROVE  RecoveryInv'
  OBVIOUS
<1> USE RecoveryAssumption DEF RecoveryInv, TickFrame, lidarVars
<1>1. /\ state = "RECOVERY" /\ phase = "ESCAPE"
      /\ state' = recovery_return_state /\ recovery_return_state' = "SEEK"
      /\ phase' = "REVERSE" /\ phase_age' = 0
      /\ UNCHANGED <<speed, drove, pressed, interrupted>>
  BY DEF FinishesRecovery, Leaves
<1>0. interrupted' \in BOOLEAN
  BY <1>1 DEF RecoveryTypeOK
<1>2. state' \in Driving /\ state' # "RECOVERY"
  BY <1>1 DEF RecoveryTypeOK, Driving
<1>3. /\ clocks' \in Clocks
      /\ clocks'.touching = FALSE
      /\ clocks'.progress = 0
  <2> DEFINE pose == IF clocks.pose = "moved" THEN "near" ELSE clocks.pose
  <2>1. pose \in {"unknown", "near", "moved"} /\ clocks \in Clocks
    BY ClockFields DEF RecoveryTypeOK
  <2>2. clocks' = [ clocks EXCEPT !.pose = pose, !.progress = 0,
                       !.recovery = 0, !.touching = FALSE, !.contact = 0 ]
    BY <2>1 DEF FinishesRecovery, HereAndNow, Clocks
  <2> HIDE DEF pose
  <2>3. 0 \in 0..Horizon
    OBVIOUS
  <2> QED
    BY <2>1, <2>2, <2>3, Zenon DEF Clocks
<1>4. RecoveryTypeOK'
  <2>1. /\ state' \in Driving \cup {"HALT", "RECOVERY"}
        /\ recovery_return_state' \in Driving
        /\ speed' \in {"stop", "forward", "reverse"}
        /\ clocks' \in Clocks
        /\ phase' \in {"REVERSE", "ESCAPE"}
        /\ phase_age' \in 0..Horizon
        /\ drove' \in 0..Horizon
        /\ pressed' \in 0..Horizon
    BY <1>1, <1>2, <1>3 DEF RecoveryTypeOK, Driving
  <2> QED
    BY <2>1, <1>0, TypeKept DEF RecoveryInv
<1>5. PressedInTime'
  BY <1>1, <1>2 DEF PressedInTime, Allowance, Tick, RecoveryTypeOK
<1>6. ClocksFollowDriving'
  BY <1>1, <1>3 DEF ClocksFollowDriving, RecoveryTypeOK
<1> QED
  BY <1>2, <1>4, <1>5, <1>6 DEF PhaseInTime

\* The states that is_stuck guards, and the waits: no recovery on either side.
LEMMA DrivesKeeps ==
    RecoveryInv /\ (Seeks \/ ActsOnArrival) /\ TickFrame => RecoveryInv'
<1> SUFFICES ASSUME RecoveryInv, Seeks \/ ActsOnArrival, TickFrame
             PROVE  RecoveryInv'
  OBVIOUS
<1> USE RecoveryAssumption DEF RecoveryInv, TickFrame, lidarVars
<1>1. /\ state # "RECOVERY"
      /\ state' \in {"SEEK", "AT_BUILDING", "HALT"}
      /\ UNCHANGED <<recovery_return_state, phase, phase_age, interrupted>>
  BY DEF Seeks, ActsOnArrival
<1>0. interrupted' \in BOOLEAN
  BY <1>1 DEF RecoveryTypeOK
<1>2. PICK new \in {"forward", "stop"} : Commands(new)
  BY DEF Seeks, ActsOnArrival, SeekCommands
<1>3. /\ speed' = new /\ pressed' = 0
      /\ drove' = IF speed' = "forward" THEN drove ELSE 0
  BY <1>2 DEF Commands
<1>4. PICK looked : looked = Looked
  OBVIOUS
<1>5. clocks' = looked
  BY <1>4 DEF Seeks, ActsOnArrival
<1>6. RecoveryTypeOK'
  <2>1. clocks' \in Clocks
    BY <1>4, <1>5, LookedClocks
  <2>2. /\ state' \in Driving \cup {"HALT", "RECOVERY"}
        /\ recovery_return_state' \in Driving
        /\ speed' \in {"stop", "forward", "reverse"}
        /\ phase' \in {"REVERSE", "ESCAPE"}
        /\ phase_age' \in 0..Horizon
        /\ drove' \in 0..Horizon
        /\ pressed' \in 0..Horizon
    BY <1>1, <1>3 DEF RecoveryTypeOK, Driving
  <2> QED
    BY <2>1, <2>2, <1>0, TypeKept
<1>7. PhaseInTime' /\ PressedInTime'
  BY <1>1, <1>3 DEF PhaseInTime, PressedInTime, Allowance, Tick
<1>8. ClocksFollowDriving'
  <2> SUFFICES ASSUME speed' = "forward", ~interrupted
               PROVE  /\ clocks'.touching => clocks'.contact <= drove'
                      /\ clocks'.progress <= drove'
    BY <1>1 DEF ClocksFollowDriving
  <2>1. drove' = drove /\ drove \in Nat
    BY <1>3 DEF RecoveryTypeOK
  <2>2. looked \in Clocks /\ looked.contact \in Nat /\ looked.progress \in Nat
    BY <1>4, LookedClocks DEF Clocks
  <2>3. CASE speed = "forward"
    <3>1. (clocks.touching => clocks.contact <= drove)
          /\ clocks.progress <= drove
      BY <2>3, <1>1 DEF ClocksFollowDriving
    <3> QED
      BY <3>1, <2>1, <2>2, <2>3, <1>4, <1>5, LookedClocks, ClockFields
  <2>4. CASE speed # "forward"
    BY <2>1, <2>4, <1>4, <1>5, LookedClocks
  <2> QED
    BY <2>3, <2>4
<1> QED
  BY <1>6, <1>7, <1>8

LEMMA HaltsKeeps == RecoveryInv /\ Halts /\ TickFrame => RecoveryInv'
<1> SUFFICES ASSUME RecoveryInv, Halts, TickFrame PROVE RecoveryInv'
  OBVIOUS
<1> USE RecoveryAssumption DEF RecoveryInv, TickFrame, lidarVars
<1>1. /\ state = "HALT" /\ state' \in {"HALT", "SEEK"}
      /\ speed' = "stop" /\ drove' = 0 /\ pressed' = 0
      /\ UNCHANGED <<recovery_return_state, phase, phase_age, clocks,
                     interrupted>>
  BY DEF Halts, Commands
<1>0. interrupted' \in BOOLEAN
  BY <1>1 DEF RecoveryTypeOK
<1>2. RecoveryTypeOK'
  <2>1. /\ state' \in Driving \cup {"HALT", "RECOVERY"}
        /\ recovery_return_state' \in Driving
        /\ speed' \in {"stop", "forward", "reverse"}
        /\ clocks' \in Clocks
        /\ phase' \in {"REVERSE", "ESCAPE"}
        /\ phase_age' \in 0..Horizon
        /\ drove' \in 0..Horizon
        /\ pressed' \in 0..Horizon
    BY <1>1 DEF RecoveryTypeOK, Driving
  <2> QED
    BY <2>1, <1>0, TypeKept DEF RecoveryInv
<1> QED
  BY <1>1, <1>2
     DEF PhaseInTime, PressedInTime, ClocksFollowDriving, Allowance, Tick

LEMMA NextRecovery == RecoveryInv /\ [Next]_vars => RecoveryInv'
<1> SUFFICES ASSUME RecoveryInv, [Next]_vars PROVE RecoveryInv'
  OBVIOUS
<1>1. CASE ControlLoop
  <2>1. TickFrame
    BY <1>1 DEF ControlLoop, TickFrame
  <2> QED
    BY <1>1, <2>1, EntersKeeps, ReversesKeeps, EscapesKeeps, FinishesKeeps,
       DrivesKeeps, HaltsKeeps DEF ControlLoop
<1>2. CASE UNCHANGED vars
  <2>1. UNCHANGED <<state, recovery_return_state, speed, phase, phase_age, seen,
                    front_dist, clocks, due, drove, pressed, interrupted>>
    BY <1>2 DEF vars, moveVars, lidarVars, pastVars
  <2> QED
    BY <2>1 DEF RecoveryInv, RecoveryTypeOK, PhaseInTime, PressedInTime,
                ClocksFollowDriving, Allowance, Tick, Cap
<1> QED
  BY <1>1, <1>2, AnsweredKeeps, OdometryKeeps, LidarKeeps, TimeKeeps DEF Next

-----------------------------------------------------------------------------
\* The invariant of every run, whatever the readings and the constants.
THEOREM RecoveryInvariance == Spec => []RecoveryInv
<1> QED
  BY InitRecovery, NextRecovery, PTL DEF Spec

\* Every variable of Recovery stays within its type.
THEOREM RecoveryTypeCorrect == Spec => []RecoveryTypeOK
<1>1. RecoveryInv => RecoveryTypeOK
  BY DEF RecoveryInv
<1> QED
  BY <1>1, RecoveryInvariance, PTL

\* The caps of drive_recovery bound both phases.
THEOREM RecoveryEndsInTime == Spec => []RecoveryIsBounded
<1>1. RecoveryInv => RecoveryIsBounded
  BY RecoveryAssumption
     DEF RecoveryInv, RecoveryTypeOK, PhaseInTime, RecoveryIsBounded, Tick, Cap
<1> QED
  BY <1>1, RecoveryInvariance, PTL

\* The buggy does not go on backing towards what it sees behind it.
THEOREM RearIsSafe == Spec => []RearIsRespected
<1>1. RecoveryInv => RearIsRespected
  BY RecoveryAssumption
     DEF RecoveryInv, RecoveryTypeOK, PressedInTime, RearIsRespected, Allowance,
         Tick
<1> QED
  BY <1>1, RecoveryInvariance, PTL

\* Standing, backing and an earlier recovery never make the buggy stuck.
THEOREM OnlyDrivingGetsStuck == Spec => StuckTakesDriving
<1> DEFINE Beginning ==
      state # "RECOVERY" /\ state' = "RECOVERY" /\ ~interrupted =>
          drove > STUCK_CONTACT_SEC \/ drove > STUCK_WINDOW_SEC
<1>1. RecoveryInv /\ [Next]_vars => [Beginning]_vars
  <2> SUFFICES ASSUME RecoveryInv, Next, state # "RECOVERY",
                      state' = "RECOVERY", ~interrupted
               PROVE  drove > STUCK_CONTACT_SEC \/ drove > STUCK_WINDOW_SEC
    OBVIOUS
  <2>1. EntersRecovery
    BY DEF Next, ControlLoop, Reverses, Escapes, FinishesRecovery, Seeks,
           ActsOnArrival, Halts, Answered, Leaves, OdometryCallback,
           LidarCallback, TimePasses, moveVars
  <2>2. Stuck /\ speed = "forward"
    BY <2>1 DEF EntersRecovery, Stuck
  <2>3. (clocks.touching => clocks.contact <= drove) /\ clocks.progress <= drove
    BY <2>2 DEF RecoveryInv, ClocksFollowDriving
  <2>4. /\ drove \in Nat /\ clocks.contact \in Nat /\ clocks.progress \in Nat
        /\ STUCK_CONTACT_SEC \in Nat /\ STUCK_WINDOW_SEC \in Nat
    BY RecoveryAssumption, ClockFields DEF RecoveryInv, RecoveryTypeOK
  <2> QED
    BY <2>2, <2>3, <2>4 DEF Stuck, PressedTooLong
<1> QED
  BY <1>1, RecoveryInvariance, PTL DEF Spec, StuckTakesDriving
=============================================================================
