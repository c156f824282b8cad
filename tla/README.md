# Verification of the NXP Cup buggy (NXP-Cup-2694)

This directory holds TLA+ modules that model the program of this repository, the
TLC runs that check them, and theorems that TLAPS checks. The paper trail from
definitions to code is `PROJECT.json` (`map`).

## The system

The repository is a team's entry to the NXP Cup: a simulated B3RB buggy must find
patients, register each with a *Municipality Server*, carry it to the hospital the
server assigns, and after the last delivery park and announce it.

| part | where | state it keeps | operations | talks to |
|---|---|---|---|---|
| Server link | `b3rb_ros_line_follower.py`, `ServerLink` | `_uid`, `_pending` (one message, its age and retries) | `send`, `handle`, `tick` | the server, over `/ServerCommunication` |
| Municipality server (sample) | `run_server.py` | `server_uid`, `last_processed_buggy_uid`, pending answer, retry count and timer | request, acknowledgment, retry timer | the buggy |
| Mission | `b3rb_ros_line_follower.py`, `LineFollower` | ten states, target, assigned hospital, pending delivery, registered patients, wire format, approach, parking | 20 Hz `control_loop`, server/QR callbacks, timeouts | link, perception, drive |
| Recovery, approach | same class | phase and clocks, pose at first decode, best range | `is_stuck`, `drive_recovery`, `drive_seeking` | LiDAR, odometry |
| Sign routing | same class | routing table, pending turn, cooldown | `sign_board_callback`, `latch_turn_for_target`, `clear_pending_turn` | sign detector |
| Lane control, avoidance | same class | lane width, last turn, dodge side and its hold | `edge_vectors_callback`, `dodge_left` | edge vectors, LiDAR |
| Sign, QR and edge detectors | their own nodes | nearly none | image in, text or vectors out | mission |
| TinyFrame | `synapse_tinyframe` | parser state, receive buffer, id counter, three listener tables | `TF_AcceptChar`, `TF_Send`, `TF_Add/Remove...Listener`, `TF_Tick` | both bridges |
| ROS bridge, Gazebo bridge | `synapse_ros`, `synapse_gz` | socket, one receive buffer, TinyFrame's send buffer, `connected_` | asynchronous receive, send, reconnect | cerebri, Gazebo |
| Transforms, planner | `corti` | the latest odometry or path | callbacks, timers | nav2 |
| Launch files, messages, tools | the rest | none | | |

What is hard here is not the arithmetic but the order of things. The server answers
when it likes, a message may be lost, retransmitted or answered twice, three timeouts
race those answers, a recovery may interrupt any moving state and is invisible to the
code that looks at `state`, and decisions rest on a QR decode that may be 25 s old.
What makes each part correct:

* link and server: a message is taken as received only if it was; no request is
  processed twice; an answer is never heard after a later one; retries end.
* mission: what is transmitted is the building the approach committed to; what is
  approached is what the server asked for; deliveries are counted only when
  accepted; a wait does not roll out of its zone; the end of the mission is final.
* routing: the table says what the board says; a turn is the latest board's, for the
  target it was latched for, and taken once.
* recovery: only driving gets stuck, a wedged buggy is noticed whatever its wheels
  report, every phase of a recovery ends, and it does not back into what it sees.
* approach: one approach arrives once, in time for its decode to be accepted, and is
  not held for ever; a dodge keeps its side.
* steering: a lane the controller works to hold outranks signs, bearings and obstacles.
* TinyFrame: whatever bytes come, a frame delivered is a frame sent, and the parser
  gets back into step.
* bridges: bytes handed to a socket or a parser are not overwritten before they
  are used.

## Modules

| module | what it models |
|---|---|
| `Topic` | `/ServerCommunication` as two lossy first-in first-out queues that keep the last `Depth` messages (external: rclpy/DDS) |
| `ServerLink` | class `ServerLink`: each method an operator on the link record |
| `MunicipalityServer` | `run_server.py`: each callback an operator on the server record |
| `Exchange` | abstract: what the exchange promises to both programs |
| `Handshake` | link and server over the topic, the mission being any program that sends; refines `Exchange` |
| `Mission` | `LineFollower`'s state machine, one action per branch of `control_loop` and of the server callback |
| `Rescue` | `Mission` and `MunicipalityServer` over the topic; refines `Tour` |
| `Tour` | abstract: what a rescue is, from stop to stop and one delivery counted for each hospital left |
| `SignDetector` | `b3rb_ros_object_recog.py`: loading, letterbox, score filter, pairing of letters with arrows, as operators on the classifier's outputs (external) |
| `EdgeVectors` | `b3rb_ros_edge_vectors.py`: from contours (external) to at most two boundaries |
| `SignEvaluation` | `eval_sign_detector.py`: score filter, pairing and the verdict on a table |
| `SignRouting` | routing table and pending turn of `LineFollower`, one action per callback and per way to spend a turn |
| `QrDetector` | `b3rb_ros_qr_detector.py`: which text is published of a frame |
| `Lidar` | the sectors and the corridor that `lidar_callback` computes of a scan |
| `Recovery` | `is_stuck`, `drive_recovery`, `finish_recovery`, on a clock |
| `Approach` | `drive_seeking`'s approach, `dodge_left`, `handle_at_building` and the waits, on a clock |
| `Steering` | turn and speed of a seeking tick, in hundredths, as functions of what the tick reads |
| `Handshake_proofs`, `Mission_proofs`, `Rescue_proofs`, `SignRouting_proofs`, `Recovery_proofs`, `Approach_proofs`, `Steering_proofs` | the theorems |
| `LinkLemmas` | lemmas about the topic's queues and about counters modulo a constant |
| `MC...` | constants and peers for TLC |

`ServerLink` and `MunicipalityServer` are operators, not actions, because the code
calls several methods within one callback: a `control_loop` tick runs `tick()` and
perhaps `send()`, and the actions of `Mission` are whole ticks and whole callbacks.
rclpy's executor is single-threaded, so these are the atomic steps, and any order of
them is possible.

The detectors, `Lidar` and `Steering` are operators too: they keep nothing, or numbers
only, and the MC modules compute with them what the state machines are given.
`MCSignRouting` feeds boards through letterbox, score filter and pairing into the
routing table, and contours through the choice of boundaries into the lane frames. It also
assumes, and TLC evaluates, that an image which `eval_sign_detector.py` counts as exact at
its default score of 0.55 can be wrong in the node, whose score is 0.80, when letters reach
two arrows: the pairing is the same in both, but the results need not transfer.
`MCRecovery` computes its readings from scans of thirteen beams, and assumes, which TLC
evaluates, that the speeds of its seeking buggy are those `Steering` makes of its inputs.
`MCMission` publishes the codes that `QrDetector` makes of a set of frames.

`Mission`, `SignRouting`, `Recovery` and `Approach` are four views of one node, split by
what the state is read for. Each leaves to the others what it does not decide and makes
it a choice: `Mission` has no distances or clocks, `Recovery` lets an answer end or begin
anything at any time, `Approach` may be stuck whenever it drives, `SignRouting` may be
given any answer. So each allows whatever the others do.

Abstractions. In `ServerLink`, `Mission` and `SignRouting` a deadline is a Boolean raised
by the passage of time or, for the acknowledgment timeout, an argument of `Tick`; in
`Mission` the age of a QR decode is fresh (1.5 s), recent (25 s) or stale. Distances are choices: the approach may be
abandoned or arrive at any tick. Speed is stop, forward or reverse. A building is
its name, since `CODE_TO_NAME` is one to one and the server's answer is normalised
on receipt; a text on the wire is a format and a building. Messages carry a history
number `seq` that no action of the code reads. `recovery_return_state` is forgotten
when RECOVERY is left; the code keeps it but reads it nowhere else.

In `Recovery` and `Approach` time passes in units: `TimePasses` ages every clock, and the
timer fires at least once in each unit (`due`), which is what a 20 Hz timer does. An age
stops counting beyond what it is compared with. `Recovery` measures distances in
centimetres; `Approach` keeps of them only whether half of the way, or all of it, is
covered, whether the range still falls, and on which side there is how much room.
`Steering` computes in hundredths and whole centimetres what the code computes in floating
point. The variables under "history" in each module are read by no action of the code.

Messages not addressed to a node, and texts that are no building, OK or INVALID, are
dropped by both programs and left out.

## Runs

| run | module | what it asks |
|---|---|---|
| `handshake` | `MCHandshake` | refinement of `Exchange`, `AcksTellTheTruth`, `InOrder`, and that retries end (`Quiesces`) |
| `mission` | `MCMission` | `ArrivalIsCommitted`, `ApproachIsForTarget`, `WaitsForWhatItSent`, against a server that says anything |
| `rescue_next` | `MCRescueNext` | `CountedIsAccepted`, `DeliversToServersChoice`, `DeliveryIsForTarget`, `AgreesWithServer`, and refinement of `Tour` (`KeepsTour`), with two patients, two hospitals and a loss, up to the second assignment |
| `rescue_last` | `MCRescueLast` | `NothingSentAfterwards`, `AgreesWithServer`, `DoneIsFinal`, from the last patient to the parking, with a rejected zone |
| `sign_routing` | `MCSignRouting` | `TableIsTrue`, `ObeysLatestBoard`, `TurnServesTarget`, `CoolingHoldsNoTurn`, with boards and images seen in part |
| `recovery` | `MCRecovery` | `RecoveryIsBounded`, `RearIsRespected`, `StuckTakesDriving`, and that a wedged buggy recovers again and again (`WedgedIsNoticed`) |
| `approach` | `MCApproach` | `ArrivesInTime`, `ArrivesOnce`, `DodgeSideHolds`, and that approaches end (`ApproachEnds`) |
| `exit_sends`, `parking_confirmed`, `parking_goes_on`, `format_at_fault` | `MCRescueLast` | four claims of comments that the code does not keep (below) |
| `turns_once` | `MCSignRouting` | a fifth |

Bounds. `MaxSends` bounds the requests of a behaviour: four in the handshake, which
with `UID_MOD = 3` wraps the uid and leaves one reuse; four in the missions, which is
a registration, a delivery and a repetition of each or two announcements; five in `exit_sends`, whose
counterexample repeats the delivery and then transmits once too often. `Depth` is
10 in the code and 1 to 3 here: deep enough that an answer, its retransmission and an
acknowledgment are under way together, and that a queue overflows. `MAX_RETRIES` (10)
and `SERVER_RETRIES` (5) are 0 or 1: a retransmission is either sent or given up, and
a second adds nothing but another copy. `UID_MAX` (255) is 5 in the handshake, so that
the fourth answer no longer fits its field and takes the server down. The missions use
the real widths, since four messages cannot wrap them. `MCMission` uses one patient
and two hospitals, so that an answer can change the target from each kind of building
to the other and between two of a kind; fake hospitals are only ever skipped and are
left to the theorems. `MaxLosses` and `MaxRejections` bound what goes wrong in `Rescue`:
one loss in `rescue_next`, against the sample server, and one rejected zone in `rescue_last`
and `exit_sends`; in all of them the server retransmits and the topic overflows. The buggy of
`rescue_next` never reads the second hospital's code, so its four messages are the first
three stops and one sent again, or fewer stops and more sent again; the last delivery, its OK and the
parking are in `rescue_last`, and in the theorems, `RescueImplementsTour` among them. The theorems
about `Rescue` have no such bounds.

`MCSignRouting` has two patients and a hospital, so that a target changes within a kind
and between kinds, and boards of two destinations with the glyph sizes and distances of
the training images in the simulator's 320 by 240 camera; every glyph may fall below the
score threshold or lie two pixels off. Four columns of contours, up to three at a time,
give every kind of frame: none, one or two boundaries, ordinary or wide. The boards are
legible (`BoardsAreLegible`, an ASSUME that TLC evaluates): each letter reaches no arrow but
its own, which letters of twice the size on the same pitch would not.
`MCRecovery` keeps the code's distances and counts its seconds: contact 2, progress 3,
cooldown 4, longest reverse 5, escape 4, and 1 for the least reverse of 0.6; `Horizon` is 7,
past all of them. `MCApproach` uses units of about five
seconds: freshness 1, grace 2, stall 1, cap 3, gate 5, wait 4, hold 2. The theorems do
away with these numbers: they need only `RecoveryAssumption` and `ApproachAssumption`.

One assumption of the handshake is not the code's: `UidIsFree` says a uid is not given
again while its previous use is still around. The code relies on 256 requests taking
much longer than any message lives; nothing in it checks that, and without it
`AcksTellTheTruth` fails.

Fairness (`FairSpec`). In `handshake`: weak fairness of each receiving callback and of
both retry timers, which `rclpy.spin` serves forever. Nothing is assumed of the mission's
sends or of losses, and no message need ever arrive. In `recovery` and `approach`: weak
fairness of `ControlLoop`, the timer the executor serves, and of `TimePasses`. Nothing is
assumed of the sensors, of odometry or of answers; what the liveness properties need of
them stands in the properties (a nose that stays against something, a buggy that goes on
seeking). Deadlock is checked in `sign_routing`, `recovery` and `approach`. In the others
it is not: with its sends used up, or its server dead, a bounded system stops.

## What the code does not keep

* **`ExitSendsNothing`.** `OK` is the one answer that leaves the approach set, even when
  it comes promptly. The first tick of the exit run arrives by that approach again (unless
  `APPROACH_MAX_SEC` has passed), `handle_at_building` finds a hospital that is no longer
  the assigned one and skips it into `SEEK_HOSPITAL`; if another code has been read by
  then, it backs out. Either way the exit run is left, and with it the parking and its
  announcement, in the mission that goes as planned. `ArrivesOnce` exempts this repeated
  arrival (`~over`). As nothing is left to deliver, nothing is sent either, unless a zone
  was rejected: a late INVALID can unregister the patient last transmitted, which is then
  adopted again and its code transmitted although there is no target. Nor is DONE final
  then. This is why
  `NothingSentAfterwards` and `DoneIsFinal` speak of missions without a rejected zone
  (`rejections = 0`), and the theorems prove that such missions keep them.
* **`ParkingIsConfirmed`.** The link does not tell a repeated answer from a new one.
  The OK of the last delivery, retransmitted, is taken as the parking's.
* **`ParkingGoesOn`.** An INVALID heard during a recovery on the exit run is taken for
  a rejected zone, because only `state` is looked at.
* **`FormatIsAtFault`.** An INVALID for the zone, heard with the code still in view,
  moves on to a format the server does not know, for the rest of the run.

* **`TurnsOnce`.** The commitment to a turn returns before `was_lane_visible` is lowered,
  so the clearing of the instruction when the lane is seen again is never reached, and
  the turn is made again at the next junction, unless 55 degrees of rotation retire it.

Further differences between comments and code that the models show but no run refutes:

* The docstring of `edge_vectors_callback` says a boundary leaving the frame causes no
  step in steering; `SINGLE_EDGE_MARGIN` (1.18) makes it one (`CentreOfOne`).
* `dodge_left` says to "NEVER choose an escape direction merely because that side has more
  open LiDAR space"; on a straight lane, where the controller wants neither side, it does
  (`Choice` in `Approach`).
* `is_stuck` says the contact detector leaves approaches alone; there is no such test
  (`Recovery`, where an approach is a way of seeking).
* "A fork consumes the latched sign instruction", but only once the aim point lies within
  0.15 of the middle; and `fork_take_left` outlives a fork that is left without two
  boundaries in view (`FollowsFork`, `branch`).
* The sector behind the buggy is clamped at the end of the scan: half of it is never
  looked at (`Lidar`). `RearIsRespected` is about what is seen.
* After a server's answer has ended a recovery, `finish_recovery` has not run: the clocks
  of `is_stuck` are old and the cooldown is not set (`interrupted`, which
  `StuckTakesDriving` exempts).
* A recovery between arriving and acting on it may take the decode past the gate
  (`delayed`, which `ArrivesInTime` exempts).

## Proofs

TLAPS checks the following for every value of the constants; the only assumptions are
the named ones on constants (`DepthAssumption`, `LinkAssumption`, `ServerAssumption`,
`HandshakeAssumption`, `MissionAssumption`, `RescueAssumption`, `RoutingAssumption`,
`RecoveryAssumption`, `ApproachAssumption`, `SteeringAssumption`), which TLC evaluates on its
instances. Three hypotheses on constants are definitions instead, because only some
results need them: `RouteIsTour` and `SampleServer` (Rescue) and `ReadsLegibleBoards` (Sign
routing). The instances satisfy them, which TLC evaluates too where it can
(`TourAssumption`, `BoardsAreLegible`).

**Handshake** (`Handshake_proofs`). `HandshakeInvariance` proves the inductive invariant
`HandshakeInv`, and from it follow `HandshakeTypeCorrect`, `AcksAreTrue`
(`AcksTellTheTruth`), `TransitIsOrdered` (`InOrder`) and `HandshakeImplementsExchange`
(`KeepsPromise`). The checked properties are not inductive: they speak of messages by
number, the code compares uids. `HandshakeInv` therefore adds that every uid, on the wire
and in both nodes, is its number modulo `UID_MOD` (`LinkInv`, `ServerInv`, `GoodRequest`,
`GoodReply`), and that all these numbers lie within `UID_MOD` below `sent` (`InWindow`).
Within such a window equal uids are equal numbers (`LinkLemmas`,
`ModIsInjectiveNearby`): that is why an accepted acknowledgment is the right one, and why
`last_processed_buggy_uid` tells a retransmission from a new request. `UidIsFree` is used
in one place, the step that sends. Lemmas about `Publish` and `Tail` carry order through
a queue that overflows. Each action has one lemma, which also shows the step it is of
`Exchange`.

**Mission** (`Mission_proofs`). `MissionInvariance` proves `MissionInv`, the conjunction of
`MissionTypeOK`, `ArrivalIsCommitted`, `ApproachIsForTarget`, `WaitsForWhatItSent` and two
facts the others need: `NotBegun`, since `Starts` sets the first target without looking at
the approach, and `ReturnsToMotion`, since the end of a recovery restores a state, which
must not be one that waits with an answer booked. The server and the topic are
arbitrary here, so the results hold against any server, sample or official.

**Rescue** (`Rescue_proofs`). Every step of `Rescue` is a step of `Mission` or a stutter
(`RescueImplementsMission`), so the mission's invariants hold of the composed system
(`RescueKeepsMission`). What buggy and server know of each other needs two more inductive
invariants.

`TransitInv` (`RescueTransit`) says what the messages in transit stand for: answers are
under way in the order they were given and each with the number of its giving, an
acknowledgment is for one of them, and once the latest is acknowledged there is nothing else
left to hear. It holds for any pairings, zones, losses and retransmissions, and
`AgreesWithServer` follows (`BuggyAgreesWithServer`).

`TourInv` (`TourGoesOn`) says that buggy, messages, server and pairings are at most one stop
apart. `Instruction` is where the buggy was told to go, `Onward` the stop after it:
`RequestsLead` says that a request under way is answered by one of the two, `AnswersLead`
that an answer under way is one of the two, and that once `Onward` has been said nothing
older follows; `GoalInv` ties target, registered patients and pending delivery to
`Instruction`; `BooksInv` says that while a hospital's answer is on its way the server has
accepted more deliveries than the buggy has counted. The hypothesis `RouteIsTour` says that
the pairings send each patient to a hospital and each hospital on, and that from the first
patient they lead past every other: a patient they left out would be adopted and transmitted
on the exit run. `TourInv` says nothing after a rejected zone, which `exit_sends` shows to be necessary.
From it follow `NothingIsSentAfterwards` and `DoneStaysDone`, for a server that checks zones
but has rejected none so far, and, for a server that never rejects (`SampleServer`, which is
what `run_server.py` is), `DeliveriesAreCounted`, `DeliveriesAreAssigned` and
`DeliveriesAreForTarget`.

`RescueImplementsTour` proves that a mission with the sample server refines `Tour`: a tick
or callback of the buggy is a `Call`, a `Proceed` or a stutter, a request that reaches the
server is an `Answer` or a stutter. A call is made at the stop because the approach is for
the target (`ApproachIsForTarget`); the answer heard is the one last given because the
answers lead; and the count rises only at a hospital because a delivery pending is for the
target.

**Sign routing** (`SignRouting_proofs`). `RoutingInvariance` proves the conjunction of the
type invariant and the three properties of the pending turn; `ObeysLatestBoard` needs
`CoolingHoldsNoTurn`, since the cooldown is what could hold a new board back, and an answer
that changes the target must leave no turn behind. They hold for any boards and any images.

Of the detector, `EachLetterHasItsOwnArrow` proves that the pairing gives each letter an
arrow that it reaches or none, and none to two letters, for any number of detections. The
pairing is a recursive function, one step for each letter; the induction over it
(`PickKeeps`, `PicksInTurn`) is an argument by a least counterexample, from the library's
theorem that the order of the naturals is well-founded (`OneByOne`). So of a legible board
only true directions are read, whatever part of it is detected (`LegibleIsTrue`), and the
routing table stays true of the board last read (`TableStaysTrue`), because it is replaced
and never merged.

**Recovery** (`Recovery_proofs`). `RecoveryInvariance` proves `RecoveryInv`, which adds to the
type invariant three facts about clocks: a phase is never older than its cap, and within
the cap while the timer is still due in this unit (`PhaseInTime`); the same of the time
spent backing towards something (`PressedInTime`); and the clocks of `is_stuck` are never
ahead of the time forward motion has been commanded (`ClocksFollowDriving`), for which
`HereAndNow` and the cooldown must between them restart every clock. `RecoveryIsBounded`
and `RearIsRespected` are weakenings of the first two, `StuckTakesDriving` follows from the
third.

**Approach** (`Approach_proofs`). The age of the decode is bounded by what the approach has
lasted and the freshness it began with (`AgeFollowsApproach`), so at an arrival by
`APPROACH_MAX_SEC + QR_FRESH_SEC` (`ArrivalAge`), and by one unit more in the tick that acts
on it: that this is less than `ARRIVAL_QR_MAX_AGE` is the relation between constants on
which `ArrivesInTime` rests, named in `ApproachAssumption`. `Expiring` says that an approach
acted upon is over before its wait is, which is what makes `ArrivesOnce` true when a wait
gives up, and `HoldIsQuiet` ties the dodge's hold to the time without one.

**Steering** (`Steering_proofs`). Each bias has a lemma with its bounds, and with what is left
of it against a lane controller at full effort; sums are clipped (`AddedTurn`). From these
follow `TurnIsBounded`, `LaneOutranksTheRest` and `SeekingIsDriving`. The last is why a
seeking buggy is always "trying to move" for `is_stuck`, and so why `Recovery` need not ask
what it is doing. `WidthStaysPlausible` is about the lane width learned over any sequence of
frames: the average keeps between what was learned and what is seen (`AverageLiesBetween`),
and the plausibility test lets nothing beyond its bounds be learned from. From it follows
`NarrowFramesAreNoFork`, on which `SignRouting`'s `CanBeFork` rests.

Only model-checked: the liveness properties `Quiesces`, `WedgedIsNoticed` and `ApproachEnds`,
which rest on fairness and are out of TLAPS's reach, and `EvaluationAtAnotherScore`, which
is about particular images. Every invariant and every other action property of a passing
run, and both refinements, are stated by a theorem. No module declares a RECURSIVE operator.

## Plan

1. *Done:* `Topic`, `ServerLink`, `MunicipalityServer`, `Exchange`, `Handshake`,
   `Mission`, `Rescue` and their proofs.
2. *Done:* `SignDetector`, `EdgeVectors`, `SignRouting`, `QrDetector`, `Lidar`, `Recovery`,
   `Approach`, `Steering` and their proofs.
3. *Done:* the inductive invariants of `Rescue`, `Tour` and its refinement, the detector's
   pairing and the truth of the routing table.
4. Left: what a rejected zone still allows to be proved, beyond `AgreesWithServer`, and that
   `Mission`, `SignRouting`, `Recovery` and `Approach` each allow what the others do, which
   is argued above and not proved.

## Not modelled

* TinyFrame is a vendored library, and the two bridges come with the tool chain unchanged.
  They carry sensor readings and drive commands, never the messages of the mission. Their
  hazards (a parser timeout nobody drives, buffers shared by asynchronous calls) are listed in `PROJECT.json` and covered by no property.
* Classifier, QR decoders, thresholding and contours: image processing, external to the
  modules that use their results.
* `corti`: coordinate transforms and a planner in floating point and generated CasADi code;
  each callback keeps one value.
* Teleoperation, launch files, message definitions, training and tuning tools: no state that
  a run of the mission depends on. Of the tools only the evaluation's verdict on routing
  tables is modelled.
* Of `LineFollower`: the logs, the map of buildings (a bearing is an input of `Steering`), and
  the time-dependent part of the lane controller, whose derivative and decay are inputs.
