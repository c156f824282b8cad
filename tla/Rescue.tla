------------------------------- MODULE Rescue -------------------------------
(***************************************************************************)
(* A whole mission: the buggy's Mission and the MunicipalityServer over    *)
(* the topic they share.                                                   *)
(*                                                                         *)
(* The server decides by its pairings, Route.  The official server also    *)
(* knows where the buggy is and answers INVALID outside the zone           *)
(* (ServerCommunicationGuide.md); with ZoneChecks it may so answer any     *)
(* request.  run_server.py, the sample server, has ZoneChecks = FALSE.     *)
(***************************************************************************)
EXTENDS Mission, MunicipalityServer, FiniteSets

CONSTANTS
    Route,         \* pairings: the answer to each building
    ZoneChecks,    \* the server may reject a request for where it was sent
    MaxLosses,     \* bound on the messages lost in a behaviour
    MaxRejections  \* bound on the requests rejected for the zone

ASSUME RescueAssumption ==
    /\ Route \in [Patients \cup Hospitals ->
                     Patients \cup Hospitals \cup {"OK", "INVALID"}]
    /\ ZoneChecks \in BOOLEAN
    /\ MaxLosses \in Nat
    /\ MaxRejections \in Nat
    /\ None \notin [uid : Nat,
                    msg : Patients \cup Hospitals \cup {"OK", "INVALID"}]

VARIABLES
    server,
    \* history
    accepted,      \* hospital requests the server has answered by its route
    chosen,        \* the hospital the server assigned last
    told,          \* the latest answer the server gave
    parked,        \* the server has answered a PARKED with OK
    losses, rejections

serverVars == <<server, accepted, chosen, told, parked, losses, rejections>>
vars == <<topicVars, link, missionVars, serverVars>>

Init ==
    /\ TopicInit
    /\ MissionInit
    /\ server = InitServer
    /\ accepted = 0
    /\ chosen = None
    /\ told = None
    /\ parked = FALSE
    /\ losses = 0
    /\ rejections = 0

\* _get_next_target: the pairings know buildings by their letter.
NextTarget(text) ==
    IF text.building = "PARKED" THEN "OK"
    ELSE IF text.format = "CODE" THEN Route[text.building]
    ELSE "INVALID"

Buggy == MissionNext /\ UNCHANGED serverVars

ServerReceivesAck ==
    /\ server.up
    /\ Received(toServer)
    /\ Head(toServer).ack = 1
    /\ toServer' = Tail(toServer)
    /\ server' = AnswerAcked(server, Head(toServer))
    /\ UNCHANGED <<toBuggy, link, missionVars, accepted, chosen, told,
                   parked, losses, rejections>>

\* A request, answered by the route, or with INVALID for where it was sent.
\* A request whose answer raises has been acknowledged, and not answered.
ServerReceivesRequest(rejected) ==
    /\ server.up
    /\ Received(toServer)
    /\ Head(toServer).ack = 0
    /\ rejected => ZoneChecks /\ rejections < MaxRejections
    /\ LET m      == Head(toServer)
           answer == IF rejected THEN "INVALID" ELSE NextTarget(m.msg)
           step   == Request(server, m, answer)
           isNew  == Len(step.out) > 1
       IN  /\ toServer' = Tail(toServer)
           /\ toBuggy' = Publish(toBuggy, step.out)
           /\ server' = step.server
           /\ accepted' = IF /\ isNew /\ answer # "INVALID"
                             /\ m.msg.building \in Hospitals
                          THEN accepted + 1 ELSE accepted
           /\ chosen' = IF isNew /\ answer \in Hospitals
                        THEN answer ELSE chosen
           /\ told' = IF isNew THEN answer ELSE told
           /\ parked' = (parked \/ /\ isNew /\ answer = "OK"
                                   /\ m.msg = ParkedText)
           /\ rejections' = IF rejected THEN rejections + 1 ELSE rejections
    /\ UNCHANGED <<link, missionVars, losses>>

ServerRetries ==
    /\ server.up
    /\ server.armed
    /\ LET step == RetryTargetSend(server)
       IN  /\ server' = step.server
           /\ toBuggy' = Publish(toBuggy, step.out)
    /\ UNCHANGED <<toServer, link, missionVars, accepted, chosen, told,
                   parked, losses, rejections>>

Loses ==
    /\ losses < MaxLosses
    /\ losses' = losses + 1
    /\ LoseToServer \/ LoseToBuggy
    /\ UNCHANGED <<link, missionVars, server, accepted, chosen, told,
                   parked, rejections>>

Next ==
    \/ Buggy
    \/ ServerReceivesAck
    \/ \E rejected \in BOOLEAN : ServerReceivesRequest(rejected)
    \/ ServerRetries
    \/ Loses

Spec == Init /\ [][Next]_vars

(***************************************************************************)
(* DEFAULT_PAIRINGS of run_server.py: each patient is sent to a hospital,  *)
(* each hospital on to a patient or to the end, and the tour that begins   *)
(* with the first patient leaves no patient out.                           *)
(***************************************************************************)
RouteIsTour ==
    /\ \A p \in Patients : Route[p] \in Hospitals
    /\ \A h \in Hospitals : Route[h] \in Patients \cup {"OK"}
    /\ \A stops \in SUBSET (Patients \cup Hospitals) :
          /\ FIRST_PATIENT \in stops
          /\ \A b \in stops :
                Route[b] \in Patients \cup Hospitals => Route[b] \in stops
          => Patients \subseteq stops

-----------------------------------------------------------------------------
\* A delivery is counted only if the server accepted one: repeated, timed-out
\* and twice answered transmissions never make the count run ahead (the
\* counting in server_communication_callback, not in handle_at_building).
CountedIsAccepted == delivered <= accepted

\* The hospital a confirmation is awaited for is the one the server assigned
\* last, although the buggy may have sent other buildings twice and heard
\* the answers late (handle_at_building).
DeliversToServersChoice ==
    pending_delivery # None => pending_delivery = chosen

\* While a delivery awaits its confirmation the mission's target is that
\* hospital: a late or repeated answer never sends the buggy elsewhere with
\* the delivery still booked, so an INVALID that restores target and hospital
\* from it restores what they are (server_communication_callback).
DeliveryIsForTarget ==
    pending_delivery # None => target_building = pending_delivery

\* When the server has no answer outstanding and its latest one named a
\* building, that building is where the buggy is heading: an acknowledged
\* instruction has been acted upon and nothing older has undone it.
AgreesWithServer ==
    server.pending = None /\ told \in Patients \cup Hospitals =>
        target_building = told

\* As long as no zone was rejected, DONE is final: no answer that comes late,
\* or again, sets the buggy going once it has stopped for good
\* (server_communication_callback).
DoneIsFinal ==
    [][rejections = 0 /\ state = "DONE" => state' = "DONE"]_vars

\* The mission has no target once the last delivery is confirmed; whatever
\* the exit run passes or stops at, it waits for no answer about a building
\* again, unless a zone was rejected before (effective_target).
NothingSentAfterwards ==
    rejections = 0 /\ target_building = None => state \notin Waiting

\* What the buggy was last told: where to go, or OK when it is done.
Instruction ==
    IF target_building = None \/ state = "DONE" THEN "OK" ELSE target_building

\* With a server that rejects no zone a mission is a Tour: the buggy goes where
\* the pairings send it, stop by stop, each time in answer to a call at the
\* stop it leaves, and counts a delivery once, although requests and answers
\* come late, twice or not at all (server_communication_callback,
\* handle_at_building and server_comm_callback together).
Rescuing == INSTANCE Tour WITH
    stop     <- IF state = "INIT" THEN FIRST_PATIENT ELSE Instruction,
    called   <- last_tx_building,
    answered <- IF told = None THEN FIRST_PATIENT ELSE told
KeepsTour == Rescuing!Spec

\* Claimed by effective_target's comment, of any mission: once the deliveries
\* are done there is no target, and the exit run does not adopt a patient it
\* passes, stop, and transmit.
ExitSendsNothing == target_building = None => state \notin Waiting

\* Claimed by the comment on OK: without a delivery pending, OK confirms the
\* parking, which the server confirms in answer to PARKED only.
ParkingIsConfirmed == parked_sent => parked

\* Claimed by the comment on INVALID: during parking it means "not parked
\* correctly" and the buggy keeps looking for the parking area.
ParkingGoesOn ==
    [][ Hears({"INVALID"}) /\ "SEEK_EXIT" \in {state, recovery_return_state}
           => "SEEK_EXIT" \in {state', recovery_return_state'} ]_vars

\* Claimed by the comment on the wire format: a format is given up only when
\* the format, and not the zone, is what the server rejected.
FormatIsAtFault ==
    [][ payload_index' # payload_index
           => PAYLOAD_FORMATS[payload_index] # "CODE" ]_vars
=============================================================================
