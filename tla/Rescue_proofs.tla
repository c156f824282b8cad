---------------------------- MODULE Rescue_proofs ----------------------------
(***************************************************************************)
(* What holds of a whole mission, with any pairings and any number of      *)
(* losses.                                                                 *)
(*                                                                         *)
(* The municipality server and the topic never touch the buggy's own       *)
(* state, so what Mission_proofs shows for any peer holds of the buggy and *)
(* this server.  What the two ends know of each other is in two inductive  *)
(* invariants.  TransitInv says what the answers in transit stand for: the *)
(* text of the server's last processed request or an acknowledgement of    *)
(* it.  TourInv says that buggy, answers, server and pairings are at most  *)
(* one stop of the tour apart; it needs pairings that are a tour, and says *)
(* nothing any more once the server has rejected a registration.           *)
(***************************************************************************)
EXTENDS Rescue, Mission_proofs, LinkLemmas

LEMMA StepIsMissionStep == [Next]_vars => [MissionNext]_missionVars
<1> USE DEF vars, topicVars, missionVars
<1>1. CASE Buggy
  BY <1>1 DEF Buggy
<1>2. CASE ServerReceivesAck
  BY <1>2 DEF ServerReceivesAck
<1>3. ASSUME NEW rejected \in BOOLEAN, ServerReceivesRequest(rejected)
      PROVE  UNCHANGED missionVars
  BY <1>3 DEF ServerReceivesRequest
<1>4. CASE ServerRetries
  BY <1>4 DEF ServerRetries
<1>5. CASE Loses
  BY <1>5 DEF Loses
<1>6. CASE UNCHANGED vars
  BY <1>6
<1> QED
  BY <1>1, <1>2, <1>3, <1>4, <1>5, <1>6 DEF Next

\* Every behaviour of the composed system, seen from the buggy, is one of
\* Mission (Rescue refines the open specification of the mission).
THEOREM RescueImplementsMission == Spec => MissionSpec
<1>1. Init => MissionInit
  BY DEF Init
<1> QED
  BY <1>1, StepIsMissionStep, PTL DEF Spec, MissionSpec

\* So a composed mission acts upon the arrival it committed to, approaches
\* what the server has made its target, and waits standing still for the
\* answer to what it sent.
THEOREM RescueKeepsMission ==
    Spec => [](ArrivalIsCommitted /\ ApproachIsForTarget /\ WaitsForWhatItSent)
BY RescueImplementsMission, MissionInvariance, PTL DEF MissionInv

-----------------------------------------------------------------------------
(***************************************************************************)
(* What is in transit, and what the two ends know of each other.           *)
(***************************************************************************)
Stops   == Patients \cup Hospitals
Answers == Stops \cup {"OK", "INVALID"}
Texts   == [format : {"CODE", "RAW", "NAME"}, building : Stops \cup {"PARKED"}]

RequestMsg == [uid : Nat, ack : {0}, msg : Texts, seq : Nat]
AnswerMsg  == [uid : Nat, ack : {0}, msg : Answers, seq : Int]
AckMsg     == [uid : Nat, ack : {1}, msg : {None}, seq : Int]
ToServerMsg == RequestMsg \cup AckMsg
ToBuggyMsg  == AnswerMsg \cup AckMsg

PendingRequest == [uid : Nat, text : Texts, retries : Nat, seq : Nat]
PendingAnswer  == [uid : Nat, msg : Answers]
LinkType   == [uid : Nat, pending : PendingRequest \cup {None}, sent : Nat]
ServerType == [uid : Nat, lastUid : Int, pending : PendingAnswer \cup {None},
               retries : Nat, armed : BOOLEAN, up : BOOLEAN, served : Nat]

\* The shape of what the composition adds to the mission.
RescueTypeOK ==
    /\ toServer \in Seq(ToServerMsg)
    /\ toBuggy \in Seq(ToBuggyMsg)
    /\ link \in LinkType
    /\ server \in ServerType
    /\ accepted \in Nat
    /\ chosen \in Hospitals \cup {None}
    /\ told \in Answers \cup {None}
    /\ rejections \in Nat

\* Before the first target there is nothing to answer.
NothingYet ==
    state = "INIT" =>
        /\ toServer = <<>> /\ toBuggy = <<>>
        /\ link.pending = None /\ server.pending = None
        /\ told = None
        /\ registered = {}

\* An answer in transit was given, and not after the latest one.
GoodAnswer(m) ==
    m.ack = 0 =>
        /\ m.uid <= server.uid
        /\ m.seq = AnswerSeq(m.uid)
        /\ server.pending # None =>
              /\ m.uid <= server.pending.uid
              /\ m.uid = server.pending.uid => m.msg = told

\* Answers are under way in the order they were given; an acknowledgment
\* under way is for one of them; what the server retransmits is the latest.
AnswersInv ==
    /\ \A i \in DOMAIN toBuggy : GoodAnswer(toBuggy[i])
    /\ \A i \in DOMAIN toServer :
          toServer[i].ack = 1 => toServer[i].uid <= server.uid
    /\ server.pending # None =>
          server.pending.msg = told /\ server.pending.uid <= server.uid
    /\ Sorted(toBuggy)

\* The buggy has heard the latest answer.
Settled ==
    IF server.pending = None
    THEN told # None
    ELSE \E i \in DOMAIN toServer :
            toServer[i].ack = 1 /\ toServer[i].uid = server.pending.uid

\* Then it is all that can still be heard, and the buggy heads for what it
\* named.
SettledInv ==
    Settled =>
        /\ \A i \in DOMAIN toBuggy : toBuggy[i].ack = 0 => toBuggy[i].msg = told
        /\ told \in Stops => target_building = told

TransitInv ==
    /\ RescueTypeOK
    /\ NothingYet
    /\ AnswersInv
    /\ SettledInv

-----------------------------------------------------------------------------
(***************************************************************************)
(* The buggy on the topic.                                                 *)
(***************************************************************************)
\* What server.tick() leaves to the branch of control_loop that follows it.
Ticked(t) ==
    /\ t.link \in LinkType
    /\ t.link.pending # None =>
          link.pending # None /\ t.link.pending.text = link.pending.text
    /\ t.out \in Seq(RequestMsg)
    /\ Len(t.out) <= 1
    /\ \A j \in DOMAIN t.out :
          link.pending # None /\ t.out[j].msg = link.pending.text

\* Nothing is sent, or what is still unacknowledged is sent again.
Resends ==
    /\ toBuggy' = toBuggy
    /\ link' \in LinkType
    /\ link'.pending # None =>
          link.pending # None /\ link'.pending.text = link.pending.text
    /\ \E out \in Seq(RequestMsg) :
          /\ toServer' = Publish(toServer, out)
          /\ \A j \in DOMAIN out :
                link.pending # None /\ out[j].msg = link.pending.text

\* `text' is sent, after what may have been sent again.
Asks(text) ==
    /\ toBuggy' = toBuggy
    /\ link' \in LinkType
    /\ link'.pending # None => link'.pending.text = text
    /\ \E out \in Seq(RequestMsg) :
          /\ toServer' = Publish(toServer, out)
          /\ \A j \in DOMAIN out :
                \/ out[j].msg = text
                \/ link.pending # None /\ out[j].msg = link.pending.text
          /\ \A i, j \in DOMAIN out : i < j => out[j].msg = text

\* The oldest message is taken, and acknowledged if it is an answer; only
\* INVALID can bring about a request.
Listens ==
    /\ toBuggy # <<>> /\ toBuggy' = Tail(toBuggy)
    /\ link' \in LinkType
    /\ Head(toBuggy).msg # "INVALID" /\ link'.pending # None => link' = link
    /\ \E out \in Seq(ToServerMsg) :
          /\ toServer' = Publish(toServer, out)
          /\ \A j \in DOMAIN out :
                IF out[j].ack = 1
                THEN Head(toBuggy).ack = 0 /\ out[j].uid = Head(toBuggy).uid
                ELSE Head(toBuggy).msg = "INVALID"

\* The server has an answer to whatever the buggy sends.
LEMMA TextsAreAnswered == \A text \in Texts : NextTarget(text) \in Answers
BY RescueAssumption DEF Texts, NextTarget, Answers, Stops

\* The words of the protocol are no buildings, and None is none of them.
LEMMA WordsApart ==
    /\ {"OK", "INVALID", "PARKED"} \cap Stops = {}
    /\ None \notin Answers
    /\ Patients \cap Hospitals = {}
    /\ FIRST_PATIENT \in Patients
    /\ None \notin PendingAnswer
BY MissionAssumption, RescueAssumption
   DEF Stops, Answers, Buildings, PendingAnswer

\* The shape of a message in transit.
LEMMA InTransit ==
    ASSUME RescueTypeOK
    PROVE  /\ \A i \in DOMAIN toServer :
                 /\ toServer[i] \in ToServerMsg
                 /\ toServer[i].uid \in Nat /\ toServer[i].ack \in {0, 1}
                 /\ toServer[i].ack = 0 => toServer[i] \in RequestMsg
           /\ \A i \in DOMAIN toBuggy :
                 /\ toBuggy[i] \in ToBuggyMsg
                 /\ toBuggy[i].uid \in Nat /\ toBuggy[i].ack \in {0, 1}
                 /\ toBuggy[i].seq \in Int
                 /\ toBuggy[i].ack = 0 => toBuggy[i] \in AnswerMsg
<1>1. /\ \A m \in ToServerMsg : /\ m.uid \in Nat /\ m.ack \in {0, 1}
                                /\ m.ack = 0 => m \in RequestMsg
      /\ \A m \in ToBuggyMsg : /\ m.uid \in Nat /\ m.ack \in {0, 1}
                               /\ m.seq \in Int
                               /\ m.ack = 0 => m \in AnswerMsg
  BY DEF ToServerMsg, ToBuggyMsg, RequestMsg, AnswerMsg, AckMsg
<1>2. \A i \in DOMAIN toServer : toServer[i] \in ToServerMsg
  BY DEF RescueTypeOK
<1>3. \A i \in DOMAIN toBuggy : toBuggy[i] \in ToBuggyMsg
  BY DEF RescueTypeOK
<1> QED BY <1>1, <1>2, <1>3

\* ServerLink.tick
LEMMA TickIs ==
    ASSUME RescueTypeOK, NEW due \in BOOLEAN
    PROVE  Ticked(Tick(link, due))
<1> DEFINE p == link.pending
           m == Message(p.uid, 0, p.text, p.seq)
           t == Tick(link, due)
<1>1. link \in LinkType
  BY DEF RescueTypeOK
<1>2. \/ t = [link |-> link, out |-> << >>]
      \/ p # None /\ t = [link |-> [link EXCEPT !.pending = None], out |-> << >>]
      \/ p # None /\ t = [link |-> [link EXCEPT !.pending.retries = @ + 1],
                          out  |-> << m >>]
  BY DEF Tick
<1>3. CASE t = [link |-> link, out |-> << >>]
  BY <1>1, <1>3 DEF Ticked
<1>4. CASE p # None /\ t = [link |-> [link EXCEPT !.pending = None],
                            out |-> << >>]
  BY <1>1, <1>4 DEF Ticked, LinkType
<1>5. CASE p # None /\ t = [link |-> [link EXCEPT !.pending.retries = @ + 1],
                            out  |-> << m >>]
  <2>1. p \in PendingRequest
    BY <1>1, <1>5 DEF LinkType
  <2>2. m \in RequestMsg /\ m.msg = p.text
    BY <2>1 DEF Message, RequestMsg, PendingRequest
  <2>3. /\ t.link \in LinkType
        /\ t.link.pending.text = p.text
    BY <1>1, <1>5, <2>1 DEF LinkType, PendingRequest
  <2> HIDE DEF m
  <2>4. /\ t.out \in Seq(RequestMsg) /\ Len(t.out) = 1
        /\ \A j \in DOMAIN t.out : t.out[j] = m
    BY <1>5, <2>2
  <2>5. \A j \in DOMAIN t.out : t.out[j].msg = p.text
    BY <2>2, <2>4
  <2>6. Len(t.out) <= 1
    BY <2>4
  <2> HIDE DEF t
  <2>7. Ticked(t)
    BY <1>5, <2>3, <2>4, <2>5, <2>6 DEF Ticked
  <2> QED BY <2>7 DEF t
<1> QED BY <1>2, <1>3, <1>4, <1>5

\* A branch that sends nothing leaves the link as tick() left it.
LEMMA EmitResends ==
    ASSUME NEW t, Ticked(t), Emit(<< >>, t), toBuggy' = toBuggy
    PROVE  Resends
<1>1. << >> \o t.out = t.out
  BY DEF Ticked
<1> QED BY <1>1 DEF Emit, Ticked, Resends

\* A branch that sends a text does so after tick().
LEMMA EmitSendAsks ==
    ASSUME NEW t, Ticked(t), NEW text \in Texts, EmitSend(t, text),
           toBuggy' = toBuggy
    PROVE  Asks(text)
<1> DEFINE u == NextUid(t.link)
           n == t.link.sent + 1
           m == Message(u, 0, text, n)
           out == t.out \o << m >>
<1>1. /\ link' = [uid |-> u, pending |-> [uid |-> u, text |-> text,
                                          retries |-> 0, seq |-> n],
                  sent |-> n]
      /\ toServer' = Publish(toServer, out)
  BY DEF EmitSend, Emit, Send
<1>2. t.link.uid \in Nat /\ t.link.sent \in Nat
  BY DEF Ticked, LinkType
<1>3. u \in Nat
  BY <1>2, LinkAssumption, ModRange DEF NextUid
<1>4. n \in Nat
  BY <1>2
<1> HIDE DEF u, n
<1>5. link' \in LinkType /\ link'.pending.text = text
  BY <1>1, <1>3, <1>4 DEF LinkType, PendingRequest
<1>6. m \in RequestMsg /\ m.msg = text
  BY <1>3, <1>4 DEF Message, RequestMsg
<1> HIDE DEF m
<1>7. t.out \in Seq(RequestMsg) /\ Len(t.out) \in {0, 1}
  <2>1. t.out \in Seq(RequestMsg) /\ Len(t.out) <= 1
    BY DEF Ticked
  <2>2. \A s \in Seq(RequestMsg) : Len(s) \in Nat
    OBVIOUS
  <2>3. \A k \in Nat : k <= 1 => k \in {0, 1}
    OBVIOUS
  <2> QED BY <2>1, <2>2, <2>3
<1>8. /\ out \in Seq(RequestMsg)
      /\ Len(out) = Len(t.out) + 1
      /\ out[Len(out)] = m
      /\ \A j \in 1 .. Len(t.out) : out[j] = t.out[j]
  BY <1>6, <1>7
<1> HIDE DEF out
<1>9. \A j \in DOMAIN out : \/ out[j].msg = text
                            \/ link.pending # None /\ out[j].msg = link.pending.text
  <2>1. \A j \in DOMAIN t.out : link.pending # None
                                /\ t.out[j].msg = link.pending.text
    BY DEF Ticked
  <2> QED BY <1>6, <1>7, <1>8, <2>1
<1>10. \A i, j \in DOMAIN out : i < j => out[j].msg = text
  <2>1. \A i, j \in DOMAIN out : i < j => j = Len(out)
    BY <1>7, <1>8
  <2> QED BY <1>6, <1>8, <2>1
<1> QED BY <1>1, <1>5, <1>8, <1>9, <1>10 DEF Asks

\* Every branch of control_loop sends one text or nothing, leaves the topic to
\* the buggy alone, and sets a target only when the mission starts.
LEMMA ControlLoopTransmits ==
    ASSUME RescueTypeOK, MissionInv, NEW t, Ticked(t), ControlLoop(t)
    PROVE  /\ Resends \/ \E text \in Texts : Asks(text)
           /\ state' # "INIT"
           /\ target_building' = target_building \/ state = "INIT"
<1> DEFINE Goal == /\ Resends \/ \E text \in Texts : Asks(text)
                   /\ state' # "INIT"
                   /\ target_building' = target_building \/ state = "INIT"
<1> SUFFICES Goal
  OBVIOUS
<1>1. payload_index \in 1 .. 3 /\ ParkedText \in Texts
  BY ThreeFormats DEF MissionInv, MissionTypeOK, ParkedText, Texts
<1>2. \A b \in Stops : Text(payload_index, b) \in Texts
  BY <1>1 DEF Text, Texts, PAYLOAD_FORMATS
<1>3. /\ state = "INIT" => speed = "stop"
      /\ recovery_return_state # "INIT"
      /\ Resume # "INIT"
  BY ResumeSeeks DEF MissionInv, NotBegun, ReturnsToMotion
<1>4. ASSUME Emit(<< >>, t), toBuggy' = toBuggy, UNCHANGED goalVars,
             state' # "INIT"
      PROVE  Goal
  BY <1>4, EmitResends DEF goalVars
<1>5. CASE EntersRecovery(t)
  BY <1>4, <1>5 DEF EntersRecovery, SetState
<1>6. CASE Recovers(t)
  BY <1>4, <1>6 DEF Recovers, stateVars
<1>7. CASE FinishesRecovery(t)
  BY <1>3, <1>4, <1>7 DEF FinishesRecovery, SetState
<1>8. CASE Starts(t)
  BY <1>8, EmitResends DEF Starts, SetState
<1>9. CASE Seeks(t)
  BY <1>4, <1>9 DEF Seeks, SetState
<1>10. CASE SeeksExit(t)
  <2>1. /\ toBuggy' = toBuggy /\ UNCHANGED goalVars
        /\ state' # "INIT"
        /\ EmitSend(t, ParkedText) \/ Emit(<< >>, t)
    BY <1>10 DEF SeeksExit, SetState
  <2> QED BY <1>1, <1>4, <2>1, EmitSendAsks DEF goalVars
<1>11. CASE StaysStopped(t)
  BY <1>4, <1>11 DEF StaysStopped, stateVars
<1>12. CASE BacksOut(t)
  BY <1>3, <1>4, <1>12 DEF BacksOut, SetState
<1>13. CASE RegistersPatient(t)
  <2>1. /\ toBuggy' = toBuggy /\ target_building' = target_building
        /\ state' # "INIT" /\ ArrivedAt \in Stops
        /\ EmitSend(t, Text(payload_index, ArrivedAt))
    BY <1>13 DEF RegistersPatient, SetState, Transmits, Stops
  <2> QED BY <1>2, <2>1, EmitSendAsks
<1>14. CASE DeliversToHospital(t)
  <2>1. /\ toBuggy' = toBuggy /\ target_building' = target_building
        /\ state' # "INIT" /\ ArrivedAt \in Stops
        /\ EmitSend(t, Text(payload_index, ArrivedAt))
    BY <1>14 DEF DeliversToHospital, SetState, Transmits, Stops
  <2> QED BY <1>2, <2>1, EmitSendAsks
<1>15. CASE SkipsBuilding(t)
  BY <1>4, <1>15 DEF SkipsBuilding, SetState
<1>16. CASE Waits(t)
  BY <1>4, <1>16 DEF Waits, stateVars, Waiting
<1>17. CASE GivesUpAssignment(t)
  BY <1>4, <1>17 DEF GivesUpAssignment, SetState
<1>18. CASE GivesUpDelivery(t)
  BY <1>3, <1>18, EmitResends DEF GivesUpDelivery, SetState
<1> QED
  BY <1>5, <1>6, <1>7, <1>8, <1>9, <1>10, <1>11, <1>12, <1>13, <1>14, <1>15,
     <1>16, <1>17, <1>18 DEF ControlLoop

\* ServerLink.handle
LEMMA HandledIs ==
    ASSUME RescueTypeOK, toBuggy # <<>>
    PROVE  LET m == Head(toBuggy) IN
           /\ m \in ToBuggyMsg
           /\ m.ack = 1 => /\ Handled.payload = None
                           /\ Handled.out = << >>
                           /\ Handled.link \in LinkType
                           /\ Handled.link.pending # None => Handled.link = link
           /\ m.ack = 0 => /\ m \in AnswerMsg
                           /\ Handled.payload = m.msg
                           /\ Handled.out = << Message(m.uid, 1, None, m.seq) >>
                           /\ Message(m.uid, 1, None, m.seq) \in AckMsg
                           /\ Handled.link = link
<1> DEFINE m == Head(toBuggy)
<1>1. m \in ToBuggyMsg /\ link \in LinkType
  BY TailKeepsOrder DEF RescueTypeOK
<1> HIDE DEF m
<1>2. m.ack = 1 => /\ Handle(link, m).payload = None
                   /\ Handle(link, m).out = << >>
                   /\ Handle(link, m).link \in LinkType
                   /\ Handle(link, m).link.pending # None
                         => Handle(link, m).link = link
  BY <1>1 DEF Handle, LinkType
<1>3. m.ack = 0 => /\ m \in AnswerMsg
                   /\ Handle(link, m).payload = m.msg
                   /\ Handle(link, m).out = << Message(m.uid, 1, None, m.seq) >>
                   /\ Message(m.uid, 1, None, m.seq) \in AckMsg
                   /\ Handle(link, m).link = link
  BY <1>1 DEF Handle, Message, ToBuggyMsg, AnswerMsg, AckMsg
<1> QED BY <1>1, <1>2, <1>3 DEF Handled, m

\* Whatever the buggy hears, it takes off the topic and acknowledges; an
\* acknowledgment changes nothing else, and a stop becomes the target.
LEMMA ServerCallbackListens ==
    ASSUME RescueTypeOK, MissionInv, state # "INIT", ServerCallback
    PROVE  /\ Listens
           /\ state' # "INIT"
           /\ Head(toBuggy).ack = 1 => UNCHANGED missionVars
           /\ Head(toBuggy).ack = 0 /\ Head(toBuggy).msg \in Stops
                 => target_building' = Head(toBuggy).msg
<1> DEFINE m == Head(toBuggy)
           Goal == /\ Listens
                   /\ state' # "INIT"
                   /\ m.ack = 1 => UNCHANGED missionVars
                   /\ m.ack = 0 /\ m.msg \in Stops => target_building' = m.msg
<1> SUFFICES Goal
  OBVIOUS
<1>1. toBuggy # <<>> /\ toBuggy' = Tail(toBuggy)
  BY DEF ServerCallback, HearsNothingNew, RetriesFormat, DeliveryRejected,
         RegistrationRejected, ResumesSearch, ZoneRejected,
         CompletesDeliveries, ParkingConfirmed, HospitalAssigned,
         NextPatient, Hears, Received
<1>2. /\ m \in ToBuggyMsg
      /\ m.ack = 1 => /\ Handled.payload = None
                      /\ Handled.out = << >>
                      /\ Handled.link \in LinkType
                      /\ Handled.link.pending # None => Handled.link = link
      /\ m.ack = 0 => /\ m \in AnswerMsg
                      /\ Handled.payload = m.msg
                      /\ Handled.out = << Message(m.uid, 1, None, m.seq) >>
                      /\ Message(m.uid, 1, None, m.seq) \in AckMsg
                      /\ Handled.link = link
  BY <1>1, HandledIs
<1>3. m.ack \in {0, 1} /\ (m.ack = 0 => m.msg \in Answers)
  BY <1>2 DEF ToBuggyMsg, AnswerMsg, AckMsg
<1>4. link \in LinkType
  BY DEF RescueTypeOK
<1> HIDE DEF m
<1>5. /\ None \notin {"OK", "INVALID"} /\ None \notin Stops
      /\ "OK" \notin Stops /\ "INVALID" \notin Stops
  BY WordsApart DEF Answers
<1>6. ASSUME Acknowledged PROVE Listens
  <2>1. link' = Handled.link
    BY <1>6 DEF Acknowledged, Emit
  <2>2. CASE m.ack = 1
    <3>1. toServer' = Publish(toServer, << >>)
      BY <1>2, <1>6, <2>2 DEF Acknowledged, Emit
    <3>2. << >> \in Seq(ToServerMsg) /\ DOMAIN << >> = {}
      OBVIOUS
    <3> QED BY <1>1, <1>2, <2>1, <2>2, <3>1, <3>2 DEF Listens
  <2>3. CASE m.ack = 0
    <3> DEFINE a == Message(m.uid, 1, None, m.seq)
               out == << a >>
    <3>1. a \in ToServerMsg /\ a.ack = 1 /\ a.uid = m.uid
      BY <1>2, <2>3 DEF ToServerMsg, Message
    <3>2. toServer' = Publish(toServer, << >> \o out)
      BY <1>2, <1>6, <2>3 DEF Acknowledged, Emit
    <3> HIDE DEF a
    <3>3. out \in Seq(ToServerMsg) /\ << >> \o out = out
      BY <3>1
    <3>4. \A j \in DOMAIN out : out[j].ack = 1 /\ out[j].uid = m.uid
      BY <3>1
    <3> HIDE DEF out
    <3> QED
      BY <1>1, <1>2, <1>4, <2>1, <2>3, <3>2, <3>3, <3>4 DEF Listens, m
  <2> QED BY <1>3, <2>2, <2>3
<1>7. CASE HearsNothingNew
  BY <1>5, <1>2, <1>3, <1>6, <1>7
     DEF HearsNothingNew, Hears, missionVars, stateVars
<1>8. CASE RetriesFormat
  <2>1. /\ m.ack = 0 /\ m.msg = "INVALID"
        /\ state' = state
    BY <1>2, <1>3, <1>8, MissionAssumption DEF RetriesFormat, Hears
  <2> DEFINE text == Text(payload_index + 1, last_tx_building)
             a    == Message(m.uid, 1, None, m.seq)
             u    == NextUid(link)
             n    == link.sent + 1
             b    == Message(u, 0, text, n)
             out  == << a >> \o << b >>
  <2>2. text \in Texts
    <3>1. payload_index + 1 \in {2, 3} /\ last_tx_building \in Stops
      BY <1>8, ThreeFormats
         DEF RetriesFormat, CanRetryFormat, MissionInv, MissionTypeOK, Stops
    <3> QED BY <3>1 DEF Text, Texts, PAYLOAD_FORMATS
  <2>3. u \in Nat /\ n \in Nat
    <3>1. link.uid \in Nat /\ link.sent \in Nat
      BY <1>4 DEF LinkType
    <3>2. u \in Nat
      BY <3>1, LinkAssumption, ModRange DEF NextUid
    <3> QED BY <3>1, <3>2
  <2>4. /\ link' = [uid |-> u, pending |-> [uid |-> u, text |-> text,
                                            retries |-> 0, seq |-> n],
                    sent |-> n]
        /\ toServer' = Publish(toServer, Handled.out \o << b >>)
    BY <1>2, <1>8, <2>1 DEF RetriesFormat, EmitSend, Emit, Send
  <2> HIDE DEF text, u, n
  <2>5. link' \in LinkType
    BY <2>2, <2>3, <2>4 DEF LinkType, PendingRequest
  <2>6. /\ a \in ToServerMsg /\ a.ack = 1 /\ a.uid = m.uid
        /\ b \in ToServerMsg /\ b.ack = 0
    BY <1>2, <2>1, <2>2, <2>3 DEF ToServerMsg, RequestMsg, Message
  <2>7. Handled.out = << a >>
    BY <1>2, <2>1
  <2> HIDE DEF a, b
  <2>8. /\ out \in Seq(ToServerMsg)
        /\ \A j \in DOMAIN out : out[j] = a \/ out[j] = b
    <3>1. out \in Seq(ToServerMsg)
      BY <2>6
    <3>2. DOMAIN out = {1, 2} /\ out[1] = a /\ out[2] = b
      OBVIOUS
    <3> HIDE DEF out
    <3> QED BY <3>1, <3>2
  <2> HIDE DEF out
  <2>9. toServer' = Publish(toServer, out)
    BY <2>4, <2>7 DEF out
  <2>10. Listens
    BY <1>1, <2>1, <2>5, <2>6, <2>8, <2>9 DEF Listens, m
  <2> QED BY <1>5, <2>1, <2>10
<1>9. CASE DeliveryRejected
  BY <1>5, <1>2, <1>3, <1>6, <1>9
     DEF DeliveryRejected, ZoneRejected, Hears, SetState
<1>10. CASE RegistrationRejected
  BY <1>5, <1>2, <1>3, <1>6, <1>10
     DEF RegistrationRejected, ZoneRejected, Hears, SetState
<1>11. CASE ResumesSearch
  BY <1>5, <1>2, <1>3, <1>6, <1>11, ResumeSeeks
     DEF ResumesSearch, ZoneRejected, Hears, SetState
<1>12. CASE CompletesDeliveries
  BY <1>5, <1>2, <1>3, <1>6, <1>12
     DEF CompletesDeliveries, Hears, SetState
<1>13. CASE ParkingConfirmed
  BY <1>5, <1>2, <1>3, <1>6, <1>13
     DEF ParkingConfirmed, Hears, SetState
<1>14. CASE HospitalAssigned
  BY <1>5, <1>2, <1>3, <1>6, <1>14
     DEF HospitalAssigned, Hears, SetState, Stops
<1>15. CASE NextPatient
  BY <1>5, <1>2, <1>3, <1>6, <1>15
     DEF NextPatient, Hears, SetState, Stops
<1> QED
  BY <1>7, <1>8, <1>9, <1>10, <1>11, <1>12, <1>13, <1>14, <1>15
     DEF ServerCallback

\* What neither sends nor hears leaves the link, the topic and the goal alone.
LEMMA SurroundingsLeave ==
    ASSUME (\E text \in Codes : ReadsQr(text)) \/ QrAges \/ WaitExpires
              \/ ParkingClock
    PROVE  UNCHANGED <<link, topicVars, state, recovery_return_state,
                       goalVars, formatVars, approachVars>>
BY DEF ReadsQr, QrAges, WaitExpires, ParkingClock, stateVars

-----------------------------------------------------------------------------
(***************************************************************************)
(* The server on the topic.                                                *)
(***************************************************************************)
\* server_comm_callback, CASE 2: a request is acknowledged; unless it is a
\* repetition or the node dies, it becomes the latest answer.
LEMMA RequestIs ==
    ASSUME server \in ServerType, NEW m \in RequestMsg, NEW answer \in Answers
    PROVE  LET step == Request(server, m, answer)
               u    == server.uid + 1
               a    == Message(m.uid, 1, None, m.seq)
               b    == Message(u, 0, answer, AnswerSeq(u))
           IN  /\ step.server \in ServerType
               /\ a \in ToBuggyMsg
               /\ \/ /\ step.out = << a >>
                     /\ step.server.pending = server.pending
                     /\ step.server.uid \in {server.uid, u}
                  \/ /\ step.out = << a, b >>
                     /\ b \in ToBuggyMsg
                     /\ step.server.pending = [uid |-> u, msg |-> answer]
                     /\ step.server.uid = u
<1> DEFINE u == server.uid + 1
           a == Message(m.uid, 1, None, m.seq)
           b == Message(u, 0, answer, AnswerSeq(u))
           step == Request(server, m, answer)
<1>1. u \in Nat /\ AnswerSeq(u) \in Int /\ m.uid \in Nat /\ m.seq \in Nat
  BY ServerAssumption DEF ServerType, AnswerSeq, RequestMsg
<1>2. a \in ToBuggyMsg /\ b \in ToBuggyMsg
  BY <1>1 DEF Message, ToBuggyMsg, AnswerMsg, AckMsg
<1>3. CASE server.lastUid = m.uid
  <2>1. step = [server |-> server, out |-> << a >>]
    BY <1>3 DEF Request
  <2> HIDE DEF step, a
  <2>2. step.server = server /\ step.out = << a >>
    BY <2>1
  <2> QED BY <1>2, <2>2 DEF step, a
<1>4. CASE server.lastUid # m.uid /\ u > UID_MAX
  <2> DEFINE s == [server EXCEPT !.lastUid = m.uid, !.uid = u,
                                 !.served = m.seq, !.up = FALSE]
  <2>1. step = [server |-> s, out |-> << a >>]
    BY <1>4 DEF Request
  <2>2. s \in ServerType /\ s.pending = server.pending /\ s.uid = u
    <3>1. u \in Nat /\ m.uid \in Int /\ m.seq \in Nat
      BY <1>1
    <3> HIDE DEF u
    <3>2. s \in ServerType
      BY <3>1 DEF ServerType
    <3>3. s.pending = server.pending /\ s.uid = u
      BY DEF ServerType
    <3> QED BY <3>2, <3>3
  <2> HIDE DEF step, a, u, s
  <2>3. step.server = s /\ step.out = << a >>
    BY <2>1
  <2> QED BY <1>2, <2>2, <2>3 DEF step, a, u
<1>5. CASE server.lastUid # m.uid /\ ~(u > UID_MAX)
  <2> DEFINE p == [uid |-> u, msg |-> answer]
             s == [server EXCEPT !.lastUid = m.uid, !.uid = u, !.served = m.seq,
                                 !.pending = p, !.retries = 0, !.armed = TRUE]
  <2>1. step = [server |-> s, out |-> << a, b >>]
    BY <1>5 DEF Request
  <2>2. p \in PendingAnswer
    BY <1>1 DEF PendingAnswer
  <2>3. s \in ServerType /\ s.pending = p /\ s.uid = u
    <3>1. u \in Nat /\ m.uid \in Int /\ m.seq \in Nat
      BY <1>1
    <3> HIDE DEF u, p
    <3>2. s \in ServerType
      BY <2>2, <3>1 DEF ServerType
    <3>3. s.pending = p /\ s.uid = u
      BY DEF ServerType
    <3> QED BY <3>2, <3>3
  <2> HIDE DEF step, a, b, u, s
  <2>4. step.server = s /\ step.out = << a, b >>
    BY <2>1
  <2> QED BY <1>2, <2>3, <2>4 DEF step, a, b, u
<1> QED BY <1>3, <1>4, <1>5

\* _retry_target_send
LEMMA RetryIs ==
    ASSUME server \in ServerType
    PROVE  LET step == RetryTargetSend(server)
               p    == server.pending
               b    == Message(p.uid, 0, p.msg, AnswerSeq(p.uid))
           IN  /\ step.server \in ServerType
               /\ step.server.pending = server.pending
               /\ step.server.uid = server.uid
               /\ \/ step.out = << >>
                  \/ server.pending # None /\ step.out = << b >>
                     /\ b \in ToBuggyMsg
<1> DEFINE p == server.pending
           n == server.retries + 1
           b == Message(p.uid, 0, p.msg, AnswerSeq(p.uid))
           step == RetryTargetSend(server)
<1>1. n \in Nat
  BY DEF ServerType
<1>2. CASE p = None
  BY <1>2 DEF RetryTargetSend, ServerType
<1>3. CASE p # None
  <2>1. /\ p \in PendingAnswer
        /\ p.uid \in Nat /\ p.msg \in Answers /\ AnswerSeq(p.uid) \in Int
    BY <1>3, ServerAssumption DEF ServerType, PendingAnswer, AnswerSeq
  <2>2. b \in ToBuggyMsg
    BY <2>1 DEF Message, ToBuggyMsg, AnswerMsg
  <2> DEFINE given == [server EXCEPT !.retries = n, !.armed = FALSE]
             again == [server EXCEPT !.retries = n]
  <2>3. \/ step = [server |-> given, out |-> << >>]
        \/ step = [server |-> again, out |-> << b >>]
    BY <1>3 DEF RetryTargetSend
  <2>4. /\ given \in ServerType /\ given.pending = p /\ given.uid = server.uid
        /\ again \in ServerType /\ again.pending = p /\ again.uid = server.uid
    <3> HIDE DEF n
    <3> QED BY <1>1 DEF ServerType
  <2> HIDE DEF step, b, given, again
  <2>5. \/ step.server = given /\ step.out = << >>
        \/ step.server = again /\ step.out = << b >>
    BY <2>3
  <2> QED BY <1>3, <2>2, <2>4, <2>5 DEF step, b
<1> QED BY <1>2, <1>3

-----------------------------------------------------------------------------
(***************************************************************************)
(* TransitInv, kind of step by kind of step.                               *)
(***************************************************************************)
\* What is published for the server is what was there and what is sent; an
\* acknowledgment among it, if none is sent, was there.
LEMMA RequestsJoin ==
    ASSUME RescueTypeOK, NEW out \in Seq(ToServerMsg),
           toServer' = Publish(toServer, out)
    PROVE  /\ toServer' \in Seq(ToServerMsg)
           /\ \A i \in DOMAIN toServer' :
                 \/ \E j \in DOMAIN toServer : toServer'[i] = toServer[j]
                 \/ \E j \in DOMAIN out : toServer'[i] = out[j]
<1>1. toServer \in Seq(ToServerMsg)
  BY DEF RescueTypeOK
<1>2. Publish(toServer, out) \in Seq(ToServerMsg)
  BY <1>1, PublishKeepsTheEnd
<1>3. \A i \in DOMAIN Publish(toServer, out) :
         \/ \E j \in DOMAIN toServer : Publish(toServer, out)[i] = toServer[j]
         \/ \E j \in DOMAIN out : Publish(toServer, out)[i] = out[j]
  BY <1>1, PublishAddsOnly
<1> QED BY <1>2, <1>3

LEMMA AnswersJoin ==
    ASSUME RescueTypeOK, NEW out \in Seq(ToBuggyMsg),
           toBuggy' = Publish(toBuggy, out)
    PROVE  /\ toBuggy' \in Seq(ToBuggyMsg)
           /\ \A i \in DOMAIN toBuggy' :
                 \/ \E j \in DOMAIN toBuggy : toBuggy'[i] = toBuggy[j]
                 \/ \E j \in DOMAIN out : toBuggy'[i] = out[j]
<1>1. toBuggy \in Seq(ToBuggyMsg)
  BY DEF RescueTypeOK
<1>2. Publish(toBuggy, out) \in Seq(ToBuggyMsg)
  BY <1>1, PublishKeepsTheEnd
<1>3. \A i \in DOMAIN Publish(toBuggy, out) :
         \/ \E j \in DOMAIN toBuggy : Publish(toBuggy, out)[i] = toBuggy[j]
         \/ \E j \in DOMAIN out : Publish(toBuggy, out)[i] = out[j]
  BY <1>1, PublishAddsOnly
<1> QED BY <1>2, <1>3

\* Taking the head leaves the rest.
LEMMA RequestsLeave ==
    ASSUME RescueTypeOK, toServer # <<>>, toServer' = Tail(toServer)
    PROVE  /\ Head(toServer) \in ToServerMsg
           /\ \E j \in DOMAIN toServer : Head(toServer) = toServer[j]
           /\ toServer' \in Seq(ToServerMsg)
           /\ \A i \in DOMAIN toServer' :
                 \E j \in DOMAIN toServer : toServer'[i] = toServer[j]
BY TailKeepsOrder DEF RescueTypeOK

LEMMA AnswersLeave ==
    ASSUME RescueTypeOK, toBuggy # <<>>, toBuggy' = Tail(toBuggy)
    PROVE  /\ Head(toBuggy) \in ToBuggyMsg
           /\ \E j \in DOMAIN toBuggy : Head(toBuggy) = toBuggy[j]
           /\ toBuggy' \in Seq(ToBuggyMsg)
           /\ \A i \in DOMAIN toBuggy' :
                 \E j \in DOMAIN toBuggy : toBuggy'[i] = toBuggy[j]
           /\ Sorted(toBuggy) =>
                 /\ Sorted(toBuggy')
                 /\ \A i \in DOMAIN toBuggy' :
                       Head(toBuggy).ack = 0 /\ toBuggy'[i].ack = 0
                          => Head(toBuggy).seq <= toBuggy'[i].seq
BY TailKeepsOrder DEF RescueTypeOK

\* A step that puts no acknowledgment on its way, and leaves the server
\* alone, settles nothing.
LEMMA NothingSettles ==
    ASSUME UNCHANGED <<server, told>>, Settled',
           \A i \in DOMAIN toServer' : toServer'[i].ack = 1 =>
              \E j \in DOMAIN toServer : toServer'[i] = toServer[j]
    PROVE  Settled
BY DEF Settled

\* The buggy sends requests.
LEMMA SendingKeepsTransit ==
    ASSUME TransitInv, UNCHANGED serverVars,
           Resends \/ \E text \in Texts : Asks(text),
           state' # "INIT",
           target_building' = target_building \/ state = "INIT"
    PROVE  TransitInv'
<1>1. PICK out \in Seq(RequestMsg) : toServer' = Publish(toServer, out)
  BY DEF Resends, Asks
<1>2. /\ toBuggy' = toBuggy /\ link' \in LinkType
      /\ UNCHANGED <<server, accepted, chosen, told, rejections>>
  BY DEF Resends, Asks, serverVars
<1>3. RescueTypeOK /\ NothingYet /\ AnswersInv /\ SettledInv
  BY DEF TransitInv
<1>4. out \in Seq(ToServerMsg) /\ \A j \in DOMAIN out : out[j] \in RequestMsg
  BY DEF ToServerMsg
<1>5. /\ toServer' \in Seq(ToServerMsg)
      /\ \A i \in DOMAIN toServer' : toServer'[i].ack = 1 =>
            \E j \in DOMAIN toServer : toServer'[i] = toServer[j]
  <2>1. \A j \in DOMAIN out : out[j].ack = 0
    BY <1>4 DEF RequestMsg
  <2> QED BY <1>1, <1>3, <1>4, <2>1, RequestsJoin
<1>6. RescueTypeOK'
  BY <1>2, <1>3, <1>5 DEF RescueTypeOK
<1>7. NothingYet'
  BY DEF NothingYet
<1>8. AnswersInv'
  BY <1>2, <1>3, <1>5 DEF AnswersInv, GoodAnswer, Sorted
<1>9. SettledInv'
  <2> SUFFICES ASSUME Settled'
               PROVE  /\ \A i \in DOMAIN toBuggy' :
                            toBuggy'[i].ack = 0 => toBuggy'[i].msg = told'
                      /\ told' \in Stops => target_building' = told'
    BY DEF SettledInv, Stops
  <2>1. Settled
    BY <1>2, <1>5, NothingSettles
  <2>2. state # "INIT"
    BY <1>3, <2>1 DEF NothingYet, Settled
  <2> QED BY <1>2, <1>3, <2>1, <2>2 DEF SettledInv
<1> QED BY <1>6, <1>7, <1>8, <1>9 DEF TransitInv

\* The buggy hears an answer, or an acknowledgment.
LEMMA ListeningKeepsTransit ==
    ASSUME TransitInv, UNCHANGED serverVars, Listens, state' # "INIT",
           Head(toBuggy).ack = 1 => UNCHANGED missionVars,
           Head(toBuggy).ack = 0 /\ Head(toBuggy).msg \in Stops
              => target_building' = Head(toBuggy).msg
    PROVE  TransitInv'
<1> DEFINE m == Head(toBuggy)
<1>1. PICK out \in Seq(ToServerMsg) :
         /\ toServer' = Publish(toServer, out)
         /\ \A j \in DOMAIN out : out[j].ack = 1 => m.ack = 0 /\ out[j].uid = m.uid
  <2>1. PICK o \in Seq(ToServerMsg) :
         /\ toServer' = Publish(toServer, o)
         /\ \A j \in DOMAIN o :
                IF o[j].ack = 1
                THEN m.ack = 0 /\ o[j].uid = m.uid
                ELSE m.msg = "INVALID"
    BY DEF Listens
  <2> QED BY <2>1
<1>2. /\ toBuggy # <<>> /\ toBuggy' = Tail(toBuggy) /\ link' \in LinkType
      /\ UNCHANGED <<server, accepted, chosen, told, rejections>>
  BY DEF Listens, serverVars
<1>3. RescueTypeOK /\ NothingYet /\ AnswersInv /\ SettledInv
  BY DEF TransitInv
<1>4. /\ m \in ToBuggyMsg /\ GoodAnswer(m)
      /\ toBuggy' \in Seq(ToBuggyMsg)
      /\ \A i \in DOMAIN toBuggy' :
            \E j \in DOMAIN toBuggy : toBuggy'[i] = toBuggy[j]
      /\ Sorted(toBuggy')
      /\ \A i \in DOMAIN toBuggy' : m.ack = 0 /\ toBuggy'[i].ack = 0
            => m.seq <= toBuggy'[i].seq
      /\ Settled /\ m.ack = 0 => m.msg = told
  BY <1>2, <1>3, AnswersLeave DEF AnswersInv, SettledInv
<1>5. /\ toServer' \in Seq(ToServerMsg)
      /\ \A i \in DOMAIN toServer' :
            \/ \E j \in DOMAIN toServer : toServer'[i] = toServer[j]
            \/ toServer'[i].ack = 1 => m.ack = 0 /\ toServer'[i].uid = m.uid
  BY <1>1, <1>3, RequestsJoin
<1>6. m.ack \in {0, 1}
  BY <1>4 DEF ToBuggyMsg, AnswerMsg, AckMsg
<1> HIDE DEF m
<1>7. RescueTypeOK'
  BY <1>2, <1>3, <1>4, <1>5 DEF RescueTypeOK
<1>8. NothingYet'
  BY DEF NothingYet
<1>9. AnswersInv'
  <2>1. \A i \in DOMAIN toBuggy' : GoodAnswer(toBuggy'[i])
    BY <1>3, <1>4 DEF AnswersInv
  <2>2. \A i \in DOMAIN toServer' :
           toServer'[i].ack = 1 => toServer'[i].uid <= server.uid
    BY <1>3, <1>4, <1>5 DEF AnswersInv, GoodAnswer
  <2> QED BY <1>2, <1>3, <1>4, <2>1, <2>2 DEF AnswersInv, GoodAnswer
<1>10. ASSUME Settled
       PROVE  /\ \A i \in DOMAIN toBuggy' :
                    toBuggy'[i].ack = 0 => toBuggy'[i].msg = told
              /\ told \in Stops => target_building' = told
  <2>1. \A i \in DOMAIN toBuggy' :
           toBuggy'[i].ack = 0 => toBuggy'[i].msg = told
    BY <1>3, <1>4, <1>10 DEF SettledInv
  <2>2. ASSUME told \in Stops PROVE target_building' = told
    <3>1. CASE m.ack = 1
      BY <1>3, <1>10, <2>2, <3>1 DEF SettledInv, missionVars, goalVars, m
    <3>2. CASE m.ack = 0
      BY <1>4, <1>10, <2>2, <3>2 DEF m
    <3> QED BY <1>6, <3>1, <3>2
  <2> QED BY <2>1, <2>2
<1>11. ASSUME ~Settled, Settled'
       PROVE  /\ \A i \in DOMAIN toBuggy' :
                    toBuggy'[i].ack = 0 => toBuggy'[i].msg = told
              /\ told \in Stops => target_building' = told
  <2>1. /\ server.pending # None
        /\ m.ack = 0 /\ m.uid = server.pending.uid
    BY <1>2, <1>5, <1>11 DEF Settled
  <2>2. m.msg = told /\ m.seq = AnswerSeq(m.uid)
    BY <1>4, <2>1 DEF GoodAnswer
  <2>3. ASSUME NEW i \in DOMAIN toBuggy', toBuggy'[i].ack = 0
        PROVE  toBuggy'[i].msg = told
    <3>1. PICK j \in DOMAIN toBuggy : toBuggy'[i] = toBuggy[j]
      BY <1>4, <2>3
    <3>2. /\ toBuggy[j].ack = 0 /\ GoodAnswer(toBuggy[j])
          /\ toBuggy[j].uid \in Nat
          /\ m.seq <= toBuggy[j].seq
      BY <1>3, <1>4, <2>1, <2>3, <3>1, InTransit DEF AnswersInv
    <3>3. /\ toBuggy[j].uid <= server.pending.uid
          /\ toBuggy[j].seq = toBuggy[j].uid - SERVER_UID
          /\ m.seq = server.pending.uid - SERVER_UID
          /\ server.pending.uid \in Nat
      <4>1. server.pending \in PendingAnswer
        BY <1>3, <2>1 DEF RescueTypeOK, ServerType
      <4> QED BY <2>1, <2>2, <3>2, <4>1 DEF GoodAnswer, AnswerSeq, PendingAnswer
    <3>4. toBuggy[j].uid = server.pending.uid
      BY <3>2, <3>3, ServerAssumption
    <3> QED BY <2>1, <3>1, <3>2, <3>4 DEF GoodAnswer
  <2> QED BY <2>1, <2>2, <2>3 DEF m
<1>12. SettledInv'
  <2> SUFFICES ASSUME Settled'
               PROVE  /\ \A i \in DOMAIN toBuggy' :
                            toBuggy'[i].ack = 0 => toBuggy'[i].msg = told'
                      /\ told' \in Stops => target_building' = told'
    BY DEF SettledInv, Stops
  <2> QED BY <1>2, <1>10, <1>11
<1> QED BY <1>7, <1>8, <1>9, <1>12 DEF TransitInv

\* The server learns that the buggy has an answer.
LEMMA ServerReceivesAckKeepsTransit ==
    ASSUME TransitInv, ServerReceivesAck
    PROVE  TransitInv'
<1> DEFINE m == Head(toServer)
<1>1. /\ toServer # <<>> /\ toServer' = Tail(toServer) /\ m.ack = 1
      /\ server' = AnswerAcked(server, m)
      /\ UNCHANGED <<toBuggy, link, accepted, chosen, told, rejections,
                     state, target_building, registered>>
  BY DEF ServerReceivesAck, Received, missionVars, stateVars, goalVars
<1>2. RescueTypeOK /\ NothingYet /\ AnswersInv /\ SettledInv
  BY DEF TransitInv
<1>3. /\ \E j \in DOMAIN toServer : m = toServer[j]
      /\ toServer' \in Seq(ToServerMsg)
      /\ \A i \in DOMAIN toServer' :
            \E j \in DOMAIN toServer : toServer'[i] = toServer[j]
  BY <1>1, <1>2, RequestsLeave
<1>4. /\ server' \in ServerType /\ server'.uid = server.uid
      /\ \/ server' = server
         \/ /\ server.pending # None /\ m.uid = server.pending.uid
            /\ server'.pending = None
  BY <1>1, <1>2 DEF AnswerAcked, RescueTypeOK, ServerType
<1> HIDE DEF m
<1>5. RescueTypeOK'
  BY <1>1, <1>2, <1>3, <1>4 DEF RescueTypeOK
<1>6. state' # "INIT"
  BY <1>1, <1>2 DEF NothingYet
<1>7. AnswersInv'
  BY <1>1, <1>2, <1>3, <1>4 DEF AnswersInv, GoodAnswer, Sorted
<1>8. ASSUME Settled' PROVE Settled
  BY <1>1, <1>3, <1>4, <1>8 DEF Settled
<1>9. SettledInv'
  BY <1>1, <1>2, <1>8 DEF SettledInv, Stops
<1> QED BY <1>5, <1>6, <1>7, <1>9 DEF TransitInv, NothingYet

\* A message is lost.
LEMMA LosingKeepsTransit ==
    ASSUME TransitInv, Loses
    PROVE  TransitInv'
<1>1. UNCHANGED <<link, server, accepted, chosen, told, rejections, state,
                  target_building, registered>>
  BY DEF Loses, missionVars, stateVars, goalVars
<1>2. RescueTypeOK /\ NothingYet /\ AnswersInv /\ SettledInv
  BY DEF TransitInv
<1>3. /\ toServer' \in Seq(ToServerMsg) /\ toBuggy' \in Seq(ToBuggyMsg)
      /\ \A i \in DOMAIN toServer' :
            \E j \in DOMAIN toServer : toServer'[i] = toServer[j]
      /\ \A i \in DOMAIN toBuggy' :
            \E j \in DOMAIN toBuggy : toBuggy'[i] = toBuggy[j]
      /\ Sorted(toBuggy')
      /\ toServer # <<>> \/ toBuggy # <<>>
  <2>1. CASE LoseToServer
    BY <1>2, <2>1, RequestsLeave
       DEF LoseToServer, Received, AnswersInv, RescueTypeOK
  <2>2. CASE LoseToBuggy
    BY <1>2, <2>2, AnswersLeave
       DEF LoseToBuggy, Received, AnswersInv, RescueTypeOK
  <2> QED BY <2>1, <2>2 DEF Loses
<1>4. RescueTypeOK'
  BY <1>1, <1>2, <1>3 DEF RescueTypeOK
<1>5. state' # "INIT"
  BY <1>1, <1>2, <1>3 DEF NothingYet
<1>6. AnswersInv'
  BY <1>1, <1>2, <1>3 DEF AnswersInv, GoodAnswer
<1>7. ASSUME Settled' PROVE Settled
  BY <1>1, <1>3, <1>7 DEF Settled
<1>8. SettledInv'
  BY <1>1, <1>2, <1>3, <1>7 DEF SettledInv, Stops
<1> QED BY <1>4, <1>5, <1>6, <1>8 DEF TransitInv, NothingYet

\* The server resends the latest answer, or gives it up.
LEMMA RetryingKeepsTransit ==
    ASSUME TransitInv, ServerRetries
    PROVE  TransitInv'
<1> DEFINE p == server.pending
           b == Message(p.uid, 0, p.msg, AnswerSeq(p.uid))
           step == RetryTargetSend(server)
<1>1. /\ server' = step.server /\ toBuggy' = Publish(toBuggy, step.out)
      /\ UNCHANGED <<toServer, link, accepted, chosen, told, rejections,
                     state, target_building, registered>>
  BY DEF ServerRetries, missionVars, stateVars, goalVars
<1>2. RescueTypeOK /\ NothingYet /\ AnswersInv /\ SettledInv
  BY DEF TransitInv
<1>3. /\ server' \in ServerType
      /\ server'.pending = p /\ server'.uid = server.uid
      /\ \/ step.out = << >>
         \/ p # None /\ step.out = << b >> /\ b \in ToBuggyMsg
  BY <1>1, <1>2, RetryIs DEF RescueTypeOK
<1>4. /\ b.ack = 0 /\ b.uid = p.uid /\ b.msg = p.msg
      /\ b.seq = AnswerSeq(p.uid)
  BY DEF Message
<1>5. p # None => /\ p.msg = told /\ p.uid <= server.uid
                  /\ p.uid \in Nat /\ server.uid \in Nat
  BY <1>2 DEF AnswersInv, RescueTypeOK, ServerType, PendingAnswer
<1> HIDE DEF p, b
<1>6. PICK out \in Seq(ToBuggyMsg) :
         /\ toBuggy' = Publish(toBuggy, out)
         /\ \A j \in DOMAIN out : out[j] = b /\ p # None
         /\ Sorted(out)
  <2>1. CASE step.out = << >>
    <3>1. << >> \in Seq(ToBuggyMsg) /\ DOMAIN << >> = {}
      OBVIOUS
    <3>2. Sorted(<< >>)
      BY <3>1 DEF Sorted
    <3>3. toBuggy' = Publish(toBuggy, << >>)
      BY <1>1, <2>1
    <3> QED BY <3>1, <3>2, <3>3
  <2>2. CASE p # None /\ step.out = << b >> /\ b \in ToBuggyMsg
    <3>1. << b >> \in Seq(ToBuggyMsg) /\ DOMAIN << b >> = {1}
      BY <2>2
    <3>2. \A j \in DOMAIN << b >> : << b >>[j] = b
      OBVIOUS
    <3>3. Sorted(<< b >>)
      <4>1. \A i, j \in {1} : ~(i < j)
        OBVIOUS
      <4> QED BY <3>1, <4>1 DEF Sorted
    <3> QED BY <1>1, <2>2, <3>1, <3>2, <3>3
  <2> QED BY <1>3, <2>1, <2>2
<1>7. /\ toBuggy' \in Seq(ToBuggyMsg)
      /\ \A i \in DOMAIN toBuggy' :
            \/ \E j \in DOMAIN toBuggy : toBuggy'[i] = toBuggy[j]
            \/ toBuggy'[i] = b /\ p # None
  BY <1>2, <1>6, AnswersJoin
<1>8. state' # "INIT" \/ (toBuggy' = toBuggy /\ state' = "INIT")
  <2>1. CASE state = "INIT"
    <3>1. p = None /\ toBuggy = <<>>
      BY <1>2, <2>1 DEF NothingYet, p
    <3>2. \A i \in DOMAIN toBuggy' : FALSE
      BY <1>7, <3>1
    <3>3. \A s \in Seq(ToBuggyMsg) : 1 \notin DOMAIN s => s = <<>>
      OBVIOUS
    <3>4. toBuggy' = <<>>
      BY <1>7, <3>2, <3>3
    <3> QED BY <1>1, <2>1, <3>1, <3>4
  <2> QED BY <1>1, <2>1
<1>9. RescueTypeOK'
  BY <1>1, <1>2, <1>3, <1>7 DEF RescueTypeOK
<1>10. NothingYet'
  BY <1>1, <1>2, <1>3, <1>8 DEF NothingYet, p
<1>11. AnswersInv'
  <2>1. Sorted(toBuggy')
    <3>1. \A i \in DOMAIN toBuggy, j \in DOMAIN out :
             toBuggy[i].ack = 0 /\ out[j].ack = 0
                => toBuggy[i].seq <= out[j].seq
      <4> SUFFICES ASSUME NEW i \in DOMAIN toBuggy, toBuggy[i].ack = 0,
                          NEW j \in DOMAIN out
                   PROVE  toBuggy[i].seq <= out[j].seq
        OBVIOUS
      <4>1. /\ GoodAnswer(toBuggy[i]) /\ toBuggy[i].uid \in Nat
            /\ p # None /\ out[j] = b
        BY <1>2, <1>6, InTransit DEF AnswersInv
      <4>2. /\ toBuggy[i].seq = toBuggy[i].uid - SERVER_UID
            /\ toBuggy[i].uid <= p.uid
            /\ out[j].seq = p.uid - SERVER_UID
        BY <1>4, <4>1 DEF GoodAnswer, AnswerSeq, p
      <4> QED BY <1>5, <4>1, <4>2, ServerAssumption
    <3>2. toBuggy \in Seq(ToBuggyMsg) /\ Sorted(toBuggy)
      BY <1>2 DEF AnswersInv, RescueTypeOK
    <3>3. Sorted(Publish(toBuggy, out))
      BY <1>6, <3>1, <3>2, PublishKeepsOrder
    <3> QED BY <1>6, <3>3
  <2>2. \A i \in DOMAIN toBuggy' : GoodAnswer(toBuggy'[i])
    <3>1. p # None => GoodAnswer(b)
      BY <1>4, <1>5 DEF GoodAnswer, p
    <3> QED BY <1>2, <1>7, <3>1 DEF AnswersInv
  <2> QED BY <1>1, <1>2, <1>3, <2>1, <2>2 DEF AnswersInv, GoodAnswer, p
<1>12. ASSUME Settled' PROVE Settled
  BY <1>1, <1>3, <1>12 DEF Settled, p
<1>13. SettledInv'
  BY <1>1, <1>2, <1>4, <1>5, <1>7, <1>12 DEF SettledInv, Stops
<1> QED BY <1>9, <1>10, <1>11, <1>13 DEF TransitInv

\* The server answers a request, or acknowledges a repeated one.
LEMMA AnsweringKeepsTransit ==
    ASSUME TransitInv, NEW rejected \in BOOLEAN, ServerReceivesRequest(rejected)
    PROVE  TransitInv'
<1> DEFINE m      == Head(toServer)
           answer == IF rejected THEN "INVALID" ELSE NextTarget(m.msg)
           step   == Request(server, m, answer)
           u      == server.uid + 1
           a      == Message(m.uid, 1, None, m.seq)
           b      == Message(u, 0, answer, AnswerSeq(u))
           isNew  == Len(step.out) > 1
<1>1. /\ toServer # <<>> /\ toServer' = Tail(toServer) /\ m.ack = 0
      /\ toBuggy' = Publish(toBuggy, step.out)
      /\ server' = step.server
      /\ accepted' \in {accepted, accepted + 1}
      /\ chosen' = IF isNew /\ answer \in Hospitals THEN answer ELSE chosen
      /\ told' = IF isNew THEN answer ELSE told
      /\ rejections' \in {rejections, rejections + 1}
      /\ UNCHANGED <<link, state, target_building, registered>>
  BY DEF ServerReceivesRequest, Received, missionVars, stateVars, goalVars
<1>2. RescueTypeOK /\ NothingYet /\ AnswersInv /\ SettledInv
  BY DEF TransitInv
<1>3. /\ m \in RequestMsg
      /\ toServer' \in Seq(ToServerMsg)
      /\ \A i \in DOMAIN toServer' :
            \E j \in DOMAIN toServer : toServer'[i] = toServer[j]
  BY <1>1, <1>2, RequestsLeave, InTransit
<1>4. answer \in Answers
  <2>1. m.msg \in Texts
    BY <1>3 DEF RequestMsg
  <2> QED BY <2>1, TextsAreAnswered DEF Answers
<1>5. server \in ServerType /\ u \in Nat /\ server.uid \in Nat
  BY <1>2 DEF RescueTypeOK, ServerType
<1>6. /\ a \in ToBuggyMsg /\ a.ack = 1
      /\ b.ack = 0 /\ b.uid = u /\ b.msg = answer /\ b.seq = AnswerSeq(u)
  <2>1. a \in ToBuggyMsg
    BY <1>3, <1>4, <1>5, RequestIs
  <2> QED BY <2>1 DEF Message
<1>7. server' \in ServerType
  BY <1>1, <1>3, <1>4, <1>5, RequestIs
<1>8. \/ /\ step.out = << a >>
         /\ server'.pending = server.pending
         /\ server'.uid \in {server.uid, u}
      \/ /\ step.out = << a, b >>
         /\ b \in ToBuggyMsg
         /\ server'.pending = [uid |-> u, msg |-> answer]
         /\ server'.uid = u
  BY <1>1, <1>3, <1>4, <1>5, RequestIs
<1>9. state' # "INIT"
  BY <1>1, <1>2 DEF NothingYet
<1>10. toBuggy \in Seq(ToBuggyMsg) /\ Sorted(toBuggy)
  BY <1>2 DEF AnswersInv, RescueTypeOK
<1>11. /\ accepted' \in Nat /\ rejections' \in Nat
       /\ chosen' \in Hospitals \cup {None} /\ told' \in Answers \cup {None}
  BY <1>1, <1>2, <1>4 DEF RescueTypeOK
<1>12. CASE /\ step.out = << a >>
            /\ server'.pending = server.pending
            /\ server'.uid \in {server.uid, u}
  <2> DEFINE out == << a >>
  <2>1. /\ out \in Seq(ToBuggyMsg) /\ Len(out) = 1
        /\ \A j \in DOMAIN out : out[j] = a
    BY <1>6
  <2> HIDE DEF out, step, a
  <2>2. told' = told /\ toBuggy' = Publish(toBuggy, out)
    BY <1>1, <1>12, <2>1 DEF out
  <2>3. /\ toBuggy' \in Seq(ToBuggyMsg)
        /\ \A i \in DOMAIN toBuggy' :
              \/ \E j \in DOMAIN toBuggy : toBuggy'[i] = toBuggy[j]
              \/ toBuggy'[i] = a
    BY <1>2, <2>1, <2>2, AnswersJoin
  <2>4. Sorted(toBuggy')
    BY <1>6, <1>10, <2>1, <2>2, PublishKeepsOrder DEF Sorted
  <2>5. RescueTypeOK'
    BY <1>1, <1>2, <1>3, <1>7, <1>11, <2>3 DEF RescueTypeOK
  <2> HIDE DEF u
  <2>6. AnswersInv'
    <3>1. \A i \in DOMAIN toBuggy' : GoodAnswer(toBuggy'[i])
      BY <1>2, <1>6, <2>3 DEF AnswersInv, GoodAnswer
    <3>2. server.uid <= server'.uid /\ server'.uid \in Nat
      BY <1>5, <1>12 DEF u
    <3>3. \A i \in DOMAIN toBuggy' : toBuggy'[i].ack = 0 =>
             toBuggy'[i].uid \in Nat /\ toBuggy'[i].uid <= server'.uid
      <4>1. \A i \in DOMAIN toBuggy' : toBuggy'[i].uid \in Nat
        <5>1. \A i \in DOMAIN toBuggy' : toBuggy'[i] \in ToBuggyMsg
          BY <2>3
        <5> QED BY <5>1 DEF ToBuggyMsg, AnswerMsg, AckMsg
      <4> QED BY <1>5, <3>1, <3>2, <4>1 DEF GoodAnswer
    <3>4. \A i \in DOMAIN toServer' : toServer'[i].ack = 1 =>
             toServer'[i].uid <= server'.uid
      BY <1>2, <1>3, <1>5, <3>2, InTransit DEF AnswersInv
    <3>5. server.pending # None =>
             server.pending.msg = told /\ server.pending.uid <= server'.uid
      <4>1. server.pending # None => server.pending.uid \in Nat
        BY <1>5 DEF ServerType, PendingAnswer
      <4> QED BY <1>2, <1>5, <3>2, <4>1 DEF AnswersInv
    <3> QED
      BY <1>12, <2>2, <2>4, <3>1, <3>3, <3>4, <3>5 DEF AnswersInv, GoodAnswer
  <2>7. ASSUME Settled' PROVE Settled
    BY <1>3, <1>12, <2>2, <2>7 DEF Settled
  <2>8. SettledInv'
    BY <1>1, <1>2, <1>6, <2>2, <2>3, <2>7 DEF SettledInv, Stops
  <2> QED BY <1>9, <2>5, <2>6, <2>8 DEF TransitInv, NothingYet
<1>13. CASE /\ step.out = << a, b >>
            /\ b \in ToBuggyMsg
            /\ server'.pending = [uid |-> u, msg |-> answer]
            /\ server'.uid = u
  <2> DEFINE out == << a, b >>
  <2>1. /\ out \in Seq(ToBuggyMsg) /\ Len(out) = 2
        /\ DOMAIN out = {1, 2} /\ out[1] = a /\ out[2] = b
    BY <1>6, <1>13
  <2> HIDE DEF out, step, a, b
  <2>2. told' = answer /\ toBuggy' = Publish(toBuggy, out)
    BY <1>1, <1>13, <2>1 DEF out
  <2>3. \A j \in DOMAIN out : out[j] = a \/ out[j] = b
    BY <2>1
  <2>4. /\ toBuggy' \in Seq(ToBuggyMsg)
        /\ \A i \in DOMAIN toBuggy' :
              \/ \E j \in DOMAIN toBuggy : toBuggy'[i] = toBuggy[j]
              \/ toBuggy'[i] = a \/ toBuggy'[i] = b
    BY <1>2, <2>1, <2>2, <2>3, AnswersJoin
  <2>5. server'.pending # None /\ server'.pending.uid = u
        /\ server'.pending.msg = told'
    <3>1. server'.pending \in PendingAnswer
      BY <1>4, <1>5, <1>13 DEF PendingAnswer
    <3> QED BY <1>13, <2>2, <3>1, WordsApart
  <2>6. RescueTypeOK'
    BY <1>1, <1>2, <1>3, <1>7, <1>11, <2>4 DEF RescueTypeOK
  <2> HIDE DEF answer
  <2>7. Sorted(toBuggy')
    <3>1. \A i \in DOMAIN toBuggy, j \in DOMAIN out :
             toBuggy[i].ack = 0 /\ out[j].ack = 0
                => toBuggy[i].seq <= out[j].seq
      <4> SUFFICES ASSUME NEW i \in DOMAIN toBuggy, toBuggy[i].ack = 0
                   PROVE  toBuggy[i].seq <= b.seq
        BY <1>6, <2>3
      <4>1. GoodAnswer(toBuggy[i]) /\ toBuggy[i].uid \in Nat
        BY <1>2, InTransit DEF AnswersInv
      <4> QED BY <1>5, <1>6, <4>1, ServerAssumption DEF GoodAnswer, AnswerSeq
    <3>2. Sorted(out)
      BY <1>6, <2>1 DEF Sorted
    <3> QED BY <1>10, <2>1, <2>2, <3>1, <3>2, PublishKeepsOrder
  <2>8. AnswersInv'
    <3>1. \A i \in DOMAIN toBuggy' : toBuggy'[i].ack = 0 =>
             \/ toBuggy'[i] = b
             \/ /\ toBuggy'[i].uid \in Nat /\ toBuggy'[i].uid <= server.uid
                /\ toBuggy'[i].seq = AnswerSeq(toBuggy'[i].uid)
      BY <1>2, <1>6, <2>4, InTransit DEF AnswersInv, GoodAnswer
    <3>2. \A i \in DOMAIN toBuggy' : toBuggy'[i].ack = 0 =>
             /\ toBuggy'[i].uid <= u
             /\ toBuggy'[i].seq = AnswerSeq(toBuggy'[i].uid)
             /\ toBuggy'[i].uid = u => toBuggy'[i].msg = told'
      BY <1>5, <1>6, <2>2, <3>1
    <3>3. \A i \in DOMAIN toServer' :
             toServer'[i].ack = 1 => toServer'[i].uid <= u
      BY <1>2, <1>3, <1>5, InTransit DEF AnswersInv
    <3>4. u <= u
      BY <1>5
    <3> HIDE DEF u
    <3> QED
      BY <1>13, <2>5, <2>7, <3>2, <3>3, <3>4 DEF AnswersInv, GoodAnswer
  <2>9. ~Settled'
    <3>1. \A j \in DOMAIN toServer : toServer[j].ack = 1 => toServer[j].uid # u
      BY <1>2, <1>5, InTransit DEF AnswersInv
    <3> QED BY <1>3, <2>5, <3>1 DEF Settled
  <2> QED BY <1>9, <2>6, <2>8, <2>9 DEF TransitInv, NothingYet, SettledInv
<1> QED BY <1>8, <1>12, <1>13

\* The mission and what is in transit begin, and go on, together.
LEMMA TransitBegins == Init => TransitInv
<1> SUFFICES ASSUME Init PROVE TransitInv
  OBVIOUS
<1> USE DEF Init, TopicInit, MissionInit, InitLink, InitServer
<1>1. \A S : << >> \in Seq(S) /\ DOMAIN << >> = {}
  OBVIOUS
<1>2. RescueTypeOK
  <2>1. link \in LinkType
    BY DEF LinkType
  <2>2. server \in ServerType
    BY ServerAssumption DEF ServerType
  <2> QED BY <1>1, <2>1, <2>2 DEF RescueTypeOK
<1>3. NothingYet /\ AnswersInv /\ SettledInv
  BY <1>1 DEF NothingYet, AnswersInv, SettledInv, Settled, Sorted
<1> QED BY <1>2, <1>3 DEF TransitInv

LEMMA BuggyKeepsTransit ==
    ASSUME TransitInv, MissionInv, Buggy
    PROVE  TransitInv'
<1>1. RescueTypeOK /\ link \in LinkType
  BY DEF TransitInv, RescueTypeOK
<1>2. MissionNext /\ UNCHANGED serverVars
  BY DEF Buggy
<1>3. ASSUME NEW due \in BOOLEAN, ControlLoop(Tick(link, due))
      PROVE  TransitInv'
  <2>1. Ticked(Tick(link, due))
    BY <1>1, TickIs
  <2> QED
    BY <1>1, <1>2, <1>3, <2>1, ControlLoopTransmits, SendingKeepsTransit
<1>4. CASE ServerCallback
  <2>1. state # "INIT"
    <3>1. toBuggy # <<>>
      BY <1>4 DEF ServerCallback, HearsNothingNew, RetriesFormat,
             DeliveryRejected, RegistrationRejected, ResumesSearch,
             ZoneRejected, CompletesDeliveries, ParkingConfirmed,
             HospitalAssigned, NextPatient, Hears, Received
    <3> QED BY <3>1 DEF TransitInv, NothingYet
  <2> QED
    BY <1>1, <1>2, <1>4, <2>1, ServerCallbackListens, ListeningKeepsTransit
<1>5. CASE (\E text \in Codes : ReadsQr(text)) \/ QrAges \/ WaitExpires
              \/ ParkingClock
  <2>1. UNCHANGED <<toServer, toBuggy, link, server, accepted, chosen, told,
                    rejections, state, target_building, registered>>
    BY <1>2, <1>5, SurroundingsLeave DEF topicVars, goalVars, serverVars
  <2> QED
    BY <2>1 DEF TransitInv, RescueTypeOK, NothingYet, AnswersInv, GoodAnswer,
                Sorted, SettledInv, Settled
<1> QED BY <1>2, <1>3, <1>4, <1>5 DEF MissionNext

LEMMA NextKeepsTransit ==
    TransitInv /\ MissionInv /\ [Next]_vars => TransitInv'
<1> SUFFICES ASSUME TransitInv, MissionInv, [Next]_vars PROVE TransitInv'
  OBVIOUS
<1>1. CASE UNCHANGED vars
  BY <1>1
     DEF vars, topicVars, missionVars, stateVars, goalVars, serverVars,
         TransitInv, RescueTypeOK, NothingYet, AnswersInv, GoodAnswer, Sorted,
         SettledInv, Settled
<1> QED
  BY <1>1, BuggyKeepsTransit, ServerReceivesAckKeepsTransit,
     AnsweringKeepsTransit, RetryingKeepsTransit, LosingKeepsTransit
     DEF Next

\* The messages in transit, the two ends of the link and the server's history
\* keep their shape, in every mission.
THEOREM RescueTransit == Spec => [](MissionInv /\ TransitInv)
<1>1. Spec => []MissionInv
  BY RescueImplementsMission, MissionInvariance, PTL
<1> QED BY <1>1, TransitBegins, NextKeepsTransit, PTL DEF Spec

\* Once the server has its latest answer acknowledged, the buggy heads for
\* the building it named: no answer heard late or twice undoes it, with any
\* pairings, zones, losses and retransmissions
\* (server_communication_callback, server_comm_callback).
THEOREM BuggyAgreesWithServer == Spec => []AgreesWithServer
<1>1. TransitInv => AgreesWithServer
  BY WordsApart
     DEF TransitInv, SettledInv, Settled, AgreesWithServer, Stops, Answers
<1> QED BY <1>1, RescueTransit, PTL

-----------------------------------------------------------------------------
(***************************************************************************)
(* The tour.  With pairings that are a tour, and as long as no zone was    *)
(* rejected, buggy and server are never more than one instruction apart:   *)
(* everything under way says either what the buggy was last told, or what  *)
(* comes next, and nothing that says the former follows the latter.        *)
(***************************************************************************)
\* What it is told next.
Onward == IF Instruction \in Stops THEN Route[Instruction] ELSE "OK"

\* The patients visited so far: each is the one being visited, or its
\* hospital is, or the patient after that is visited too.
Visited ==
    /\ FIRST_PATIENT \in registered \cup {Instruction}
    /\ \A p \in registered :
          \/ p = Instruction
          \/ Route[p] = Instruction
          \/ Route[Route[p]] \in registered \cup {Instruction, "OK"}

\* Where the mission stands on its tour.
GoalInv ==
    /\ payload_index = 1
    /\ state = "INIT" => target_building = None
    /\ pending_delivery # None => Instruction = pending_delivery
    /\ target_building = None =>
          /\ assigned_hospital = None
          /\ approach_target \notin Patients
          /\ state # "INIT" => Patients \subseteq registered
          /\ state \notin Waiting
    /\ "SEEK_EXIT" \in {state, recovery_return_state} => target_building = None
    /\ recovery_return_state # "DONE"
    /\ Instruction \in Stops => Visited

\* The buggy has transmitted where it was told to go.
Reported ==
    /\ Instruction \in Patients => Instruction \in registered
    /\ Instruction \in Stops => last_tx_building = Instruction

\* A request with this text repeats the instruction or asks for the next.
Leads(text) ==
    /\ NextTarget(text) \in {Instruction, Onward}
    /\ NextTarget(text) = Onward => Reported
    /\ text.building = "PARKED" => Instruction = "OK"

OnwardTexts == {text \in Texts : NextTarget(text) = Onward}

\* What is on its way to the server.
RequestsLead ==
    /\ \A i \in DOMAIN toServer : toServer[i].ack = 0 =>
          /\ Leads(toServer[i].msg)
          /\ told = Onward => NextTarget(toServer[i].msg) = Onward
          /\ NextTarget(toServer[i].msg) = Onward /\ link.pending # None
                => NextTarget(link.pending.text) = Onward
    /\ Final(toServer, OnwardTexts)
    /\ link.pending # None =>
          /\ Leads(link.pending.text)
          /\ told = Onward => NextTarget(link.pending.text) = Onward

\* What is on its way to the buggy.
AnswersLead ==
    /\ told \in {None, Instruction, Onward}
    /\ told = Onward => Reported
    /\ \A i \in DOMAIN toBuggy : toBuggy[i].ack = 0 =>
          /\ toBuggy[i].msg \in {Instruction, Onward}
          /\ toBuggy[i].msg = Onward => told = Onward
    /\ Final(toBuggy, {Onward})

\* What the server has booked: a hospital that is on its way out has been
\* accepted once more than was delivered.
BooksInv ==
    /\ Instruction \in Hospitals => chosen = Instruction
    /\ told \in Hospitals => chosen = told
    /\ delivered <= accepted
    /\ Instruction \in Hospitals /\ told = Onward => delivered < accepted

TourInv ==
    RouteIsTour /\ (rejections = 0 =>
        GoalInv /\ RequestsLead /\ AnswersLead /\ BooksInv)

-----------------------------------------------------------------------------
LEMMA InstructionIs ==
    ASSUME RouteIsTour, MissionInv
    PROVE  /\ Instruction \in Stops \cup {"OK"} /\ Onward \in Stops \cup {"OK"}
           /\ Instruction \in Stops =>
                 /\ Onward = Route[Instruction] /\ Onward # Instruction
                 /\ target_building = Instruction /\ state # "DONE"
           /\ Instruction \in Patients => Onward \in Hospitals
           /\ Instruction \in Hospitals => Onward \in Patients \cup {"OK"}
           /\ Instruction = "OK" => Onward = "OK"
           /\ (Instruction = "OK") <=> (target_building = None \/ state = "DONE")
<1>1. target_building \in Stops \cup {None}
  BY DEF MissionInv, MissionTypeOK, Stops
<1>2. "OK" \notin Stops /\ None \notin Stops /\ Patients \cap Hospitals = {}
  BY WordsApart DEF Answers
<1>3. \A p \in Patients : Route[p] \in Hospitals
  BY DEF RouteIsTour
<1>4. \A h \in Hospitals : Route[h] \in Patients \cup {"OK"}
  BY DEF RouteIsTour
<1> QED BY <1>1, <1>2, <1>3, <1>4 DEF Instruction, Onward, Stops

\* A tour leaves no patient out: once its last hospital is reached every
\* patient has been visited.
LEMMA TourIsComplete ==
    ASSUME RouteIsTour, registered \subseteq Patients, Visited,
           Instruction \in Hospitals, Onward = "OK"
    PROVE  Patients \subseteq registered
<1> DEFINE stops == registered \cup {Route[p] : p \in registered}
<1>1. /\ \A p \in Patients : Route[p] \in Hospitals
      /\ \A h \in Hospitals : Route[h] \in Patients \cup {"OK"}
  BY DEF RouteIsTour
<1>2. "OK" \notin Stops /\ Patients \cap Hospitals = {} /\ FIRST_PATIENT \in Patients
  BY WordsApart DEF Answers
<1>3. stops \in SUBSET (Patients \cup Hospitals)
  BY <1>1
<1>4. FIRST_PATIENT \in stops
  BY <1>2 DEF Visited
<1>5. Route[Instruction] = "OK"
  BY DEF Onward, Stops
<1>6. \A b \in stops : Route[b] \in Patients \cup Hospitals => Route[b] \in stops
  <2> SUFFICES ASSUME NEW b \in stops, Route[b] \in Stops
               PROVE  Route[b] \in stops
    BY DEF Stops
  <2>1. CASE b \in registered
    BY <2>1
  <2>2. CASE b \notin registered
    <3>1. PICK p \in registered : b = Route[p]
      BY <2>2
    <3>2. p # Instruction /\ Route[p] # Instruction
      BY <1>2, <1>5, <3>1
    <3>3. Route[Route[p]] \in registered \cup {Instruction, "OK"}
      BY <3>1, <3>2 DEF Visited
    <3>4. Route[Route[p]] \in Patients \cup {"OK"}
      BY <1>1, <3>1
    <3> QED BY <1>2, <3>1, <3>3, <3>4
  <2> QED BY <2>1, <2>2
<1>7. Patients \subseteq stops
  BY <1>3, <1>4, <1>6 DEF RouteIsTour
<1> QED BY <1>1, <1>2, <1>7

\* A step that leaves target and bookings alone, and finishes nothing, leaves
\* the mission where it stands.
LEMMA QuietKeepsGoal ==
    ASSUME GoalInv, UNCHANGED goalVars, payload_index' = payload_index,
           state # "INIT", state' # "INIT",
           state' = "DONE" <=> state = "DONE",
           recovery_return_state' # "DONE",
           "SEEK_EXIT" \in {state', recovery_return_state'}
              => target_building = None,
           target_building = None =>
              state' \notin Waiting /\ approach_target' \notin Patients
    PROVE  GoalInv' /\ Instruction' = Instruction
<1>1. Instruction' = Instruction
  BY DEF Instruction, goalVars
<1>2. UNCHANGED <<target_building, assigned_hospital, pending_delivery,
                  registered>>
  BY DEF goalVars
<1>3. (Instruction \in Stops => Visited)'
  BY <1>1, <1>2 DEF GoalInv, Visited, Stops
<1> QED BY <1>1, <1>2, <1>3 DEF GoalInv

\* A branch of control_loop as the tour sees it: the mission starts, nothing
\* new is sent, or what is sent asks for the next instruction.
Aims ==
    \/ state = "INIT" /\ Resends /\ Instruction' \in Patients
    \/ Instruction' = Instruction /\ Resends
    \/ Instruction' = Instruction /\ \E text \in Texts :
          /\ Asks(text)
          /\ NextTarget(text) = Onward
          /\ Reported'
          /\ text.building = "PARKED" => Instruction = "OK"

\* The mission starts with FIRST_PATIENT; later a branch leaves the instruction
\* as it is, and the building it transmits, if any, is the one instructed.
Calls ==
    /\ Instruction' = IF state = "INIT" THEN FIRST_PATIENT ELSE Instruction
    /\ \/ last_tx_building' = last_tx_building
       \/ /\ Instruction \in Stops /\ Instruction' = Instruction
          /\ last_tx_building' = Instruction

LEMMA ControlLoopAims ==
    ASSUME RouteIsTour, GoalInv, MissionInv, NothingYet,
           NEW t, Ticked(t), ControlLoop(t)
    PROVE  /\ GoalInv' /\ Aims /\ Calls
           /\ delivered' = delivered
           /\ Instruction' = Instruction /\ Reported => Reported'
<1> DEFINE Goal == /\ GoalInv' /\ Aims /\ Calls
                   /\ delivered' = delivered
                   /\ Instruction' = Instruction /\ Reported => Reported'
<1> SUFFICES Goal
  OBVIOUS
<1>1. /\ Instruction \in Stops \cup {"OK"} /\ Onward \in Stops \cup {"OK"}
      /\ Instruction \in Stops =>
            /\ Onward = Route[Instruction]
            /\ target_building = Instruction /\ state # "DONE"
      /\ Instruction = "OK" => Onward = "OK"
      /\ (Instruction = "OK") <=> (target_building = None \/ state = "DONE")
  BY InstructionIs
<1>2. /\ state = "INIT" => speed = "stop" /\ approach_target = None
                           /\ registered = {}
      /\ recovery_return_state \notin Waiting \cup {"INIT"}
      /\ Resume \in {"SEEK_HOSPITAL", "SEEK_PATIENT"}
      /\ approach_target \in Stops \cup {None}
      /\ target_building \in Stops \cup {None}
      /\ pending_delivery \in Hospitals \cup {None}
      /\ approach_target # None /\ target_building # None
            => approach_target = target_building
      /\ state = "AT_BUILDING" =>
            arrival_building # None /\ arrival_building = approach_target
  BY ResumeSeeks
     DEF MissionInv, NotBegun, ReturnsToMotion, MissionTypeOK, Stops,
         ApproachIsForTarget, ArrivalIsCommitted, NothingYet
<1>3. "OK" \notin Stops /\ None \notin Stops /\ FIRST_PATIENT \in Patients
      /\ Patients \cap Hospitals = {} /\ Patients \cup Hospitals = Stops
      /\ "PARKED" \notin Stops
  BY WordsApart DEF Answers, Stops
<1>4. ASSUME Emit(<< >>, t), toBuggy' = toBuggy, UNCHANGED goalVars,
             payload_index' = payload_index,
             last_tx_building' = last_tx_building,
             state # "INIT", state' # "INIT",
             state' = "DONE" <=> state = "DONE",
             recovery_return_state' # "DONE",
             "SEEK_EXIT" \in {state', recovery_return_state'}
                => target_building = None,
             target_building = None =>
                state' \notin Waiting /\ approach_target' \notin Patients
      PROVE  Goal
  <2>1. Resends
    BY <1>4, EmitResends
  <2> QED BY <1>4, <2>1, QuietKeepsGoal DEF Aims, Calls, goalVars, Reported
<1>5. CASE EntersRecovery(t)
  BY <1>2, <1>4, <1>5
     DEF EntersRecovery, SetState, GoalInv, Waiting, formatVars, approachVars
<1>6. CASE Recovers(t)
  BY <1>4, <1>6 DEF Recovers, GoalInv, stateVars, formatVars, approachVars
<1>7. CASE FinishesRecovery(t)
  BY <1>2, <1>4, <1>7, NoneIsNothing
     DEF FinishesRecovery, SetState, GoalInv, Waiting, formatVars,
         approachVars, State
<1>8. CASE Starts(t)
  <2>1. /\ target_building' = FIRST_PATIENT /\ state' = "SEEK_PATIENT"
        /\ recovery_return_state' = None /\ state = "INIT"
        /\ UNCHANGED <<assigned_hospital, pending_delivery, delivered,
                       registered, payload_index, last_tx_building>>
        /\ Resends
    BY <1>8, EmitResends DEF Starts, SetState, formatVars
  <2>2. Instruction' = FIRST_PATIENT
    BY <1>3, <2>1 DEF Instruction, Stops
  <2>3. target_building = None /\ pending_delivery = None
    BY <1>1, <1>2, <1>3, <2>1 DEF GoalInv
  <2>4. GoalInv'
    <3>1. Visited'
      BY <1>2, <2>1, <2>2 DEF Visited
    <3>2. target_building' # None
      BY <1>3, <2>1 DEF Stops
    <3> QED
      BY <2>1, <2>2, <2>3, <3>1, <3>2, NoneIsNothing DEF GoalInv, State
  <2> QED BY <2>1, <2>2, <2>4, <1>3 DEF Aims, Calls, Reported
<1>9. CASE Seeks(t)
  <2>1. PICK after \in {state, "AT_BUILDING"} :
           DriveSeeking(after) /\ SetState(after)
    BY <1>9 DEF Seeks
  <2>2. /\ state \in {"SEEK_PATIENT", "SEEK_HOSPITAL"}
        /\ Emit(<< >>, t) /\ toBuggy' = toBuggy
        /\ UNCHANGED goalVars /\ payload_index' = payload_index
        /\ last_tx_building' = last_tx_building
    BY <1>9 DEF Seeks, formatVars
  <2>3. target_building = None => approach_target' \notin Patients
    <3> SUFFICES ASSUME target_building = None
                 PROVE  approach_target' \notin Patients
      OBVIOUS
    <3>1. EffectiveTarget \notin Patients
      BY <1>3, <2>2 DEF EffectiveTarget, GoalInv, Stops
    <3>2. approach_target \notin Patients /\ None \notin Patients
      BY <1>3 DEF GoalInv, Stops
    <3> QED BY <2>1, <3>1, <3>2 DEF DriveSeeking, Cruises, BeginsApproach,
               FreshOnTarget, AbandonsApproach, Arrives, CancelApproach,
               approachVars
  <2>4. /\ state' \in {"SEEK_PATIENT", "SEEK_HOSPITAL", "AT_BUILDING"}
        /\ recovery_return_state' = None
    BY <2>1, <2>2 DEF SetState
  <2> QED BY <1>4, <2>2, <2>3, <2>4, NoneIsNothing DEF Waiting, State
<1>10. CASE SeeksExit(t)
  <2>1. PICK after \in {state, "AT_BUILDING"} :
           /\ DriveSeeking(after)
           /\ SetState(IF park = "closed" THEN "DONE" ELSE after)
    BY <1>10 DEF SeeksExit
  <2>2. /\ state = "SEEK_EXIT" /\ target_building = None
        /\ EmitSend(t, ParkedText) \/ Emit(<< >>, t)
        /\ toBuggy' = toBuggy
        /\ UNCHANGED goalVars /\ payload_index' = payload_index
        /\ last_tx_building' = last_tx_building
    BY <1>10 DEF SeeksExit, formatVars, GoalInv
  <2>3. approach_target' \notin Patients
    <3>1. EffectiveTarget \notin Patients
      BY <1>3, <2>2 DEF EffectiveTarget, GoalInv, Parking, Stops
    <3>2. approach_target \notin Patients /\ None \notin Patients
      BY <1>3, <2>2 DEF GoalInv, Stops
    <3> QED BY <2>1, <3>1, <3>2 DEF DriveSeeking, Cruises, BeginsApproach,
               FreshOnTarget, AbandonsApproach, Arrives, CancelApproach,
               approachVars
  <2>4. /\ state' \in {"SEEK_EXIT", "DONE", "AT_BUILDING"}
        /\ recovery_return_state' = None
    BY <2>1, <2>2 DEF SetState
  <2>5. Instruction = "OK" /\ Instruction' = "OK"
    BY <2>2 DEF Instruction, goalVars
  <2>6. GoalInv'
    <3>1. UNCHANGED <<target_building, assigned_hospital, pending_delivery,
                      registered>>
      BY <2>2 DEF goalVars
    <3>2. (Instruction \in Stops => Visited)'
      BY <1>3, <2>5 DEF Stops
    <3> QED BY <2>2, <2>3, <2>4, <2>5, <3>1, <3>2, NoneIsNothing
            DEF GoalInv, Waiting, State
  <2>7. CASE Emit(<< >>, t)
    BY <2>2, <2>5, <2>6, <2>7, EmitResends DEF Aims, Calls, goalVars, Reported
  <2>8. CASE EmitSend(t, ParkedText)
    <3>1. /\ ParkedText \in Texts /\ NextTarget(ParkedText) = "OK"
          /\ ParkedText.building = "PARKED"
      BY DEF ParkedText, Texts, NextTarget
    <3>2. Asks(ParkedText)
      BY <2>2, <2>8, <3>1, EmitSendAsks
    <3>3. Reported'
      BY <1>3, <2>5 DEF Reported, Stops
    <3> QED BY <1>1, <2>2, <2>5, <2>6, <3>1, <3>2, <3>3 DEF Aims, Calls, goalVars
  <2> QED BY <2>2, <2>7, <2>8
<1>11. CASE StaysStopped(t)
  BY <1>4, <1>11
     DEF StaysStopped, GoalInv, stateVars, formatVars, approachVars
<1>12. CASE BacksOut(t)
  BY <1>2, <1>3, <1>4, <1>12, NoneIsNothing
     DEF BacksOut, AtBuilding, SetState, Waiting, formatVars, State, Stops
\* What is transmitted is the target, and asks for what comes after it.
<1>13. ASSUME NEW b \in Stops, b = target_building, state # "DONE",
              state # "INIT", toBuggy' = toBuggy,
              EmitSend(t, Text(payload_index, b)), Instruction' = Instruction,
              Reported'
       PROVE  Aims
  <2>1. b = Instruction /\ Onward = Route[b]
    BY <1>1, <1>3, <1>13 DEF Instruction
  <2>2. /\ Text(payload_index, b) \in Texts
        /\ NextTarget(Text(payload_index, b)) = Route[b]
        /\ Text(payload_index, b).building = b
    <3>1. Text(payload_index, b) = [format |-> "CODE", building |-> b]
      BY DEF Text, GoalInv, PAYLOAD_FORMATS
    <3> QED BY <1>3, <3>1 DEF Texts, NextTarget
  <2> QED BY <1>3, <1>13, <2>1, <2>2, EmitSendAsks DEF Aims
<1>14. CASE RegistersPatient(t)
  <2>1. /\ state = "AT_BUILDING" /\ ArrivedAt \in Patients
        /\ EmitSend(t, Text(payload_index, ArrivedAt))
        /\ registered' = registered \cup {ArrivedAt}
        /\ state' = "WAIT_ASSIGNMENT" /\ recovery_return_state' = None
        /\ last_tx_building' = ArrivedAt
        /\ toBuggy' = toBuggy
        /\ UNCHANGED <<target_building, assigned_hospital, pending_delivery,
                       delivered, payload_index>>
    BY <1>14 DEF RegistersPatient, AtBuilding, Transmits, SetState
  <2>2. ArrivedAt = approach_target
    BY <1>2, <2>1 DEF ArrivedAt
  <2>3. ArrivedAt = target_building /\ target_building # None
    BY <1>2, <1>3, <2>1, <2>2 DEF GoalInv, Stops
  <2>4. Instruction = target_building /\ Instruction' = Instruction
    BY <2>1, <2>3 DEF Instruction
  <2>5. Visited'
    BY <1>3, <2>1, <2>3, <2>4 DEF GoalInv, Visited, Stops
  <2>6. GoalInv'
    BY <2>1, <2>3, <2>4, <2>5, NoneIsNothing DEF GoalInv, State
  <2>7. Reported'
    BY <1>3, <2>1, <2>3, <2>4 DEF Reported
  <2>8. Aims
    BY <1>3, <1>13, <2>1, <2>3, <2>4, <2>7 DEF Stops
  <2>9. Calls
    BY <1>3, <2>1, <2>3, <2>4 DEF Calls, Stops
  <2> QED BY <2>1, <2>6, <2>7, <2>8, <2>9
<1>15. CASE DeliversToHospital(t)
  <2>1. /\ state = "AT_BUILDING" /\ ArrivedAt \in Hospitals
        /\ ArrivedAt = assigned_hospital
        /\ EmitSend(t, Text(payload_index, ArrivedAt))
        /\ pending_delivery' = ArrivedAt
        /\ state' = "WAIT_NEXT" /\ recovery_return_state' = None
        /\ last_tx_building' = ArrivedAt
        /\ toBuggy' = toBuggy
        /\ UNCHANGED <<target_building, assigned_hospital, registered,
                       delivered, payload_index>>
    BY <1>15 DEF DeliversToHospital, AtBuilding, Transmits, SetState
  <2>2. ArrivedAt = approach_target
    BY <1>2, <2>1 DEF ArrivedAt
  <2>3. ArrivedAt = target_building /\ target_building # None
    BY <1>2, <1>3, <2>1, <2>2 DEF GoalInv, Stops
  <2>4. Instruction = target_building /\ Instruction' = Instruction
    BY <2>1, <2>3 DEF Instruction
  <2>5. Visited'
    BY <1>3, <2>1, <2>3, <2>4 DEF GoalInv, Visited, Stops
  <2>6. GoalInv'
    BY <2>1, <2>3, <2>4, <2>5, NoneIsNothing DEF GoalInv, State
  <2>7. Reported'
    BY <1>3, <2>1, <2>3, <2>4 DEF Reported
  <2>8. Aims
    BY <1>3, <1>13, <2>1, <2>3, <2>4, <2>7 DEF Stops
  <2>9. Calls
    BY <1>3, <2>1, <2>3, <2>4 DEF Calls, Stops
  <2> QED BY <2>1, <2>6, <2>7, <2>8, <2>9
<1>16. CASE SkipsBuilding(t)
  BY <1>4, <1>16, NoneIsNothing
     DEF SkipsBuilding, AtBuilding, SetState, Waiting, formatVars, State,
         GoalInv
<1>17. CASE Waits(t)
  BY <1>4, <1>17
     DEF Waits, GoalInv, Waiting, stateVars, formatVars, approachVars
<1>18. CASE GivesUpAssignment(t)
  BY <1>4, <1>18, NoneIsNothing
     DEF GivesUpAssignment, SetState, GoalInv, Waiting, formatVars,
         approachVars, State
<1>19. CASE GivesUpDelivery(t)
  <2>1. /\ state = "WAIT_NEXT" /\ state' \in {"SEEK_HOSPITAL", "SEEK_PATIENT"}
        /\ recovery_return_state' = None /\ pending_delivery' = None
        /\ Resends
        /\ UNCHANGED <<target_building, assigned_hospital, registered,
                       delivered, payload_index, last_tx_building,
                       approach_target>>
    BY <1>2, <1>19, EmitResends
       DEF GivesUpDelivery, SetState, formatVars, approachVars
  <2>2. Instruction' = Instruction
    BY <2>1 DEF Instruction
  <2>3. (Instruction \in Stops => Visited)'
    BY <2>1, <2>2 DEF GoalInv, Visited, Stops
  <2>4. GoalInv'
    BY <2>1, <2>2, <2>3, NoneIsNothing DEF GoalInv, Waiting, State
  <2> QED BY <2>1, <2>2, <2>4 DEF Aims, Calls, Reported
<1> QED
  BY <1>5, <1>6, <1>7, <1>8, <1>9, <1>10, <1>11, <1>12, <1>14, <1>15, <1>16,
     <1>17, <1>18, <1>19 DEF ControlLoop

\* An answer becomes the instruction; a delivery is counted only when it takes
\* the buggy on from a hospital.
LEMMA ServerCallbackAims ==
    ASSUME RouteIsTour, GoalInv, AnswersLead, RescueTypeOK, MissionInv,
           state # "INIT", ServerCallback
    PROVE  LET m == Head(toBuggy) IN
           /\ GoalInv' /\ UNCHANGED <<registered, last_tx_building>>
           /\ m.ack = 1 => Instruction' = Instruction /\ delivered' = delivered
           /\ m.ack = 0 =>
                 /\ m.msg \in {Instruction, Onward}
                 /\ m.msg = Onward => told = Onward
                 /\ Instruction' = m.msg
                 /\ delivered' \in {delivered, delivered + 1}
                 /\ delivered' # delivered
                       => Instruction \in Hospitals /\ m.msg = Onward
           /\ state = "DONE" => state' = "DONE"
<1> DEFINE m == Head(toBuggy)
           Goal == /\ GoalInv' /\ UNCHANGED <<registered, last_tx_building>>
                   /\ m.ack = 0 /\ Instruction' = m.msg
                   /\ delivered' \in {delivered, delivered + 1}
                   /\ delivered' # delivered
                         => Instruction \in Hospitals /\ m.msg = Onward
                   /\ state = "DONE" => state' = "DONE"
<1>1. /\ Instruction \in Stops \cup {"OK"} /\ Onward \in Stops \cup {"OK"}
      /\ Instruction \in Stops =>
            /\ Onward = Route[Instruction] /\ Onward # Instruction
            /\ target_building = Instruction /\ state # "DONE"
      /\ Instruction \in Patients => Onward \in Hospitals
      /\ Instruction \in Hospitals => Onward \in Patients \cup {"OK"}
      /\ Instruction = "OK" => Onward = "OK"
      /\ (Instruction = "OK") <=> (target_building = None \/ state = "DONE")
  BY InstructionIs
<1>2. /\ approach_target \in Stops \cup {None}
      /\ target_building \in Stops \cup {None}
      /\ pending_delivery \in Hospitals \cup {None}
      /\ delivered \in Nat /\ registered \subseteq Patients
      /\ approach_target # None /\ target_building # None
            => approach_target = target_building
  BY DEF MissionInv, MissionTypeOK, Stops, ApproachIsForTarget
<1>3. /\ "OK" \notin Stops /\ "INVALID" \notin Stops /\ None \notin Stops
      /\ None \notin {"OK", "INVALID"}
      /\ Patients \cap Hospitals = {} /\ Patients \cup Hospitals = Stops
  BY WordsApart DEF Answers, Stops
<1>4. /\ toBuggy # <<>>
      /\ m.ack \in {0, 1}
      /\ m.ack = 1 => Handled.payload = None
      /\ m.ack = 0 => /\ Handled.payload = m.msg
                      /\ m.msg \in {Instruction, Onward}
                      /\ m.msg = Onward => told = Onward
  <2>1. toBuggy # <<>>
    BY DEF ServerCallback, HearsNothingNew, RetriesFormat, DeliveryRejected,
           RegistrationRejected, ResumesSearch, ZoneRejected,
           CompletesDeliveries, ParkingConfirmed, HospitalAssigned,
           NextPatient, Hears, Received
  <2>2. /\ m \in ToBuggyMsg
        /\ m.ack = 1 => Handled.payload = None
        /\ m.ack = 0 => Handled.payload = m.msg
    BY <2>1, HandledIs
  <2>3. m.ack \in {0, 1}
    BY <2>2 DEF ToBuggyMsg, AnswerMsg, AckMsg
  <2>4. 1 \in DOMAIN toBuggy /\ m = toBuggy[1]
    BY <2>1, TailKeepsOrder DEF RescueTypeOK
  <2> QED BY <2>1, <2>2, <2>3, <2>4 DEF AnswersLead
<1> HIDE DEF m
<1>5. Handled.payload # "INVALID"
  BY <1>1, <1>3, <1>4
<1>6. ASSUME NEW b \in Stops, Handled.payload = b
      PROVE  /\ m.ack = 0 /\ m.msg = b
             /\ Onward # b => b = Instruction
             /\ b = Onward /\ Instruction \in Patients => Instruction \in registered
             /\ Instruction \in Stops
  BY <1>1, <1>3, <1>4, <1>6 DEF AnswersLead, Reported
<1>7. \/ HearsNothingNew /\ m.ack = 1
      \/ CompletesDeliveries \/ ParkingConfirmed
      \/ HospitalAssigned \/ NextPatient
  <2>1. HearsNothingNew => m.ack = 1
    BY <1>1, <1>3, <1>4, <1>5 DEF HearsNothingNew, Hears
  <2> QED
    BY <1>5, <2>1 DEF ServerCallback, RetriesFormat, DeliveryRejected,
           RegistrationRejected, ResumesSearch, ZoneRejected, Hears
<1>8. CASE HearsNothingNew /\ m.ack = 1
  <2>1. UNCHANGED <<stateVars, goalVars, formatVars, approachVars>>
    BY <1>8 DEF HearsNothingNew, missionVars
  <2>2. UNCHANGED <<state, recovery_return_state, target_building,
                    assigned_hospital, pending_delivery, delivered,
                    registered, payload_index, last_tx_building,
                    approach_target>>
    BY <2>1 DEF stateVars, goalVars, formatVars, approachVars
  <2>3. Instruction' = Instruction
    BY <2>2 DEF Instruction
  <2>4. (Instruction \in Stops => Visited)'
    BY <2>2, <2>3 DEF GoalInv, Visited, Stops
  <2>5. GoalInv'
    BY <2>2, <2>3, <2>4 DEF GoalInv
  <2> QED BY <1>8, <2>2, <2>3, <2>5 DEF m
<1>9. CASE CompletesDeliveries
  <2>1. /\ Handled.payload = "OK" /\ pending_delivery # None
        /\ delivered' = delivered + 1 /\ pending_delivery' = None
        /\ assigned_hospital' = None /\ target_building' = None
        /\ state' = "SEEK_EXIT" /\ recovery_return_state' = None
        /\ UNCHANGED <<registered, payload_index, last_tx_building,
                       approach_target>>
    BY <1>9 DEF CompletesDeliveries, Hears, SetState, approachVars
  <2>2. m.ack = 0 /\ m.msg = "OK"
    BY <1>3, <1>4, <2>1
  <2>3. Instruction \in Hospitals /\ Onward = "OK" /\ state # "DONE"
        /\ target_building = Instruction
    BY <1>1, <1>2, <1>3, <1>4, <2>1, <2>2 DEF GoalInv
  <2>4. Patients \subseteq registered
    BY <1>2, <1>3, <2>3, TourIsComplete DEF GoalInv
  <2>5. approach_target \notin Patients
    BY <1>2, <1>3, <2>3
  <2>6. Instruction' = "OK"
    BY <2>1 DEF Instruction
  <2>7. (Instruction \in Stops => Visited)'
    BY <1>3, <2>6 DEF Stops
  <2>8. GoalInv'
    BY <2>1, <2>4, <2>5, <2>6, <2>7, NoneIsNothing DEF GoalInv, Waiting, State
  <2>9. Goal
    BY <1>2, <2>1, <2>2, <2>3, <2>6, <2>8
  <2> QED BY <1>4, <2>2, <2>9 DEF m
<1>10. CASE ParkingConfirmed
  <2>1. /\ Handled.payload = "OK" /\ pending_delivery = None
        /\ state' = "DONE" /\ recovery_return_state' = None
        /\ UNCHANGED <<target_building, assigned_hospital, pending_delivery,
                       delivered, registered, payload_index, last_tx_building,
                       approach_target>>
    BY <1>10
       DEF ParkingConfirmed, Hears, SetState, goalVars, approachVars
  <2>2. m.ack = 0 /\ m.msg = "OK"
    BY <1>3, <1>4, <2>1
  <2>3. Instruction' = "OK"
    BY <2>1 DEF Instruction
  <2>4. (Instruction \in Stops => Visited)'
    BY <1>3, <2>3 DEF Stops
  <2>5. GoalInv'
    BY <2>1, <2>3, <2>4, NoneIsNothing DEF GoalInv, Waiting, State
  <2>6. Goal
    BY <1>2, <2>1, <2>2, <2>3, <2>5
  <2> QED BY <1>4, <2>2, <2>6 DEF m
<1>11. CASE HospitalAssigned
  <2> DEFINE b == Handled.payload
  <2>1. /\ b \in Hospitals
        /\ assigned_hospital' = b /\ target_building' = b
        /\ state' = "SEEK_HOSPITAL" /\ recovery_return_state' = None
        /\ UNCHANGED <<pending_delivery, delivered, registered,
                       payload_index, last_tx_building>>
    BY <1>11 DEF HospitalAssigned, Hears, SetState
  <2> HIDE DEF b
  <2>2. /\ m.ack = 0 /\ m.msg = b /\ Instruction \in Stops
        /\ Onward # b => b = Instruction
        /\ b = Onward /\ Instruction \in Patients => Instruction \in registered
    BY <1>3, <1>6, <2>1 DEF b
  <2>3. Instruction' = b
    BY <1>3, <2>1 DEF Instruction
  <2>4. CASE b = Instruction
    <3>1. Visited'
      BY <2>1, <2>2, <2>3, <2>4 DEF GoalInv, Visited
    <3>2. GoalInv'
      BY <1>3, <2>1, <2>2, <2>3, <2>4, <3>1, NoneIsNothing
         DEF GoalInv, State
    <3>3. Goal
      BY <1>1, <1>2, <2>1, <2>2, <2>3, <3>2
    <3> QED BY <1>4, <2>2, <3>3 DEF m
  <2>5. CASE b = Onward /\ b # Instruction
    <3>1. /\ Instruction \in Patients /\ Instruction \in registered
          /\ Route[Instruction] = b
          /\ pending_delivery = None
      BY <1>1, <1>2, <1>3, <2>1, <2>2, <2>5 DEF GoalInv
    <3>2. Visited'
      <4>1. FIRST_PATIENT \in registered
        BY <2>2, <3>1 DEF GoalInv, Visited
      <4>2. ASSUME NEW p \in registered
            PROVE  \/ Route[p] = b
                   \/ Route[Route[p]] \in registered \cup {b, "OK"}
        <5>1. CASE p = Instruction
          BY <3>1, <5>1
        <5>2. CASE p # Instruction
          <6>1. Route[p] \in Hospitals
            BY <1>2 DEF RouteIsTour
          <6> QED BY <1>3, <2>2, <3>1, <5>2, <6>1 DEF GoalInv, Visited
        <5> QED BY <5>1, <5>2
      <4> QED BY <2>1, <2>3, <4>1, <4>2 DEF Visited
    <3>3. GoalInv'
      BY <1>3, <2>1, <2>2, <2>3, <3>1, <3>2, NoneIsNothing
         DEF GoalInv, State
    <3>4. Goal
      BY <1>1, <1>2, <2>1, <2>2, <2>3, <3>3
    <3> QED BY <1>4, <2>2, <3>4 DEF m
  <2> QED BY <2>2, <2>4, <2>5
<1>12. CASE NextPatient
  <2> DEFINE b == Handled.payload
  <2>1. /\ b \in Patients
        /\ target_building' = b
        /\ state' = "SEEK_PATIENT" /\ recovery_return_state' = None
        /\ pending_delivery' = None
        /\ UNCHANGED <<registered, payload_index, last_tx_building>>
        /\ IF pending_delivery # None
           THEN delivered' = delivered + 1
           ELSE delivered' = delivered
    BY <1>12 DEF NextPatient, Hears, SetState
  <2> HIDE DEF b
  <2>2. /\ m.ack = 0 /\ m.msg = b /\ Instruction \in Stops
        /\ Onward # b => b = Instruction
    BY <1>3, <1>6, <2>1 DEF b
  <2>3. Instruction' = b
    BY <1>3, <2>1 DEF Instruction
  <2>4. Visited'
    <3>1. CASE b = Instruction
      BY <2>1, <2>2, <2>3, <3>1 DEF GoalInv, Visited
    <3>2. CASE b = Onward /\ b # Instruction
      <4>1. /\ Instruction \in Hospitals /\ Route[Instruction] = b
        BY <1>1, <1>3, <2>1, <2>2, <3>2
      <4>2. FIRST_PATIENT \in registered
        BY <1>3, <2>2, <4>1, WordsApart DEF GoalInv, Visited
      <4>3. ASSUME NEW p \in registered
            PROVE  Route[Route[p]] \in registered \cup {b, "OK"}
        <5>1. CASE Route[p] = Instruction
          BY <4>1, <5>1
        <5>2. CASE Route[p] # Instruction
          <6>1. Route[p] \in Hospitals /\ p # Instruction
            BY <1>2, <1>3, <4>1 DEF RouteIsTour
          <6>2. Route[Route[p]] \in Patients \cup {"OK"}
            BY <6>1 DEF RouteIsTour
          <6> QED BY <1>3, <2>2, <4>1, <5>2, <6>1, <6>2 DEF GoalInv, Visited
        <5> QED BY <5>1, <5>2
      <4> QED BY <2>1, <2>3, <4>2, <4>3 DEF Visited
    <3> QED BY <2>2, <3>1, <3>2
  <2>5. GoalInv'
    BY <1>3, <2>1, <2>2, <2>3, <2>4, NoneIsNothing DEF GoalInv, State
  <2>6. pending_delivery # None => Instruction \in Hospitals /\ b = Onward
    BY <1>2, <1>3, <2>1, <2>2 DEF GoalInv
  <2>7. Goal
    BY <1>1, <1>2, <2>1, <2>2, <2>3, <2>5, <2>6
  <2> QED BY <1>4, <2>2, <2>7 DEF m
<1> QED BY <1>7, <1>8, <1>9, <1>10, <1>11, <1>12

-----------------------------------------------------------------------------
(***************************************************************************)
(* What is under way on a tour, kind of step by kind of step.              *)
(***************************************************************************)
UnderWay == RequestsLead /\ AnswersLead /\ BooksInv

\* The mission starts: nothing is under way.
LEMMA StartingKeepsUnderWay ==
    ASSUME RouteIsTour, MissionInv, TransitInv, state = "INIT", Resends,
           Instruction' \in Patients, UNCHANGED serverVars,
           delivered' = delivered, BooksInv
    PROVE  UnderWay'
<1>1. PICK out \in Seq(RequestMsg) :
         /\ toServer' = Publish(toServer, out)
         /\ \A j \in DOMAIN out : FALSE
  BY DEF Resends, TransitInv, NothingYet
<1>2. /\ toServer = <<>> /\ toBuggy' = <<>> /\ link'.pending = None
      /\ told' = None /\ chosen' = chosen /\ accepted' = accepted
  BY DEF Resends, TransitInv, NothingYet, serverVars
<1>3. \A i \in DOMAIN toServer' : FALSE
  <2>1. out \in Seq(ToServerMsg) /\ RescueTypeOK
    BY DEF ToServerMsg, TransitInv
  <2> QED BY <1>1, <1>2, <2>1, RequestsJoin
<1>4. /\ None \notin Stops /\ None # "OK" /\ Patients \cap Hospitals = {}
      /\ Patients \subseteq Stops
  BY WordsApart DEF Answers, Stops
<1>5. Onward' \in Stops
  BY <1>4 DEF Onward, RouteIsTour, Stops
<1>6. RequestsLead'
  BY <1>2, <1>3 DEF RequestsLead, Final
<1>7. AnswersLead'
  BY <1>2, <1>4, <1>5 DEF AnswersLead, Final
<1>8. BooksInv'
  BY <1>2, <1>4 DEF BooksInv, Stops
<1> QED BY <1>6, <1>7, <1>8 DEF UnderWay

\* The buggy sends again what is unacknowledged, or asks for what is next.
LEMMA SendingKeepsUnderWay ==
    ASSUME TransitInv, UnderWay, Instruction' = Instruction,
           Reported => Reported', delivered' = delivered,
           UNCHANGED serverVars,
           \/ Resends
           \/ \E text \in Texts :
                 /\ Asks(text)
                 /\ NextTarget(text) = Onward
                 /\ Reported'
                 /\ text.building = "PARKED" => Instruction = "OK"
    PROVE  UnderWay'
<1> DEFINE p == link.pending.text
           Fit(text) == /\ text \in Texts
                        /\ NextTarget(text) \in {Instruction, Onward}
                        /\ NextTarget(text) = Onward => Reported'
                        /\ text.building = "PARKED" => Instruction = "OK"
                        /\ told = Onward => NextTarget(text) = Onward
<1>1. /\ Onward' = Onward /\ OnwardTexts' = OnwardTexts
      /\ toBuggy' = toBuggy
      /\ UNCHANGED <<server, accepted, chosen, told>>
      /\ RescueTypeOK /\ RequestsLead /\ AnswersLead /\ BooksInv
  BY DEF Onward, OnwardTexts, NextTarget, Resends, Asks, serverVars,
         TransitInv, UnderWay
<1>2. link.pending # None => Fit(p)
  <2>1. link.pending # None => p \in Texts
    BY <1>1 DEF RescueTypeOK, LinkType, PendingRequest
  <2> QED BY <1>1, <2>1 DEF RequestsLead, Leads
<1> DEFINE Follows(text) ==
              \A i \in DOMAIN toServer :
                 toServer[i].ack = 0 /\ NextTarget(toServer[i].msg) = Onward
                    => NextTarget(text) = Onward
           Sent(o) ==
              /\ toServer' = Publish(toServer, o)
              /\ \A j \in DOMAIN o :
                    /\ Fit(o[j].msg) /\ Follows(o[j].msg)
                    /\ NextTarget(o[j].msg) = Onward /\ link'.pending # None
                          => NextTarget(link'.pending.text) = Onward
              /\ \A i, j \in DOMAIN o :
                    i < j /\ NextTarget(o[i].msg) = Onward
                       => NextTarget(o[j].msg) = Onward
              /\ link'.pending # None =>
                    Fit(link'.pending.text) /\ Follows(link'.pending.text)
<1>3. PICK out \in Seq(RequestMsg) : Sent(out)
  <2>1. link.pending # None => Follows(p)
    BY <1>1 DEF RequestsLead
  <2>2. CASE Resends
    <3>1. PICK o \in Seq(RequestMsg) :
             /\ toServer' = Publish(toServer, o)
             /\ \A j \in DOMAIN o : link.pending # None /\ o[j].msg = p
      BY <2>2 DEF Resends
    <3>2. link'.pending # None => link.pending # None /\ link'.pending.text = p
      BY <2>2 DEF Resends
    <3> HIDE DEF p, Fit, Follows
    <3>3. Sent(o)
      BY <1>2, <2>1, <3>1, <3>2
    <3> QED BY <3>3
  <2>3. ASSUME NEW text \in Texts, Asks(text), NextTarget(text) = Onward,
               Reported',
               text.building = "PARKED" => Instruction = "OK"
        PROVE  \E o \in Seq(RequestMsg) : Sent(o)
    <3>1. PICK o \in Seq(RequestMsg) :
             /\ toServer' = Publish(toServer, o)
             /\ \A j \in DOMAIN o : \/ o[j].msg = text
                                    \/ link.pending # None /\ o[j].msg = p
             /\ \A i, j \in DOMAIN o : i < j => o[j].msg = text
      BY <2>3 DEF Asks
    <3>2. link'.pending # None => link'.pending.text = text
      BY <2>3 DEF Asks
    <3>3. Fit(text) /\ Follows(text)
      BY <2>3
    <3> HIDE DEF p, Fit, Follows
    <3>4. Sent(o)
      BY <1>2, <2>1, <2>3, <3>1, <3>2, <3>3
    <3> QED BY <3>4
  <2> HIDE DEF Sent
  <2> QED BY <2>2, <2>3
<1> HIDE DEF p
<1>4. /\ toServer \in Seq(ToServerMsg) /\ out \in Seq(ToServerMsg)
      /\ \A i \in DOMAIN toServer : toServer[i].ack = 0 => toServer[i].msg \in Texts
  <2>1. \A m \in RequestMsg : m \in ToServerMsg /\ m.msg \in Texts
    BY DEF ToServerMsg, RequestMsg
  <2>2. out \in Seq(ToServerMsg)
    BY <2>1
  <2> QED BY <1>1, <2>1, <2>2, InTransit DEF RescueTypeOK
<1>5. \A i \in DOMAIN toServer' :
         \/ \E j \in DOMAIN toServer : toServer'[i] = toServer[j]
         \/ \E j \in DOMAIN out : toServer'[i] = out[j]
  BY <1>1, <1>3, <1>4, RequestsJoin
<1>6. Final(toServer', OnwardTexts)
  <2>1. Final(out, OnwardTexts)
    BY <1>3 DEF Final, OnwardTexts
  <2>2. \A i \in DOMAIN toServer, j \in DOMAIN out :
           /\ toServer[i].ack = 0 /\ out[j].ack = 0
           /\ toServer[i].msg \in OnwardTexts
           => out[j].msg \in OnwardTexts
    BY <1>3 DEF OnwardTexts
  <2>3. Final(Publish(toServer, out), OnwardTexts)
    BY <1>1, <1>4, <2>1, <2>2, PublishKeepsFinal DEF RequestsLead
  <2> QED BY <1>3, <2>3
<1>7. \A i \in DOMAIN toServer' : toServer'[i].ack = 0 =>
         /\ NextTarget(toServer'[i].msg) \in {Instruction, Onward}
         /\ NextTarget(toServer'[i].msg) = Onward => Reported'
         /\ toServer'[i].msg.building = "PARKED" => Instruction = "OK"
         /\ told = Onward => NextTarget(toServer'[i].msg) = Onward
         /\ NextTarget(toServer'[i].msg) = Onward /\ link'.pending # None
               => NextTarget(link'.pending.text) = Onward
  BY <1>1, <1>3, <1>5 DEF RequestsLead, Leads
<1>8. RequestsLead'
  <2> HIDE DEF Follows
  <2> QED BY <1>1, <1>3, <1>6, <1>7 DEF RequestsLead, Leads
<1>9. AnswersLead'
  BY <1>1 DEF AnswersLead, Final
<1>10. BooksInv'
  BY <1>1 DEF BooksInv
<1> QED BY <1>8, <1>9, <1>10 DEF UnderWay

\* The buggy takes a message that is not INVALID: nothing new is asked, and
\* what follows an answer that says what comes next says so too.
LEMMA ListeningLeaves ==
    ASSUME TransitInv, UnderWay, Listens,
           Head(toBuggy).ack = 0 => Head(toBuggy).msg # "INVALID"
    PROVE  /\ link'.pending # None => link' = link
           /\ \A i \in DOMAIN toServer' : toServer'[i].ack = 0 =>
                 \E j \in DOMAIN toServer : toServer'[i] = toServer[j]
           /\ Final(toServer', OnwardTexts)
           /\ \A i \in DOMAIN toBuggy' :
                 \E j \in DOMAIN toBuggy : toBuggy'[i] = toBuggy[j]
           /\ Final(toBuggy', {Onward})
           /\ Head(toBuggy).ack = 0 /\ Head(toBuggy).msg = Onward =>
                 \A i \in DOMAIN toBuggy' :
                    toBuggy'[i].ack = 0 => toBuggy'[i].msg = Onward
<1> DEFINE m == Head(toBuggy)
<1>1. /\ RescueTypeOK /\ toBuggy # <<>> /\ toBuggy' = Tail(toBuggy)
      /\ toServer \in Seq(ToServerMsg) /\ toBuggy \in Seq(ToBuggyMsg)
      /\ Final(toServer, OnwardTexts) /\ Final(toBuggy, {Onward})
  BY DEF Listens, TransitInv, RescueTypeOK, UnderWay, RequestsLead, AnswersLead
<1>2. m.msg # "INVALID"
  <2>1. m \in ToBuggyMsg
    BY <1>1, AnswersLeave
  <2>2. m.ack # 0 => m.msg = None
    BY <2>1 DEF ToBuggyMsg, AnswerMsg, AckMsg
  <2> QED BY <2>2, WordsApart DEF Answers
<1>3. PICK out \in Seq(ToServerMsg) :
         toServer' = Publish(toServer, out) /\ \A j \in DOMAIN out : out[j].ack = 1
  BY <1>2 DEF Listens
<1>4. \A i \in DOMAIN toServer' :
         \/ \E j \in DOMAIN toServer : toServer'[i] = toServer[j]
         \/ \E j \in DOMAIN out : toServer'[i] = out[j]
  BY <1>1, <1>3, RequestsJoin
<1>5. Final(toServer', OnwardTexts)
  <2>1. Final(out, OnwardTexts)
    BY <1>3 DEF Final
  <2>2. Final(Publish(toServer, out), OnwardTexts)
    BY <1>1, <1>3, <2>1, PublishKeepsFinal
  <2> QED BY <1>3, <2>2
<1>6. \A i \in DOMAIN toBuggy' :
         \E j \in DOMAIN toBuggy : toBuggy'[i] = toBuggy[j]
  BY <1>1, AnswersLeave
<1>7. /\ Final(toBuggy', {Onward})
      /\ m.ack = 0 /\ m.msg = Onward =>
            \A i \in DOMAIN toBuggy' :
               toBuggy'[i].ack = 0 => toBuggy'[i].msg = Onward
  BY <1>1, TailKeepsFinal
<1>8. link'.pending # None => link' = link
  BY <1>2 DEF Listens
<1> QED BY <1>3, <1>4, <1>5, <1>6, <1>7, <1>8

\* What it hears is an acknowledgment, or the instruction it has.
LEMMA HearingAgainKeepsUnderWay ==
    ASSUME TransitInv, UnderWay, Listens, UNCHANGED serverVars,
           Head(toBuggy).ack = 0 => Head(toBuggy).msg # "INVALID",
           Instruction' = Instruction, UNCHANGED <<registered, last_tx_building>>,
           delivered' = delivered
    PROVE  UnderWay'
<1>1. /\ Onward' = Onward /\ OnwardTexts' = OnwardTexts
      /\ UNCHANGED <<server, accepted, chosen, told>>
      /\ Reported' = Reported
      /\ RequestsLead /\ AnswersLead /\ BooksInv
  BY DEF Onward, OnwardTexts, serverVars, UnderWay, Reported
<1>2. RequestsLead'
  BY <1>1, ListeningLeaves DEF RequestsLead, Leads
<1>3. AnswersLead'
  BY <1>1, ListeningLeaves DEF AnswersLead
<1>4. BooksInv'
  BY <1>1 DEF BooksInv
<1> QED BY <1>2, <1>3, <1>4 DEF UnderWay

\* It hears what comes next: then everything under way says the same.
LEMMA MovingOnKeepsUnderWay ==
    ASSUME RouteIsTour, MissionInv, MissionInv', TransitInv, UnderWay, Listens,
           UNCHANGED serverVars,
           Head(toBuggy).ack = 0, Head(toBuggy).msg = Onward,
           told = Onward, Onward # Instruction, Instruction' = Onward,
           registered' = registered,
           delivered' \in {delivered, delivered + 1},
           delivered' # delivered => Instruction \in Hospitals
    PROVE  UnderWay'
<1>1. /\ UNCHANGED <<server, accepted, chosen, told>>
      /\ RequestsLead /\ AnswersLead /\ BooksInv
      /\ delivered \in Nat /\ accepted \in Nat
  BY DEF serverVars, UnderWay, TransitInv, RescueTypeOK, MissionInv,
         MissionTypeOK
<1>2. /\ Instruction \in Stops
      /\ Onward \in Stops \cup {"OK"}
      /\ Onward \in Stops => Onward' # Onward
      /\ Onward = "OK" => Onward' = "OK"
      /\ Onward \notin {"INVALID", None}
  <2>1. Instruction = "OK" => Onward = "OK"
    BY InstructionIs
  <2>2. Instruction \in Stops \cup {"OK"} /\ Onward \in Stops \cup {"OK"}
    BY InstructionIs
  <2>3. /\ Instruction' \in Stops => Onward' # Instruction'
        /\ Instruction' = "OK" => Onward' = "OK"
    <3>1. \A p \in Patients : Route[p] \in Hospitals
      BY DEF RouteIsTour
    <3>2. \A h \in Hospitals : Route[h] \in Patients \cup {"OK"}
      BY DEF RouteIsTour
    <3>3. Patients \cap Hospitals = {} /\ "OK" \notin Stops
      BY WordsApart DEF Answers
    <3> QED BY <3>1, <3>2, <3>3 DEF Onward, Stops
  <2>4. "INVALID" \notin Stops /\ None \notin Stops /\ None # "OK"
    BY WordsApart DEF Answers
  <2> QED BY <2>1, <2>2, <2>3, <2>4
<1>3. /\ \A i \in DOMAIN toServer' : toServer'[i].ack = 0 =>
            /\ NextTarget(toServer'[i].msg) = Onward
            /\ toServer'[i].msg.building = "PARKED" => Onward = "OK"
            /\ toServer'[i].msg \in Texts
      /\ link'.pending # None =>
            /\ NextTarget(link'.pending.text) = Onward
            /\ link'.pending.text.building = "PARKED" => Onward = "OK"
      /\ \A i \in DOMAIN toBuggy' :
            toBuggy'[i].ack = 0 => toBuggy'[i].msg = Onward
  <2>1. Instruction # "OK"
    BY <1>2, WordsApart
  <2>2. \A i \in DOMAIN toServer :
           toServer[i].ack = 0 => toServer[i].msg \in Texts
    BY InTransit DEF TransitInv, RequestMsg
  <2> QED BY <1>1, <1>2, <2>1, <2>2, ListeningLeaves DEF RequestsLead, Leads
<1>4. CASE Onward \in Stops
  <2>1. RequestsLead'
    BY <1>1, <1>2, <1>3, <1>4
       DEF RequestsLead, Leads, Final, OnwardTexts
  <2>2. AnswersLead'
    BY <1>1, <1>2, <1>3, <1>4 DEF AnswersLead, Final
  <2>3. BooksInv'
    BY <1>1, <1>2, <1>4 DEF BooksInv
  <2> QED BY <2>1, <2>2, <2>3 DEF UnderWay
<1>5. CASE Onward = "OK"
  <2>1. "OK" \notin Patients /\ "OK" \notin Hospitals /\ Reported'
    BY <1>1, <1>5, WordsApart DEF Reported, Stops
  <2>2. RequestsLead'
    BY <1>1, <1>2, <1>3, <1>5, <2>1
       DEF RequestsLead, Leads, Final, OnwardTexts
  <2>3. AnswersLead'
    BY <1>1, <1>2, <1>3, <1>5, <2>1 DEF AnswersLead, Final
  <2>4. BooksInv'
    BY <1>1, <1>2, <1>5, <2>1 DEF BooksInv
  <2> QED BY <2>2, <2>3, <2>4 DEF UnderWay
<1> QED BY <1>2, <1>4, <1>5

\* Taking the first request, or losing it, leaves the others as they were.
LEMMA TakingRequestLeaves ==
    ASSUME TransitInv, UnderWay, toServer # <<>>, toServer' = Tail(toServer)
    PROVE  /\ \A i \in DOMAIN toServer' :
                 \E j \in DOMAIN toServer : toServer'[i] = toServer[j]
           /\ \E j \in DOMAIN toServer : Head(toServer) = toServer[j]
           /\ Final(toServer', OnwardTexts)
           /\ /\ Head(toServer).ack = 0
              /\ NextTarget(Head(toServer).msg) = Onward
              => \A i \in DOMAIN toServer' : toServer'[i].ack = 0 =>
                    NextTarget(toServer'[i].msg) = Onward
<1>1. /\ RescueTypeOK /\ toServer \in Seq(ToServerMsg)
      /\ Final(toServer, OnwardTexts)
  BY DEF TransitInv, RescueTypeOK, UnderWay, RequestsLead
<1>2. /\ Final(toServer', OnwardTexts)
      /\ \A i \in DOMAIN toServer' :
            /\ Head(toServer).ack = 0 /\ Head(toServer).msg \in OnwardTexts
            /\ toServer'[i].ack = 0
            => toServer'[i].msg \in OnwardTexts
  BY <1>1, TailKeepsFinal
<1>3. /\ \A i \in DOMAIN toServer' :
            \E j \in DOMAIN toServer : toServer'[i] = toServer[j]
      /\ \E j \in DOMAIN toServer : Head(toServer) = toServer[j]
  BY <1>1, RequestsLeave
<1>4. Head(toServer).ack = 0 => Head(toServer).msg \in Texts
  BY <1>1, <1>3, InTransit DEF RequestMsg
<1> QED BY <1>2, <1>3, <1>4 DEF OnwardTexts

\* The server takes an acknowledgment, or a message is lost.
LEMMA TakingKeepsUnderWay ==
    ASSUME TransitInv, UnderWay,
           UNCHANGED <<link, told, chosen, accepted, missionVars>>,
           \/ /\ toServer # <<>> /\ toServer' = Tail(toServer)
              /\ toBuggy' = toBuggy
           \/ LoseToBuggy
    PROVE  UnderWay'
<1>1. /\ UNCHANGED <<link, told, chosen, accepted, delivered>>
      /\ Reported' = Reported
      /\ Instruction' = Instruction /\ Onward' = Onward
      /\ OnwardTexts' = OnwardTexts
  BY DEF missionVars, stateVars, goalVars, formatVars, Instruction, Onward,
         OnwardTexts, Reported
<1>2. RequestsLead /\ AnswersLead /\ BooksInv
  BY DEF UnderWay
<1>3. BooksInv'
  BY <1>1, <1>2 DEF BooksInv
<1>4. CASE /\ toServer # <<>> /\ toServer' = Tail(toServer)
           /\ toBuggy' = toBuggy
  <2>1. RequestsLead'
    BY <1>1, <1>2, <1>4, TakingRequestLeaves DEF RequestsLead, Leads
  <2>2. AnswersLead'
    BY <1>1, <1>2, <1>4 DEF AnswersLead, Final
  <2> QED BY <1>3, <2>1, <2>2 DEF UnderWay
<1>5. CASE LoseToBuggy
  <2>1. /\ \A i \in DOMAIN toBuggy' :
              \E j \in DOMAIN toBuggy : toBuggy'[i] = toBuggy[j]
        /\ toServer' = toServer
    BY <1>5, AnswersLeave DEF LoseToBuggy, Received, TransitInv
  <2>2. Final(toBuggy', {Onward})
    <3>1. toBuggy \in Seq(ToBuggyMsg) /\ toBuggy # <<>> /\ toBuggy' = Tail(toBuggy)
      BY <1>5 DEF LoseToBuggy, Received, TransitInv, RescueTypeOK
    <3> QED BY <1>2, <3>1, TailKeepsFinal DEF AnswersLead
  <2>3. RequestsLead'
    BY <1>1, <1>2, <2>1 DEF RequestsLead, Leads, Final
  <2>4. AnswersLead'
    BY <1>1, <1>2, <2>1, <2>2 DEF AnswersLead
  <2> QED BY <1>3, <2>3, <2>4 DEF UnderWay
<1> QED BY <1>4, <1>5

\* The server publishes acknowledgments, and its latest answer.
LEMMA PublishingKeepsAnswers ==
    ASSUME TransitInv, NEW out \in Seq(ToBuggyMsg),
           toBuggy' = Publish(toBuggy, out),
           Instruction' = Instruction, Onward' = Onward,
           Reported' = Reported,
           \A i \in DOMAIN out : out[i].ack = 0 => out[i].msg = told',
           told' \in {None, Instruction, Onward},
           told' = Onward => Reported,
           told = Onward => told' = Onward,
           AnswersLead
    PROVE  AnswersLead'
<1>1. /\ RescueTypeOK /\ toBuggy \in Seq(ToBuggyMsg)
  BY DEF TransitInv, RescueTypeOK
<1>2. \A i \in DOMAIN toBuggy' :
         \/ \E j \in DOMAIN toBuggy : toBuggy'[i] = toBuggy[j]
         \/ \E j \in DOMAIN out : toBuggy'[i] = out[j]
  BY <1>1, AnswersJoin
<1>3. \A i \in DOMAIN toBuggy' : toBuggy'[i].ack = 0 =>
         /\ toBuggy'[i].msg \in {Instruction, Onward}
         /\ toBuggy'[i].msg = Onward => told' = Onward
  <2>1. ASSUME NEW i \in DOMAIN toBuggy', toBuggy'[i].ack = 0,
               NEW j \in DOMAIN out, toBuggy'[i] = out[j]
        PROVE  out[j].msg = told' /\ told' # None
    <3>1. out[j] \in ToBuggyMsg /\ out[j].ack = 0
      BY <2>1
    <3>2. out[j].msg \in Answers
      BY <3>1 DEF ToBuggyMsg, AnswerMsg, AckMsg
    <3> QED BY <3>1, <3>2, WordsApart
  <2> QED BY <1>2, <2>1 DEF AnswersLead
<1>4. Final(toBuggy', {Onward})
  <2>1. Final(out, {Onward})
    BY DEF Final
  <2>2. \A i \in DOMAIN toBuggy, j \in DOMAIN out :
           /\ toBuggy[i].ack = 0 /\ out[j].ack = 0
           /\ toBuggy[i].msg \in {Onward}
           => out[j].msg \in {Onward}
    BY DEF AnswersLead
  <2>3. Final(Publish(toBuggy, out), {Onward})
    BY <1>1, <2>1, <2>2, PublishKeepsFinal DEF AnswersLead
  <2> QED BY <2>3
<1> QED BY <1>3, <1>4 DEF AnswersLead

\* The server sends its latest answer again.
LEMMA RetryingKeepsUnderWay ==
    ASSUME TransitInv, UnderWay, ServerRetries
    PROVE  UnderWay'
<1> DEFINE p == server.pending
           b == Message(p.uid, 0, p.msg, AnswerSeq(p.uid))
           step == RetryTargetSend(server)
<1>1. /\ toBuggy' = Publish(toBuggy, step.out)
      /\ UNCHANGED <<toServer, link, told, chosen, accepted, delivered,
                     registered, last_tx_building, state, target_building>>
  BY DEF ServerRetries, missionVars, stateVars, goalVars, formatVars
<1>2. /\ Instruction' = Instruction /\ Onward' = Onward
      /\ OnwardTexts' = OnwardTexts /\ Reported' = Reported
      /\ RequestsLead /\ AnswersLead /\ BooksInv
      /\ RescueTypeOK /\ AnswersInv
  BY <1>1 DEF Instruction, Onward, OnwardTexts, Reported, UnderWay, TransitInv
<1>3. \/ step.out = << >>
      \/ p # None /\ step.out = << b >> /\ b \in ToBuggyMsg
  BY <1>2, RetryIs DEF RescueTypeOK
<1>4. p # None => b.msg = told
  BY <1>2 DEF Message, AnswersInv
<1> HIDE DEF p, b
<1>5. PICK out \in Seq(ToBuggyMsg) :
         /\ toBuggy' = Publish(toBuggy, out)
         /\ \A j \in DOMAIN out : out[j].msg = told
  <2>1. CASE step.out = << >>
    <3>1. << >> \in Seq(ToBuggyMsg) /\ DOMAIN << >> = {}
      OBVIOUS
    <3>2. toBuggy' = Publish(toBuggy, << >>)
      BY <1>1, <2>1
    <3> QED BY <3>1, <3>2
  <2>2. CASE p # None /\ step.out = << b >> /\ b \in ToBuggyMsg
    <3>1. << b >> \in Seq(ToBuggyMsg) /\ \A j \in DOMAIN << b >> : << b >>[j] = b
      BY <2>2
    <3> QED BY <1>1, <1>4, <2>2, <3>1
  <2> QED BY <1>3, <2>1, <2>2
<1>6. AnswersLead'
  <2>1. told \in {None, Instruction, Onward}
        /\ (told = Onward => Reported)
    BY <1>2 DEF AnswersLead
  <2> QED BY <1>1, <1>2, <1>5, <2>1, PublishingKeepsAnswers
<1>7. RequestsLead'
  BY <1>1, <1>2 DEF RequestsLead, Leads, Final
<1>8. BooksInv'
  BY <1>1, <1>2 DEF BooksInv
<1> QED BY <1>6, <1>7, <1>8 DEF UnderWay

\* The server answers a request, or acknowledges a repeated one.
LEMMA AnsweringKeepsUnderWay ==
    ASSUME RouteIsTour, MissionInv, TransitInv, UnderWay,
           ServerReceivesRequest(FALSE)
    PROVE  UnderWay'
<1> DEFINE m      == Head(toServer)
           answer == NextTarget(m.msg)
           step   == Request(server, m, answer)
           u      == server.uid + 1
           a      == Message(m.uid, 1, None, m.seq)
           b      == Message(u, 0, answer, AnswerSeq(u))
           isNew  == Len(step.out) > 1
<1>1. /\ toServer # <<>> /\ toServer' = Tail(toServer) /\ m.ack = 0
      /\ toBuggy' = Publish(toBuggy, step.out)
      /\ accepted' = IF /\ isNew /\ answer # "INVALID"
                        /\ m.msg.building \in Hospitals
                     THEN accepted + 1 ELSE accepted
      /\ chosen' = IF isNew /\ answer \in Hospitals THEN answer ELSE chosen
      /\ told' = IF isNew THEN answer ELSE told
      /\ UNCHANGED <<link, delivered, registered, last_tx_building, state,
                     target_building>>
  BY DEF ServerReceivesRequest, Received, missionVars, stateVars, goalVars,
         formatVars
<1>2. /\ Instruction' = Instruction /\ Onward' = Onward
      /\ OnwardTexts' = OnwardTexts /\ Reported' = Reported
      /\ RequestsLead /\ AnswersLead /\ BooksInv
      /\ RescueTypeOK /\ server \in ServerType
      /\ accepted \in Nat /\ delivered \in Nat
  BY <1>1 DEF Instruction, Onward, OnwardTexts, Reported, UnderWay, TransitInv,
              RescueTypeOK, MissionInv, MissionTypeOK
<1>3. /\ \A i \in DOMAIN toServer' :
            \E j \in DOMAIN toServer : toServer'[i] = toServer[j]
      /\ \E j \in DOMAIN toServer : m = toServer[j]
      /\ Final(toServer', OnwardTexts)
      /\ answer = Onward =>
            \A i \in DOMAIN toServer' : toServer'[i].ack = 0 =>
               NextTarget(toServer'[i].msg) = Onward
  BY <1>1, TakingRequestLeaves
<1>4. m \in RequestMsg /\ m.msg \in Texts
  BY <1>1, <1>2, <1>3, InTransit DEF RequestMsg
<1>5. answer \in Answers
  BY <1>4, TextsAreAnswered
<1>6. /\ Leads(m.msg)
      /\ told = Onward => answer = Onward
      /\ answer = Onward /\ link.pending # None
            => NextTarget(link.pending.text) = Onward
  BY <1>1, <1>2, <1>3 DEF RequestsLead
<1>7. /\ a \in ToBuggyMsg
      /\ \/ step.out = << a >>
         \/ step.out = << a, b >> /\ b \in ToBuggyMsg
  BY <1>2, <1>4, <1>5, RequestIs
<1>8. a.ack = 1 /\ b.msg = answer
  BY DEF Message
<1>9. CASE step.out = << a >>
  <2> DEFINE out == << a >>
  <2>1. /\ out \in Seq(ToBuggyMsg) /\ Len(out) = 1
        /\ \A j \in DOMAIN out : out[j] = a
    BY <1>7
  <2>2. told' = told /\ chosen' = chosen /\ accepted' = accepted
    <3> HIDE DEF step, a, b
    <3>1. ~isNew
      BY <1>9
    <3> HIDE DEF isNew, answer
    <3> QED BY <1>1, <3>1
  <2>3. toBuggy' = Publish(toBuggy, out)
    BY <1>1, <1>9
  <2> HIDE DEF out, a
  <2>4. AnswersLead'
    <3>1. \A i \in DOMAIN out : out[i].ack = 0 => out[i].msg = told'
      BY <1>8, <2>1
    <3>2. /\ told' \in {None, Instruction, Onward}
          /\ told' = Onward => Reported
          /\ told = Onward => told' = Onward
      BY <1>2, <2>2 DEF AnswersLead
    <3> QED BY <1>1, <1>2, <2>1, <2>3, <3>1, <3>2, PublishingKeepsAnswers
  <2>5. RequestsLead'
    BY <1>1, <1>2, <1>3, <2>2 DEF RequestsLead, Leads
  <2>6. BooksInv'
    BY <1>1, <1>2, <2>2 DEF BooksInv
  <2> QED BY <2>4, <2>5, <2>6 DEF UnderWay
<1>10. CASE step.out = << a, b >> /\ b \in ToBuggyMsg
  <2> DEFINE out == << a, b >>
  <2>1. /\ out \in Seq(ToBuggyMsg) /\ Len(out) = 2
        /\ DOMAIN out = {1, 2} /\ out[1] = a /\ out[2] = b
    BY <1>7, <1>10
  <2>2. /\ isNew /\ told' = answer
        /\ chosen' = IF answer \in Hospitals THEN answer ELSE chosen
        /\ accepted' = IF answer # "INVALID" /\ m.msg.building \in Hospitals
                       THEN accepted + 1 ELSE accepted
    <3> HIDE DEF step, a, b
    <3>1. isNew
      BY <1>10
    <3> HIDE DEF isNew, answer
    <3> QED BY <1>1, <3>1
  <2>3. toBuggy' = Publish(toBuggy, out)
    BY <1>1, <1>10
  <2> HIDE DEF out, a, b, step, m, answer
  <2>4. /\ answer \in {Instruction, Onward}
        /\ answer = Onward => Reported
        /\ m.msg.building = "PARKED" => Instruction = "OK"
    BY <1>6 DEF Leads, answer
  <2>5. AnswersLead'
    <3>1. \A i \in DOMAIN out : out[i].ack = 0 => out[i].msg = told'
      BY <1>8, <2>1, <2>2
    <3> QED
      BY <1>1, <1>2, <1>6, <2>1, <2>2, <2>3, <2>4, <3>1,
         PublishingKeepsAnswers
  <2>6. RequestsLead'
    <3>1. link.pending # None =>
             (told' = Onward => NextTarget(link.pending.text) = Onward)
      BY <1>1, <1>2, <1>6, <2>2 DEF RequestsLead
    <3> QED BY <1>1, <1>2, <1>3, <2>2, <3>1 DEF RequestsLead, Leads
  <2>7. /\ Instruction \in Hospitals =>
              Onward \in Patients \cup {"OK"} /\ Onward = Route[Instruction]
        /\ Instruction \in Stops \cup {"OK"} /\ Onward \in Stops \cup {"OK"}
        /\ Patients \cap Hospitals = {}
        /\ "OK" \notin Stops /\ "INVALID" \notin Stops
    <3>1. /\ Instruction \in Hospitals => Onward \in Patients \cup {"OK"}
          /\ Instruction \in Stops => Onward = Route[Instruction]
          /\ Instruction \in Stops \cup {"OK"} /\ Onward \in Stops \cup {"OK"}
      BY InstructionIs
    <3> QED BY <3>1, WordsApart DEF Stops
  <2>8. Instruction \in Hospitals => chosen' = Instruction
    BY <1>2, <2>2, <2>4, <2>7 DEF BooksInv, Stops
  <2>9. Instruction \in Hospitals /\ answer = Onward => delivered < accepted'
    <3> SUFFICES ASSUME Instruction \in Hospitals, answer = Onward
                 PROVE  delivered < accepted'
      OBVIOUS
    <3>1. answer # "INVALID"
      BY <2>7
    <3>2. m.msg.building \in Stops /\ answer = Route[m.msg.building]
      <4>1. m.msg.building # "PARKED"
        BY <2>4, <2>7 DEF Stops
      <4>2. m.msg.building \in Stops
        BY <1>4, <4>1 DEF Texts
      <4> QED BY <3>1, <4>1, <4>2 DEF NextTarget, answer
    <3>3. m.msg.building \notin Patients
      <4>1. \A p \in Patients : Route[p] \in Hospitals
        BY DEF RouteIsTour
      <4> QED BY <2>7, <3>2, <4>1 DEF Stops
    <3>4. accepted' = accepted + 1
      BY <2>2, <3>1, <3>2, <3>3 DEF Stops
    <3> QED BY <1>2, <3>4 DEF BooksInv
  <2>10. BooksInv'
    <3>1. told' \in Hospitals => chosen' = told'
      BY <2>2
    <3>2. delivered <= accepted'
      BY <1>2, <2>2 DEF BooksInv
    <3> QED BY <1>1, <1>2, <2>2, <2>8, <2>9, <3>1, <3>2 DEF BooksInv
  <2> QED BY <2>5, <2>6, <2>10 DEF UnderWay
<1> QED BY <1>7, <1>9, <1>10

-----------------------------------------------------------------------------
\* The tour begins, and goes on until a zone is rejected.
LEMMA TourBegins == RouteIsTour /\ Init => TourInv
<1> SUFFICES ASSUME RouteIsTour, Init PROVE TourInv
  OBVIOUS
<1> USE DEF Init, TopicInit, MissionInit, InitLink
<1>1. Instruction = "OK" /\ Onward = "OK"
  <2>1. "OK" \notin Stops
    BY WordsApart DEF Answers
  <2> QED BY <2>1 DEF Instruction, Onward
<1>2. "OK" \notin Stops /\ None \notin Stops /\ None # "OK"
  BY WordsApart DEF Answers
<1>3. GoalInv
  BY <1>1, <1>2, NoneIsNothing DEF GoalInv, Stops, State, Waiting
<1>4. DOMAIN << >> = {}
  OBVIOUS
<1>5. RequestsLead
  BY <1>4 DEF RequestsLead, Final
<1>6. AnswersLead
  BY <1>1, <1>2, <1>4 DEF AnswersLead, Final
<1>7. BooksInv
  BY <1>1, <1>2 DEF BooksInv, Stops
<1> QED BY <1>3, <1>5, <1>6, <1>7 DEF TourInv

LEMMA BuggyKeepsTour ==
    ASSUME RouteIsTour, GoalInv, UnderWay, MissionInv, MissionInv',
           TransitInv, Buggy
    PROVE  GoalInv' /\ UnderWay'
<1>1. /\ MissionNext /\ UNCHANGED serverVars
      /\ RescueTypeOK /\ NothingYet /\ link \in LinkType
      /\ AnswersLead /\ BooksInv
  BY DEF Buggy, TransitInv, RescueTypeOK, UnderWay
<1>2. ASSUME NEW due \in BOOLEAN, ControlLoop(Tick(link, due))
      PROVE  GoalInv' /\ UnderWay'
  <2>1. Ticked(Tick(link, due))
    BY <1>1, TickIs
  <2> DEFINE t == Tick(link, due)
  <2> HIDE DEF t
  <2>2. Ticked(t) /\ ControlLoop(t)
    BY <1>2, <2>1 DEF t
  <2>3. /\ GoalInv' /\ Aims
        /\ delivered' = delivered
        /\ Instruction' = Instruction /\ Reported => Reported'
    BY <1>1, <2>2, ControlLoopAims
  <2> QED
    BY <1>1, <2>3, StartingKeepsUnderWay, SendingKeepsUnderWay DEF Aims
<1>3. CASE ServerCallback
  <2> DEFINE m == Head(toBuggy)
  <2>1. state # "INIT"
    <3>1. toBuggy # <<>>
      BY <1>3 DEF ServerCallback, HearsNothingNew, RetriesFormat,
             DeliveryRejected, RegistrationRejected, ResumesSearch,
             ZoneRejected, CompletesDeliveries, ParkingConfirmed,
             HospitalAssigned, NextPatient, Hears, Received
    <3> QED BY <1>1, <3>1 DEF NothingYet
  <2>2. Listens
    BY <1>1, <1>3, <2>1, ServerCallbackListens
  <2>3. /\ GoalInv' /\ UNCHANGED <<registered, last_tx_building>>
        /\ m.ack = 1 => Instruction' = Instruction /\ delivered' = delivered
        /\ m.ack = 0 =>
              /\ m.msg \in {Instruction, Onward}
              /\ m.msg = Onward => told = Onward
              /\ Instruction' = m.msg
              /\ delivered' \in {delivered, delivered + 1}
              /\ delivered' # delivered
                    => Instruction \in Hospitals /\ m.msg = Onward
    BY <1>1, <1>3, <2>1, ServerCallbackAims
  <2>4. m.ack \in {0, 1}
    BY <1>1, <2>2, HandledIs DEF Listens, ToBuggyMsg, AnswerMsg, AckMsg
  <2>5. Instruction # "INVALID" /\ Onward # "INVALID"
        /\ (Instruction \in Hospitals => Onward # Instruction)
    BY InstructionIs, WordsApart DEF Stops
  <2> HIDE DEF m
  <2>6. m.ack = 0 => m.msg # "INVALID"
    BY <2>3, <2>5
  <2>7. CASE Instruction' = Instruction /\ delivered' = delivered
    BY <1>1, <2>2, <2>3, <2>6, <2>7, HearingAgainKeepsUnderWay DEF m
  <2>8. CASE ~(Instruction' = Instruction /\ delivered' = delivered)
    <3>1. /\ m.ack = 0 /\ m.msg = Onward /\ told = Onward
          /\ Onward # Instruction /\ Instruction' = Onward
          /\ delivered' # delivered => Instruction \in Hospitals
      BY <2>3, <2>4, <2>5, <2>8
    <3> QED BY <1>1, <2>2, <2>3, <3>1, MovingOnKeepsUnderWay DEF m
  <2> QED BY <2>3, <2>7, <2>8
<1>4. CASE (\E text \in Codes : ReadsQr(text)) \/ QrAges \/ WaitExpires
              \/ ParkingClock
  <2>1. UNCHANGED <<link, toServer, toBuggy, state, recovery_return_state,
                    target_building, assigned_hospital, pending_delivery,
                    delivered, registered, payload_index, last_tx_building,
                    approach_target, accepted, chosen, told>>
    BY <1>1, <1>4, SurroundingsLeave
       DEF topicVars, goalVars, formatVars, approachVars, serverVars
  <2>2. /\ Instruction' = Instruction /\ Onward' = Onward
        /\ OnwardTexts' = OnwardTexts /\ Visited' = Visited
        /\ Reported' = Reported
    BY <2>1 DEF Instruction, Onward, OnwardTexts, Visited, Reported
  <2>3. GoalInv'
    BY <2>1, <2>2 DEF GoalInv
  <2>4. RequestsLead' /\ AnswersLead' /\ BooksInv'
    BY <1>1, <2>1, <2>2
       DEF UnderWay, RequestsLead, Leads, AnswersLead, BooksInv, Final
  <2> QED BY <2>3, <2>4 DEF UnderWay
<1> QED BY <1>1, <1>2, <1>3, <1>4 DEF MissionNext

\* What the server and the topic do leaves the goal alone.
LEMMA OthersKeepGoal ==
    ASSUME GoalInv, UNCHANGED missionVars
    PROVE  GoalInv'
BY DEF GoalInv, Visited, Instruction, missionVars, stateVars, goalVars,
       formatVars, approachVars

LEMMA NextKeepsTour ==
    TourInv /\ MissionInv /\ MissionInv' /\ TransitInv /\ [Next]_vars => TourInv'
<1> SUFFICES ASSUME TourInv, MissionInv, MissionInv', TransitInv,
                    [Next]_vars, rejections' = 0
             PROVE  GoalInv' /\ UnderWay'
  BY DEF TourInv, UnderWay
<1>1. rejections \in Nat /\ RouteIsTour
  BY DEF TransitInv, RescueTypeOK, TourInv
<1>2. CASE rejections = 0
  <2>1. GoalInv /\ UnderWay
    BY <1>2 DEF TourInv, UnderWay
  <2>2. CASE Buggy
    BY <1>1, <2>1, <2>2, BuggyKeepsTour
  <2>3. CASE ServerReceivesAck
    BY <2>1, <2>3, OthersKeepGoal, TakingKeepsUnderWay
       DEF ServerReceivesAck, Received
  <2>4. ASSUME NEW rejected \in BOOLEAN, ServerReceivesRequest(rejected)
        PROVE  GoalInv' /\ UnderWay'
    <3>1. rejected = FALSE
      BY <1>1, <1>2, <2>4 DEF ServerReceivesRequest
    <3>2. ServerReceivesRequest(FALSE)
      BY <2>4, <3>1
    <3>3. UNCHANGED missionVars
      BY <3>2 DEF ServerReceivesRequest
    <3> QED
      BY <1>1, <2>1, <3>2, <3>3, OthersKeepGoal, AnsweringKeepsUnderWay
  <2>5. CASE ServerRetries
    <3>1. UNCHANGED missionVars
      BY <2>5 DEF ServerRetries
    <3> QED BY <2>1, <2>5, <3>1, OthersKeepGoal, RetryingKeepsUnderWay
  <2>6. CASE Loses
    BY <2>1, <2>6, OthersKeepGoal, TakingKeepsUnderWay
       DEF Loses, LoseToServer, Received
  <2>7. CASE UNCHANGED vars
    <3>1. /\ UNCHANGED missionVars
          /\ UNCHANGED <<link, toServer, toBuggy, state, target_building,
                         registered, last_tx_building, delivered, accepted,
                         chosen, told>>
      BY <2>7
         DEF vars, topicVars, missionVars, stateVars, goalVars, formatVars,
             serverVars
    <3>2. /\ Instruction' = Instruction /\ Onward' = Onward
          /\ OnwardTexts' = OnwardTexts /\ Reported' = Reported
      BY <3>1 DEF Instruction, Onward, OnwardTexts, Reported
    <3>3. UnderWay'
      BY <2>1, <3>1, <3>2
         DEF UnderWay, RequestsLead, Leads, AnswersLead, BooksInv, Final
    <3> QED BY <2>1, <3>1, <3>3, OthersKeepGoal
  <2> QED BY <2>2, <2>3, <2>4, <2>5, <2>6, <2>7 DEF Next
<1>3. CASE rejections # 0
  <2>1. \/ UNCHANGED rejections
        \/ \E rejected \in BOOLEAN : ServerReceivesRequest(rejected)
    BY DEF Next, Buggy, serverVars, ServerReceivesAck, ServerRetries, Loses,
           vars
  <2>2. ASSUME NEW rejected \in BOOLEAN, ServerReceivesRequest(rejected)
        PROVE  rejections' \in {rejections, rejections + 1}
    BY <2>2 DEF ServerReceivesRequest
  <2> QED BY <1>1, <1>3, <2>1, <2>2
<1> QED BY <1>2, <1>3

THEOREM TourGoesOn == RouteIsTour /\ Spec => [](MissionInv /\ TransitInv /\ TourInv)
BY TourBegins, NextKeepsTour, RescueTransit, PTL DEF Spec

\* After the last delivery is confirmed the buggy waits for no answer again,
\* whatever it still hears, passes or stops at on its way out, unless a zone
\* was rejected (effective_target).
THEOREM NothingIsSentAfterwards == RouteIsTour /\ Spec => []NothingSentAfterwards
<1>1. TourInv => NothingSentAfterwards
  BY DEF TourInv, GoalInv, NothingSentAfterwards
<1> QED BY <1>1, TourGoesOn, PTL

\* Once done, the buggy stays done: all that is still under way is OK
\* (server_communication_callback).
THEOREM DoneStaysDone == RouteIsTour /\ Spec => DoneIsFinal
<1>1. /\ MissionInv /\ TransitInv /\ TourInv
      /\ [Next]_vars
      => [rejections = 0 /\ state = "DONE" => state' = "DONE"]_vars
  <2> SUFFICES ASSUME MissionInv, TransitInv, TourInv, Next,
                      rejections = 0, state = "DONE"
               PROVE  state' = "DONE"
    OBVIOUS
  <2>1. /\ RouteIsTour /\ GoalInv /\ AnswersLead /\ RescueTypeOK
    BY DEF TourInv, TransitInv
  <2>2. ASSUME NEW t, ControlLoop(t)
        PROVE  state' = "DONE"
    BY <2>2 DEF ControlLoop, EntersRecovery, Recovers, FinishesRecovery,
           Starts, Seeks, SeeksExit, StaysStopped, BacksOut,
           RegistersPatient, DeliversToHospital, SkipsBuilding, AtBuilding,
           Waits, GivesUpAssignment, GivesUpDelivery, Waiting, stateVars
  <2>3. CASE ServerCallback
    BY <2>1, <2>3, ServerCallbackAims
  <2>4. CASE (\E text \in Codes : ReadsQr(text)) \/ QrAges \/ WaitExpires
                \/ ParkingClock
    BY <2>4, SurroundingsLeave
  <2>5. CASE Buggy
    BY <2>2, <2>3, <2>4, <2>5 DEF Buggy, MissionNext
  <2>6. CASE UNCHANGED missionVars
    BY <2>6 DEF missionVars, stateVars
  <2> QED BY <2>5, <2>6 DEF Next, ServerReceivesAck, ServerReceivesRequest,
             ServerRetries, Loses
<1> QED BY <1>1, TourGoesOn, PTL DEF Spec, DoneIsFinal

-----------------------------------------------------------------------------
(***************************************************************************)
(* run_server.py rejects no zone, and DEFAULT_PAIRINGS is a tour.          *)
(***************************************************************************)
SampleServer == ~ZoneChecks /\ RouteIsTour

LEMMA SampleServerRejectsNothing ==
    SampleServer /\ Spec => []
       (MissionInv /\ TransitInv /\ TourInv /\ rejections = 0)
<1>1. SampleServer => RouteIsTour
  BY DEF SampleServer
<1>2. Init => rejections = 0
  BY DEF Init
<1>3. SampleServer /\ rejections = 0 /\ [Next]_vars => rejections' = 0
  <2> SUFFICES ASSUME ~ZoneChecks, rejections = 0, [Next]_vars
               PROVE  rejections' = 0
    BY DEF SampleServer
  <2>1. ASSUME NEW rejected \in BOOLEAN, ServerReceivesRequest(rejected)
        PROVE  rejections' = 0
    BY <2>1 DEF ServerReceivesRequest
  <2> QED
    BY <2>1 DEF Next, Buggy, serverVars, ServerReceivesAck, ServerRetries,
                Loses, vars
<1> DEFINE I == SampleServer /\ rejections = 0
<1>4. SampleServer /\ Init => I
  BY <1>2
<1>5. I /\ [Next]_vars => I'
  BY <1>3 DEF SampleServer, RouteIsTour
<1>6. I => rejections = 0
  OBVIOUS
<1> HIDE DEF I
<1> QED BY <1>1, <1>4, <1>5, <1>6, TourGoesOn, PTL DEF Spec

\* With the sample server no delivery is counted that it has not accepted
\* (server_communication_callback).
THEOREM DeliveriesAreCounted == SampleServer /\ Spec => []CountedIsAccepted
<1>1. TourInv /\ rejections = 0 => CountedIsAccepted
  BY DEF TourInv, BooksInv, CountedIsAccepted
<1> QED BY <1>1, SampleServerRejectsNothing, PTL

\* The hospital delivered to is the one the server assigned last
\* (handle_at_building).
THEOREM DeliveriesAreAssigned == SampleServer /\ Spec => []DeliversToServersChoice
<1>1. MissionInv /\ TourInv /\ rejections = 0 => DeliversToServersChoice
  BY DEF MissionInv, MissionTypeOK, TourInv, GoalInv, BooksInv,
         DeliversToServersChoice
<1> QED BY <1>1, SampleServerRejectsNothing, PTL

\* A delivery that awaits its confirmation is for the target
\* (server_communication_callback).
THEOREM DeliveriesAreForTarget == SampleServer /\ Spec => []DeliveryIsForTarget
<1>1. MissionInv /\ TourInv /\ rejections = 0 => DeliveryIsForTarget
  BY WordsApart
     DEF MissionInv, MissionTypeOK, TourInv, GoalInv, Instruction, Stops,
         DeliveryIsForTarget
<1> QED BY <1>1, SampleServerRejectsNothing, PTL

-----------------------------------------------------------------------------
(***************************************************************************)
(* Such a mission is a Tour, by the mapping of Rescue: one step of the     *)
(* tour, or none, for each step of the mission.                            *)
(***************************************************************************)
\* The server has not spoken before the first call is answered, and the buggy
\* does not move on before the server speaks.
FirstStop == told = None /\ state # "INIT" => Instruction = FIRST_PATIENT

OnTour == /\ RouteIsTour /\ GoalInv /\ UnderWay /\ FirstStop
          /\ MissionInv /\ TransitInv

TourStep == FirstStop' /\ [Rescuing!Next]_(Rescuing!vars)

\* The mapped variables.
LEMMA TourIs ==
    /\ Rescuing!vars = << IF state = "INIT" THEN FIRST_PATIENT ELSE Instruction,
                          last_tx_building,
                          IF told = None THEN FIRST_PATIENT ELSE told,
                          delivered >>
    /\ (Rescuing!vars)' =
          << IF state' = "INIT" THEN FIRST_PATIENT ELSE Instruction',
             last_tx_building',
             IF told' = None THEN FIRST_PATIENT ELSE told',
             delivered' >>
BY DEF Rescuing!vars

\* A step that disturbs nothing the tour sees.
LEMMA TourStands ==
    ASSUME FirstStop, told' = told, delivered' = delivered,
           last_tx_building' = last_tx_building,
           state' = "INIT" <=> state = "INIT",
           Instruction' = Instruction
    PROVE  TourStep
BY TourIs DEF TourStep, FirstStop

LEMMA UnchangedMission ==
    ASSUME UNCHANGED missionVars
    PROVE  /\ UNCHANGED <<state, delivered, last_tx_building, target_building>>
           /\ Instruction' = Instruction
BY DEF missionVars, stateVars, goalVars, formatVars, Instruction

\* control_loop: a transmission is a Call.
LEMMA ControlLoopCalls ==
    ASSUME OnTour, UNCHANGED serverVars, NEW t, Ticked(t), ControlLoop(t)
    PROVE  TourStep
<1>1. /\ Calls /\ delivered' = delivered /\ state' # "INIT" /\ told' = told
  BY ControlLoopAims, ControlLoopTransmits
     DEF OnTour, TransitInv, serverVars
<1>2. (IF state' = "INIT" THEN FIRST_PATIENT ELSE Instruction') =
      (IF state = "INIT" THEN FIRST_PATIENT ELSE Instruction)
  BY <1>1 DEF Calls
<1>3. FirstStop'
  BY <1>1 DEF Calls, FirstStop, OnTour
<1>4. CASE last_tx_building' = last_tx_building
  BY <1>1, <1>2, <1>3, <1>4, TourIs DEF TourStep
<1>5. CASE /\ Instruction \in Stops /\ Instruction' = Instruction
           /\ last_tx_building' = Instruction
  <2>1. Instruction # "OK"
    BY <1>5, WordsApart
  <2>2. state = "INIT" => Instruction = FIRST_PATIENT
    BY <1>1, <1>5 DEF Calls
  <2>3. Rescuing!Call
    BY <1>1, <1>2, <1>5, <2>1, <2>2 DEF Rescuing!Call
  <2> QED BY <1>3, <2>3 DEF TourStep, Rescuing!Next
<1> QED BY <1>1, <1>4, <1>5 DEF Calls

\* server_communication_callback: the answer that says where to go next makes
\* the tour Proceed.
LEMMA ServerCallbackProceeds ==
    ASSUME OnTour, UNCHANGED serverVars, ServerCallback
    PROVE  TourStep
<1> DEFINE m == Head(toBuggy)
<1>1. /\ RescueTypeOK /\ AnswersLead /\ told' = told
      /\ RouteIsTour /\ GoalInv /\ MissionInv /\ FirstStop
  BY DEF OnTour, TransitInv, UnderWay, serverVars
<1>2. state # "INIT"
  <2>1. toBuggy # <<>>
    BY DEF ServerCallback, HearsNothingNew, RetriesFormat, DeliveryRejected,
           RegistrationRejected, ResumesSearch, ZoneRejected,
           CompletesDeliveries, ParkingConfirmed, HospitalAssigned,
           NextPatient, Hears, Received
  <2> QED BY <2>1 DEF OnTour, TransitInv, NothingYet
<1>3. Listens /\ state' # "INIT"
  BY <1>1, <1>2, ServerCallbackListens
<1>4. m.ack \in {0, 1}
  BY <1>1, <1>3, HandledIs DEF Listens, ToBuggyMsg, AnswerMsg, AckMsg
<1>5. /\ last_tx_building' = last_tx_building
      /\ m.ack = 1 => Instruction' = Instruction /\ delivered' = delivered
      /\ m.ack = 0 =>
            /\ m.msg \in {Instruction, Onward}
            /\ m.msg = Onward => told = Onward
            /\ Instruction' = m.msg
            /\ delivered' \in {delivered, delivered + 1}
            /\ delivered' # delivered
                  => Instruction \in Hospitals /\ m.msg = Onward
  BY <1>1, <1>2, ServerCallbackAims
<1>6. /\ Instruction \in Hospitals => Onward # Instruction
      /\ Onward # None
  BY <1>1, InstructionIs, WordsApart DEF Stops, Answers
<1> HIDE DEF m
<1>7. CASE Instruction' = Instruction /\ delivered' = delivered
  BY <1>1, <1>2, <1>3, <1>5, <1>7, TourStands
<1>8. CASE ~(Instruction' = Instruction /\ delivered' = delivered)
  <2>1. /\ told = Onward /\ Instruction' = Onward /\ Onward # Instruction
        /\ delivered' \in {delivered, delivered + 1}
        /\ delivered' # delivered => Instruction \in Hospitals
    BY <1>4, <1>5, <1>6, <1>8
  <2>2. Rescuing!Proceed
    BY <1>1, <1>2, <1>3, <1>5, <1>6, <2>1 DEF Rescuing!Proceed
  <2>3. FirstStop'
    BY <1>1, <1>6, <2>1 DEF FirstStop
  <2> QED BY <2>2, <2>3 DEF TourStep, Rescuing!Next
<1> QED BY <1>7, <1>8

\* server_comm_callback: the first request to ask for the next stop is
\* Answered; any other says again what was said.
LEMMA RequestAnswers ==
    ASSUME OnTour, ServerReceivesRequest(FALSE)
    PROVE  TourStep
<1> DEFINE m      == Head(toServer)
           answer == NextTarget(m.msg)
<1>1. /\ toServer # <<>> /\ m.ack = 0
      /\ told' \in {told, answer}
      /\ UNCHANGED missionVars
  BY DEF ServerReceivesRequest, Received
<1>2. /\ RescueTypeOK /\ RequestsLead /\ AnswersLead /\ FirstStop
      /\ RouteIsTour /\ MissionInv
  BY DEF OnTour, TransitInv, UnderWay
<1>3. state # "INIT"
  BY <1>1 DEF OnTour, TransitInv, NothingYet
<1>4. 1 \in DOMAIN toServer /\ m = toServer[1]
  BY <1>1, <1>2, TailKeepsOrder DEF RescueTypeOK
<1>5. /\ answer \in {Instruction, Onward}
      /\ answer = Onward => Reported
      /\ told = Onward => answer = Onward
      /\ told \in {None, Instruction, Onward}
  BY <1>1, <1>2, <1>4 DEF RequestsLead, Leads, AnswersLead
<1>6. /\ Instruction # None /\ Onward # None
      /\ Instruction \in Stops => Onward = Route[Instruction]
      /\ Instruction \in Stops \cup {"OK"} /\ "OK" \notin Stops
      /\ Instruction = "OK" => Onward = "OK"
      /\ FIRST_PATIENT \in Stops
  BY <1>2, InstructionIs, WordsApart DEF Stops, Answers
<1> HIDE DEF m, answer
<1>7. /\ state' # "INIT"
      /\ UNCHANGED <<delivered, last_tx_building>>
      /\ Instruction' = Instruction
  BY <1>1, <1>3, UnchangedMission
<1>8. FirstStop'
  BY <1>1, <1>2, <1>3, <1>5, <1>6, <1>7 DEF FirstStop
<1> DEFINE said == IF told = None THEN FIRST_PATIENT ELSE told
<1>9. CASE (IF told' = None THEN FIRST_PATIENT ELSE told') = said
  BY <1>3, <1>7, <1>8, <1>9, TourIs DEF TourStep
<1>10. CASE (IF told' = None THEN FIRST_PATIENT ELSE told') # said
  <2>1. told' = Onward /\ answer = Onward /\ Instruction \in Stops
    <3>1. told' = answer /\ answer # None
      BY <1>1, <1>5, <1>6, <1>10
    <3>2. told = None => Instruction = FIRST_PATIENT
      BY <1>2, <1>3 DEF FirstStop
    <3>3. answer # said
      BY <1>10, <3>1
    <3>4. said \in {Instruction, Onward}
      BY <1>5, <3>2
    <3>5. answer = Onward
      BY <1>5, <1>6, <3>2, <3>3, <3>4
    <3> QED BY <1>5, <1>6, <3>1, <3>3, <3>4, <3>5
  <2>2. /\ last_tx_building = Instruction /\ Onward = Route[Instruction]
        /\ Instruction # "OK"
    BY <1>5, <1>6, <2>1 DEF Reported
  <2>3. Rescuing!Answer
    BY <1>3, <1>6, <1>7, <2>1, <2>2 DEF Rescuing!Answer
  <2> QED BY <1>8, <2>3 DEF TourStep, Rescuing!Next
<1> QED BY <1>9, <1>10

LEMMA NextKeepsToTour ==
    ASSUME OnTour, rejections = 0, rejections' = 0, [Next]_vars
    PROVE  TourStep
<1>1. FirstStop /\ RescueTypeOK
  BY DEF OnTour, TransitInv
<1>2. ASSUME UNCHANGED missionVars, told' = told
      PROVE  TourStep
  BY <1>1, <1>2, UnchangedMission, TourStands
<1>3. CASE Buggy
  <2>1. MissionNext /\ UNCHANGED serverVars /\ told' = told
    BY <1>3 DEF Buggy, serverVars
  <2>2. ASSUME NEW due \in BOOLEAN, ControlLoop(Tick(link, due))
        PROVE  TourStep
    <3>1. Ticked(Tick(link, due))
      BY <1>1, TickIs
    <3> DEFINE t == Tick(link, due)
    <3> HIDE DEF t
    <3>2. Ticked(t) /\ ControlLoop(t)
      BY <2>2, <3>1 DEF t
    <3> QED BY <2>1, <3>2, ControlLoopCalls
  <2>3. CASE (\E text \in Codes : ReadsQr(text)) \/ QrAges \/ WaitExpires
                \/ ParkingClock
    <3>1. UNCHANGED <<state, target_building, delivered, last_tx_building>>
      BY <2>3, SurroundingsLeave DEF goalVars, formatVars
    <3> QED BY <1>1, <2>1, <3>1, TourStands DEF Instruction
  <2> QED BY <2>1, <2>2, <2>3, ServerCallbackProceeds DEF MissionNext
<1>4. ASSUME NEW rejected \in BOOLEAN, ServerReceivesRequest(rejected)
      PROVE  TourStep
  <2>1. rejected = FALSE
    BY <1>1, <1>4 DEF ServerReceivesRequest
  <2>2. ServerReceivesRequest(FALSE)
    BY <1>4, <2>1
  <2> QED BY <2>2, RequestAnswers
<1>5. CASE ServerReceivesAck
  BY <1>2, <1>5 DEF ServerReceivesAck
<1>6. CASE ServerRetries
  BY <1>2, <1>6 DEF ServerRetries
<1>7. CASE Loses
  BY <1>2, <1>7 DEF Loses
<1>8. CASE UNCHANGED vars
  BY <1>2, <1>8 DEF vars, serverVars
<1> QED BY <1>3, <1>4, <1>5, <1>6, <1>7, <1>8 DEF Next

\* With the sample server a mission goes from stop to stop in the order of the
\* pairings, each time in answer to a call at the stop it leaves, whatever
\* comes late, twice or not at all (Rescue refines Tour).
THEOREM RescueImplementsTour == SampleServer /\ Spec => KeepsTour
<1> DEFINE I == MissionInv /\ TransitInv /\ TourInv /\ rejections = 0
<1>1. Init => Rescuing!Init /\ FirstStop
  BY DEF Init, MissionInit, Rescuing!Init, FirstStop
<1>2. I /\ I' /\ FirstStop /\ [Next]_vars => TourStep
  <2> SUFFICES ASSUME I, I', FirstStop, [Next]_vars PROVE TourStep
    OBVIOUS
  <2>1. OnTour /\ rejections = 0 /\ rejections' = 0
    BY DEF OnTour, TourInv, UnderWay
  <2> QED BY <2>1, NextKeepsToTour
<1>3. SampleServer /\ Spec => []I
  BY SampleServerRejectsNothing
<1> HIDE DEF I
<1> QED
  BY <1>1, <1>2, <1>3, PTL DEF Spec, TourStep, KeepsTour, Rescuing!Spec
=============================================================================
