------------------------------ MODULE Handshake ------------------------------
(***************************************************************************)
(* The two ends of the uid/ack handshake, ServerLink and                   *)
(* MunicipalityServer, over the lossy topic.  The mission is any program   *)
(* that sends a request now and then, whether or not the previous one was  *)
(* acknowledged (the PARKED announcements and the payload-format retry     *)
(* do not wait).  Clocks are abstract: a retransmission may come at any    *)
(* moment, so also while the message it repeats is only slow.              *)
(***************************************************************************)
EXTENDS ServerLink, MunicipalityServer

CONSTANTS
    Requests,   \* texts the mission sends
    Answers,    \* texts the server answers with
    MaxSends    \* bound on the requests of a behaviour

ASSUME HandshakeAssumption ==
    /\ MaxSends \in Nat
    /\ None \notin Requests \cup Answers

VARIABLES
    link,       \* the buggy's ServerLink
    server,     \* the server node
    heard,      \* history: seq of the latest answer handed to the mission
    acked       \* history: seq of the latest request taken as received

vars == <<toServer, toBuggy, link, server, heard, acked>>

(***************************************************************************)
(* The lifetime a uid needs: it is not given again while a request, an     *)
(* acknowledgment or the server's memory of its previous use is still      *)
(* around.  The code has no such guard.  It relies on UID_MOD = 256        *)
(* requests taking far longer than a message stays in a queue of Depth, or *)
(* than MAX_RETRIES lost requests in a row, each of them seconds apart.    *)
(***************************************************************************)
UidIsFree ==
    /\ link.sent + 1 - server.served < UID_MOD
    /\ \A i \in DOMAIN toServer :
          toServer[i].ack = 0 => link.sent + 1 - toServer[i].seq < UID_MOD
    /\ \A i \in DOMAIN toBuggy :
          toBuggy[i].ack = 1 => link.sent + 1 - toBuggy[i].seq < UID_MOD

Init ==
    /\ TopicInit
    /\ link = InitLink
    /\ server = InitServer
    /\ heard = 0
    /\ acked = 0

BuggySends ==
    /\ link.sent < MaxSends
    /\ UidIsFree
    /\ \E text \in Requests :
          LET step == Send(link, text)
          IN  /\ link' = step.link
              /\ toServer' = Publish(toServer, step.out)
    /\ UNCHANGED <<toBuggy, server, heard, acked>>

\* ACK_TIMEOUT_SEC has gone by since the message was last sent.
BuggyTicks ==
    /\ link.pending # None
    /\ LET step == Tick(link, TRUE)
       IN  /\ link' = step.link
           /\ toServer' = Publish(toServer, step.out)
    /\ UNCHANGED <<toBuggy, server, heard, acked>>

BuggyReceives ==
    /\ Received(toBuggy)
    /\ LET m    == Head(toBuggy)
           step == Handle(link, m)
       IN  /\ link' = step.link
           /\ toBuggy' = Tail(toBuggy)
           /\ toServer' = Publish(toServer, step.out)
           /\ heard' = IF step.payload # None THEN m.seq ELSE heard
           /\ acked' = IF Acknowledges(link, m) THEN link.pending.seq
                                                ELSE acked
    /\ UNCHANGED server

ServerReceivesAck ==
    /\ server.up
    /\ Received(toServer)
    /\ Head(toServer).ack = 1
    /\ toServer' = Tail(toServer)
    /\ server' = AnswerAcked(server, Head(toServer))
    /\ UNCHANGED <<toBuggy, link, heard, acked>>

ServerReceivesRequest ==
    /\ server.up
    /\ Received(toServer)
    /\ Head(toServer).ack = 0
    /\ \E answer \in Answers :
          LET step == Request(server, Head(toServer), answer)
          IN  /\ server' = step.server
              /\ toBuggy' = Publish(toBuggy, step.out)
    /\ toServer' = Tail(toServer)
    /\ UNCHANGED <<link, heard, acked>>

\* The one-second retry timer fires.
ServerRetries ==
    /\ server.up
    /\ server.armed
    /\ LET step == RetryTargetSend(server)
       IN  /\ server' = step.server
           /\ toBuggy' = Publish(toBuggy, step.out)
    /\ UNCHANGED <<toServer, link, heard, acked>>

Loses ==
    /\ LoseToServer \/ LoseToBuggy
    /\ UNCHANGED <<link, server, heard, acked>>

Next ==
    \/ BuggySends
    \/ BuggyTicks
    \/ BuggyReceives
    \/ ServerReceivesAck
    \/ ServerReceivesRequest
    \/ ServerRetries
    \/ Loses

Spec == Init /\ [][Next]_vars

(***************************************************************************)
(* rclpy.spin serves every ready callback and both retransmission timers   *)
(* are periodic; nothing makes the mission send or the topic lose.         *)
(***************************************************************************)
Fairness ==
    /\ WF_vars(BuggyTicks)
    /\ WF_vars(BuggyReceives)
    /\ WF_vars(ServerReceivesAck)
    /\ WF_vars(ServerReceivesRequest)
    /\ WF_vars(ServerRetries)

FairSpec == Spec /\ Fairness

-----------------------------------------------------------------------------
RequestMsg == [uid : 0 .. UID_MOD - 1, ack : {0}, msg : Requests, seq : Nat]
AnswerMsg  == [uid : 0 .. UID_MAX, ack : {0}, msg : Answers, seq : Nat]
AckMsg     == [uid : Nat, ack : {1}, msg : {None}, seq : Nat]

PendingRequest == [uid : 0 .. UID_MOD - 1, text : Requests,
                   retries : 0 .. MAX_RETRIES, seq : Nat]
PendingAnswer  == [uid : 0 .. UID_MAX, msg : Answers]

LinkType == [uid : 0 .. UID_MOD - 1, pending : PendingRequest \cup {None},
             sent : Nat]
ServerType == [uid : Nat, lastUid : Nat \cup {-1},
               pending : PendingAnswer \cup {None}, retries : Nat,
               armed : BOOLEAN, up : BOOLEAN, served : Nat]

\* The shape of every variable: uids on the wire fit their uint8 field, and
\* the retry counter of the link never passes MAX_RETRIES.
TypeOK ==
    /\ toServer \in Seq(RequestMsg \cup AckMsg)
    /\ toBuggy \in Seq(AnswerMsg \cup AckMsg)
    /\ link \in LinkType
    /\ server \in ServerType
    /\ heard \in Nat
    /\ acked \in Nat

\* The acknowledgment the link accepts is the one of the message it waits
\* for, which the server has really processed: uids that wrap around,
\* retransmissions and overwritten requests never make the link take an old
\* acknowledgment for a new one (ServerLink.handle, "our uid acknowledged").
AcksTellTheTruth ==
    \A i \in DOMAIN toBuggy :
        Acknowledges(link, toBuggy[i]) =>
            /\ toBuggy[i].seq = link.pending.seq
            /\ link.pending.seq <= server.served

\* What is in transit is in order: a request still on its way is not older
\* than the latest one processed, an answer on its way not older than the
\* latest one heard, and nothing overtakes anything.
InOrder ==
    /\ \A i, j \in DOMAIN toServer :
          i < j /\ toServer[i].ack = 0 /\ toServer[j].ack = 0
             => toServer[i].seq <= toServer[j].seq
    /\ \A i, j \in DOMAIN toBuggy :
          i < j /\ toBuggy[i].ack = 0 /\ toBuggy[j].ack = 0
             => toBuggy[i].seq <= toBuggy[j].seq
    /\ \A i \in DOMAIN toServer :
          toServer[i].ack = 0 => toServer[i].seq \in server.served .. link.sent
    /\ \A i \in DOMAIN toBuggy :
          toBuggy[i].ack = 0 =>
             toBuggy[i].seq \in heard .. AnswerSeq(server.uid)

\* The handshake does what Exchange promises: requests processed in order and
\* at most once, answers never heard after a later one, receipt never taken
\* for granted (the uid bookkeeping of both ends).
Promise == INSTANCE Exchange WITH
    asked <- link.sent, served <- server.served,
    answered <- AnswerSeq(server.uid)
KeepsPromise == Promise!Spec

\* Once the mission sends nothing more, retransmission ends on both sides:
\* every message is acknowledged or given up (ServerLink.tick's MAX_RETRIES,
\* _retry_target_send's five retries), unless the server node has died.
Quiesces == <>[](link.pending = None /\ (server.up => ~server.armed))
=============================================================================
