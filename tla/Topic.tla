------------------------------- MODULE Topic -------------------------------
(***************************************************************************)
(* The ROS 2 topic /ServerCommunication, which both nodes publish to and   *)
(* subscribe to with a queue of Depth messages (QOS = 10).  rclpy and the  *)
(* DDS layer below it are not part of the repository; what matters of them *)
(* here is how the two nodes use them.  A node drops every message that is *)
(* not addressed to it (`dest'), so the topic is seen as two queues, one   *)
(* per direction, and `src' and `dest' are left out of the messages.       *)
(*                                                                         *)
(* Each queue is first-in first-out and keeps the last Depth messages.  A  *)
(* message may also be lost on the way (a subscriber not yet discovered, a *)
(* history overrun).  Losing the oldest message of the queue is enough:    *)
(* receivers look at nothing but the head, so any set of losses can be     *)
(* replayed as losses at the head.                                         *)
(***************************************************************************)
EXTENDS Integers, Sequences

CONSTANTS
    Depth,     \* history depth of the topic's QoS profile
    None       \* Python's None, and the empty text of an acknowledgment

ASSUME DepthAssumption == Depth \in Nat \ {0}

VARIABLES
    toServer,  \* messages with dest = 2, oldest first
    toBuggy    \* messages with dest = 1, oldest first

topicVars == <<toServer, toBuggy>>

(***************************************************************************)
(* A message.  `seq' is a history field no code reads: the number of the   *)
(* request or answer the message carries or acknowledges, counted without  *)
(* wrapping.                                                               *)
(***************************************************************************)
Message(uid, ack, msg, seq) ==
    [uid |-> uid, ack |-> ack, msg |-> msg, seq |-> seq]

\* Publishing the messages `out', in order, on a queue that keeps the last
\* Depth of what it was given.
Publish(queue, out) ==
    LET all  == queue \o out
        lost == IF Len(all) > Depth THEN Len(all) - Depth ELSE 0
    IN  [i \in 1 .. Len(all) - lost |-> all[i + lost]]

Received(queue) == queue # <<>>

TopicInit ==
    /\ toServer = <<>>
    /\ toBuggy  = <<>>

\* A message never reaches its subscriber.
LoseToServer ==
    /\ Received(toServer)
    /\ toServer' = Tail(toServer)
    /\ UNCHANGED toBuggy

LoseToBuggy ==
    /\ Received(toBuggy)
    /\ toBuggy' = Tail(toBuggy)
    /\ UNCHANGED toServer
=============================================================================
