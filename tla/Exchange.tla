------------------------------ MODULE Exchange ------------------------------
(***************************************************************************)
(* What the exchange between the buggy and the Municipality Server         *)
(* promises to the two programs, whatever the topic loses and whatever is  *)
(* retransmitted: requests are processed in the order they were made and   *)
(* none twice; each is answered once; answers are heard in the order they  *)
(* were given, possibly not at all and possibly again, but never after a   *)
(* later one; and the buggy takes a request as received only if it was.    *)
(***************************************************************************)
EXTENDS Integers

VARIABLES
    asked,     \* requests the buggy has made
    served,    \* number of the latest request the server has processed
    answered,  \* answers the server has given
    heard,     \* number of the latest answer the mission has been handed
    acked      \* number of the latest request the buggy knows was received

vars == <<asked, served, answered, heard, acked>>

Init ==
    /\ asked = 0
    /\ served = 0
    /\ answered = 0
    /\ heard = 0
    /\ acked = 0

Ask ==
    /\ asked' = asked + 1
    /\ UNCHANGED <<served, answered, heard, acked>>

\* Requests between the previous one and this one were lost.
Serve ==
    /\ served' \in served + 1 .. asked
    /\ answered' = answered + 1
    /\ UNCHANGED <<asked, heard, acked>>

Hear ==
    /\ heard' \in heard .. answered
    /\ UNCHANGED <<asked, served, answered, acked>>

Settle ==
    /\ acked' \in acked + 1 .. served
    /\ UNCHANGED <<asked, served, answered, heard>>

Next == Ask \/ Serve \/ Hear \/ Settle

Spec == Init /\ [][Next]_vars
=============================================================================
