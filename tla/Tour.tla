-------------------------------- MODULE Tour --------------------------------
(***************************************************************************)
(* What a rescue is, whatever the topic loses, repeats or delays and       *)
(* however often the buggy waits in vain and calls again: the buggy goes   *)
(* from stop to stop in the order of the server's pairings, each step an   *)
(* answer to a call it made at the stop it leaves; and it counts at most   *)
(* one delivery for each time it is sent on from a hospital.               *)
(***************************************************************************)
EXTENDS Integers

CONSTANTS
    None,
    Hospitals,
    FIRST_PATIENT,
    Route           \* from each building to the next, or to OK

VARIABLES
    stop,       \* where the buggy was told to go, or OK
    called,     \* the building it transmitted last
    answered,   \* what the server said last
    delivered   \* deliveries counted

vars == <<stop, called, answered, delivered>>

Init ==
    /\ stop = FIRST_PATIENT
    /\ called = None
    /\ answered = FIRST_PATIENT
    /\ delivered = 0

Call ==
    /\ stop # "OK"
    /\ called' = stop
    /\ UNCHANGED <<stop, answered, delivered>>

Answer ==
    /\ stop # "OK"
    /\ called = stop
    /\ answered' = Route[stop]
    /\ UNCHANGED <<stop, called, delivered>>

\* The buggy hears the answer; a delivery it had given up waiting for is not
\* counted.
Proceed ==
    /\ answered # stop
    /\ stop' = answered
    /\ delivered' \in {delivered, delivered + 1}
    /\ delivered' # delivered => stop \in Hospitals
    /\ UNCHANGED <<called, answered>>

Next == Call \/ Answer \/ Proceed

Spec == Init /\ [][Next]_vars
=============================================================================
