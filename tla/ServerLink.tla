----------------------------- MODULE ServerLink -----------------------------
(***************************************************************************)
(* The buggy's end of the Municipality Server protocol: class ServerLink   *)
(* of b3rb_ros_line_follower.py.  The link is a record                     *)
(*                                                                         *)
(*   uid      _uid, the uid given to the latest message                    *)
(*   pending  _pending: the message still unacknowledged, or None          *)
(*   sent     history: how many messages were ever sent                    *)
(*                                                                         *)
(* Each method is an operator from a link to the link it leaves and the    *)
(* messages it publishes, because the mission calls several of them within *)
(* one callback.  The time a message was sent at is abstracted to the      *)
(* argument `due' of Tick: whether ACK_TIMEOUT_SEC has gone by.            *)
(***************************************************************************)
EXTENDS Topic

CONSTANTS
    MAX_RETRIES,   \* retransmissions of a message before giving it up
    UID_MOD        \* 256: uids are a uint8 that wraps

ASSUME LinkAssumption ==
    /\ MAX_RETRIES \in Nat
    /\ UID_MOD \in Nat \ {0}

\* __init__
InitLink == [uid |-> 0, pending |-> None, sent |-> 0]

\* Mutant: the uid is not wrapped.
NextUidUnwrapped(link) == link.uid + 1

\* _next_uid
NextUid(link) == (link.uid + 1) % UID_MOD

\* send: a new message takes the place of one still unacknowledged.
Send(link, text) ==
    LET u == NextUid(link)
        n == link.sent + 1
    IN  [link |-> [uid     |-> u,
                   pending |-> [uid |-> u, text |-> text,
                                retries |-> 0, seq |-> n],
                   sent    |-> n],
         out  |-> << Message(u, 0, text, n) >>]

\* Mutant: any acknowledgment will do.
AcknowledgesAny(link, m) == m.ack = 1 /\ link.pending # None

\* The message m acknowledges what the link is waiting for.
Acknowledges(link, m) ==
    /\ m.ack = 1
    /\ link.pending # None
    /\ link.pending.uid = m.uid

\* handle (with send_ack): a data message is acknowledged, always, and its
\* text handed to the caller; None stands for "nothing to act upon".
Handle(link, m) ==
    IF m.ack = 1
    THEN [link    |-> IF Acknowledges(link, m)
                      THEN [link EXCEPT !.pending = None]
                      ELSE link,
          out     |-> << >>,
          payload |-> None]
    ELSE [link    |-> link,
          out     |-> << Message(m.uid, 1, None, m.seq) >>,
          payload |-> m.msg]

\* Mutant: retransmissions are not counted.
TickUncounted(link, due) ==
    IF link.pending = None \/ ~due
    THEN [link |-> link, out |-> << >>]
    ELSE [link |-> link,
          out  |-> << Message(link.pending.uid, 0, link.pending.text,
                              link.pending.seq) >>]

\* tick: retransmit what is unacknowledged, give it up after MAX_RETRIES.
Tick(link, due) ==
    IF link.pending = None \/ ~due
    THEN [link |-> link, out |-> << >>]
    ELSE IF link.pending.retries >= MAX_RETRIES
    THEN [link |-> [link EXCEPT !.pending = None], out |-> << >>]
    ELSE [link |-> [link EXCEPT !.pending.retries = @ + 1],
          out  |-> << Message(link.pending.uid, 0, link.pending.text,
                              link.pending.seq) >>]
=============================================================================
