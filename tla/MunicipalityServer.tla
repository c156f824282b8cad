------------------------- MODULE MunicipalityServer -------------------------
(***************************************************************************)
(* The sample Municipality Server, run_server.py (class ServerCommNode).   *)
(* The server is a record                                                  *)
(*                                                                         *)
(*   uid      server_uid                                                   *)
(*   lastUid  last_processed_buggy_uid                                     *)
(*   pending  pending_uid and pending_msg, set and cleared together, or    *)
(*            None                                                         *)
(*   retries  retry_count                                                  *)
(*   armed    retry_timer is running                                       *)
(*   up       the node has not died on an exception                        *)
(*   served   history: `seq' of the latest request processed               *)
(*                                                                         *)
(* Each callback is an operator from a server to the server it leaves and  *)
(* the messages it publishes.                                              *)
(***************************************************************************)
EXTENDS Topic

CONSTANTS
    SERVER_UID,      \* 50: server_uid before the first answer
    UID_MAX,         \* 255: what the uint8 field of the message can hold
    SERVER_RETRIES   \* 5: retransmissions of an answer

ASSUME ServerAssumption ==
    /\ SERVER_UID \in Nat
    /\ UID_MAX \in Nat
    /\ SERVER_RETRIES \in Nat

\* __init__
InitServer ==
    [uid |-> SERVER_UID, lastUid |-> -1, pending |-> None, retries |-> 0,
     armed |-> FALSE, up |-> TRUE, served |-> 0]

\* The number of answers given so far, and of the answer numbered uid.
AnswerSeq(uid) == uid - SERVER_UID

\* Mutant: any acknowledgment stops the retransmission.
AnswerAckedByAny(server, m) ==
    [server EXCEPT !.pending = None, !.retries = 0, !.armed = FALSE]

\* server_comm_callback, CASE 1: the buggy acknowledges an answer.
AnswerAcked(server, m) ==
    IF server.pending # None /\ server.pending.uid = m.uid
    THEN [server EXCEPT !.pending = None, !.retries = 0, !.armed = FALSE]
    ELSE server

\* Mutant: a retransmitted request is processed again.
RequestEveryTime(server, m, answer) ==
    LET u == server.uid + 1
    IN  [server |-> [server EXCEPT !.lastUid = m.uid, !.uid = u,
                                   !.served = m.seq, !.retries = 0,
                                   !.pending = [uid |-> u, msg |-> answer],
                                   !.armed = TRUE],
         out |-> << Message(m.uid, 1, None, m.seq),
                    Message(u, 0, answer, AnswerSeq(u)) >>]

\* Mutant: an answer that is still pending goes on being retransmitted.
RequestKeepsPending(server, m, answer) ==
    LET acked == Message(m.uid, 1, None, m.seq)
        u     == server.uid + 1
    IN  IF server.lastUid = m.uid
        THEN [server |-> server, out |-> << acked >>]
        ELSE [server |-> [server EXCEPT
                 !.lastUid = m.uid, !.uid = u, !.served = m.seq,
                 !.pending = IF @ = None THEN [uid |-> u, msg |-> answer]
                                         ELSE @,
                 !.retries = 0, !.armed = TRUE],
              out |-> << acked, Message(u, 0, answer, AnswerSeq(u)) >>]

\* server_comm_callback, CASE 2: a request, acknowledged at once.  One with
\* the uid of the latest request is a retransmission and goes no further.  A
\* new one is answered with `answer', under the next uid; server_uid is never
\* wrapped, and once it no longer fits the message's uint8 field the
\* assignment raises and the node dies with only the acknowledgment sent.
Request(server, m, answer) ==
    LET acked == Message(m.uid, 1, None, m.seq)
        u     == server.uid + 1
        begun == [server EXCEPT !.lastUid = m.uid, !.uid = u, !.served = m.seq]
    IN  IF server.lastUid = m.uid
        THEN [server |-> server, out |-> << acked >>]
        ELSE IF u > UID_MAX
        THEN [server |-> [begun EXCEPT !.up = FALSE], out |-> << acked >>]
        ELSE [server |-> [begun EXCEPT !.pending = [uid |-> u, msg |-> answer],
                                       !.retries = 0, !.armed = TRUE],
              out |-> << acked, Message(u, 0, answer, AnswerSeq(u)) >>]

\* _retry_target_send, which the retry timer calls every second: resend the
\* pending answer; after SERVER_RETRIES resends stop the timer, but keep the
\* answer pending.
RetryTargetSend(server) ==
    LET n == server.retries + 1
    IN  IF server.pending = None
        THEN [server |-> [server EXCEPT !.armed = FALSE], out |-> << >>]
        ELSE IF n > SERVER_RETRIES
        THEN [server |-> [server EXCEPT !.retries = n, !.armed = FALSE],
              out |-> << >>]
        ELSE [server |-> [server EXCEPT !.retries = n],
              out |-> << Message(server.pending.uid, 0, server.pending.msg,
                                 AnswerSeq(server.pending.uid)) >>]
=============================================================================
