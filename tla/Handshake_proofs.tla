-------------------------- MODULE Handshake_proofs --------------------------
(***************************************************************************)
(* The handshake keeps its promises for any depth of the topic, any number *)
(* of retransmissions, any width of the uids and however long it runs, as  *)
(* long as a uid has the lifetime UidIsFree gives it.                      *)
(*                                                                         *)
(* InOrder and AcksTellTheTruth speak of what is in transit.  They hold    *)
(* because every uid on the wire or in a node's memory is its message's    *)
(* number modulo UID_MOD, and because all of those numbers lie within one  *)
(* window shorter than UID_MOD below `sent', where no two share a uid.     *)
(***************************************************************************)
EXTENDS Handshake, LinkLemmas, TLAPS

\* The number `seq' has not left the window of uids in use.
InWindow(seq) == link.sent - seq < UID_MOD

\* What the link waits for is the latest message sent, and not yet known as
\* received.
LinkInv ==
    /\ link.uid = link.sent % UID_MOD
    /\ acked <= link.sent
    /\ link.pending # None =>
          /\ link.pending.uid = link.uid
          /\ link.pending.seq = link.sent
          /\ acked < link.sent

\* The server remembers the uid of the latest request it processed; what it
\* retransmits is its latest answer.
ServerInv ==
    /\ server.served <= link.sent
    /\ InWindow(server.served)
    /\ server.lastUid = IF server.served = 0 THEN -1
                                             ELSE server.served % UID_MOD
    /\ server.uid >= SERVER_UID
    /\ server.up /\ server.pending # None => server.pending.uid = server.uid
    /\ acked <= server.served
    /\ heard <= AnswerSeq(server.uid)

\* A request in transit was sent, is not older than the latest processed, and
\* carries the uid of its number.
GoodRequest(m) ==
    m.ack = 0 =>
        /\ m.seq \in server.served .. link.sent
        /\ m.seq > 0
        /\ m.uid = m.seq % UID_MOD
        /\ InWindow(m.seq)

\* An acknowledgment of a request in transit is for one that was processed;
\* an answer in transit was given, and none later was heard.
GoodReply(m) ==
    /\ m.ack = 1 =>
          /\ m.seq <= server.served
          /\ m.uid = m.seq % UID_MOD
          /\ InWindow(m.seq)
    /\ m.ack = 0 => m.seq \in heard .. AnswerSeq(server.uid)

RequestsInv == \A i \in DOMAIN toServer : GoodRequest(toServer[i])
RepliesInv  == \A i \in DOMAIN toBuggy : GoodReply(toBuggy[i])
OrderInv    == Sorted(toServer) /\ Sorted(toBuggy)

HandshakeInv ==
    /\ TypeOK
    /\ LinkInv
    /\ ServerInv
    /\ RequestsInv
    /\ RepliesInv
    /\ OrderInv

-----------------------------------------------------------------------------
(***************************************************************************)
(* The invariant.                                                          *)
(***************************************************************************)
ToServerMsg == RequestMsg \cup AckMsg
ToBuggyMsg  == AnswerMsg \cup AckMsg

\* The shape of what is in transit.
LEMMA MessageTypes ==
    ASSUME TypeOK
    PROVE  /\ \A i \in DOMAIN toServer :
                 /\ toServer[i] \in ToServerMsg
                 /\ toServer[i].seq \in Nat /\ toServer[i].uid \in Nat
                 /\ toServer[i].ack \in {0, 1}
           /\ \A i \in DOMAIN toBuggy :
                 /\ toBuggy[i] \in ToBuggyMsg
                 /\ toBuggy[i].seq \in Nat /\ toBuggy[i].uid \in Nat
                 /\ toBuggy[i].ack \in {0, 1}
<1>1. /\ \A m \in ToServerMsg : /\ m.seq \in Nat /\ m.uid \in Nat
                                /\ m.ack \in {0, 1}
      /\ \A m \in ToBuggyMsg : /\ m.seq \in Nat /\ m.uid \in Nat
                               /\ m.ack \in {0, 1}
  BY LinkAssumption, ServerAssumption
     DEF ToServerMsg, ToBuggyMsg, RequestMsg, AnswerMsg, AckMsg
<1>2. \A i \in DOMAIN toServer : toServer[i] \in ToServerMsg
  BY DEF TypeOK, ToServerMsg
<1>3. \A i \in DOMAIN toBuggy : toBuggy[i] \in ToBuggyMsg
  BY DEF TypeOK, ToBuggyMsg
<1> QED BY <1>1, <1>2, <1>3

\* Nothing has been sent: all windows are empty.
LEMMA InitHolds == Init => HandshakeInv
<1> SUFFICES ASSUME Init PROVE HandshakeInv
  OBVIOUS
<1> USE LinkAssumption, ServerAssumption
      DEF Init, TopicInit, InitLink, InitServer
<1>1. TypeOK
  BY DEF TypeOK, LinkType, ServerType
<1>2. 0 % UID_MOD = 0
  <2>1. 0 = 0 * UID_MOD + 0 /\ 0 \in 0 .. UID_MOD - 1
    OBVIOUS
  <2> QED BY <2>1, RemainderIsUnique
<1>3. LinkInv
  BY <1>2 DEF LinkInv
<1>4. ServerInv
  BY DEF ServerInv, InWindow, AnswerSeq
<1>5. RequestsInv /\ RepliesInv /\ OrderInv
  BY DEF RequestsInv, RepliesInv, OrderInv, Sorted
<1> QED BY <1>1, <1>3, <1>4, <1>5 DEF HandshakeInv

\* A request takes the next number; the uid's lifetime keeps the window.
LEMMA BuggySendsKeeps ==
    ASSUME HandshakeInv, BuggySends
    PROVE  HandshakeInv' /\ Promise!Ask
<1> DEFINE n == link.sent + 1
           u == NextUid(link)
<1>1. PICK text \in Requests :
        /\ link' = [uid |-> u,
                    pending |-> [uid |-> u, text |-> text,
                                 retries |-> 0, seq |-> n],
                    sent |-> n]
        /\ toServer' = Publish(toServer, << Message(u, 0, text, n) >>)
  BY DEF BuggySends, Send
<1>2. UNCHANGED <<toBuggy, server, heard, acked>> /\ UidIsFree
  BY DEF BuggySends
<1> DEFINE m == Message(u, 0, text, n)
           out == << m >>
<1>2a. /\ \A i \in DOMAIN toServer : toServer[i].seq \in Nat
      /\ \A i \in DOMAIN toBuggy : toBuggy[i].seq \in Nat
  BY MessageTypes DEF HandshakeInv
<1>3. link \in LinkType /\ n \in Nat /\ link.sent \in Nat /\ n = link.sent + 1
  BY DEF HandshakeInv, TypeOK, LinkType
<1>4. u = n % UID_MOD /\ u \in 0 .. UID_MOD - 1
  <2>1. u = ((link.sent % UID_MOD) + 1) % UID_MOD
    BY DEF HandshakeInv, LinkInv, NextUid
  <2> QED BY <1>3, <2>1, ModOfSuccessor, ModRange, LinkAssumption
<1> HIDE DEF n, u
<1>5. m \in ToServerMsg /\ m.ack = 0 /\ m.seq = n /\ m.uid = u
  BY <1>3, <1>4 DEF Message, ToServerMsg, RequestMsg
<1>6. toServer \in Seq(ToServerMsg) /\ out \in Seq(ToServerMsg)
  BY <1>5 DEF HandshakeInv, TypeOK, ToServerMsg
<1>7. \A i \in DOMAIN out : out[i] = m
  OBVIOUS
<1> HIDE DEF m, out
<1>8. toServer' = Publish(toServer, out)
  BY <1>1 DEF m, out
<1>9. TypeOK'
  <2>1. toServer' \in Seq(ToServerMsg)
    BY <1>6, <1>8, PublishKeepsTheEnd
  <2>2. link' \in LinkType
    BY <1>1, <1>3, <1>4, LinkAssumption DEF LinkType, PendingRequest
  <2> QED BY <1>2, <2>1, <2>2 DEF HandshakeInv, TypeOK, ToServerMsg
<1>10. LinkInv' /\ ServerInv'
  <2>1. acked <= link.sent /\ acked \in Nat
    BY <1>3 DEF HandshakeInv, LinkInv, TypeOK
  <2>2. LinkInv'
    BY <1>1, <1>2, <1>3, <1>4, <2>1 DEF LinkInv
  <2>3. server.served <= link.sent /\ server.served \in Nat
    BY DEF HandshakeInv, ServerInv, TypeOK, ServerType
  <2>4. server.served <= n /\ n - server.served < UID_MOD
    BY <1>2, <1>3, <2>3 DEF UidIsFree
  <2> QED BY <1>1, <1>2, <2>2, <2>4
          DEF HandshakeInv, ServerInv, InWindow, AnswerSeq
<1>11. RequestsInv'
  <2> SUFFICES ASSUME NEW i \in DOMAIN toServer'
               PROVE  GoodRequest(toServer[i])'
    BY DEF RequestsInv
  <2>1. CASE \E j \in DOMAIN toServer : toServer'[i] = toServer[j]
    <3>1. PICK j \in DOMAIN toServer : toServer'[i] = toServer[j]
      BY <2>1
    <3>2. CASE toServer[j].ack = 0
      <4>1. GoodRequest(toServer[j])
        BY DEF HandshakeInv, RequestsInv
      <4>2. n - toServer[j].seq < UID_MOD
        BY <1>2a, <1>2, <1>3, <3>2, LinkAssumption DEF UidIsFree
      <4>3. server.served \in Nat
        BY DEF HandshakeInv, TypeOK, ServerType
      <4> QED BY <1>1, <1>2, <1>3, <3>1, <3>2, <4>1, <4>2,
                 <4>3 DEF GoodRequest, InWindow
    <3> QED BY <3>1, <3>2 DEF GoodRequest
  <2>2. CASE toServer'[i] = m
    <3>1. server.served <= link.sent /\ server.served \in Nat
      BY DEF HandshakeInv, ServerInv, TypeOK, ServerType
    <3> QED BY <1>1, <1>2, <1>3, <1>4, <1>5, <2>2, <3>1, LinkAssumption
            DEF GoodRequest, InWindow
  <2> QED BY <1>6, <1>7, <1>8, <2>1, <2>2, PublishAddsOnly
<1>12. RepliesInv'
  <2> SUFFICES ASSUME NEW i \in DOMAIN toBuggy PROVE GoodReply(toBuggy[i])'
    BY <1>2 DEF RepliesInv
  <2>1. GoodReply(toBuggy[i])
    BY DEF HandshakeInv, RepliesInv
  <2>2. toBuggy[i].ack = 1 => n - toBuggy[i].seq < UID_MOD
    BY <1>2a, <1>2, <1>3, LinkAssumption DEF UidIsFree
  <2> QED BY <1>1, <1>2, <2>1, <2>2 DEF GoodReply, InWindow, AnswerSeq
<1>13. OrderInv'
  <2>1. \A i \in DOMAIN toServer, j \in DOMAIN out :
           toServer[i].ack = 0 /\ out[j].ack = 0
              => toServer[i].seq <= out[j].seq
    <3> SUFFICES ASSUME NEW i \in DOMAIN toServer, toServer[i].ack = 0
                 PROVE  toServer[i].seq <= n
      BY <1>5, <1>7
    <3>1. toServer[i].seq \in server.served .. link.sent
      BY DEF HandshakeInv, RequestsInv, GoodRequest
    <3>2. server.served \in Nat
      BY DEF HandshakeInv, TypeOK, ServerType
    <3> QED BY <1>3, <3>1, <3>2
  <2>2. Sorted(out)
    BY <1>3, <1>5, <1>7 DEF Sorted
  <2>3. Sorted(toServer')
    BY <1>6, <1>8, <2>1, <2>2, PublishKeepsOrder DEF HandshakeInv, OrderInv
  <2> QED BY <1>2, <2>3 DEF HandshakeInv, OrderInv
<1>14. Promise!Ask
  BY <1>1, <1>2 DEF Promise!Ask, n, AnswerSeq
<1> QED BY <1>9, <1>10, <1>11, <1>12, <1>13, <1>14 DEF HandshakeInv

\* Within the window a uid names one message: what the link accepts is the
\* acknowledgment of the message it waits for.
LEMMA InvImpliesAcks == HandshakeInv => AcksTellTheTruth
<1> SUFFICES ASSUME HandshakeInv, NEW i \in DOMAIN toBuggy,
                    Acknowledges(link, toBuggy[i])
             PROVE  /\ toBuggy[i].seq = link.pending.seq
                    /\ link.pending.seq <= server.served
  BY DEF AcksTellTheTruth
<1> DEFINE a == toBuggy[i].seq
           b == link.sent
<1>1. /\ toBuggy[i].ack = 1
      /\ link.pending # None
      /\ link.pending.uid = toBuggy[i].uid
  BY DEF Acknowledges
<1>2. link.pending.seq = b /\ link.pending.uid = b % UID_MOD
  BY <1>1 DEF HandshakeInv, LinkInv
<1>3. a <= server.served /\ toBuggy[i].uid = a % UID_MOD /\ b - a < UID_MOD
  <2>1. GoodReply(toBuggy[i])
    BY DEF HandshakeInv, RepliesInv
  <2> QED BY <1>1, <2>1 DEF GoodReply, InWindow
<1>4. a \in Nat /\ b \in Nat /\ server.served \in Nat
  BY MessageTypes DEF HandshakeInv, TypeOK, LinkType, ServerType
<1>5. server.served <= b
  BY DEF HandshakeInv, ServerInv
<1> HIDE DEF a, b
<1>6. a = b
  <2>1. a <= b
    BY <1>3, <1>4, <1>5
  <2>2. a % UID_MOD = b % UID_MOD
    BY <1>1, <1>2, <1>3
  <2> QED BY <1>3, <1>4, <2>1, <2>2, ModIsInjectiveNearby, LinkAssumption
<1> QED BY <1>2, <1>3, <1>4, <1>5, <1>6 DEF a

\* Between sends, the buggy adds to the topic acknowledgments and copies of
\* its latest message.
LEMMA ToServerGrows ==
    ASSUME HandshakeInv, NEW out \in Seq(ToServerMsg),
           toServer' = Publish(toServer, out),
           link'.sent = link.sent, server'.served = server.served,
           \A j \in DOMAIN out : out[j].ack = 0 =>
              /\ link.sent > 0
              /\ out[j].seq = link.sent
              /\ out[j].uid = link.uid
    PROVE  toServer' \in Seq(ToServerMsg) /\ RequestsInv' /\ Sorted(toServer)'
<1>1. toServer \in Seq(ToServerMsg)
  BY DEF HandshakeInv, TypeOK, ToServerMsg
<1>2. link.sent \in Nat /\ server.served \in Nat
  BY DEF HandshakeInv, TypeOK, LinkType, ServerType
<1>3. toServer' \in Seq(ToServerMsg)
  BY <1>1, PublishKeepsTheEnd
<1>4. RequestsInv'
  <2> SUFFICES ASSUME NEW i \in DOMAIN toServer'
               PROVE  GoodRequest(toServer[i])'
    BY DEF RequestsInv
  <2>1. CASE \E j \in DOMAIN toServer : toServer'[i] = toServer[j]
    <3>1. PICK j \in DOMAIN toServer : toServer'[i] = toServer[j]
      BY <2>1
    <3>2. GoodRequest(toServer[j])
      BY DEF HandshakeInv, RequestsInv
    <3> QED BY <3>1, <3>2 DEF GoodRequest, InWindow
  <2>2. CASE \E j \in DOMAIN out : toServer'[i] = out[j]
    <3>1. PICK j \in DOMAIN out : toServer'[i] = out[j]
      BY <2>2
    <3>2. link.uid = link.sent % UID_MOD /\ server.served <= link.sent
      BY DEF HandshakeInv, LinkInv, ServerInv
    <3> QED BY <1>2, <3>1, <3>2, LinkAssumption DEF GoodRequest, InWindow
  <2> QED BY <1>1, <2>1, <2>2, PublishAddsOnly
<1>5. Sorted(toServer)'
  <2>1. \A i \in DOMAIN toServer : toServer[i].ack = 0 =>
           toServer[i].seq <= link.sent
    <3> SUFFICES ASSUME NEW i \in DOMAIN toServer, toServer[i].ack = 0
                 PROVE  toServer[i].seq <= link.sent
      OBVIOUS
    <3>1. GoodRequest(toServer[i])
      BY DEF HandshakeInv, RequestsInv
    <3> QED BY <1>2, <3>1 DEF GoodRequest
  <2>2. \A i \in DOMAIN toServer, j \in DOMAIN out :
           toServer[i].ack = 0 /\ out[j].ack = 0
              => toServer[i].seq <= out[j].seq
    BY <2>1
  <2>3. Sorted(out)
    BY <1>2 DEF Sorted
  <2>4. Sorted(Publish(toServer, out))
    BY <1>1, <2>2, <2>3, PublishKeepsOrder DEF HandshakeInv, OrderInv
  <2> QED BY <2>4 DEF Sorted
<1> QED BY <1>3, <1>4, <1>5

\* A retransmission is a copy of the latest message, under its uid.
LEMMA BuggyTicksKeeps ==
    ASSUME HandshakeInv, BuggyTicks
    PROVE  HandshakeInv' /\ UNCHANGED Promise!vars
<1> DEFINE p == link.pending
           m == Message(p.uid, 0, p.text, p.seq)
<1>1. /\ p # None
      /\ UNCHANGED <<toBuggy, server, heard, acked>>
      /\ \/ /\ link' = [link EXCEPT !.pending = None]
            /\ toServer' = Publish(toServer, << >>)
         \/ /\ p.retries < MAX_RETRIES
            /\ link' = [link EXCEPT !.pending.retries = @ + 1]
            /\ toServer' = Publish(toServer, << m >>)
  <2>1. p # None => p.retries \in Nat
    BY LinkAssumption DEF HandshakeInv, TypeOK, LinkType, PendingRequest
  <2> QED BY <2>1, LinkAssumption DEF BuggyTicks, Tick
<1>2. link \in LinkType /\ p \in PendingRequest
  BY <1>1 DEF HandshakeInv, TypeOK, LinkType
<1>3. p.uid = link.uid /\ p.seq = link.sent /\ acked < link.sent
  BY <1>1 DEF HandshakeInv, LinkInv
<1>4. m \in ToServerMsg /\ m.ack = 0 /\ m.seq = link.sent /\ m.uid = link.uid
  BY <1>2, <1>3 DEF Message, ToServerMsg, RequestMsg, PendingRequest
<1>5. link.sent > 0
  BY <1>2, <1>3 DEF HandshakeInv, TypeOK, LinkType
<1> HIDE DEF m
<1>6. /\ link'.sent = link.sent /\ link'.uid = link.uid
      /\ link' \in LinkType
      /\ link'.pending # None => /\ link'.pending.uid = p.uid
                                 /\ link'.pending.seq = p.seq
  BY <1>1, <1>2, LinkAssumption DEF LinkType, PendingRequest
<1>7. toServer' \in Seq(ToServerMsg) /\ RequestsInv' /\ Sorted(toServer)'
  <2>1. CASE toServer' = Publish(toServer, << >>)
    <3> DEFINE out == << >>
    <3>1. out \in Seq(ToServerMsg) /\ DOMAIN out = {}
      OBVIOUS
    <3>2. server'.served = server.served
      BY <1>1
    <3>3. toServer' = Publish(toServer, out)
      BY <2>1
    <3> HIDE DEF out
    <3> QED BY <1>6, <3>1, <3>2, <3>3, ToServerGrows
  <2>2. CASE toServer' = Publish(toServer, << m >>)
    <3> DEFINE out == << m >>
    <3>1. out \in Seq(ToServerMsg)
      BY <1>4
    <3>2. server'.served = server.served
      BY <1>1
    <3>3. \A j \in DOMAIN out : out[j] = m
      OBVIOUS
    <3>4. toServer' = Publish(toServer, out)
      BY <2>2
    <3> HIDE DEF out
    <3>5. \A j \in DOMAIN out : /\ link.sent > 0
                                /\ out[j].seq = link.sent
                                /\ out[j].uid = link.uid
      BY <1>4, <1>5, <3>3
    <3> QED BY <1>6, <3>1, <3>2, <3>4, <3>5, ToServerGrows
  <2> QED BY <1>1, <2>1, <2>2
<1>8. TypeOK'
  BY <1>1, <1>6, <1>7 DEF HandshakeInv, TypeOK, ToServerMsg
<1>9. LinkInv'
  BY <1>1, <1>3, <1>6 DEF HandshakeInv, LinkInv
<1>10. ServerInv' /\ RepliesInv'
  BY <1>1, <1>6
     DEF HandshakeInv, ServerInv, RepliesInv, GoodReply, InWindow, AnswerSeq
<1>11. OrderInv'
  BY <1>1, <1>7 DEF HandshakeInv, OrderInv, Sorted
<1>12. UNCHANGED Promise!vars
  BY <1>1, <1>6 DEF Promise!vars, AnswerSeq
<1> QED BY <1>7, <1>8, <1>9, <1>10, <1>11, <1>12 DEF HandshakeInv

\* Hearing an answer or an acknowledgment: answers come in the order they
\* were given, and the acknowledgment the link takes is the right one.
LEMMA BuggyReceivesKeeps ==
    ASSUME HandshakeInv, BuggyReceives
    PROVE  /\ HandshakeInv'
           /\ Promise!Hear \/ Promise!Settle \/ UNCHANGED Promise!vars
<1> DEFINE m == Head(toBuggy)
           ack == Message(m.uid, 1, None, m.seq)
           takes == Acknowledges(link, m)
<1>1. toBuggy # <<>> /\ toBuggy' = Tail(toBuggy) /\ UNCHANGED server
  BY DEF BuggyReceives, Received
<1>2. toBuggy \in Seq(ToBuggyMsg)
  BY DEF HandshakeInv, TypeOK, ToBuggyMsg
<1>3. /\ 1 \in DOMAIN toBuggy /\ m = toBuggy[1]
      /\ toBuggy' \in Seq(ToBuggyMsg)
      /\ \A i \in DOMAIN toBuggy' : /\ i + 1 \in DOMAIN toBuggy
                                    /\ toBuggy'[i] = toBuggy[i + 1]
      /\ Sorted(Tail(toBuggy))
      /\ \A i \in DOMAIN toBuggy' :
            m.ack = 0 /\ toBuggy'[i].ack = 0 => m.seq <= toBuggy'[i].seq
  BY <1>1, <1>2, TailKeepsOrder DEF HandshakeInv, OrderInv
<1>4. /\ GoodReply(m)
      /\ takes => m.seq = link.pending.seq /\ link.pending.seq <= server.served
  BY <1>3, InvImpliesAcks DEF HandshakeInv, RepliesInv, AcksTellTheTruth
<1>5. m \in ToBuggyMsg /\ m.seq \in Nat /\ m.uid \in Nat /\ m.ack \in {0, 1}
  BY <1>3, MessageTypes DEF HandshakeInv
<1>6. \/ /\ m.ack = 1
         /\ link' = IF takes THEN [link EXCEPT !.pending = None] ELSE link
         /\ toServer' = Publish(toServer, << >>)
         /\ heard' = heard
         /\ acked' = IF takes THEN link.pending.seq ELSE acked
      \/ /\ m.ack = 0
         /\ link' = link
         /\ toServer' = Publish(toServer, << ack >>)
         /\ heard' = m.seq
         /\ acked' = acked
  <2>1. CASE m.ack = 1
    BY <2>1 DEF BuggyReceives, Handle
  <2>2. CASE m.ack = 0
    <3>1. m.msg # None
      BY <1>5, <2>2, HandshakeAssumption DEF ToBuggyMsg, AnswerMsg, AckMsg
    <3>2. ~takes
      BY <2>2 DEF Acknowledges
    <3> QED BY <2>2, <3>1, <3>2 DEF BuggyReceives, Handle
  <2> QED BY <1>5, <2>1, <2>2
<1>7. ack \in ToServerMsg /\ ack.ack = 1
  BY <1>5 DEF Message, ToServerMsg, AckMsg
<1>8. takes => link.pending # None /\ m.ack = 1
  BY DEF Acknowledges
<1> HIDE DEF m, ack, takes
<1>9. /\ link \in LinkType /\ heard \in Nat /\ acked \in Nat
      /\ link.sent \in Nat /\ server.served \in Nat
  BY DEF HandshakeInv, TypeOK, LinkType, ServerType
<1>10. /\ link'.sent = link.sent /\ link'.uid = link.uid
       /\ link' \in LinkType
       /\ link'.pending # None => link' = link /\ ~takes
  <2>1. CASE m.ack = 1 /\ takes
    BY <1>6, <1>9, <2>1 DEF LinkType
  <2>2. CASE ~takes
    BY <1>6, <1>9, <2>2
  <2> QED BY <1>5, <1>8, <2>1, <2>2
<1>11. toServer' \in Seq(ToServerMsg) /\ RequestsInv' /\ Sorted(toServer)'
  <2>1. CASE toServer' = Publish(toServer, << >>)
    <3> DEFINE out == << >>
    <3>1. out \in Seq(ToServerMsg) /\ DOMAIN out = {}
      OBVIOUS
    <3>2. server'.served = server.served
      BY <1>1
    <3>3. toServer' = Publish(toServer, out)
      BY <2>1
    <3> HIDE DEF out
    <3> QED BY <1>10, <3>1, <3>2, <3>3, ToServerGrows
  <2>2. CASE toServer' = Publish(toServer, << ack >>)
    <3> DEFINE out == << ack >>
    <3>1. out \in Seq(ToServerMsg)
      BY <1>7
    <3>2. server'.served = server.served
      BY <1>1
    <3>3. \A j \in DOMAIN out : out[j] = ack
      OBVIOUS
    <3>4. toServer' = Publish(toServer, out)
      BY <2>2
    <3> HIDE DEF out
    <3>5. \A j \in DOMAIN out : out[j].ack # 0
      BY <1>7, <3>3
    <3> QED BY <1>10, <3>1, <3>2, <3>4, <3>5, ToServerGrows
  <2> QED BY <1>6, <2>1, <2>2
<1>12. heard' \in Nat /\ acked' \in Nat /\ acked' <= server.served
  <2>1. takes => link.pending.seq \in Nat
    BY <1>4, <1>5
  <2>2. acked <= server.served
    BY DEF HandshakeInv, ServerInv
  <2> QED BY <1>4, <1>5, <1>6, <1>9, <2>1, <2>2
<1>13. TypeOK'
  BY <1>1, <1>3, <1>10, <1>11, <1>12
     DEF HandshakeInv, TypeOK, ToServerMsg, ToBuggyMsg
<1>14. m.ack = 0 => m.seq \in heard .. AnswerSeq(server.uid)
  BY <1>4 DEF GoodReply
<1>15. LinkInv' /\ ServerInv'
  <2>1. server.served <= link.sent
    BY DEF HandshakeInv, ServerInv
  <2>2. acked' <= link.sent
    BY <1>9, <1>12, <2>1
  <2>3. ~takes => acked' = acked
    BY <1>6
  <2>4. LinkInv'
    BY <1>10, <2>2, <2>3 DEF HandshakeInv, LinkInv
  <2>5. heard' <= AnswerSeq(server.uid)
    BY <1>6, <1>9, <1>14 DEF HandshakeInv, ServerInv
  <2> QED BY <1>1, <1>10, <1>12, <2>4, <2>5
          DEF HandshakeInv, ServerInv, InWindow, AnswerSeq
<1>16. RepliesInv'
  <2> SUFFICES ASSUME NEW i \in DOMAIN toBuggy'
               PROVE  GoodReply(toBuggy[i])'
    BY DEF RepliesInv
  <2>1. GoodReply(toBuggy[i + 1]) /\ toBuggy'[i] = toBuggy[i + 1]
    BY <1>3 DEF HandshakeInv, RepliesInv
  <2>2. toBuggy'[i].seq \in Nat
    BY <1>3, MessageTypes DEF HandshakeInv
  <2>3. toBuggy'[i].ack = 0 => heard' <= toBuggy'[i].seq
    <3>1. toBuggy'[i].ack = 0 => heard <= toBuggy'[i].seq
      BY <1>9, <2>1, <2>2 DEF GoodReply
    <3> QED BY <1>3, <1>6, <3>1
  <2> QED BY <1>1, <1>10, <1>12, <2>1, <2>2, <2>3
          DEF GoodReply, InWindow, AnswerSeq
<1>17. OrderInv'
  BY <1>1, <1>3, <1>11 DEF OrderInv, Sorted
<1>18. Promise!Hear \/ Promise!Settle \/ UNCHANGED Promise!vars
  <2>1. CASE m.ack = 0
    BY <1>1, <1>6, <1>14, <2>1 DEF Promise!Hear, AnswerSeq
  <2>2. CASE m.ack = 1 /\ takes
    <3>1. acked < link.pending.seq /\ link.pending.seq \in Nat
      BY <1>4, <1>5, <1>8, <1>9, <2>2 DEF HandshakeInv, LinkInv
    <3>2. acked' \in acked + 1 .. server.served
      BY <1>4, <1>6, <1>9, <2>2, <3>1
    <3> QED BY <1>1, <1>6, <1>10, <2>2, <3>2 DEF Promise!Settle, AnswerSeq
  <2>3. CASE m.ack = 1 /\ ~takes
    BY <1>1, <1>6, <1>10, <2>3 DEF Promise!vars, AnswerSeq
  <2> QED BY <1>5, <2>1, <2>2, <2>3
<1> QED BY <1>11, <1>13, <1>15, <1>16, <1>17, <1>18 DEF HandshakeInv

\* A queue that loses its first message keeps what it promised of the others.
LEMMA ToServerShrinks ==
    ASSUME HandshakeInv, toServer # <<>>, toServer' = Tail(toServer),
           link' = link, server'.served = server.served
    PROVE  toServer' \in Seq(ToServerMsg) /\ RequestsInv' /\ Sorted(toServer)'
<1>1. toServer \in Seq(ToServerMsg) /\ Sorted(toServer)
  BY DEF HandshakeInv, TypeOK, OrderInv, ToServerMsg
<1>2. /\ toServer' \in Seq(ToServerMsg)
      /\ \A i \in DOMAIN toServer' : /\ i + 1 \in DOMAIN toServer
                                     /\ toServer'[i] = toServer[i + 1]
      /\ Sorted(Tail(toServer))
  BY <1>1, TailKeepsOrder
<1>3. RequestsInv'
  <2> SUFFICES ASSUME NEW i \in DOMAIN toServer'
               PROVE  GoodRequest(toServer[i])'
    BY DEF RequestsInv
  <2>1. GoodRequest(toServer[i + 1]) /\ toServer'[i] = toServer[i + 1]
    BY <1>2 DEF HandshakeInv, RequestsInv
  <2> QED BY <2>1 DEF GoodRequest, InWindow
<1> QED BY <1>2, <1>3 DEF Sorted

\* An acknowledgment settles the answer it names and nothing else.
LEMMA ServerReceivesAckKeeps ==
    ASSUME HandshakeInv, ServerReceivesAck
    PROVE  HandshakeInv' /\ UNCHANGED Promise!vars
<1>1. /\ toServer # <<>> /\ toServer' = Tail(toServer)
      /\ UNCHANGED <<toBuggy, link, heard, acked>>
      /\ \/ server' = server
         \/ server' = [server EXCEPT !.pending = None, !.retries = 0,
                                     !.armed = FALSE]
  BY DEF ServerReceivesAck, AnswerAcked, Received
<1>2. server \in ServerType
  BY DEF HandshakeInv, TypeOK
<1>3. /\ server' \in ServerType
      /\ server'.served = server.served /\ server'.uid = server.uid
      /\ server'.lastUid = server.lastUid /\ server'.up = server.up
      /\ server'.pending # None => server'.pending = server.pending
  <2>1. CASE server' = server
    BY <1>2, <2>1
  <2>2. CASE server' = [server EXCEPT !.pending = None, !.retries = 0,
                                      !.armed = FALSE]
    <3>1. server' \in ServerType
      BY <1>2, <2>2 DEF ServerType
    <3>2. /\ server'.served = server.served /\ server'.uid = server.uid
          /\ server'.lastUid = server.lastUid
          /\ server'.pending = None
      BY <1>2, <2>2 DEF ServerType
    <3>3. server'.up = server.up
      BY <1>2, <2>2 DEF ServerType
    <3> QED BY <3>1, <3>2, <3>3
  <2> QED BY <1>1, <2>1, <2>2
<1>4. toServer' \in Seq(ToServerMsg) /\ RequestsInv' /\ Sorted(toServer)'
  BY <1>1, <1>3, ToServerShrinks
<1>5. TypeOK'
  BY <1>1, <1>3, <1>4 DEF HandshakeInv, TypeOK, ToServerMsg
<1>6. LinkInv' /\ RepliesInv'
  BY <1>1, <1>3
     DEF HandshakeInv, LinkInv, RepliesInv, GoodReply, InWindow, AnswerSeq
<1>7. ServerInv'
  BY <1>1, <1>3 DEF HandshakeInv, ServerInv, InWindow, AnswerSeq
<1>8. OrderInv'
  BY <1>1, <1>4 DEF HandshakeInv, OrderInv, Sorted
<1>9. UNCHANGED Promise!vars
  BY <1>1, <1>3 DEF Promise!vars, AnswerSeq
<1> QED BY <1>4, <1>5, <1>6, <1>7, <1>8, <1>9 DEF HandshakeInv

\* A message is lost.
LEMMA LosesKeeps ==
    ASSUME HandshakeInv, Loses
    PROVE  HandshakeInv' /\ UNCHANGED Promise!vars
<1>1. UNCHANGED <<link, server, heard, acked>>
  BY DEF Loses
<1>2. CASE LoseToServer
  <2>1. toServer # <<>> /\ toServer' = Tail(toServer) /\ toBuggy' = toBuggy
    BY <1>2 DEF LoseToServer, Received
  <2>2. toServer' \in Seq(ToServerMsg) /\ RequestsInv' /\ Sorted(toServer)'
    BY <1>1, <2>1, ToServerShrinks
  <2>3. TypeOK'
    BY <1>1, <2>1, <2>2 DEF HandshakeInv, TypeOK, ToServerMsg
  <2>4. LinkInv' /\ ServerInv' /\ RepliesInv' /\ OrderInv'
    BY <1>1, <2>1, <2>2
       DEF HandshakeInv, LinkInv, ServerInv, RepliesInv, GoodReply, InWindow,
           AnswerSeq, OrderInv, Sorted
  <2> QED BY <1>1, <2>2, <2>3, <2>4 DEF HandshakeInv, Promise!vars, AnswerSeq
<1>3. CASE LoseToBuggy
  <2>1. toBuggy # <<>> /\ toBuggy' = Tail(toBuggy) /\ toServer' = toServer
    BY <1>3 DEF LoseToBuggy, Received
  <2>2. toBuggy \in Seq(ToBuggyMsg) /\ Sorted(toBuggy)
    BY DEF HandshakeInv, TypeOK, OrderInv, ToBuggyMsg
  <2>3. /\ toBuggy' \in Seq(ToBuggyMsg)
        /\ \A i \in DOMAIN toBuggy' : /\ i + 1 \in DOMAIN toBuggy
                                      /\ toBuggy'[i] = toBuggy[i + 1]
        /\ Sorted(Tail(toBuggy))
    BY <2>1, <2>2, TailKeepsOrder
  <2>4. RepliesInv'
    <3> SUFFICES ASSUME NEW i \in DOMAIN toBuggy'
                 PROVE  GoodReply(toBuggy[i])'
      BY DEF RepliesInv
    <3>1. GoodReply(toBuggy[i + 1]) /\ toBuggy'[i] = toBuggy[i + 1]
      BY <2>3 DEF HandshakeInv, RepliesInv
    <3> QED BY <1>1, <3>1 DEF GoodReply, InWindow, AnswerSeq
  <2>5. TypeOK'
    BY <1>1, <2>1, <2>3 DEF HandshakeInv, TypeOK, ToBuggyMsg
  <2>6. LinkInv' /\ ServerInv' /\ RequestsInv' /\ OrderInv'
    BY <1>1, <2>1, <2>3
       DEF HandshakeInv, LinkInv, ServerInv, RequestsInv, GoodRequest,
           InWindow, AnswerSeq, OrderInv, Sorted
  <2> QED BY <1>1, <2>4, <2>5, <2>6 DEF HandshakeInv, Promise!vars, AnswerSeq
<1> QED BY <1>2, <1>3 DEF Loses

\* The server adds to the topic acknowledgments of what it has processed and
\* copies of its latest answer.
LEMMA ToBuggyGrows ==
    ASSUME HandshakeInv, NEW out \in Seq(ToBuggyMsg),
           toBuggy' = Publish(toBuggy, out),
           UNCHANGED <<link, heard>>,
           server'.served \in Nat, server.served <= server'.served,
           server'.uid \in Nat, server.uid <= server'.uid,
           \A j \in DOMAIN out :
              /\ out[j].ack = 1 =>
                    /\ out[j].uid = out[j].seq % UID_MOD
                    /\ InWindow(out[j].seq)
                    /\ out[j].seq <= server'.served
              /\ out[j].ack = 0 => out[j].seq = AnswerSeq(server'.uid),
           Sorted(out)
    PROVE  toBuggy' \in Seq(ToBuggyMsg) /\ RepliesInv' /\ Sorted(toBuggy)'
<1>1. toBuggy \in Seq(ToBuggyMsg)
  BY DEF HandshakeInv, TypeOK, ToBuggyMsg
<1>2. /\ link.sent \in Nat /\ server.served \in Nat /\ server.uid \in Nat
      /\ heard \in Nat
  BY DEF HandshakeInv, TypeOK, LinkType, ServerType
<1>3. /\ AnswerSeq(server.uid) \in Int /\ AnswerSeq(server'.uid) \in Int
      /\ AnswerSeq(server.uid) <= AnswerSeq(server'.uid)
      /\ heard <= AnswerSeq(server.uid)
  BY <1>2, ServerAssumption DEF HandshakeInv, ServerInv, AnswerSeq
<1>4. toBuggy' \in Seq(ToBuggyMsg)
  BY <1>1, PublishKeepsTheEnd
<1>5. \A i \in DOMAIN toBuggy :
         /\ GoodReply(toBuggy[i])
         /\ toBuggy[i].seq \in Nat
  BY MessageTypes DEF HandshakeInv, RepliesInv
<1>6. RepliesInv'
  <2> SUFFICES ASSUME NEW i \in DOMAIN toBuggy'
               PROVE  GoodReply(toBuggy[i])'
    BY DEF RepliesInv
  <2>1. CASE \E j \in DOMAIN toBuggy : toBuggy'[i] = toBuggy[j]
    <3>1. PICK j \in DOMAIN toBuggy : toBuggy'[i] = toBuggy[j]
      BY <2>1
    <3>2. GoodReply(toBuggy[j]) /\ toBuggy[j].seq \in Nat
      BY <1>5
    <3> QED BY <1>2, <1>3, <3>1, <3>2 DEF GoodReply, InWindow, AnswerSeq
  <2>2. CASE \E j \in DOMAIN out : toBuggy'[i] = out[j]
    <3>1. PICK j \in DOMAIN out : toBuggy'[i] = out[j]
      BY <2>2
    <3> QED BY <1>2, <1>3, <3>1 DEF GoodReply, InWindow, AnswerSeq
  <2> QED BY <1>1, <2>1, <2>2, PublishAddsOnly
<1>7. Sorted(toBuggy)'
  <2>1. \A i \in DOMAIN toBuggy : toBuggy[i].ack = 0 =>
           toBuggy[i].seq <= AnswerSeq(server'.uid)
    BY <1>2, <1>3, <1>5 DEF GoodReply
  <2>2. \A i \in DOMAIN toBuggy, j \in DOMAIN out :
           toBuggy[i].ack = 0 /\ out[j].ack = 0
              => toBuggy[i].seq <= out[j].seq
    BY <2>1
  <2>3. Sorted(Publish(toBuggy, out))
    BY <1>1, <2>2, PublishKeepsOrder DEF HandshakeInv, OrderInv
  <2> QED BY <2>3 DEF Sorted
<1> QED BY <1>4, <1>6, <1>7

\* A request is processed when it is newer than the latest one, and only then:
\* the uid the server remembers tells a copy from a new request.
LEMMA ServerReceivesRequestKeeps ==
    ASSUME HandshakeInv, ServerReceivesRequest
    PROVE  HandshakeInv' /\ (Promise!Serve \/ UNCHANGED Promise!vars)
<1> DEFINE m == Head(toServer)
           ack == Message(m.uid, 1, None, m.seq)
           u == server.uid + 1
           isNew == server.lastUid # m.uid
<1>1. /\ toServer # <<>> /\ m.ack = 0 /\ toServer' = Tail(toServer)
      /\ UNCHANGED <<link, heard, acked>> /\ server.up
  BY DEF ServerReceivesRequest, Received
<1>2. /\ server \in ServerType
      /\ server.served \in Nat /\ link.sent \in Nat /\ server.uid \in Nat
      /\ heard \in Nat /\ acked \in Nat
  BY DEF HandshakeInv, TypeOK, LinkType, ServerType
<1>3. toServer \in Seq(ToServerMsg) /\ Sorted(toServer)
  BY DEF HandshakeInv, TypeOK, OrderInv, ToServerMsg
<1>4. /\ 1 \in DOMAIN toServer /\ m = toServer[1]
      /\ toServer' \in Seq(ToServerMsg)
      /\ \A i \in DOMAIN toServer' : /\ i + 1 \in DOMAIN toServer
                                     /\ toServer'[i] = toServer[i + 1]
      /\ Sorted(Tail(toServer))
      /\ \A i \in DOMAIN toServer' :
            m.ack = 0 /\ toServer'[i].ack = 0 => m.seq <= toServer'[i].seq
  BY <1>1, <1>3, TailKeepsOrder
<1>5. m \in ToServerMsg /\ m.seq \in Nat /\ m.uid \in Nat
  BY <1>4, MessageTypes DEF HandshakeInv
<1>6. /\ m.seq > 0 /\ m.uid = m.seq % UID_MOD /\ InWindow(m.seq)
      /\ server.served <= m.seq /\ m.seq <= link.sent
  <2>1. GoodRequest(m)
    BY <1>4 DEF HandshakeInv, RequestsInv
  <2> QED BY <1>1, <1>2, <2>1 DEF GoodRequest
<1>7. PICK answer \in Answers :
        \/ /\ ~isNew
           /\ server' = server
           /\ toBuggy' = Publish(toBuggy, << ack >>)
        \/ /\ isNew
           /\ u > UID_MAX
           /\ server' = [server EXCEPT !.lastUid = m.uid, !.uid = u,
                                       !.served = m.seq, !.up = FALSE]
           /\ toBuggy' = Publish(toBuggy, << ack >>)
        \/ /\ isNew
           /\ ~(u > UID_MAX)
           /\ server' = [server EXCEPT !.lastUid = m.uid, !.uid = u,
                              !.served = m.seq,
                              !.pending = [uid |-> u, msg |-> answer],
                              !.retries = 0, !.armed = TRUE]
           /\ toBuggy' = Publish(toBuggy,
                              << ack, Message(u, 0, answer, AnswerSeq(u)) >>)
  BY DEF ServerReceivesRequest, Request
<1> DEFINE ans == Message(u, 0, answer, AnswerSeq(u))
<1>8. /\ ack \in ToBuggyMsg
      /\ ack.ack = 1 /\ ack.seq = m.seq /\ ack.uid = m.uid
      /\ ans.ack = 0 /\ ans.seq = AnswerSeq(u)
      /\ ~(u > UID_MAX) => ans \in ToBuggyMsg
  <2>1. AnswerSeq(u) \in Nat
    BY <1>2, ServerAssumption DEF HandshakeInv, ServerInv, AnswerSeq
  <2> QED BY <1>2, <1>5, <2>1, ServerAssumption
          DEF Message, ToBuggyMsg, AckMsg, AnswerMsg
<1>9. isNew <=> m.seq # server.served
  <2>1. server.lastUid = IF server.served = 0 THEN -1
                                              ELSE server.served % UID_MOD
    BY DEF HandshakeInv, ServerInv
  <2>2. ASSUME m.seq = server.served PROVE ~isNew
    BY <1>6, <2>1, <2>2
  <2>3. ASSUME ~isNew PROVE m.seq = server.served
    <3>1. server.served # 0
      BY <1>5, <2>1, <2>3
    <3>2. server.served % UID_MOD = m.seq % UID_MOD
      BY <1>6, <2>1, <2>3, <3>1
    <3>3. m.seq - server.served < UID_MOD
      <4>1. link.sent - server.served < UID_MOD
        BY DEF HandshakeInv, ServerInv, InWindow
      <4> QED BY <1>2, <1>5, <1>6, <4>1, LinkAssumption
    <3> QED BY <1>2, <1>5, <1>6, <3>2, <3>3, ModIsInjectiveNearby,
               LinkAssumption
  <2> QED BY <2>2, <2>3
<1> HIDE DEF m, ack, u, isNew, ans
<1>10. server' \in ServerType
  <2>1. CASE ~isNew
    BY <1>2, <1>7, <2>1
  <2>2. CASE isNew /\ u > UID_MAX
    <3>1. u \in Nat
      BY <1>2 DEF u
    <3> QED BY <1>2, <1>5, <1>7, <2>2, <3>1 DEF ServerType
  <2>3. CASE isNew /\ ~(u > UID_MAX)
    <3>1. u \in Nat /\ u \in 0 .. UID_MAX
      BY <1>2, <2>3, ServerAssumption DEF u
    <3>2. [uid |-> u, msg |-> answer] \in PendingAnswer
      BY <3>1 DEF PendingAnswer
    <3>3. server' = [server EXCEPT !.lastUid = m.uid, !.uid = u,
                        !.served = m.seq,
                        !.pending = [uid |-> u, msg |-> answer],
                        !.retries = 0, !.armed = TRUE]
      BY <1>7, <2>3
    <3> QED BY <1>2, <1>5, <3>1, <3>2, <3>3 DEF ServerType
  <2> QED BY <2>1, <2>2, <2>3
<1>11. /\ server'.served = m.seq
       /\ ~isNew => server' = server
       /\ isNew => /\ server'.uid = server.uid + 1
                   /\ server'.lastUid = m.uid
  BY <1>2, <1>7, <1>9 DEF ServerType, u
<1>12. isNew /\ server'.up /\ server'.pending # None =>
          server'.pending.uid = server'.uid
  <2>1. CASE isNew /\ u > UID_MAX
    <3>1. server'.up = FALSE
      BY <1>2, <1>7, <2>1 DEF ServerType
    <3> QED BY <3>1
  <2>2. CASE isNew /\ ~(u > UID_MAX)
    <3>1. server'.pending = [uid |-> u, msg |-> answer] /\ server'.uid = u
      BY <1>2, <1>7, <2>2 DEF ServerType
    <3> QED BY <3>1
  <2> QED BY <2>1, <2>2
<1>13. /\ server.served <= server'.served /\ server'.served <= link.sent
       /\ server'.uid \in Nat /\ server.uid <= server'.uid
       /\ server'.served \in Nat
  BY <1>2, <1>5, <1>6, <1>11
<1>14. toBuggy' \in Seq(ToBuggyMsg) /\ RepliesInv' /\ Sorted(toBuggy)'
  <2>1. CASE toBuggy' = Publish(toBuggy, << ack >>)
    <3> DEFINE out == << ack >>
    <3>1. out \in Seq(ToBuggyMsg) /\ toBuggy' = Publish(toBuggy, out)
      BY <1>8, <2>1
    <3>2. \A j \in DOMAIN out : out[j] = ack
      OBVIOUS
    <3> HIDE DEF out
    <3>3. \A j \in DOMAIN out :
             /\ out[j].ack = 1 /\ out[j].seq = m.seq /\ out[j].uid = m.uid
      BY <1>8, <3>2
    <3>4. Sorted(out)
      BY <3>3 DEF Sorted
    <3>5. \A j \in DOMAIN out :
             /\ out[j].ack = 1 =>
                   /\ out[j].uid = out[j].seq % UID_MOD
                   /\ InWindow(out[j].seq)
                   /\ out[j].seq <= server'.served
             /\ out[j].ack = 0 => out[j].seq = AnswerSeq(server'.uid)
      BY <1>5, <1>6, <1>11, <3>3 DEF InWindow
    <3> QED BY <1>1, <1>13, <3>1, <3>4, <3>5, ToBuggyGrows
  <2>2. CASE /\ isNew
             /\ ~(u > UID_MAX)
             /\ toBuggy' = Publish(toBuggy, << ack, ans >>)
    <3> DEFINE out == << ack, ans >>
    <3>1. out \in Seq(ToBuggyMsg) /\ toBuggy' = Publish(toBuggy, out)
      BY <1>8, <2>2
    <3>2. \A j \in DOMAIN out : \/ j = 1 /\ out[j] = ack
                                \/ j = 2 /\ out[j] = ans
      OBVIOUS
    <3>3. ans.seq = AnswerSeq(server'.uid)
      BY <1>8, <1>11, <2>2 DEF u
    <3> HIDE DEF out
    <3>4. \A j \in DOMAIN out :
             \/ /\ j = 1
                /\ out[j].ack = 1 /\ out[j].seq = m.seq /\ out[j].uid = m.uid
             \/ /\ j = 2
                /\ out[j].ack = 0 /\ out[j].seq = AnswerSeq(server'.uid)
      BY <1>8, <3>2, <3>3
    <3>5. Sorted(out)
      BY <3>4 DEF Sorted
    <3>6. \A j \in DOMAIN out :
             /\ out[j].ack = 1 =>
                   /\ out[j].uid = out[j].seq % UID_MOD
                   /\ InWindow(out[j].seq)
                   /\ out[j].seq <= server'.served
             /\ out[j].ack = 0 => out[j].seq = AnswerSeq(server'.uid)
      BY <1>5, <1>6, <1>11, <3>4 DEF InWindow
    <3> QED BY <1>1, <1>13, <3>1, <3>5, <3>6, ToBuggyGrows
  <2> QED BY <1>7, <2>1, <2>2 DEF ans
<1>15. TypeOK'
  BY <1>1, <1>4, <1>10, <1>14
     DEF HandshakeInv, TypeOK, ToServerMsg, ToBuggyMsg
<1>16. LinkInv'
  BY <1>1 DEF HandshakeInv, LinkInv
<1>17. ServerInv'
  <2>1. server'.lastUid = IF server'.served = 0 THEN -1
                                         ELSE server'.served % UID_MOD
    BY <1>6, <1>9, <1>11 DEF HandshakeInv, ServerInv
  <2>2. server'.up /\ server'.pending # None =>
           server'.pending.uid = server'.uid
    BY <1>11, <1>12 DEF HandshakeInv, ServerInv
  <2>3. server'.uid >= SERVER_UID /\ heard <= server'.uid - SERVER_UID
    BY <1>2, <1>13, ServerAssumption DEF HandshakeInv, ServerInv, AnswerSeq
  <2>4. acked <= server'.served
    BY <1>2, <1>13 DEF HandshakeInv, ServerInv
  <2>5. link.sent - server'.served < UID_MOD
    BY <1>6, <1>11 DEF InWindow
  <2> QED BY <1>1, <1>13, <2>1, <2>2, <2>3, <2>4, <2>5
          DEF ServerInv, InWindow, AnswerSeq
<1>18. RequestsInv'
  <2> SUFFICES ASSUME NEW i \in DOMAIN toServer'
               PROVE  GoodRequest(toServer[i])'
    BY DEF RequestsInv
  <2>1. GoodRequest(toServer[i + 1]) /\ toServer'[i] = toServer[i + 1]
    BY <1>4 DEF HandshakeInv, RequestsInv
  <2>2. toServer'[i].ack = 0 => m.seq <= toServer'[i].seq
    BY <1>1, <1>4
  <2>3. toServer'[i].seq \in Nat
    BY <1>4, MessageTypes DEF HandshakeInv
  <2> QED BY <1>1, <1>2, <1>5, <1>11, <2>1, <2>2, <2>3
          DEF GoodRequest, InWindow
<1>19. OrderInv'
  BY <1>1, <1>4, <1>14 DEF OrderInv, Sorted
<1>20. Promise!Serve \/ UNCHANGED Promise!vars
  <2>1. CASE isNew
    <3>1. m.seq \in server.served + 1 .. link.sent
      BY <1>2, <1>5, <1>6, <1>9, <2>1
    <3>2. AnswerSeq(server'.uid) = AnswerSeq(server.uid) + 1
      BY <1>2, <1>11, <2>1, ServerAssumption DEF AnswerSeq
    <3> QED BY <1>1, <1>11, <3>1, <3>2 DEF Promise!Serve, AnswerSeq
  <2>2. CASE ~isNew
    BY <1>1, <1>11, <2>2 DEF Promise!vars, AnswerSeq
  <2> QED BY <2>1, <2>2
<1> QED BY <1>14, <1>15, <1>16, <1>17, <1>18, <1>19, <1>20 DEF HandshakeInv

\* What the server retransmits is its latest answer, which is not older than
\* any on its way.
LEMMA ServerRetriesKeeps ==
    ASSUME HandshakeInv, ServerRetries
    PROVE  HandshakeInv' /\ UNCHANGED Promise!vars
<1> DEFINE p == server.pending
           m == Message(p.uid, 0, p.msg, AnswerSeq(p.uid))
           n == server.retries + 1
<1>1. /\ server.up /\ UNCHANGED <<toServer, link, heard, acked>>
      /\ \/ /\ \/ server' = [server EXCEPT !.armed = FALSE]
               \/ server' = [server EXCEPT !.retries = n, !.armed = FALSE]
            /\ toBuggy' = Publish(toBuggy, << >>)
         \/ /\ p # None
            /\ server' = [server EXCEPT !.retries = n]
            /\ toBuggy' = Publish(toBuggy, << m >>)
  BY DEF ServerRetries, RetryTargetSend
<1>2. server \in ServerType /\ server.uid \in Nat /\ server.served \in Nat
  BY DEF HandshakeInv, TypeOK, ServerType
<1>3. p # None => /\ m \in ToBuggyMsg
                  /\ m.ack = 0 /\ m.seq = AnswerSeq(server.uid)
  <2> SUFFICES ASSUME p # None
               PROVE  /\ m \in ToBuggyMsg
                      /\ m.ack = 0 /\ m.seq = AnswerSeq(server.uid)
    OBVIOUS
  <2>1. p \in PendingAnswer
    BY <1>2 DEF ServerType
  <2>2. p.uid = server.uid /\ AnswerSeq(server.uid) \in Nat
    BY <1>1, <1>2, ServerAssumption DEF HandshakeInv, ServerInv, AnswerSeq
  <2> QED BY <2>1, <2>2 DEF Message, ToBuggyMsg, AnswerMsg, PendingAnswer
<1> HIDE DEF m
<1>4. server' \in ServerType
  <2>1. n \in Nat
    BY <1>2 DEF ServerType
  <2> HIDE DEF n
  <2> QED BY <1>1, <1>2, <2>1 DEF ServerType
<1>5. /\ server'.served = server.served /\ server'.uid = server.uid
      /\ server'.lastUid = server.lastUid /\ server'.pending = server.pending
  BY <1>1, <1>2 DEF ServerType
<1>6. toBuggy' \in Seq(ToBuggyMsg) /\ RepliesInv' /\ Sorted(toBuggy)'
  <2>1. /\ UNCHANGED <<link, heard>>
        /\ server'.served \in Nat /\ server.served <= server'.served
        /\ server'.uid \in Nat /\ server.uid <= server'.uid
    BY <1>1, <1>2, <1>5
  <2>2. CASE toBuggy' = Publish(toBuggy, << >>)
    <3> DEFINE out == << >>
    <3>1. out \in Seq(ToBuggyMsg) /\ DOMAIN out = {}
      OBVIOUS
    <3>2. toBuggy' = Publish(toBuggy, out)
      BY <2>2
    <3> HIDE DEF out
    <3>3. Sorted(out)
      BY <3>1 DEF Sorted
    <3> QED BY <2>1, <3>1, <3>2, <3>3, ToBuggyGrows
  <2>3. CASE p # None /\ toBuggy' = Publish(toBuggy, << m >>)
    <3> DEFINE out == << m >>
    <3>1. out \in Seq(ToBuggyMsg) /\ toBuggy' = Publish(toBuggy, out)
      BY <1>3, <2>3
    <3>2. \A j \in DOMAIN out : j = 1 /\ out[j] = m
      OBVIOUS
    <3> HIDE DEF out
    <3>3. \A j \in DOMAIN out :
             j = 1 /\ out[j].ack = 0 /\ out[j].seq = AnswerSeq(server'.uid)
      BY <1>3, <1>5, <2>3, <3>2
    <3>4. Sorted(out)
      BY <3>3 DEF Sorted
    <3> QED BY <2>1, <3>1, <3>3, <3>4, ToBuggyGrows
  <2> QED BY <1>1, <2>2, <2>3
<1>7. TypeOK'
  BY <1>1, <1>4, <1>6 DEF HandshakeInv, TypeOK, ToBuggyMsg
<1>8. LinkInv' /\ RequestsInv'
  BY <1>1, <1>5
     DEF HandshakeInv, LinkInv, RequestsInv, GoodRequest, InWindow
<1>9. ServerInv'
  BY <1>1, <1>5 DEF HandshakeInv, ServerInv, InWindow, AnswerSeq
<1>10. OrderInv'
  BY <1>1, <1>6 DEF HandshakeInv, OrderInv, Sorted
<1>11. UNCHANGED Promise!vars
  BY <1>1, <1>5 DEF Promise!vars, AnswerSeq
<1> QED BY <1>6, <1>7, <1>8, <1>9, <1>10, <1>11 DEF HandshakeInv

\* Every step of the handshake keeps the invariant and is a step of the
\* exchange, or is not seen there.
LEMMA StepKeeps ==
    ASSUME HandshakeInv, [Next]_vars
    PROVE  HandshakeInv' /\ [Promise!Next]_(Promise!vars)
<1>1. CASE BuggySends
  BY <1>1, BuggySendsKeeps DEF Promise!Next
<1>2. CASE BuggyTicks
  BY <1>2, BuggyTicksKeeps DEF Promise!Next
<1>3. CASE BuggyReceives
  BY <1>3, BuggyReceivesKeeps DEF Promise!Next
<1>4. CASE ServerReceivesAck
  BY <1>4, ServerReceivesAckKeeps DEF Promise!Next
<1>5. CASE ServerReceivesRequest
  BY <1>5, ServerReceivesRequestKeeps DEF Promise!Next
<1>6. CASE ServerRetries
  BY <1>6, ServerRetriesKeeps DEF Promise!Next
<1>7. CASE Loses
  BY <1>7, LosesKeeps DEF Promise!Next
<1>8. CASE UNCHANGED vars
  <2>1. UNCHANGED <<toServer, toBuggy, link, server, heard, acked>>
    BY <1>8 DEF vars
  <2>2. TypeOK'
    BY <2>1 DEF HandshakeInv, TypeOK
  <2>3. LinkInv' /\ ServerInv'
    BY <2>1 DEF HandshakeInv, LinkInv, ServerInv, InWindow, AnswerSeq
  <2>4. RequestsInv' /\ RepliesInv' /\ OrderInv'
    BY <2>1 DEF HandshakeInv, RequestsInv, RepliesInv, OrderInv, Sorted,
                GoodRequest, GoodReply, InWindow, AnswerSeq
  <2>5. UNCHANGED Promise!vars
    BY <2>1 DEF Promise!vars, AnswerSeq
  <2> QED BY <2>2, <2>3, <2>4, <2>5 DEF HandshakeInv
<1> QED BY <1>1, <1>2, <1>3, <1>4, <1>5, <1>6, <1>7, <1>8 DEF Next

\* The invariant puts every message in order and between the counters.
LEMMA InvImpliesOrder == HandshakeInv => InOrder
<1> SUFFICES ASSUME HandshakeInv PROVE InOrder
  OBVIOUS
<1>1. \A i \in DOMAIN toServer :
         toServer[i].ack = 0 => toServer[i].seq \in server.served .. link.sent
  BY DEF HandshakeInv, RequestsInv, GoodRequest
<1>2. \A i \in DOMAIN toBuggy :
         toBuggy[i].ack = 0 =>
            toBuggy[i].seq \in heard .. AnswerSeq(server.uid)
  BY DEF HandshakeInv, RepliesInv, GoodReply
<1>3. Sorted(toServer) /\ Sorted(toBuggy)
  BY DEF HandshakeInv, OrderInv
<1> QED BY <1>1, <1>2, <1>3 DEF InOrder, Sorted

-----------------------------------------------------------------------------
\* The bookkeeping of uids is right in every state the handshake reaches:
\* numbers and uids agree, and all of them lie in one window
\* (ServerLink._next_uid, ServerLink._pending, last_processed_buggy_uid).
THEOREM HandshakeInvariance == Spec => []HandshakeInv
BY InitHolds, StepKeeps, PTL DEF Spec

\* Every uid ever put on the wire fits its uint8 field, and no message is
\* retransmitted more than MAX_RETRIES times (_next_uid, tick, and the death
\* of the server node where server_uid outgrows the field).
THEOREM HandshakeTypeCorrect == Spec => []TypeOK
<1>1. HandshakeInv => TypeOK
  BY DEF HandshakeInv
<1> QED BY <1>1, HandshakeInvariance, PTL

\* The link takes a message as received only if the server has processed it
\* (ServerLink.handle).
THEOREM AcksAreTrue == Spec => []AcksTellTheTruth
BY InvImpliesAcks, HandshakeInvariance, PTL

\* Nothing in transit overtakes anything, and nothing older than the latest
\* request processed, or the latest answer heard, is still on its way.
THEOREM TransitIsOrdered == Spec => []InOrder
BY InvImpliesOrder, HandshakeInvariance, PTL

\* The handshake implements the exchange: requests are processed in order and
\* at most once, answers are never heard after a later one, and receipt is
\* never taken for granted.
THEOREM HandshakeImplementsExchange == Spec => KeepsPromise
<1>1. Init => Promise!Init
  BY ServerAssumption
     DEF Init, TopicInit, InitLink, InitServer, AnswerSeq, Promise!Init
<1> QED BY <1>1, StepKeeps, HandshakeInvariance, PTL
        DEF Spec, KeepsPromise, Promise!Spec
=============================================================================
