----------------------------- MODULE LinkLemmas -----------------------------
(***************************************************************************)
(* What the proofs about the link need of its data: of the topic's queues, *)
(* which lose messages at the head and gain them at the end, and of the    *)
(* counters that wrap.                                                     *)
(***************************************************************************)
EXTENDS Topic, TLAPS

(***************************************************************************)
(* Queues.                                                                 *)
(***************************************************************************)
\* The messages of a queue that are not acknowledgments are in order.
Sorted(queue) ==
    \A i, j \in DOMAIN queue :
        i < j /\ queue[i].ack = 0 /\ queue[j].ack = 0
            => queue[i].seq <= queue[j].seq

\* Once a message of the queue says one of `texts', so does whatever follows.
Final(queue, texts) ==
    \A i, j \in DOMAIN queue :
        /\ i < j /\ queue[i].ack = 0 /\ queue[j].ack = 0
        /\ queue[i].msg \in texts
        => queue[j].msg \in texts

\* How many messages fall off the queue q when out is published.
Dropped(q, out) ==
    IF Len(q \o out) > Depth THEN Len(q \o out) - Depth ELSE 0

\* What publishing leaves is the end of everything ever put on the queue.
LEMMA PublishKeepsTheEnd ==
    ASSUME NEW S, NEW q \in Seq(S), NEW out \in Seq(S)
    PROVE  /\ Publish(q, out) \in Seq(S)
           /\ Dropped(q, out) \in Nat
           /\ \A n \in DOMAIN Publish(q, out) :
                 /\ n + Dropped(q, out) \in 1 .. Len(q) + Len(out)
                 /\ Publish(q, out)[n] = (q \o out)[n + Dropped(q, out)]
<1> DEFINE all  == q \o out
           lost == Dropped(q, out)
           rest == [i \in 1 .. Len(all) - lost |-> all[i + lost]]
<1>1. all \in Seq(S) /\ Len(all) = Len(q) + Len(out)
  OBVIOUS
<1>2. Len(all) \in Nat /\ lost \in 0 .. Len(all)
  BY <1>1, DepthAssumption DEF Dropped
<1>3. Publish(q, out) = rest
  BY DEF Publish, Dropped
<1> HIDE DEF lost, all
<1>4. \A i \in 1 .. Len(all) - lost : i + lost \in 1 .. Len(all)
  BY <1>2
<1>5. \A i \in 1 .. Len(all) - lost : all[i + lost] \in S
  BY <1>1, <1>2, <1>4
<1>6. rest \in Seq(S) /\ DOMAIN rest = 1 .. Len(all) - lost
  BY <1>2, <1>5
<1>7. \A i \in DOMAIN rest : rest[i] = all[i + lost]
  BY <1>6
<1>8. /\ rest \in Seq(S)
      /\ lost \in Nat
      /\ \A n \in DOMAIN rest : /\ n + lost \in 1 .. Len(q) + Len(out)
                                /\ rest[n] = all[n + lost]
  BY <1>1, <1>2, <1>4, <1>6, <1>7
<1> QED BY <1>3, <1>8 DEF all, lost

\* A message on a queue was there before or has just been published.
LEMMA PublishAddsOnly ==
    ASSUME NEW S, NEW q \in Seq(S), NEW out \in Seq(S),
           NEW i \in DOMAIN Publish(q, out)
    PROVE  \/ \E j \in DOMAIN q : Publish(q, out)[i] = q[j]
           \/ \E j \in DOMAIN out : Publish(q, out)[i] = out[j]
<1>1. /\ i + Dropped(q, out) \in 1 .. Len(q) + Len(out)
      /\ Publish(q, out)[i] = (q \o out)[i + Dropped(q, out)]
  BY PublishKeepsTheEnd
<1>2. PICK k \in 1 .. Len(q) + Len(out) :
        Publish(q, out)[i] = (q \o out)[k]
  BY <1>1
<1>3. CASE k <= Len(q)
  <2>1. k \in DOMAIN q /\ (q \o out)[k] = q[k]
    BY <1>3
  <2> QED BY <1>2, <2>1
<1>4. CASE k > Len(q)
  <2>1. k - Len(q) \in DOMAIN out /\ (q \o out)[k] = out[k - Len(q)]
    BY <1>4
  <2> QED BY <1>2, <2>1
<1> QED BY <1>3, <1>4

\* Two messages on a queue are in the order in which they were put there.
LEMMA PublishKeepsPairs ==
    ASSUME NEW S, NEW q \in Seq(S), NEW out \in Seq(S),
           NEW i \in DOMAIN Publish(q, out), NEW j \in DOMAIN Publish(q, out),
           i < j
    PROVE  \/ \E a, b \in DOMAIN q :
                 a < b /\ Publish(q, out)[i] = q[a] /\ Publish(q, out)[j] = q[b]
           \/ \E a \in DOMAIN q, b \in DOMAIN out :
                 Publish(q, out)[i] = q[a] /\ Publish(q, out)[j] = out[b]
           \/ \E a, b \in DOMAIN out :
                 /\ a < b
                 /\ Publish(q, out)[i] = out[a]
                 /\ Publish(q, out)[j] = out[b]
<1> DEFINE P == Publish(q, out)
           all == q \o out
           k == i + Dropped(q, out)
           l == j + Dropped(q, out)
<1>1. /\ Dropped(q, out) \in Nat
      /\ k \in 1 .. Len(q) + Len(out) /\ P[i] = all[k]
      /\ l \in 1 .. Len(q) + Len(out) /\ P[j] = all[l]
  BY PublishKeepsTheEnd
<1>2. k < l
  <2>1. P \in Seq(S)
    BY PublishKeepsTheEnd
  <2> HIDE DEF P
  <2>2. i \in Nat /\ j \in Nat
    BY <2>1
  <2> QED BY <1>1, <2>2
<1> HIDE DEF k, l, P
<1>3. CASE l <= Len(q)
  <2>1. /\ k \in DOMAIN q /\ all[k] = q[k]
        /\ l \in DOMAIN q /\ all[l] = q[l]
    BY <1>1, <1>2, <1>3
  <2> QED BY <1>1, <1>2, <2>1 DEF P
<1>4. CASE k <= Len(q) /\ l > Len(q)
  <2>1. /\ k \in DOMAIN q /\ all[k] = q[k]
        /\ l - Len(q) \in DOMAIN out /\ all[l] = out[l - Len(q)]
    BY <1>1, <1>4
  <2> QED BY <1>1, <2>1 DEF P
<1>5. CASE k > Len(q)
  <2>1. /\ k - Len(q) \in DOMAIN out /\ all[k] = out[k - Len(q)]
        /\ l - Len(q) \in DOMAIN out /\ all[l] = out[l - Len(q)]
        /\ k - Len(q) < l - Len(q)
    BY <1>1, <1>2, <1>5
  <2> QED BY <1>1, <2>1 DEF P
<1> QED BY <1>1, <1>3, <1>4, <1>5

\* Messages published in order, none older than one on the queue, leave it in
\* order.
LEMMA PublishKeepsOrder ==
    ASSUME NEW S, NEW q \in Seq(S), NEW out \in Seq(S),
           Sorted(q), Sorted(out),
           \A i \in DOMAIN q, j \in DOMAIN out :
               q[i].ack = 0 /\ out[j].ack = 0 => q[i].seq <= out[j].seq
    PROVE  Sorted(Publish(q, out))
<1> DEFINE P == Publish(q, out)
<1> SUFFICES ASSUME NEW i \in DOMAIN P, NEW j \in DOMAIN P, i < j,
                    P[i].ack = 0, P[j].ack = 0
             PROVE  P[i].seq <= P[j].seq
  BY DEF Sorted
<1>1. \/ \E a, b \in DOMAIN q : a < b /\ P[i] = q[a] /\ P[j] = q[b]
      \/ \E a \in DOMAIN q, b \in DOMAIN out : P[i] = q[a] /\ P[j] = out[b]
      \/ \E a, b \in DOMAIN out : a < b /\ P[i] = out[a] /\ P[j] = out[b]
  BY PublishKeepsPairs
<1> HIDE DEF P
<1> QED BY <1>1 DEF Sorted

\* So it is with what is final: if the queue says it, all that is published
\* must, and if what is published says it, all that follows there must.
LEMMA PublishKeepsFinal ==
    ASSUME NEW S, NEW q \in Seq(S), NEW out \in Seq(S), NEW texts,
           Final(q, texts), Final(out, texts),
           \A i \in DOMAIN q, j \in DOMAIN out :
               /\ q[i].ack = 0 /\ out[j].ack = 0
               /\ q[i].msg \in texts
               => out[j].msg \in texts
    PROVE  Final(Publish(q, out), texts)
<1> DEFINE P == Publish(q, out)
<1> SUFFICES ASSUME NEW i \in DOMAIN P, NEW j \in DOMAIN P, i < j,
                    P[i].ack = 0, P[j].ack = 0, P[i].msg \in texts
             PROVE  P[j].msg \in texts
  BY DEF Final
<1>1. \/ \E a, b \in DOMAIN q : a < b /\ P[i] = q[a] /\ P[j] = q[b]
      \/ \E a \in DOMAIN q, b \in DOMAIN out : P[i] = q[a] /\ P[j] = out[b]
      \/ \E a, b \in DOMAIN out : a < b /\ P[i] = out[a] /\ P[j] = out[b]
  BY PublishKeepsPairs
<1> HIDE DEF P
<1> QED BY <1>1 DEF Final

\* Taking the first message leaves the others, in their order, and none of
\* them is older than it.
LEMMA TailKeepsOrder ==
    ASSUME NEW S, NEW q \in Seq(S), q # <<>>
    PROVE  /\ Head(q) \in S /\ 1 \in DOMAIN q /\ Head(q) = q[1]
           /\ Tail(q) \in Seq(S)
           /\ \A i \in DOMAIN Tail(q) : /\ i + 1 \in DOMAIN q
                                        /\ Tail(q)[i] = q[i + 1]
           /\ Sorted(q) =>
                 /\ Sorted(Tail(q))
                 /\ \A i \in DOMAIN Tail(q) :
                       Head(q).ack = 0 /\ Tail(q)[i].ack = 0
                          => Head(q).seq <= Tail(q)[i].seq
<1>1. /\ Head(q) \in S /\ 1 \in DOMAIN q /\ Head(q) = q[1]
      /\ Tail(q) \in Seq(S)
      /\ \A i \in DOMAIN Tail(q) : i + 1 \in DOMAIN q /\ Tail(q)[i] = q[i + 1]
  OBVIOUS
<1>2. ASSUME Sorted(q)
      PROVE  Sorted(Tail(q))
  <2> SUFFICES ASSUME NEW i \in DOMAIN Tail(q), NEW j \in DOMAIN Tail(q),
                      i < j, Tail(q)[i].ack = 0, Tail(q)[j].ack = 0
               PROVE  Tail(q)[i].seq <= Tail(q)[j].seq
    BY DEF Sorted
  <2>1. i + 1 < j + 1
    BY <1>1
  <2> QED BY <1>1, <1>2, <2>1 DEF Sorted
<1>3. ASSUME Sorted(q), NEW i \in DOMAIN Tail(q),
             Head(q).ack = 0, Tail(q)[i].ack = 0
      PROVE  Head(q).seq <= Tail(q)[i].seq
  <2>1. 1 < i + 1
    BY <1>1
  <2> QED BY <1>1, <1>3, <2>1 DEF Sorted
<1> QED BY <1>1, <1>2, <1>3

\* What is final stays so when the head is taken, and binds all that is left
\* if the head said it.
LEMMA TailKeepsFinal ==
    ASSUME NEW S, NEW q \in Seq(S), q # <<>>, NEW texts, Final(q, texts)
    PROVE  /\ Final(Tail(q), texts)
           /\ \A i \in DOMAIN Tail(q) :
                 /\ Head(q).ack = 0 /\ Head(q).msg \in texts
                 /\ Tail(q)[i].ack = 0
                 => Tail(q)[i].msg \in texts
<1>1. /\ 1 \in DOMAIN q /\ Head(q) = q[1]
      /\ \A i \in DOMAIN Tail(q) : i + 1 \in DOMAIN q /\ Tail(q)[i] = q[i + 1]
      /\ \A i \in DOMAIN Tail(q) : i \in Nat /\ 1 < i + 1
  OBVIOUS
<1>2. \A i, j \in DOMAIN Tail(q) : i < j => i + 1 < j + 1
  BY <1>1
<1> QED BY <1>1, <1>2 DEF Final

-----------------------------------------------------------------------------
(***************************************************************************)
(* Counters that wrap: a number kept modulo M can be incremented, and      *)
(* stands for one number only within a window shorter than M.              *)
(***************************************************************************)
LEMMA ModRange ==
    ASSUME NEW M \in Nat \ {0}, NEW a \in Nat
    PROVE  a % M \in 0 .. M - 1
OBVIOUS

LEMMA DivMod ==
    ASSUME NEW M \in Nat \ {0}, NEW a \in Nat
    PROVE  /\ a = (a \div M) * M + (a % M)
           /\ a \div M \in Nat
OBVIOUS

LEMMA MultiplesAreApart ==
    ASSUME NEW M \in Nat \ {0}, NEW q \in Int, NEW p \in Int, q >= p + 1
    PROVE  q * M >= p * M + M
OBVIOUS

\* The remainder is the only one.
LEMMA RemainderIsUnique ==
    ASSUME NEW M \in Nat \ {0}, NEW a \in Nat, NEW q \in Int,
           NEW r \in 0 .. M - 1, a = q * M + r
    PROVE  a % M = r
<1> DEFINE p == a \div M
           s == a % M
<1>1. a = p * M + s /\ p \in Int /\ s \in 0 .. M - 1
  <2>1. a = p * M + s /\ p \in Nat
    BY DivMod
  <2>2. s \in 0 .. M - 1
    BY ModRange
  <2> QED BY <2>1, <2>2
<1> HIDE DEF p, s
<1>2. q * M \in Int /\ p * M \in Int
  BY <1>1
<1>3. CASE q >= p + 1
  <2>1. q * M >= p * M + M
    BY <1>1, <1>3, MultiplesAreApart
  <2> QED BY <1>1, <1>2, <2>1
<1>4. CASE p >= q + 1
  <2>1. p * M >= q * M + M
    BY <1>1, <1>4, MultiplesAreApart
  <2> QED BY <1>1, <1>2, <2>1
<1>5. CASE p = q
  <2>1. s = r
    BY <1>1, <1>2, <1>5
  <2> QED BY <2>1 DEF s
<1> QED BY <1>1, <1>3, <1>4, <1>5

\* Two numbers less than M apart that are equal modulo M are equal.
LEMMA ModIsInjectiveNearby ==
    ASSUME NEW M \in Nat \ {0}, NEW a \in Nat, NEW b \in Nat,
           a <= b, b - a < M, a % M = b % M
    PROVE  a = b
<1> DEFINE q == a \div M
           p == b \div M
<1>1. /\ a = q * M + (a % M)
      /\ b = p * M + (b % M)
      /\ q \in Nat
      /\ p \in Nat
  BY DivMod
<1>2. CASE p >= q + 1
  BY <1>1, <1>2, MultiplesAreApart
<1>3. CASE q >= p + 1
  BY <1>1, <1>3, MultiplesAreApart
<1> QED BY <1>1, <1>2, <1>3

\* Incrementing the wrapped counter is wrapping the incremented one.
LEMMA ModOfSuccessor ==
    ASSUME NEW M \in Nat \ {0}, NEW a \in Nat
    PROVE  ((a % M) + 1) % M = (a + 1) % M
<1> DEFINE q == a \div M
           r == a % M
<1>1. a = q * M + r /\ q \in Nat /\ r \in 0 .. M - 1
  BY DivMod, ModRange
<1> SUFFICES (r + 1) % M = (a + 1) % M
  OBVIOUS
<1> HIDE DEF q, r
<1>2. CASE r + 1 < M
  <2>1. /\ r + 1 = 0 * M + (r + 1)
        /\ a + 1 = q * M + (r + 1)
        /\ r + 1 \in 0 .. M - 1
    BY <1>1, <1>2
  <2>2. (r + 1) % M = r + 1
    BY <1>1, <2>1, RemainderIsUnique
  <2>3. (a + 1) % M = r + 1
    BY <1>1, <2>1, RemainderIsUnique
  <2> QED BY <2>2, <2>3
<1>3. CASE r + 1 = M
  <2>1. /\ r + 1 = 1 * M + 0
        /\ a + 1 = (q + 1) * M + 0
        /\ 0 \in 0 .. M - 1
    BY <1>1, <1>3
  <2>2. (r + 1) % M = 0
    BY <1>1, <2>1, RemainderIsUnique
  <2>3. (a + 1) % M = 0
    BY <1>1, <2>1, RemainderIsUnique
  <2> QED BY <2>2, <2>3
<1> QED BY <1>1, <1>2, <1>3
=============================================================================
