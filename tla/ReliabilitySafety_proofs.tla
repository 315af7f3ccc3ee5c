---------------------- MODULE ReliabilitySafety_proofs ----------------------
(***************************************************************************)
(* As long as no counter of the sender has come back to zero, messages are *)
(* handed over whole, in order and once, and nothing written is forgotten: *)
(* Inv of Reliability is inductive and implies both.                       *)
(***************************************************************************)
EXTENDS Reliability_proofs

USE SeqEndAssumption, MaxWindowAssumption, FragsAssumption,
    SplitModAssumption, LimitsAssumption, FlagsAssumption

-----------------------------------------------------------------------------
(* The sender.                                                             *)

(* Masking changes nothing below 2^24, and a distance from the first of a  *)
(* run of numbers is what was added to it.                                 *)
LEMMA Uint24Small ==
  ASSUME NEW s \in Nat, NEW k \in Nat, s + k < SeqEnd
  PROVE  Uint24(s + k) = s + k /\ Uint24((s + k) - s) = k
<1>1. SeqEnd \in Nat \ {0} /\ s + k \in Nat /\ (s + k) - s = k /\ k < SeqEnd
  OBVIOUS
<1>2. \A x \in Nat : x < SeqEnd => x % SeqEnd = x
  OBVIOUS
<1> QED
  BY <1>1, <1>2 DEF Uint24

(* The outcome of Transmit when no number has come round: the packets got  *)
(* numbers from built up to b, which no datagram had before.               *)
Transmitted(kept, pks, n, b) ==
    /\ b = built + n /\ built <= b /\ seq' = b /\ net \subseteq net'
    /\ \A d \in net' : d.seq \in Nat /\ d.seq < b
    /\ \A d \in net' :
          d \in net \/ (d.seq >= built /\ \E k \in 0 .. (n - 1) : d.pk = pks[k])
    /\ \A d, e \in net' : d.seq = e.seq => d.pk = e.pk
    /\ kept \subseteq DOMAIN unacknowledged'
    /\ \A s \in kept : unacknowledged'[s] = unacknowledged[s]
    /\ \A s \in DOMAIN unacknowledged' :
          s \in kept \/ \E k \in 0 .. (n - 1) : s = built + k
    /\ \A k \in 0 .. (n - 1) :
          /\ built + k \in DOMAIN unacknowledged'
          /\ unacknowledged'[built + k] = pks[k]
          /\ \E d \in net' : d.seq = built + k /\ d.pk = pks[k]

(* Transmitting n packets without a wrap gives them the numbers built,     *)
(* built + 1, ..., which no datagram had before.                           *)
LEMMA TransmitStep ==
  ASSUME TypeOK, SenderInv, NetInv, NEW kept \in SUBSET DOMAIN unacknowledged,
         NEW n \in Nat, NEW pks, Transmit(kept, pks, n),
         NEW b \in Nat, built' = b, b < SeqEnd
  PROVE  Transmitted(kept, pks, n, b)
<1> DEFINE sent == {[seq |-> built + k, pk |-> pks[k]] : k \in 0 .. (n - 1)}
           new == {built + k : k \in 0 .. (n - 1)}
<1>1. b = built + n /\ built + n < SeqEnd /\ built \in Nat /\ seq = built
  BY DEF Transmit, SenderInv, TypeOK
<1>2. ASSUME NEW k \in 0 .. n
      PROVE  NextSeq(k) = built + k /\ OffsetOf(built + k) = k
  <2>1. k \in Nat /\ k <= n /\ n \in Nat /\ SeqEnd \in Nat
    OBVIOUS
  <2>2. built + k < SeqEnd
    BY <1>1, <2>1
  <2> QED
    BY <1>1, <2>1, <2>2, Uint24Small DEF NextSeq, OffsetOf
<1>3. \A k \in 0 .. (n - 1) : NextSeq(k) = built + k /\ OffsetOf(built + k) = k
  BY <1>2
<1>4. {NextSeq(k) : k \in 0 .. (n - 1)} = new
  BY <1>3
<1>5. /\ new \cap kept = {}
      /\ unacknowledged' = [s \in kept \cup new |->
             IF s \in new THEN pks[OffsetOf(s)] ELSE unacknowledged[s]]
      /\ net' = net \cup {[seq |-> NextSeq(k), pk |-> pks[k]] : k \in 0 .. (n - 1)}
      /\ seq' = NextSeq(n)
  BY <1>4 DEF Transmit
<1>6. net' = net \cup sent
  BY <1>3, <1>5
<1>7. seq' = b
  BY <1>1, <1>2, <1>5
<1>8. \A s \in kept : s \notin new
  BY <1>5
<1>9. /\ \A k \in 0 .. (n - 1) : built + k \in new
      /\ \A s \in new : \E k \in 0 .. (n - 1) : s = built + k
      /\ \A k \in 0 .. (n - 1) : \E d \in sent : d.seq = built + k /\ d.pk = pks[k]
      /\ \A d \in sent : \E k \in 0 .. (n - 1) : d.seq = built + k /\ d.pk = pks[k]
  <2>1. \A k \in 0 .. (n - 1) : [seq |-> built + k, pk |-> pks[k]] \in sent
    OBVIOUS
  <2>2. \A d \in sent :
           \E k \in 0 .. (n - 1) : d = [seq |-> built + k, pk |-> pks[k]]
    OBVIOUS
  <2> HIDE DEF sent
  <2>3. \A k \in 0 .. (n - 1) : \E d \in sent : d.seq = built + k /\ d.pk = pks[k]
    BY <2>1
  <2>4. \A d \in sent : \E k \in 0 .. (n - 1) : d.seq = built + k /\ d.pk = pks[k]
    BY <2>2
  <2> QED
    BY <2>3, <2>4
<1> HIDE DEF new, sent
<1>10. /\ kept \subseteq DOMAIN unacknowledged'
       /\ \A s \in kept : unacknowledged'[s] = unacknowledged[s]
       /\ \A s \in DOMAIN unacknowledged' :
             s \in kept \/ \E k \in 0 .. (n - 1) : s = built + k
       /\ \A k \in 0 .. (n - 1) : /\ built + k \in DOMAIN unacknowledged'
                                  /\ unacknowledged'[built + k] = pks[k]
  BY <1>3, <1>5, <1>8, <1>9
<1>11. \A d \in net : d.seq \in Nat /\ d.seq < built
  BY DEF NetInv, TypeOK, SeqNumbers
<1>12. \A d \in sent : d.seq \in Nat /\ d.seq >= built /\ d.seq < b
  BY <1>1, <1>9
<1>13. \A d, e \in sent : d.seq = e.seq => d.pk = e.pk
  <2> SUFFICES ASSUME NEW d \in sent, NEW e \in sent, d.seq = e.seq
               PROVE  d.pk = e.pk
    OBVIOUS
  <2>1. PICK k \in 0 .. (n - 1) : d.seq = built + k /\ d.pk = pks[k]
    BY <1>9
  <2>2. PICK l \in 0 .. (n - 1) : e.seq = built + l /\ e.pk = pks[l]
    BY <1>9
  <2>3. built + k = built + l
    BY <2>1, <2>2
  <2>4. built \in Int /\ k \in Int /\ l \in Int
    BY <1>1
  <2>5. k = l
    BY <2>3, <2>4
  <2> QED
    BY <2>1, <2>2, <2>5
<1>14. \A d, e \in net : d.seq = e.seq => d.pk = e.pk
  BY DEF NetInv
<1>15. \A d \in sent, e \in net : d.seq # e.seq
  BY <1>1, <1>11, <1>12
<1>16. \A d, e \in net' : d.seq = e.seq => d.pk = e.pk
  BY <1>6, <1>13, <1>14, <1>15
<1>17. \A d \in net' : d.seq \in Nat /\ d.seq < b
  BY <1>1, <1>6, <1>11, <1>12
<1>18. /\ net \subseteq net'
       /\ \A d \in net' :
             d \in net \/ (d.seq >= built /\ \E k \in 0 .. (n - 1) : d.pk = pks[k])
       /\ \A k \in 0 .. (n - 1) : \E d \in net' : d.seq = built + k /\ d.pk = pks[k]
  BY <1>6, <1>9, <1>12
<1>19. built <= b
  BY <1>1
<1> QED
  BY <1>1, <1>7, <1>10, <1>16, <1>17, <1>18, <1>19 DEF Transmitted

(* What a message's pieces look like on the wire.                          *)
LEMMA PieceShape ==
  ASSUME NEW p \in Pieces
  PROVE  /\ p = <<p[1], p[2]>> /\ p # NoPiece
         /\ p[1] \in Messages /\ p[2] \in 0 .. (Frags[p[1]] - 1)
         /\ Frags[p[1]] \in Nat \ {0}
<1>1. PICK m \in Messages : \E j \in 0 .. (Frags[m] - 1) : p = <<m, j>>
  BY DEF Pieces
<1>2. PICK j \in 0 .. (Frags[m] - 1) : p = <<m, j>>
  BY <1>1
<1>3. p # NoPiece
  BY <1>2 DEF NoPiece
<1> QED
  BY <1>1, <1>2, <1>3 DEF Messages

(* What the fields of a datagram are.                                      *)
LEMMA DatagramShape ==
  ASSUME TypeOK, NEW d \in net
  PROVE  /\ d.seq \in Nat /\ d.seq \in SeqNumbers
         /\ d.pk.split_id \in Nat /\ d.pk.order_index \in Nat
         /\ d.pk.content \in Pieces
         /\ d.pk.content[1] \in Messages /\ d.pk.content[1] \in Nat
<1>1. d.seq \in SeqNumbers /\ d.pk \in Packets
  BY DEF TypeOK
<1>2. d.pk.content \in Pieces /\ d.pk.split_id \in Nat /\ d.pk.order_index \in Nat
  BY <1>1 DEF Packets
<1>3. d.pk.content[1] \in Messages
  BY <1>2, PieceShape
<1> QED
  BY <1>1, <1>2, <1>3 DEF Messages, SeqNumbers

-----------------------------------------------------------------------------
(* The receiver's side of the invariant does not notice the sender: it     *)
(* refers to net, which grows, and to written and built, which do not      *)
(* shrink.                                                                 *)
LEMMA SenderStepFrame ==
  ASSUME SplitsInv, QueueInv, TaskInv, OutputInv, AckInv, TypeOK,
         net \subseteq net',
         NEW w \in Nat, written' = w, written <= w,
         NEW b \in Nat, built' = b, built <= b,
         UNCHANGED <<ack_slice, acks, splits, pqLowest, pqHighest, pqQueue,
                     inHand, fetched, receiving, closing, delivered>>
  PROVE  /\ SplitsInv' /\ QueueInv' /\ TaskInv' /\ OutputInv' /\ AckInv'
         /\ \A p : Held(p)' <=> Held(p)
         /\ \A s : Received(s)' <=> Received(s)
         /\ Clean' <=> Clean
<1>1. SplitsInv'
  BY DEF SplitsInv, Whole, IsSplit
<1>2. QueueInv'
  <2>1. pqLowest' <= written'
    BY DEF QueueInv, TypeOK, SeqNumbers
  <2>2. \A i \in DOMAIN pqQueue' : i < written' /\ pqQueue'[i] = Whole(i)
    BY DEF QueueInv, TypeOK, SeqNumbers
  <2> QED
    BY <2>1, <2>2 DEF QueueInv, Whole
<1>3. TaskInv'
  BY DEF TaskInv, Whole
<1>4. OutputInv'
  BY DEF OutputInv, Whole, Clean
<1>5. /\ \A p : Held(p)' <=> Held(p)
      /\ \A s : Received(s)' <=> Received(s)
      /\ Clean' <=> Clean
  BY DEF Held, InQueue, InTask, InSplits, Done, Received, Clean
<1>6. AckInv'
  BY <1>5 DEF AckInv, TypeOK, SeqNumbers
<1> QED
  BY <1>1, <1>2, <1>3, <1>4, <1>5, <1>6

(* A write: the new packets carry the next message, and each of its pieces *)
(* is tracked.                                                             *)
LEMMA WriteSafe ==
  ASSUME TypeOK, NoWrap, Safe, Write, NoWrap'
  PROVE  Safe'
<1>0. /\ SenderInv /\ NetInv /\ SplitsInv /\ QueueInv
      /\ TaskInv /\ OutputInv /\ AckInv /\ HeldInv /\ NothingLost
  BY DEF Safe
<1> DEFINE m == written
           n == Frags[m]
           pks == [j \in 0 .. (n - 1) |-> PacketFor(m, j, order_index, split_id)]
<1>1. m = written /\ n = Frags[m] /\ m \in Messages /\ m \in Nat /\ n \in Nat \ {0} /\ built \in Nat
  BY DEF Write, Messages, TypeOK
<1>2. PICK q \in 1 .. n : /\ Transmit(DOMAIN unacknowledged, pks, q)
                          /\ q = n \/ m \in Cancelled
  BY DEF Write
<1>21. q \in Nat /\ \A j \in 0 .. (q - 1) : j \in 0 .. (n - 1)
  BY <1>1
<1>3. built' < SeqEnd
  BY DEF NoWrap
<1>4. order_index = m /\ split_id \in Nat /\ split_id <= m
  BY <1>0 DEF SenderInv, TypeOK
<1>5. \A j \in 0 .. (q - 1) : /\ pks[j].content = <<m, j>> /\ pks[j].order_index = m
                              /\ pks[j].split_count = n /\ pks[j].split_index = j
                              /\ pks[j].split_id = split_id
  BY <1>4, <1>21 DEF PacketFor
<1>9. /\ written' = m + 1 /\ order_index' = Uint24(m + 1)
      /\ split_id' = IF n > 1 THEN (split_id + 1) % SplitMod ELSE split_id
      /\ UNCHANGED <<windowVars, queueVars, taskVars, acks>>
  BY <1>4 DEF Write
<1> HIDE DEF m, n, pks
<1>7. PICK b \in Nat : built' = b /\ b < SeqEnd
  BY <1>3, <1>2, <1>1, <1>21 DEF Transmit
<1>8. Transmitted(DOMAIN unacknowledged, pks, q, b)
  BY <1>0, <1>2, <1>7, <1>21, TransmitStep
<1>10. PICK w \in Nat : w = m + 1
  BY <1>1
<1>14. written' = w
  BY <1>9, <1>10
<1>11. w < SeqEnd /\ w < SplitMod /\ written <= w
  BY <1>1, <1>10, <1>14 DEF NoWrap
<1>12. order_index' = w
  <2>1. Uint24(w) = w
    BY <1>11 DEF Uint24
  <2> QED
    BY <2>1, <1>9, <1>10
<1>13. PICK i \in Nat : /\ split_id' = i /\ i <= w /\ split_id <= i
                        /\ n > 1 => split_id < i
  <2>1. n > 1 => (split_id + 1) % SplitMod = split_id + 1
    <3>1. split_id + 1 \in Nat /\ split_id + 1 < SplitMod
      BY <1>1, <1>4, <1>10, <1>11
    <3>2. \A x \in Nat : x < SplitMod => x % SplitMod = x
      OBVIOUS
    <3> QED
      BY <3>1, <3>2
  <2> QED
    BY <2>1, <1>1, <1>4, <1>9, <1>10
<1>19. split_id <= i
  BY <1>13
<1>20. NetInv'
  <2>1. ASSUME NEW d \in net'
        PROVE  /\ d.pk.content[1] < w
               /\ d.pk.order_index = d.pk.content[1]
               /\ d.pk.split_count = Frags[d.pk.content[1]]
               /\ d.pk.split_index = d.pk.content[2]
               /\ IsSplit(d.pk) => d.pk.split_id < i
    <3>1. CASE d \in net
      <4>1. /\ d.pk.content[1] < m
            /\ d.pk.order_index = d.pk.content[1]
            /\ d.pk.split_count = Frags[d.pk.content[1]]
            /\ d.pk.split_index = d.pk.content[2]
            /\ IsSplit(d.pk) => d.pk.split_id < split_id
        BY <1>0, <1>1, <3>1 DEF NetInv
      <4>2. d.pk.content[1] \in Int /\ d.pk.split_id \in Int
        BY <3>1, DatagramShape
      <4>3. d.pk.content[1] < w
        BY <4>1, <4>2, <1>1, <1>10
      <4>4. IsSplit(d.pk) => d.pk.split_id < i
        BY <4>1, <4>2, <1>4, <1>19
      <4> QED
        BY <4>1, <4>3, <4>4
    <3>2. CASE \E k \in 0 .. (q - 1) : d.pk = pks[k]
      <4>1. PICK k \in 0 .. (q - 1) : d.pk = pks[k]
        BY <3>2
      <4>2. /\ d.pk.content = <<m, k>> /\ d.pk.order_index = m
            /\ d.pk.split_count = n /\ d.pk.split_index = k
            /\ d.pk.split_id = split_id
        BY <4>1, <1>5
      <4>3. m < w /\ (n > 1 => split_id < i)
        BY <1>1, <1>10, <1>13
      <4> QED
        BY <4>2, <4>3, <1>1 DEF IsSplit
    <3> QED
      BY <3>1, <3>2, <1>8 DEF Transmitted
  <2>2. ASSUME NEW d \in net', NEW e \in net', IsSplit(d.pk), IsSplit(e.pk),
               d.pk.split_id = e.pk.split_id
        PROVE  d.pk.content[1] = e.pk.content[1]
    <3>1. ASSUME NEW x \in net, IsSplit(x.pk)
          PROVE  x.pk.split_id # split_id
      <4>1. x.pk.split_id < split_id /\ x.pk.split_id \in Int
        BY <1>0, <3>1, DatagramShape DEF NetInv
      <4> QED
        BY <4>1, <1>4
    <3>2. \A x \in net' : x \in net \/ (x.pk.split_id = split_id /\ x.pk.content[1] = m)
      BY <1>5, <1>8 DEF Transmitted
    <3>3. CASE d \in net /\ e \in net
      BY <1>0, <3>3, <2>2 DEF NetInv
    <3> QED
      BY <2>2, <3>1, <3>2, <3>3
  <2>3. /\ \A d \in net' : d.seq < built'
        /\ \A d, e \in net' : d.seq = e.seq => d.pk = e.pk
        /\ w = written' /\ i = split_id'
    BY <1>7, <1>8, <1>13, <1>14 DEF Transmitted
  <2> QED
    BY <2>1, <2>2, <2>3 DEF NetInv, IsSplit
<1>15. /\ SplitsInv' /\ QueueInv' /\ TaskInv' /\ OutputInv' /\ AckInv'
       /\ \A p : Held(p)' <=> Held(p)
       /\ \A s : Received(s)' <=> Received(s)
       /\ Clean' <=> Clean
  <2>1. written <= w /\ built <= b /\ net \subseteq net'
    BY <1>8, <1>11 DEF Transmitted
  <2>2. UNCHANGED <<ack_slice, acks, splits, pqLowest, pqHighest, pqQueue,
                    inHand, fetched, receiving, closing, delivered>>
    BY <1>9 DEF windowVars, queueVars, taskVars
  <2>3. built' = b
    BY <1>8, <1>7 DEF Transmitted
  <2> QED
    BY <2>1, <2>2, <2>3, <1>0, <1>14, SenderStepFrame
<1>16. SenderInv'
  <2>1. seq' = built' /\ order_index' = written' /\ split_id' <= written'
    BY <1>7, <1>8, <1>12, <1>13, <1>14 DEF Transmitted
  <2>2. \A s \in DOMAIN unacknowledged' :
           \E d \in net' : d.seq = s /\ d.pk = unacknowledged'[s]
    <3>1. \A s \in DOMAIN unacknowledged :
             \E d \in net' : d.seq = s /\ d.pk = unacknowledged'[s]
      BY <1>0, <1>8 DEF SenderInv, Transmitted
    <3>2. \A k \in 0 .. (q - 1) :
             \E d \in net' : d.seq = built + k /\ d.pk = unacknowledged'[built + k]
      BY <1>8 DEF Transmitted
    <3> QED
      BY <3>1, <3>2, <1>8 DEF Transmitted
  <2>3. \A s, t \in DOMAIN unacknowledged' :
           unacknowledged'[s].content = unacknowledged'[t].content => s = t
    <3>1. \A s \in DOMAIN unacknowledged : unacknowledged'[s].content[1] # m
      <4>1. \A s \in DOMAIN unacknowledged :
               /\ unacknowledged[s].content[1] < m
               /\ unacknowledged[s].content[1] \in Int
        BY <1>0, <1>1, DatagramShape DEF SenderInv, NetInv
      <4> QED
        BY <4>1, <1>1, <1>8 DEF Transmitted
    <3>2. \A k \in 0 .. (q - 1) : unacknowledged'[built + k].content = <<m, k>>
      BY <1>5, <1>8 DEF Transmitted
    <3>3. \A s, t \in DOMAIN unacknowledged :
             unacknowledged'[s].content = unacknowledged'[t].content => s = t
      BY <1>0, <1>8 DEF SenderInv, TrackedOnce, Transmitted
    <3> QED
      BY <3>1, <3>2, <3>3, <1>8 DEF Transmitted
  <2> QED
    BY <2>1, <2>2, <2>3 DEF SenderInv, TrackedOnce
<1>17. HeldInv'
  <2>1. ASSUME NEW d \in net', Received(d.seq)
        PROVE  d \in net
    <3>1. d.seq < b /\ (d \in net \/ d.seq >= built)
      BY <1>8 DEF Transmitted
    <3>2. d.seq \in Nat /\ d.seq \in SeqNumbers
      <4>1. d.seq \in Nat /\ d.seq < b
        BY <1>8 DEF Transmitted
      <4> QED
        BY <4>1, <1>7 DEF SeqNumbers
    <3>3. d.seq < built
      BY <1>0, <2>1, <3>2 DEF AckInv
    <3> QED
      BY <3>1, <3>2, <3>3, <1>1
  <2> QED
    BY <1>0, <2>1, <1>15 DEF HeldInv
<1>18. NothingLost'
  <2>1. ASSUME NEW p, Tracked(p) PROVE Tracked(p)'
    BY <1>8, <2>1 DEF Tracked, Transmitted
  <2>2. ASSUME NEW p, NEW j \in 0 .. (q - 1), p = pks[j].content PROVE Tracked(p)'
    BY <1>8, <2>2 DEF Tracked, Transmitted
  <2>3. ASSUME NEW p \in Pieces, Owed(p)' PROVE Owed(p) \/ Tracked(p)'
    <3>1. ASSUME NEW d \in net', p = d.pk.content PROVE Owed(p) \/ Tracked(p)'
      <4>1. d \in net \/ \E j \in 0 .. (q - 1) : d.pk = pks[j]
        BY <1>8 DEF Transmitted
      <4> QED
        BY <4>1, <3>1, <2>2 DEF Owed
    <3>2. ASSUME NEW x \in Messages \ Cancelled, x < w, p \in Range(Whole(x))
          PROVE  Owed(p) \/ Tracked(p)'
      <4>1. CASE x < m
        BY <4>1, <3>2, <1>1 DEF Owed
      <4>2. CASE x = m
        <5>1. q = n
          BY <4>2, <1>2, <3>2
        <5>2. PICK j \in 0 .. (n - 1) : p = <<m, j>>
          BY <3>2, <4>2 DEF Whole, Range, n, m
        <5> QED
          BY <5>1, <5>2, <1>5, <2>2
      <4> QED
        BY <4>1, <4>2, <3>2, <1>1, <1>10 DEF Messages
    <3> QED
      BY <2>3, <3>1, <3>2, <1>14 DEF Owed, Whole
  <2>4. Clean => \A p \in Pieces : Owed(p) => Tracked(p) \/ Held(p)
    BY <1>0 DEF NothingLost, Clean
  <2>5. Clean' => \A p \in Pieces : Owed(p)' => Tracked(p)' \/ Held(p)'
    BY <1>15, <2>1, <2>3, <2>4
  <2> QED
    BY <2>5 DEF NothingLost, Clean
<1> QED
  BY <1>20, <1>15, <1>16, <1>17, <1>18 DEF Safe

(* A retransmission: what leaves the map enters it again under a new       *)
(* number, and the datagrams sent carry what was sent before.              *)
LEMMA RetransmitSafe ==
  ASSUME TypeOK, NoWrap, Safe, NoWrap',
         NEW old \in SUBSET DOMAIN unacknowledged, NEW n \in Nat,
         NEW order \in [1 .. n -> old], IsInjective(order), Retransmit(order, n)
  PROVE  Safe'
<1>0. /\ SenderInv /\ NetInv /\ SplitsInv /\ QueueInv
      /\ TaskInv /\ OutputInv /\ AckInv /\ HeldInv /\ NothingLost
  BY DEF Safe
<1> DEFINE pks == [k \in 0 .. (n - 1) |-> unacknowledged[order[k + 1]]]
           kept == DOMAIN unacknowledged \ Range(order)
<1>1. Transmit(kept, pks, n) /\ kept \in SUBSET DOMAIN unacknowledged
  BY DEF Retransmit
<1>2. /\ UNCHANGED <<order_index, split_id, written>>
      /\ UNCHANGED <<ack_slice, acks, splits, pqLowest, pqHighest, pqQueue,
                     inHand, fetched, receiving, closing, delivered>>
  BY DEF Retransmit, windowVars, queueVars, taskVars
<1>3. \A k \in 0 .. (n - 1) : /\ k + 1 \in 1 .. n /\ order[k + 1] \in DOMAIN unacknowledged
                              /\ pks[k] = unacknowledged[order[k + 1]]
  OBVIOUS
<1>4. \A s \in DOMAIN unacknowledged :
         s \in kept \/ \E k \in 0 .. (n - 1) : s = order[k + 1]
  <2> SUFFICES ASSUME NEW s \in Range(order)
               PROVE  \E k \in 0 .. (n - 1) : s = order[k + 1]
    OBVIOUS
  <2>1. PICK i \in 1 .. n : s = order[i]
    BY DEF Range
  <2>2. i - 1 \in 0 .. (n - 1) /\ (i - 1) + 1 = i
    BY <2>1
  <2> QED
    BY <2>1, <2>2
<1>5. \A k \in 0 .. (n - 1) : order[k + 1] \notin kept
  BY <1>3 DEF Range
<1>6. \A k, l \in 0 .. (n - 1) : order[k + 1] = order[l + 1] => k = l
  <2> SUFFICES ASSUME NEW k \in 0 .. (n - 1), NEW l \in 0 .. (n - 1),
                      order[k + 1] = order[l + 1]
               PROVE  k = l
    OBVIOUS
  <2>1. k + 1 = l + 1
    BY <1>3 DEF IsInjective
  <2> QED
    BY <2>1
<1> HIDE DEF pks, kept
<1>7. PICK b \in Nat : built' = b /\ b < SeqEnd
  BY <1>1 DEF Transmit, TypeOK, NoWrap
<1>8. Transmitted(kept, pks, n, b)
  BY <1>0, <1>1, <1>7, TransmitStep
<1>9. \A k \in 0 .. (n - 1) : \E e \in net : pks[k] = e.pk
  <2> TAKE k \in 0 .. (n - 1)
  <2>1. order[k + 1] \in DOMAIN unacknowledged /\ pks[k] = unacknowledged[order[k + 1]]
    BY <1>3
  <2>2. \A s \in DOMAIN unacknowledged : \E e \in net : e.pk = unacknowledged[s]
    BY <1>0 DEF SenderInv
  <2> QED
    BY <2>1, <2>2
<1>10. \A d \in net' : \E e \in net : d.pk = e.pk
  <2> TAKE d \in net'
  <2>1. d \in net \/ \E k \in 0 .. (n - 1) : d.pk = pks[k]
    BY <1>8 DEF Transmitted
  <2> QED
    BY <2>1, <1>9
<1>11. NetInv'
  <2>1. \A d \in net' : /\ d.pk.content[1] < written
                        /\ d.pk.order_index = d.pk.content[1]
                        /\ d.pk.split_count = Frags[d.pk.content[1]]
                        /\ d.pk.split_index = d.pk.content[2]
                        /\ IsSplit(d.pk) => d.pk.split_id < split_id
    BY <1>0, <1>10 DEF NetInv
  <2>2. ASSUME NEW d \in net', NEW e \in net', IsSplit(d.pk), IsSplit(e.pk),
               d.pk.split_id = e.pk.split_id
        PROVE  d.pk.content[1] = e.pk.content[1]
    BY <1>0, <1>10, <2>2 DEF NetInv
  <2>3. /\ \A d \in net' : d.seq < built'
        /\ \A d, e \in net' : d.seq = e.seq => d.pk = e.pk
    BY <1>7, <1>8 DEF Transmitted
  <2> QED
    BY <1>2, <2>1, <2>2, <2>3 DEF NetInv, IsSplit
<1>12. /\ SplitsInv' /\ QueueInv' /\ TaskInv' /\ OutputInv' /\ AckInv'
       /\ \A p : Held(p)' <=> Held(p)
       /\ \A s : Received(s)' <=> Received(s)
       /\ Clean' <=> Clean
  <2>1. built <= b /\ net \subseteq net' /\ written \in Nat /\ written <= written
    BY <1>8 DEF Transmitted, TypeOK
  <2> QED
    BY <2>1, <1>0, <1>2, <1>7, SenderStepFrame
<1>13. SenderInv'
  <2>1. seq' = built' /\ order_index' = written' /\ split_id' <= written'
    BY <1>0, <1>2, <1>7, <1>8 DEF Transmitted, SenderInv
  <2>2. \A s \in DOMAIN unacknowledged' :
           \E d \in net' : d.seq = s /\ d.pk = unacknowledged'[s]
    <3>1. \A s \in kept : \E d \in net' : d.seq = s /\ d.pk = unacknowledged'[s]
      BY <1>0, <1>1, <1>8 DEF SenderInv, Transmitted
    <3>2. \A k \in 0 .. (n - 1) :
             \E d \in net' : d.seq = built + k /\ d.pk = unacknowledged'[built + k]
      BY <1>8 DEF Transmitted
    <3> QED
      BY <3>1, <3>2, <1>8 DEF Transmitted
  <2>3. \A s, t \in DOMAIN unacknowledged' :
           unacknowledged'[s].content = unacknowledged'[t].content => s = t
    <3>1. \A s, t \in DOMAIN unacknowledged :
             unacknowledged[s].content = unacknowledged[t].content => s = t
      BY <1>0 DEF SenderInv, TrackedOnce
    <3>2. \A s \in kept : s \in DOMAIN unacknowledged /\ unacknowledged'[s] = unacknowledged[s]
      BY <1>1, <1>8 DEF Transmitted
    <3>3. \A k \in 0 .. (n - 1) :
             unacknowledged'[built + k] = unacknowledged[order[k + 1]]
      BY <1>3, <1>8 DEF Transmitted
    <3>4. \A s \in DOMAIN unacknowledged' :
             s \in kept \/ \E k \in 0 .. (n - 1) : s = built + k
      BY <1>8 DEF Transmitted
    <3> SUFFICES ASSUME NEW s \in DOMAIN unacknowledged',
                        NEW t \in DOMAIN unacknowledged',
                        unacknowledged'[s].content = unacknowledged'[t].content
                 PROVE  s = t
      OBVIOUS
    <3>5. CASE s \in kept /\ t \in kept
      BY <3>1, <3>2, <3>5
    <3>6. ASSUME NEW k \in 0 .. (n - 1), s = built + k, t \in kept PROVE FALSE
      <4>1. order[k + 1] = t
        BY <3>1, <3>2, <3>3, <3>6, <1>3
      <4> QED
        BY <4>1, <3>6, <1>5
    <3>7. ASSUME NEW k \in 0 .. (n - 1), t = built + k, s \in kept PROVE FALSE
      <4>1. order[k + 1] = s
        BY <3>1, <3>2, <3>3, <3>7, <1>3
      <4> QED
        BY <4>1, <3>7, <1>5
    <3>8. ASSUME NEW k \in 0 .. (n - 1), NEW l \in 0 .. (n - 1),
                 s = built + k, t = built + l
          PROVE  s = t
      <4>1. order[k + 1] = order[l + 1]
        BY <3>1, <3>3, <3>8, <1>3
      <4> QED
        BY <4>1, <3>8, <1>6
    <3> QED
      BY <3>4, <3>5, <3>6, <3>7, <3>8
  <2> QED
    BY <2>1, <2>2, <2>3 DEF SenderInv, TrackedOnce
<1>14. HeldInv'
  <2>1. ASSUME NEW d \in net', Received(d.seq)
        PROVE  d \in net
    <3>1. d.seq \in Nat /\ d.seq < b /\ (d \in net \/ d.seq >= built)
      BY <1>8 DEF Transmitted
    <3>2. d.seq \in SeqNumbers /\ built \in Nat
      <4>1. built \in Nat /\ b < SeqEnd
        BY <1>7 DEF TypeOK
      <4> QED
        BY <3>1, <4>1 DEF SeqNumbers
    <3>3. d.seq < built
      BY <1>0, <2>1, <3>2 DEF AckInv
    <3> QED
      BY <3>1, <3>2, <3>3
  <2> QED
    BY <1>0, <2>1, <1>12 DEF HeldInv
<1>15. NothingLost'
  <2>1. ASSUME NEW p, Tracked(p) PROVE Tracked(p)'
    <3>1. PICK s \in DOMAIN unacknowledged : p = unacknowledged[s].content
      BY <2>1 DEF Tracked
    <3>2. CASE s \in kept
      BY <3>1, <3>2, <1>8 DEF Tracked, Transmitted
    <3>3. CASE \E k \in 0 .. (n - 1) : s = order[k + 1]
      <4>1. PICK k \in 0 .. (n - 1) : s = order[k + 1]
        BY <3>3
      <4>2. /\ built + k \in DOMAIN unacknowledged'
            /\ unacknowledged'[built + k] = pks[k]
        BY <1>8 DEF Transmitted
      <4>3. unacknowledged'[built + k].content = p
        BY <3>1, <4>1, <4>2, <1>3
      <4> QED
        BY <4>2, <4>3 DEF Tracked
    <3> QED
      BY <3>2, <3>3, <1>4
  <2>2. ASSUME NEW p, Owed(p)' PROVE Owed(p)
    BY <1>2, <1>10, <2>2 DEF Owed, Whole
  <2>3. Clean => \A p \in Pieces : Owed(p) => Tracked(p) \/ Held(p)
    BY <1>0 DEF NothingLost, Clean
  <2>4. Clean' => \A p \in Pieces : Owed(p)' => Tracked(p)' \/ Held(p)'
    BY <1>12, <2>1, <2>2, <2>3
  <2> QED
    BY <2>4 DEF NothingLost, Clean
<1> QED
  BY <1>11, <1>12, <1>13, <1>14, <1>15 DEF Safe

(* An ACK: what it lists has been received, so R holds it.                 *)
LEMMA HandleAckSafe ==
  ASSUME TypeOK, NoWrap, Safe, NEW a \in acks, HandleAck(a)
  PROVE  Safe'
<1>0. /\ SenderInv /\ NetInv /\ SplitsInv /\ QueueInv
      /\ TaskInv /\ OutputInv /\ AckInv /\ HeldInv /\ NothingLost
  BY DEF Safe
<1>1. /\ DOMAIN unacknowledged' = DOMAIN unacknowledged \ a.seqs
      /\ \A s \in DOMAIN unacknowledged' : unacknowledged'[s] = unacknowledged[s]
      /\ UNCHANGED <<seq, order_index, split_id, written, built, net>>
      /\ UNCHANGED <<ack_slice, acks, splits, pqLowest, pqHighest, pqQueue,
                     inHand, fetched, receiving, closing, delivered>>
      /\ a.kind = "ack"
  BY DEF HandleAck, windowVars, queueVars, taskVars, Restrict
<1>2. /\ SplitsInv' /\ QueueInv' /\ TaskInv' /\ OutputInv' /\ AckInv'
      /\ \A p : Held(p)' <=> Held(p)
      /\ \A s : Received(s)' <=> Received(s)
      /\ Clean' <=> Clean
  <2>1. written \in Nat /\ built \in Nat /\ written <= written /\ built <= built
    BY DEF TypeOK
  <2> QED
    BY <2>1, <1>0, <1>1, SenderStepFrame
<1>3. NetInv'
  BY <1>0, <1>1 DEF NetInv, IsSplit
<1>4. SenderInv'
  BY <1>0, <1>1 DEF SenderInv, TrackedOnce
<1>5. HeldInv'
  BY <1>0, <1>1, <1>2 DEF HeldInv
<1>6. ASSUME Clean, NEW p, Tracked(p) PROVE Tracked(p)' \/ Held(p)
  <2>1. PICK s \in DOMAIN unacknowledged : p = unacknowledged[s].content
    BY <1>6 DEF Tracked
  <2>2. CASE s \in a.seqs
    <3>1. PICK d \in net : d.seq = s /\ d.pk = unacknowledged[s]
      BY <1>0 DEF SenderInv
    <3>2. Received(s)
      BY <1>1, <2>2 DEF Received
    <3> QED
      BY <1>0, <1>6, <2>1, <3>1, <3>2 DEF HeldInv
  <2>3. CASE s \notin a.seqs
    BY <1>1, <2>1, <2>3 DEF Tracked
  <2> QED
    BY <2>2, <2>3
<1>7. NothingLost'
  BY <1>0, <1>1, <1>2, <1>6 DEF NothingLost, Owed, Clean, Whole
<1> QED
  BY <1>2, <1>3, <1>4, <1>5, <1>7 DEF Safe

-----------------------------------------------------------------------------
(* The receiver.                                                           *)

(* Each piece of a message is a Piece.                                     *)
LEMMA WholeShape ==
  ASSUME NEW m \in Messages
  PROVE  /\ Range(Whole(m)) \subseteq Pieces
         /\ DOMAIN Whole(m) = 0 .. (Frags[m] - 1)
         /\ \A j \in DOMAIN Whole(m) : Whole(m)[j] = <<m, j>>
<1>1. /\ DOMAIN Whole(m) = 0 .. (Frags[m] - 1)
      /\ \A j \in DOMAIN Whole(m) : Whole(m)[j] = <<m, j>>
  BY DEF Whole
<1>2. \A j \in 0 .. (Frags[m] - 1) : <<m, j>> \in Pieces
  BY DEF Pieces
<1> QED
  BY <1>1, <1>2 DEF Range

(* What is said of the sender and the path does not notice a step of R     *)
(* that acknowledges nothing and, while all goes well, lets nothing fall.  *)
LEMMA ReceiverStepFrame ==
  ASSUME SenderInv, NetInv, AckInv, HeldInv, NothingLost, NoWrap, TypeOK,
         UNCHANGED <<senderVars, net>>,
         \A s : Received(s)' <=> Received(s),
         Clean' => Clean,
         Clean' => \A p \in Pieces : Held(p) => Held(p)'
  PROVE  /\ SenderInv' /\ NetInv' /\ AckInv' /\ HeldInv' /\ NothingLost'
<1>1. UNCHANGED <<seq, order_index, split_id, unacknowledged, written, built>>
  BY DEF senderVars
<1>2. SenderInv' /\ NetInv'
  BY <1>1 DEF SenderInv, NetInv, TrackedOnce, IsSplit
<1>3. AckInv'
  BY <1>1 DEF AckInv
<1>4. HeldInv'
  BY DatagramShape DEF HeldInv
<1>5. NothingLost'
  <2>1. \A p \in Pieces : Owed(p)' => Owed(p)
    BY <1>1 DEF Owed, Whole
  <2>2. Clean => \A p \in Pieces : Owed(p) => Tracked(p) \/ Held(p)
    BY DEF NothingLost, Clean
  <2>3. \A p \in Pieces : Tracked(p) => Tracked(p)'
    BY <1>1 DEF Tracked
  <2>4. Clean' => \A p \in Pieces : Owed(p)' => Tracked(p)' \/ Held(p)'
    BY <2>1, <2>2, <2>3
  <2> QED
    BY <2>4 DEF NothingLost, Clean
<1> QED
  BY <1>2, <1>3, <1>4, <1>5

(* Accepting a datagram: its packet is in hand before its number can be    *)
(* acknowledged.                                                           *)
LEMMA ReceiveDatagramSafe ==
  ASSUME TypeOK, NoWrap, Safe, NEW d \in net, ReceiveDatagram(d)
  PROVE  Safe'
<1>0. /\ SenderInv /\ NetInv /\ SplitsInv /\ QueueInv
      /\ TaskInv /\ OutputInv /\ AckInv /\ HeldInv /\ NothingLost
  BY DEF Safe
<1>1. /\ UNCHANGED <<seq, order_index, split_id, unacknowledged, written, built>>
      /\ UNCHANGED <<splits, pqLowest, pqHighest, pqQueue>>
      /\ UNCHANGED <<fetched, closing, delivered, net>>
      /\ ack_slice' = ack_slice \cup {d.seq} /\ inHand = {} /\ fetched = <<>>
  BY DEF ReceiveDatagram, Idle, senderVars, queueVars
<1>2. \/ receiving' # "ok" /\ inHand' = inHand
      \/ receiving' = receiving /\ inHand' = {d.pk}
  BY DEF ReceiveDatagram, Fail
<1>3. acks \subseteq acks' /\ \A a \in acks' \ acks : a.kind = "nack"
  BY DEF ReceiveDatagram
<1>4. \A s : Received(s)' <=> Received(s) \/ s = d.seq
  BY <1>1, <1>3 DEF Received
<1>5. SenderInv' /\ NetInv'
  BY <1>0, <1>1 DEF SenderInv, NetInv, TrackedOnce, IsSplit
<1>6. SplitsInv' /\ QueueInv'
  BY <1>0, <1>1 DEF SplitsInv, QueueInv, IsSplit, Whole
<1>7. TaskInv'
  BY <1>0, <1>1, <1>2 DEF TaskInv, Whole
<1>8. OutputInv'
  BY <1>0, <1>1, <1>2 DEF OutputInv, Whole, Clean
<1>9. AckInv'
  BY <1>0, <1>1, <1>4 DEF AckInv, NetInv
<1>10. Clean' => Clean /\ inHand' = {d.pk} /\ \A p : Held(p) => Held(p)'
  BY <1>1, <1>2 DEF Clean, Held, InQueue, InTask, InSplits, Done
<1>11. HeldInv'
  <2> SUFFICES ASSUME Clean', NEW e \in net, Received(e.seq)'
               PROVE  Held(e.pk.content)'
    BY <1>1 DEF HeldInv
  <2>1. CASE e.seq = d.seq
    <3>1. e.pk = d.pk
      BY <1>0, <2>1 DEF NetInv
    <3> QED
      BY <3>1, <1>10 DEF Held, InTask
  <2>2. CASE e.seq # d.seq
    BY <2>2, <1>0, <1>4, <1>10 DEF HeldInv
  <2> QED
    BY <2>1, <2>2
<1>12. NothingLost'
  BY <1>0, <1>1, <1>10 DEF NothingLost, Owed, Clean, Tracked, NoWrap, Whole
<1> QED
  BY <1>5, <1>6, <1>7, <1>8, <1>9, <1>11, <1>12 DEF Safe

(* put and fetch on the content of message m: the queue keeps each content *)
(* under its index, what is fetched is what follows the queue's old lower  *)
(* end, and unless an error is returned nothing that is there is dropped.  *)
LEMMA ReceivePacketStep ==
  ASSUME TypeOK, NoWrap, QueueInv, OutputInv, fetched = <<>>,
         NEW m \in Messages, m < written, ReceivePacket(m, Whole(m)),
         UNCHANGED <<written, delivered>>
  PROVE  /\ QueueInv' /\ pqLowest' - Len(fetched') = pqLowest
         /\ \A k \in DOMAIN fetched' : fetched'[k] = Whole(pqLowest + k - 1)
         /\ receiving' = "ok" => receiving = "ok"
         /\ Clean /\ receiving' = "ok" =>
               \A p : p \in Range(Whole(m)) \/ InQueue(p)
                        => \/ InQueue(p)' \/ Done(p)
                           \/ \E k \in DOMAIN fetched' : p \in Range(fetched'[k])
<1> DEFINE queue == WithPacket(m, Whole(m))
<1>0. pqLowest \in Nat /\ written \in Nat /\ m \in Nat
  BY DEF TypeOK, SeqNumbers, Messages
<1>1. CASE Occupied(m)
  <2>1. UNCHANGED <<pqLowest, pqQueue, fetched, receiving>>
    BY <1>1 DEF ReceivePacket
  <2>2. Clean => \A p \in Range(Whole(m)) : InQueue(p) \/ Done(p)
    <3>1. CASE m < pqLowest
      <4> SUFFICES ASSUME Clean PROVE \A p \in Range(Whole(m)) : Done(p)
        OBVIOUS
      <4>1. Len(delivered) = pqLowest /\ delivered \in Seq(Contents)
        BY <1>0 DEF OutputInv, TypeOK
      <4>2. m + 1 \in DOMAIN delivered /\ (m + 1) - 1 = m
        BY <1>0, <3>1, <4>1
      <4>3. delivered[m + 1] = Whole(m)
        BY <4>2 DEF OutputInv
      <4> QED
        BY <4>2, <4>3 DEF Done
    <3>2. CASE m \in DOMAIN pqQueue
      BY <3>2 DEF InQueue, QueueInv
    <3> QED
      BY <1>1, <3>1, <3>2 DEF Occupied, Seen
  <2>3. QueueInv'
    BY <2>1 DEF QueueInv, Whole
  <2>4. pqLowest' - Len(fetched') = pqLowest /\ DOMAIN fetched' = {}
    BY <2>1, <1>0
  <2> QED
    BY <2>1, <2>2, <2>3, <2>4 DEF InQueue
<1>2. CASE ~ Occupied(m)
  <2>1. /\ DOMAIN queue = DOMAIN pqQueue \cup {m}
        /\ \A i \in DOMAIN queue : i < written /\ queue[i] = Whole(i)
    BY DEF WithPacket, QueueInv
  <2>2. \A p : p \in Range(Whole(m)) \/ InQueue(p) =>
           \E i \in DOMAIN queue : p \in Range(queue[i])
    BY <2>1 DEF InQueue, QueueInv
  <2>3. CASE Listening /\ TooBig(pqLowest, pqHighest')
    <3>1. UNCHANGED <<pqLowest, fetched>> /\ pqQueue' = queue /\ receiving' # "ok"
      BY <1>2, <2>3 DEF ReceivePacket, Fail
    <3> HIDE DEF queue
    <3>2. QueueInv'
      BY <2>1, <3>1 DEF QueueInv, Whole
    <3>3. pqLowest' - Len(fetched') = pqLowest /\ DOMAIN fetched' = {}
      BY <3>1, <1>0
    <3> QED
      BY <3>1, <3>2, <3>3
  <2>4. CASE ~ (Listening /\ TooBig(pqLowest, pqHighest'))
    <3>1. PICK e \in RunEnds(pqLowest, pqHighest', DOMAIN queue) :
            /\ pqLowest' = e
            /\ pqQueue' = Restrict(queue, {i \in DOMAIN queue :
                                              ~ i \in pqLowest .. (e - 1)})
            /\ fetched' = [k \in 1 .. (e - pqLowest) |-> queue[pqLowest + k - 1]]
            /\ UNCHANGED receiving
      BY <1>2, <2>4 DEF ReceivePacket, FetchUpTo
    <3>2. pqLowest \in SeqNumbers /\ pqHighest' \in SeqNumbers /\ m \in SeqNumbers
      <4>1. m \in SeqNumbers
        BY <1>0 DEF NoWrap, SeqNumbers
      <4> QED
        BY <4>1, <1>2, HighestType DEF ReceivePacket, TypeOK
    <3>3. e \in Nat /\ pqLowest <= e /\ \A i \in pqLowest .. (e - 1) : i \in DOMAIN queue
      BY <3>2, RunEndsType DEF SeqNumbers
    <3> HIDE DEF queue
    <3> DEFINE len == e - pqLowest
    <3>4. /\ len \in Nat /\ e - len = pqLowest
          /\ \A k \in 1 .. len : pqLowest + k - 1 \in pqLowest .. (e - 1)
          /\ \A i \in pqLowest .. (e - 1) :
                i - pqLowest + 1 \in 1 .. len /\ pqLowest + (i - pqLowest + 1) - 1 = i
      BY <3>3, <1>0
    <3>5. fetched' = [k \in 1 .. len |-> queue[pqLowest + k - 1]]
      BY <3>1
    <3> HIDE DEF len
    <3>6. Len(fetched') = len /\ DOMAIN fetched' = 1 .. len
      BY <3>4, <3>5
    <3>7. \A k \in DOMAIN fetched' : fetched'[k] = Whole(pqLowest + k - 1)
      BY <2>1, <3>3, <3>4, <3>5, <3>6
    <3>8. e <= written
      <4>1. CASE e = pqLowest
        BY <4>1 DEF QueueInv
      <4>2. CASE e > pqLowest
        <5>1. e - 1 \in pqLowest .. (e - 1)
          BY <4>2, <3>3, <1>0
        <5>2. e - 1 < written
          BY <5>1, <3>3, <2>1
        <5> QED
          BY <5>2, <3>3, <1>0
      <4> QED
        BY <4>1, <4>2, <3>3, <1>0
    <3>9. /\ \A i \in DOMAIN queue : i \in DOMAIN pqQueue' \/ i \in pqLowest .. (e - 1)
          /\ DOMAIN pqQueue' \subseteq DOMAIN queue
          /\ \A i \in DOMAIN pqQueue' : pqQueue'[i] = queue[i]
      BY <3>1 DEF Restrict
    <3>10. QueueInv'
      <4>1. pqLowest' <= written'
        BY <3>1, <3>8
      <4>2. \A i \in DOMAIN pqQueue' : i < written' /\ pqQueue'[i] = Whole(i)
        BY <2>1, <3>9
      <4> QED
        BY <4>1, <4>2 DEF QueueInv, Whole
    <3>11. ASSUME NEW p, NEW i \in DOMAIN queue, p \in Range(queue[i])
           PROVE  InQueue(p)' \/ \E k \in DOMAIN fetched' : p \in Range(fetched'[k])
      <4>1. CASE i \in DOMAIN pqQueue'
        BY <4>1, <3>9, <3>11 DEF InQueue
      <4>2. CASE i \in pqLowest .. (e - 1)
        <5>1. i - pqLowest + 1 \in DOMAIN fetched'
              /\ fetched'[i - pqLowest + 1] = queue[i]
          BY <4>2, <3>4, <3>5, <3>6
        <5> QED
          BY <5>1, <3>11
      <4> QED
        BY <4>1, <4>2, <3>9
    <3>12. pqLowest' - Len(fetched') = pqLowest
      BY <3>1, <3>4, <3>6
    <3> QED
      BY <2>2, <3>1, <3>7, <3>10, <3>11, <3>12
  <2> QED
    BY <2>3, <2>4
<1> QED
  BY <1>1, <1>2

(* The conclusion for the task when the queue has been given a content:    *)
(* nothing is in hand, and what is fetched and what was handed over meet.  *)
LEMMA FetchedStep ==
  ASSUME TypeOK, OutputInv, TaskInv, fetched = <<>>, inHand' = {},
         UNCHANGED <<delivered, closing>>, fetched' \in Seq(Contents),
         NEW low \in Nat, pqLowest' = low, NEW len \in Nat, Len(fetched') = len,
         low - len = pqLowest,
         \A k \in DOMAIN fetched' : fetched'[k] = Whole(pqLowest + k - 1),
         receiving' = "ok" => receiving = "ok"
  PROVE  TaskInv' /\ OutputInv' /\ (Clean' => Clean)
<1>1. pqLowest \in Nat /\ len <= low
  BY DEF TypeOK, SeqNumbers
<1>2. \A k \in 1 .. len : fetched'[k] = Whole(low - len + k - 1)
  BY <1>1
<1>3. DOMAIN fetched' = 1 .. len
  OBVIOUS
<1>4. TaskInv'
  BY <1>1, <1>2, <1>3 DEF TaskInv, Whole
<1>5. Clean' => Clean
  BY DEF Clean
<1>6. pqLowest - Len(fetched) = low - len
  BY <1>1
<1>7. OutputInv'
  BY SMTT(30), <1>5, <1>6 DEF OutputInv, Whole
<1> QED
  BY <1>4, <1>5, <1>7

(* Handling the datagram in hand: its fragment goes to its place, and what *)
(* is put together from fragments is the message that was cut up.          *)
LEMMA HandleDatagramSafe ==
  ASSUME TypeOK, NoWrap, Safe, NEW pk \in inHand, HandleDatagram(pk), TypeOK'
  PROVE  Safe'
<1>0. /\ SenderInv /\ NetInv /\ SplitsInv /\ QueueInv
      /\ TaskInv /\ OutputInv /\ AckInv /\ HeldInv /\ NothingLost
  BY DEF Safe
<1> DEFINE m == pk.content[1]
           j == pk.content[2]
           slots == Fragments(pk)
           stored == [slots EXCEPT ![pk.split_index] = pk.content]
           complete == \A i \in DOMAIN stored : stored[i] # NoPiece
           Same == UNCHANGED <<pqLowest, pqHighest, pqQueue, fetched>>
<1>1. PICK d \in net : d.pk = pk
  BY <1>0 DEF TaskInv
<1>2. /\ inHand = {pk} /\ fetched = <<>> /\ inHand' = {}
      /\ UNCHANGED <<senderVars, closing, delivered, net>>
      /\ UNCHANGED <<written, ack_slice, acks>>
  BY <1>0 DEF TaskInv, HandleDatagram, senderVars, windowVars
<1>3. /\ pk.content \in Pieces /\ pk.content = <<m, j>> /\ m \in Messages /\ m \in Nat
      /\ j \in 0 .. (Frags[m] - 1) /\ Frags[m] \in Nat \ {0}
  BY <1>1, DatagramShape, PieceShape
<1>4. /\ m < written /\ pk.order_index = m /\ pk.split_count = Frags[m]
      /\ pk.split_index = j
  BY <1>0, <1>1 DEF NetInv
<1>5. DOMAIN Whole(m) = 0 .. (Frags[m] - 1) /\ \A i \in DOMAIN Whole(m) : Whole(m)[i] = <<m, i>>
  BY <1>3, WholeShape
<1>6. ~ IsSplit(pk) => [i \in {0} |-> pk.content] = Whole(m)
  <2> SUFFICES ASSUME ~ IsSplit(pk) PROVE [i \in {0} |-> pk.content] = Whole(m)
    OBVIOUS
  <2>1. Frags[m] = 1 /\ j = 0
    BY <1>3, <1>4 DEF IsSplit
  <2>2. 0 .. (Frags[m] - 1) = {0}
    BY <2>1
  <2> QED
    BY <2>1, <2>2, <1>3 DEF Whole
<1>7. IsSplit(pk) => /\ DOMAIN slots = DOMAIN Whole(m)
                     /\ \A i \in DOMAIN slots : slots[i] \in {NoPiece, <<m, i>>}
  <2> SUFFICES ASSUME IsSplit(pk)
               PROVE  /\ DOMAIN slots = DOMAIN Whole(m)
                      /\ \A i \in DOMAIN slots : slots[i] \in {NoPiece, <<m, i>>}
    OBVIOUS
  <2>1. CASE pk.split_id \in DOMAIN splits
    <3>1. slots = splits[pk.split_id]
      BY <2>1 DEF Fragments
    <3>2. PICK e \in net :
            /\ IsSplit(e.pk) /\ e.pk.split_id = pk.split_id
            /\ DOMAIN splits[pk.split_id] = DOMAIN Whole(e.pk.content[1])
            /\ \A i \in DOMAIN splits[pk.split_id] :
                  splits[pk.split_id][i] \in {NoPiece, <<e.pk.content[1], i>>}
      BY <1>0, <2>1 DEF SplitsInv
    <3>3. e.pk.content[1] = m
      BY <1>0, <1>1, <3>2 DEF NetInv
    <3> QED
      BY <3>1, <3>2, <3>3
  <2>2. CASE pk.split_id \notin DOMAIN splits
    BY <2>2, <1>4, <1>5 DEF Fragments
  <2> QED
    BY <2>1, <2>2
<1>8. IsSplit(pk) => /\ j \in DOMAIN slots /\ DOMAIN stored = DOMAIN Whole(m)
                     /\ stored[j] = pk.content
                     /\ \A i \in DOMAIN stored : stored[i] \in {NoPiece, <<m, i>>}
                     /\ \A i \in DOMAIN slots : stored[i] = slots[i] \/ slots[i] \in {NoPiece, pk.content}
  BY <1>3, <1>4, <1>5, <1>7
<1>9. IsSplit(pk) /\ complete => stored = Whole(m)
  <2> SUFFICES ASSUME IsSplit(pk), complete PROVE stored = Whole(m)
    OBVIOUS
  <2>1. \A i \in DOMAIN stored : stored[i] = Whole(m)[i]
    BY <1>5, <1>8
  <2>2. stored = [i \in DOMAIN stored |-> stored[i]]
    OBVIOUS
  <2> HIDE DEF stored
  <2> QED
    BY <1>8, <2>1, <2>2 DEF Whole
<1>10. fetched' \in Seq(Contents) /\ pqLowest' \in Nat
  BY DEF TypeOK, SeqNumbers
<1> DEFINE Kept == \A p \in Pieces : Held(p) => Held(p)'
<1> HIDE DEF m, j, slots, stored, complete
<1>11. ASSUME Same, receiving' = "ok" => receiving = "ok"
       PROVE  QueueInv' /\ TaskInv' /\ OutputInv' /\ (Clean' => Clean)
  <2>1. QueueInv'
    BY <1>0, <1>2, <1>11 DEF QueueInv, Whole
  <2>4. fetched' = <<>>
    BY <1>2, <1>11
  <2>5. pqLowest \in Nat
    BY DEF TypeOK, SeqNumbers
  <2>2. Len(fetched') = 0 /\ pqLowest \in Nat /\ pqLowest - 0 = pqLowest
        /\ DOMAIN fetched' = {}
    BY <2>4, <2>5
  <2>3. pqLowest' = pqLowest /\ 0 \in Nat
    BY <1>11
  <2> QED
    BY <2>1, <2>2, <2>3, <1>0, <1>2, <1>10, <1>11, FetchedStep
<1>12. ASSUME ReceivePacket(m, Whole(m))
       PROVE  /\ QueueInv' /\ TaskInv' /\ OutputInv' /\ (Clean' => Clean)
              /\ Clean' => \A p : p \in Range(Whole(m)) \/ InQueue(p)
                                   => InQueue(p)' \/ InTask(p)' \/ Done(p)
  <2>1. /\ QueueInv' /\ pqLowest' - Len(fetched') = pqLowest
        /\ \A k \in DOMAIN fetched' : fetched'[k] = Whole(pqLowest + k - 1)
        /\ receiving' = "ok" => receiving = "ok"
        /\ Clean /\ receiving' = "ok" =>
              \A p : p \in Range(Whole(m)) \/ InQueue(p)
                       => \/ InQueue(p)' \/ Done(p)
                          \/ \E k \in DOMAIN fetched' : p \in Range(fetched'[k])
    BY <1>0, <1>2, <1>3, <1>4, <1>12, ReceivePacketStep
  <2>2. PICK low \in Nat : pqLowest' = low
    BY <1>10
  <2>3. PICK len \in Nat : Len(fetched') = len
    BY <1>10
  <2>4. low - len = pqLowest
    BY <2>1, <2>2, <2>3
  <2>5. TaskInv' /\ OutputInv' /\ (Clean' => Clean)
    BY <2>1, <2>2, <2>3, <2>4, <1>0, <1>2, <1>10, FetchedStep
  <2> QED
    BY <2>1, <2>5 DEF Clean, InTask
<1>13. \A p : Done(p) => Done(p)'
  BY <1>2 DEF Done
<1>14. /\ SplitsInv' /\ QueueInv' /\ TaskInv' /\ OutputInv' /\ (Clean' => Clean)
       /\ Clean' => Kept
  <2>1. CASE /\ ~ IsSplit(pk) /\ ReceivePacket(m, Whole(m)) /\ UNCHANGED splits
    <3>1. SplitsInv'
      BY <2>1, <1>0, <1>2 DEF SplitsInv, Whole, IsSplit
    <3>2. pk.content \in Range(Whole(m))
      BY <1>3, <1>5 DEF Range
    <3>3. \A p : InTask(p) => p \in Range(Whole(m))
      BY <1>2, <3>2 DEF InTask
    <3>4. \A p : InSplits(p) => InSplits(p)'
      BY <2>1 DEF InSplits
    <3> QED
      BY <2>1, <3>1, <3>3, <3>4, <1>12, <1>13 DEF Held
  <2>2. CASE Fail /\ UNCHANGED splits /\ Same
    <3>1. SplitsInv'
      BY <2>2, <1>0, <1>2 DEF SplitsInv, Whole, IsSplit
    <3>2. receiving' # "ok" /\ ~ Clean'
      BY <2>2 DEF Fail, Clean
    <3> QED
      BY <2>2, <3>1, <3>2, <1>11
  <2>3. CASE IsSplit(pk) /\ splits' = WithEntry(pk.split_id, stored) /\ Same /\ UNCHANGED receiving
    <3>1. /\ DOMAIN splits' = DOMAIN splits \cup {pk.split_id}
          /\ splits'[pk.split_id] = stored
          /\ \A id \in DOMAIN splits \ {pk.split_id} : splits'[id] = splits[id]
      BY <2>3 DEF WithEntry
    <3>2. SplitsInv'
      <4>1. ASSUME NEW id \in DOMAIN splits'
            PROVE  \E e \in net :
                     /\ IsSplit(e.pk) /\ e.pk.split_id = id
                     /\ DOMAIN splits'[id] = DOMAIN Whole(e.pk.content[1])
                     /\ \A i \in DOMAIN splits'[id] :
                           splits'[id][i] \in {NoPiece, <<e.pk.content[1], i>>}
        <5>1. CASE id = pk.split_id
          BY <5>1, <2>3, <3>1, <1>1, <1>8 DEF m
        <5>2. CASE id # pk.split_id
          BY <5>2, <3>1, <1>0 DEF SplitsInv
        <5> QED
          BY <5>1, <5>2
      <4> QED
        BY <4>1, <1>2 DEF SplitsInv, Whole, IsSplit
    <3>3. pk.content \in Range(stored)
      <4>1. j \in DOMAIN stored /\ stored[j] = pk.content
        BY <2>3, <1>7, <1>8
      <4> QED
        BY <4>1 DEF Range
    <3>4. ASSUME NEW p \in Pieces, InSplits(p) PROVE InSplits(p)'
      <4>1. PICK id \in DOMAIN splits : p \in Range(splits[id])
        BY <3>4 DEF InSplits
      <4>2. CASE id # pk.split_id
        BY <4>1, <4>2, <3>1 DEF InSplits
      <4>3. CASE id = pk.split_id
        <5>1. PICK i \in DOMAIN slots : p = slots[i]
          BY <4>1, <4>3 DEF Range, slots, Fragments
        <5>2. p # NoPiece
          BY PieceShape
        <5>3. p = stored[i] \/ p = pk.content
          BY <2>3, <5>1, <5>2, <1>8
        <5>4. p \in Range(stored)
          BY <5>3, <5>1, <2>3, <3>3, <1>7, <1>8 DEF Range
        <5> QED
          BY <5>4, <3>1 DEF InSplits
      <4> QED
        BY <4>2, <4>3
    <3>5. \A p : InTask(p) => InSplits(p)'
      BY <1>2, <3>1, <3>3 DEF InTask, InSplits
    <3>6. \A p : InQueue(p) => InQueue(p)'
      BY <2>3 DEF InQueue
    <3> QED
      BY <2>3, <3>2, <3>4, <3>5, <3>6, <1>11, <1>13 DEF Held
  <2>4. CASE /\ IsSplit(pk) /\ complete /\ ReceivePacket(m, Whole(m))
             /\ splits' = Restrict(splits, DOMAIN splits \ {pk.split_id})
    <3>1. /\ DOMAIN splits' = DOMAIN splits \ {pk.split_id}
          /\ \A id \in DOMAIN splits \ {pk.split_id} : splits'[id] = splits[id]
      BY <2>4 DEF Restrict
    <3>2. SplitsInv'
      <4>1. \A id \in DOMAIN splits' : \E e \in net :
               /\ IsSplit(e.pk) /\ e.pk.split_id = id
               /\ DOMAIN splits'[id] = DOMAIN Whole(e.pk.content[1])
               /\ \A i \in DOMAIN splits'[id] :
                     splits'[id][i] \in {NoPiece, <<e.pk.content[1], i>>}
        BY <3>1, <1>0 DEF SplitsInv
      <4> QED
        BY <4>1, <1>2 DEF SplitsInv, Whole, IsSplit
    <3>3. pk.content \in Range(Whole(m))
      BY <1>3, <1>5 DEF Range
    <3>4. ASSUME NEW p \in Pieces, InSplits(p)
          PROVE  InSplits(p)' \/ p \in Range(Whole(m))
      <4>1. PICK id \in DOMAIN splits : p \in Range(splits[id])
        BY <3>4 DEF InSplits
      <4>2. CASE id # pk.split_id
        BY <4>1, <4>2, <3>1 DEF InSplits
      <4>3. CASE id = pk.split_id
        <5>1. PICK i \in DOMAIN slots : p = slots[i]
          BY <4>1, <4>3 DEF Range, slots, Fragments
        <5>2. p # NoPiece
          BY PieceShape
        <5>3. i \in DOMAIN Whole(m) /\ p = Whole(m)[i]
          BY <2>4, <5>1, <5>2, <1>5, <1>7
        <5> QED
          BY <5>3 DEF Range
      <4> QED
        BY <4>2, <4>3
    <3>5. \A p : InTask(p) => p \in Range(Whole(m))
      BY <1>2, <3>3 DEF InTask
    <3> QED
      BY <2>4, <3>2, <3>4, <3>5, <1>12, <1>13 DEF Held
  <2>5. \/ ~ IsSplit(pk) /\ ReceivePacket(m, Whole(m)) /\ UNCHANGED splits
        \/ Fail /\ UNCHANGED splits /\ Same
        \/ IsSplit(pk) /\ splits' = WithEntry(pk.split_id, stored) /\ Same /\ UNCHANGED receiving
        \/ /\ IsSplit(pk) /\ complete /\ ReceivePacket(m, Whole(m))
           /\ splits' = Restrict(splits, DOMAIN splits \ {pk.split_id})
    BY <1>4, <1>6, <1>8, <1>9 DEF HandleDatagram, slots, stored, complete, queueVars
  <2> QED
    BY <2>1, <2>2, <2>3, <2>4, <2>5
<1>15. \A s : Received(s)' <=> Received(s)
  BY <1>2 DEF Received
<1>16. SenderInv' /\ NetInv' /\ AckInv' /\ HeldInv' /\ NothingLost'
  BY <1>0, <1>2, <1>14, <1>15, ReceiverStepFrame
<1> QED
  BY <1>14, <1>16 DEF Safe

(* Handing over the next content, or dropping it.                          *)
LEMMA HandlePacketSafe ==
  ASSUME TypeOK, NoWrap, Safe, HandlePacket
  PROVE  Safe'
<1>0. /\ SenderInv /\ NetInv /\ SplitsInv /\ QueueInv
      /\ TaskInv /\ OutputInv /\ AckInv /\ HeldInv /\ NothingLost
  BY DEF Safe
<1>1. /\ UNCHANGED <<senderVars, net, closing, inHand, ack_slice, acks>>
      /\ UNCHANGED <<splits, pqLowest, pqHighest, pqQueue, written>>
      /\ fetched # <<>> /\ fetched \in Seq(Contents) /\ delivered \in Seq(Contents)
      /\ pqLowest \in Nat
  BY DEF HandlePacket, TypeOK, senderVars, windowVars, queueVars, SeqNumbers
<1>2. PICK len \in Nat : Len(fetched) = len /\ len > 0 /\ len <= pqLowest
  <2>1. Len(fetched) \in Nat /\ Len(fetched) > 0
    BY <1>1
  <2> QED
    BY <2>1, <1>0 DEF TaskInv
<1>3. /\ Tail(fetched) \in Seq(Contents) /\ Len(Tail(fetched)) = len - 1
      /\ \A k \in 1 .. (len - 1) : Tail(fetched)[k] = fetched[k + 1]
      /\ Head(fetched) = fetched[1] /\ Head(fetched) \in Contents
      /\ DOMAIN fetched = 1 .. len /\ DOMAIN Tail(fetched) = 1 .. (len - 1)
  BY <1>1, <1>2
<1> DEFINE x == pqLowest - len
           content == Head(fetched)
<1>4. x \in Nat /\ content = Whole(x) /\ content[0] = <<x, 0>>
  <2>1. x \in Nat /\ x + 1 - 1 = x
    BY <1>1, <1>2
  <2>2. content = Whole(x)
    BY <1>0, <1>2, <1>3, <2>1 DEF TaskInv
  <2>3. 0 \in DOMAIN content
    <3>1. PICK n \in Counts : content \in [0 .. (n - 1) -> Pieces]
      BY <1>3 DEF Contents
    <3>2. n \in Nat \ {0}
      BY DEF Counts, Range
    <3> QED
      BY <3>1, <3>2
  <2> QED
    BY <2>1, <2>2, <2>3 DEF Whole
<1> HIDE DEF x, content
<1>5. x = pqLowest - len /\ content = Head(fetched)
  BY DEF x, content
<1>6. inHand = {}
  BY <1>0, <1>1 DEF TaskInv
<1>7. /\ \A k \in DOMAIN delivered : /\ delivered[k][0][1] \in 0 .. (x - 1)
                                     /\ delivered[k] = Whole(delivered[k][0][1])
      /\ \A k, l \in DOMAIN delivered : k < l => delivered[k][0][1] < delivered[l][0][1]
      /\ Clean => /\ Len(delivered) = x
                  /\ \A k \in DOMAIN delivered : delivered[k] = Whole(k - 1)
  BY <1>0, <1>2, <1>5 DEF OutputInv
<1>8. SplitsInv' /\ QueueInv'
  BY <1>0, <1>1 DEF SplitsInv, QueueInv, Whole, IsSplit
<1>9. ASSUME fetched' = Tail(fetched)
      PROVE  TaskInv' /\ pqLowest' - Len(fetched') = x + 1
  <2>1. \A k \in 1 .. (len - 1) : Tail(fetched)[k] = Whole(pqLowest - (len - 1) + k - 1)
    <3> TAKE k \in 1 .. (len - 1)
    <3>1. k + 1 \in 1 .. len /\ pqLowest - len + (k + 1) - 1 = pqLowest - (len - 1) + k - 1
      BY <1>1, <1>2
    <3>2. k + 1 \in DOMAIN fetched
      BY <3>1, <1>3
    <3>3. Tail(fetched)[k] = fetched[k + 1]
      BY <1>3
    <3>4. fetched[k + 1] = Whole(pqLowest - len + (k + 1) - 1)
      BY <3>2, <1>0, <1>2 DEF TaskInv
    <3>5. Whole(pqLowest - len + (k + 1) - 1) = Whole(pqLowest - (len - 1) + k - 1)
      BY <3>1
    <3> QED
      BY <3>3, <3>4, <3>5
  <2>2. TaskInv'
    <3>1. Len(fetched') = len - 1 /\ DOMAIN fetched' = 1 .. (len - 1) /\ len - 1 <= pqLowest
      BY <1>1, <1>2, <1>3, <1>9
    <3>2. inHand' = {} /\ pqLowest' = pqLowest
      BY <1>1, <1>6
    <3>3. \A k \in DOMAIN fetched' : fetched'[k] = Whole(pqLowest - Len(fetched') + k - 1)
      BY <1>9, <2>1, <3>1
    <3>4. \A i : Whole(i)' = Whole(i)
      BY DEF Whole
    <3> QED
      BY <1>9, <3>1, <3>2, <3>3, <3>4 DEF TaskInv
  <2>3. pqLowest - (len - 1) = x + 1
    BY <1>1, <1>2, <1>5
  <2> QED
    BY <2>2, <2>3, <1>1, <1>3, <1>9
<1>10. \A k \in DOMAIN delivered : delivered[k][0][1] \in 0 .. ((x + 1) - 1)
  BY <1>4, <1>7
<1>11. ASSUME closing
       PROVE  /\ TaskInv' /\ OutputInv'
              /\ Clean' => Clean /\ \A p \in Pieces : Held(p) => Held(p)'
  <2>1. UNCHANGED delivered /\ ~ Clean' /\ fetched' = Tail(fetched)
    BY <1>1, <1>11 DEF HandlePacket, Clean
  <2>2. OutputInv'
    BY <1>7, <1>9, <1>10, <2>1 DEF OutputInv, Whole
  <2> QED
    BY <2>1, <2>2, <1>9
<1>12. ASSUME ~ closing, fetched' = <<>>, UNCHANGED delivered, Fail
       PROVE  /\ TaskInv' /\ OutputInv'
              /\ Clean' => Clean /\ \A p \in Pieces : Held(p) => Held(p)'
  <2>1. UNCHANGED delivered /\ ~ Clean' /\ fetched' = <<>>
    BY <1>12 DEF Clean, Fail
  <2>2. Len(fetched') = 0 /\ DOMAIN fetched' = {} /\ pqLowest - 0 = pqLowest
    BY <1>1, <2>1
  <2>3. TaskInv'
    BY <1>1, <1>6, <2>1, <2>2 DEF TaskInv
  <2>4. \A k \in DOMAIN delivered : delivered[k][0][1] \in 0 .. (pqLowest - 1)
    BY <1>1, <1>2, <1>5, <1>7
  <2>5. OutputInv'
    BY <1>1, <1>7, <2>1, <2>2, <2>4 DEF OutputInv, Whole
  <2> QED
    BY <2>1, <2>3, <2>5
<1>13. ASSUME ~ closing, fetched' = Tail(fetched),
              delivered' = Append(delivered, content), UNCHANGED receiving
       PROVE  /\ TaskInv' /\ OutputInv'
              /\ Clean' => Clean /\ \A p \in Pieces : Held(p) => Held(p)'
  <2>1. /\ fetched' = Tail(fetched) /\ delivered' = Append(delivered, content)
        /\ UNCHANGED receiving /\ (Clean' <=> Clean)
    BY <1>1, <1>5, <1>13 DEF HandlePacket, Clean
  <2>2. PICK n \in Nat : Len(delivered) = n
    BY <1>1
  <2>3. /\ DOMAIN delivered = 1 .. n /\ DOMAIN delivered' = 1 .. (n + 1)
        /\ Len(delivered') = n + 1 /\ delivered'[n + 1] = content
        /\ \A k \in 1 .. n : delivered'[k] = delivered[k]
    BY <1>1, <1>3, <1>5, <2>1, <2>2
  <2>4. \A k \in 1 .. (n + 1) : k \in 1 .. n \/ k = n + 1
    OBVIOUS
  <2>5. ASSUME NEW k \in DOMAIN delivered'
        PROVE  /\ delivered'[k][0][1] \in 0 .. ((x + 1) - 1)
               /\ delivered'[k] = Whole(delivered'[k][0][1])
    <3>1. CASE k \in 1 .. n
      BY <3>1, <2>3, <1>7, <1>10
    <3>2. CASE k = n + 1
      <4>1. delivered'[k] = Whole(x) /\ delivered'[k][0][1] = x
        BY <3>2, <2>3, <1>4
      <4>2. x \in 0 .. ((x + 1) - 1)
        BY <1>4
      <4> QED
        BY <4>1, <4>2
    <3> QED
      BY <3>1, <3>2, <2>3, <2>4
  <2>6. ASSUME NEW k \in DOMAIN delivered', NEW l \in DOMAIN delivered', k < l
        PROVE  delivered'[k][0][1] < delivered'[l][0][1]
    <3>1. k \in 1 .. n
      BY <2>3, <2>6
    <3>2. CASE l \in 1 .. n
      BY <3>1, <3>2, <2>3, <2>6, <1>7
    <3>3. CASE l = n + 1
      <4>1. delivered[k][0][1] \in 0 .. (x - 1)
        BY <3>1, <2>3, <1>7
      <4>2. \A y \in 0 .. (x - 1) : y < x
        BY <1>4
      <4>3. delivered'[l][0][1] = x /\ delivered'[k] = delivered[k]
        BY <3>1, <3>3, <2>3, <1>4
      <4> QED
        BY <4>1, <4>2, <4>3
    <3> QED
      BY <3>2, <3>3, <2>3, <2>4
  <2>7. Clean => /\ Len(delivered') = x + 1
                 /\ \A k \in DOMAIN delivered' : delivered'[k] = Whole(k - 1)
    <3> SUFFICES ASSUME Clean
                 PROVE  /\ Len(delivered') = x + 1
                        /\ \A k \in DOMAIN delivered' : delivered'[k] = Whole(k - 1)
      OBVIOUS
    <3>1. n = x /\ (n + 1) - 1 = x
      BY <1>7, <2>2
    <3> QED
      BY <3>1, <1>4, <1>7, <2>3, <2>4
  <2>8. OutputInv'
    BY <1>9, <2>1, <2>5, <2>6, <2>7 DEF OutputInv, Whole
  <2>9. ASSUME NEW p, Held(p) PROVE Held(p)'
    <3>1. /\ InQueue(p) => InQueue(p)'
          /\ InSplits(p) => InSplits(p)'
      BY <1>1 DEF InQueue, InSplits
    <3>2. Done(p) => Done(p)'
      BY <2>3, <2>4 DEF Done
    <3>3. InTask(p) => Done(p)' \/ InTask(p)'
      <4> SUFFICES ASSUME NEW k \in DOMAIN fetched, p \in Range(fetched[k])
                   PROVE  Done(p)' \/ InTask(p)'
        BY <1>6 DEF InTask
      <4>1. CASE k = 1
        <5>1. n + 1 \in DOMAIN delivered' /\ delivered'[n + 1] = fetched[k]
          BY <4>1, <2>3, <1>3, <1>5
        <5> QED
          BY <5>1 DEF Done
      <4>2. CASE k # 1
        <5>1. k - 1 \in 1 .. (len - 1) /\ (k - 1) + 1 = k
          BY <4>2, <1>2, <1>3
        <5>2. k - 1 \in DOMAIN fetched' /\ fetched'[k - 1] = fetched[k]
          BY <5>1, <1>3, <2>1
        <5> QED
          BY <5>2 DEF InTask
      <4> QED
        BY <4>1, <4>2
    <3> QED
      BY <2>9, <3>1, <3>2, <3>3 DEF Held
  <2> QED
    BY <2>1, <2>8, <2>9, <1>9
<1>14. TaskInv' /\ OutputInv' /\ (Clean' => Clean /\ \A p \in Pieces : Held(p) => Held(p)')
  <2>1. \/ closing
        \/ ~ closing /\ Fail /\ fetched' = <<>> /\ UNCHANGED delivered
        \/ /\ ~ closing /\ delivered' = Append(delivered, content)
           /\ fetched' = Tail(fetched) /\ UNCHANGED receiving
    BY <1>5 DEF HandlePacket
  <2> QED
    BY <2>1, <1>11, <1>12, <1>13
<1>15. \A s : Received(s)' <=> Received(s)
  BY <1>1 DEF Received
<1>16. SenderInv' /\ NetInv' /\ AckInv' /\ HeldInv' /\ NothingLost'
  BY <1>0, <1>1, <1>14, <1>15, ReceiverStepFrame
<1> QED
  BY <1>8, <1>14, <1>16 DEF Safe

(* Acknowledging what was accepted, closing, and losing a packet.          *)
LEMMA FlushAcksSafe ==
  ASSUME TypeOK, NoWrap, Safe, FlushAcks
  PROVE  Safe'
<1>0. /\ SenderInv /\ NetInv /\ SplitsInv /\ QueueInv
      /\ TaskInv /\ OutputInv /\ AckInv /\ HeldInv /\ NothingLost
  BY DEF Safe
<1>1. /\ UNCHANGED <<senderVars, net, splits, pqLowest, pqHighest, pqQueue, written>>
      /\ UNCHANGED <<inHand, fetched, receiving, closing, delivered>>
      /\ acks' = acks \cup {[kind |-> "ack", seqs |-> ack_slice]} /\ ack_slice' = {}
  BY DEF FlushAcks, queueVars, taskVars, senderVars
<1>2. \A s : Received(s)' <=> Received(s)
  <2> TAKE s
  <2>1. Received(s)' <=> \E a \in acks' : a.kind = "ack" /\ s \in a.seqs
    BY <1>1 DEF Received
  <2>2. PICK f : f = [kind |-> "ack", seqs |-> ack_slice]
    OBVIOUS
  <2>3. acks' = acks \cup {f} /\ f.kind = "ack" /\ f.seqs = ack_slice
    BY <1>1, <2>2
  <2> QED
    BY <2>1, <2>3 DEF Received
<1>3. \A p : Held(p)' <=> Held(p)
  BY <1>1 DEF Held, InQueue, InTask, InSplits, Done
<1>4. SplitsInv' /\ QueueInv' /\ TaskInv' /\ OutputInv'
  BY <1>0, <1>1 DEF SplitsInv, QueueInv, TaskInv, OutputInv, Whole, IsSplit, Clean
<1>5. SenderInv' /\ NetInv' /\ AckInv' /\ HeldInv' /\ NothingLost'
  BY <1>0, <1>1, <1>2, <1>3, ReceiverStepFrame DEF Clean
<1> QED
  BY <1>4, <1>5 DEF Safe

LEMMA CloseSafe ==
  ASSUME TypeOK, NoWrap, Safe, Close
  PROVE  Safe'
<1>0. /\ SenderInv /\ NetInv /\ SplitsInv /\ QueueInv
      /\ TaskInv /\ OutputInv /\ AckInv /\ HeldInv /\ NothingLost
  BY DEF Safe
<1>1. /\ UNCHANGED <<senderVars, net, splits, pqLowest, pqHighest, pqQueue, written>>
      /\ UNCHANGED <<inHand, fetched, delivered, ack_slice, acks>>
      /\ ~ Clean'
  BY DEF Close, Clean, queueVars, windowVars, senderVars
<1>2. \A s : Received(s)' <=> Received(s)
  BY <1>1 DEF Received
<1>3. SplitsInv' /\ QueueInv' /\ TaskInv' /\ OutputInv'
  BY <1>0, <1>1 DEF SplitsInv, QueueInv, TaskInv, OutputInv, Whole, IsSplit
<1>4. SenderInv' /\ NetInv' /\ AckInv' /\ HeldInv' /\ NothingLost'
  BY <1>0, <1>1, <1>2, ReceiverStepFrame
<1> QED
  BY <1>3, <1>4 DEF Safe

(* Nothing above refers to what the path has lost.                         *)
LEMMA LoseSafe ==
  ASSUME TypeOK, NoWrap, Safe,
         UNCHANGED <<senderVars, windowVars, queueVars, taskVars, net, acks>>
  PROVE  Safe'
<1>0. /\ SenderInv /\ NetInv /\ SplitsInv /\ QueueInv
      /\ TaskInv /\ OutputInv /\ AckInv /\ HeldInv /\ NothingLost
  BY DEF Safe
<1>1. /\ UNCHANGED <<senderVars, net, splits, pqLowest, pqHighest, pqQueue, written>>
      /\ UNCHANGED <<inHand, fetched, receiving, closing, delivered, ack_slice, acks>>
  BY DEF windowVars, queueVars, taskVars, senderVars
<1>2. /\ \A s : Received(s)' <=> Received(s)
      /\ \A p : Held(p)' <=> Held(p)
  BY <1>1 DEF Received, Held, InQueue, InTask, InSplits, Done
<1>3. SplitsInv' /\ QueueInv' /\ TaskInv' /\ OutputInv'
  BY <1>0, <1>1 DEF SplitsInv, QueueInv, TaskInv, OutputInv, Whole, IsSplit, Clean
<1>4. SenderInv' /\ NetInv' /\ AckInv' /\ HeldInv' /\ NothingLost'
  BY <1>0, <1>1, <1>2, ReceiverStepFrame DEF Clean
<1> QED
  BY <1>3, <1>4 DEF Safe

-----------------------------------------------------------------------------
(* The invariant and what it implies.                                      *)

(* Nothing has happened yet.                                               *)
LEMMA SafeInit == Init => Safe
<1> SUFFICES ASSUME Init PROVE Safe
  OBVIOUS
<1>1. /\ seq = 0 /\ order_index = 0 /\ split_id = 0 /\ written = 0 /\ built = 0
      /\ DOMAIN unacknowledged = {} /\ net = {} /\ acks = {} /\ ack_slice = {}
      /\ DOMAIN splits = {} /\ pqLowest = 0 /\ DOMAIN pqQueue = {} /\ inHand = {}
      /\ fetched = <<>> /\ delivered = <<>> /\ DOMAIN fetched = {} /\ DOMAIN delivered = {}
      /\ Len(fetched) = 0 /\ Len(delivered) = 0
  BY DEF Init
<1>2. SenderInv /\ NetInv /\ SplitsInv /\ QueueInv
  BY <1>1 DEF SenderInv, NetInv, SplitsInv, QueueInv, TrackedOnce
<1>3. TaskInv /\ OutputInv
  <2>1. /\ DOMAIN fetched = {} /\ DOMAIN delivered = {} /\ inHand = {}
        /\ Len(fetched) = 0 /\ Len(delivered) = 0 /\ pqLowest = 0 /\ 0 - 0 = 0
    BY <1>1
  <2>2. TaskInv
    BY <2>1 DEF TaskInv
  <2>3. OutputInv
    BY <2>1 DEF OutputInv
  <2> QED
    BY <2>2, <2>3
<1>4. AckInv /\ HeldInv
  BY <1>1 DEF AckInv, HeldInv, Received
<1>5. NothingLost
  BY <1>1 DEF NothingLost, Owed, Messages
<1> QED
  BY <1>2, <1>3, <1>4, <1>5 DEF Safe

(* Counters of the history only grow: what has not wrapped had not.        *)
LEMMA TransmitGrows ==
  ASSUME TypeOK, NEW kept, NEW pks, NEW n \in Nat, Transmit(kept, pks, n),
         built' < SeqEnd
  PROVE  built < SeqEnd
<1>1. PICK b \in Nat : built' = b /\ b = IF built + n < SeqEnd THEN built + n ELSE SeqEnd
  BY DEF Transmit, TypeOK
<1>2. b < SeqEnd
  BY <1>1
<1> QED
  BY <1>1, <1>2 DEF TypeOK

(* The set of numbers a loop visits is finite, so it has a size.           *)
LEMMA TrackedFinite ==
  ASSUME TypeOK, NEW old \in SUBSET DOMAIN unacknowledged
  PROVE  Cardinality(old) \in Nat
<1>1. IsFiniteSet(SeqNumbers)
  BY FS_Interval DEF SeqNumbers
<1>2. old \subseteq SeqNumbers
  BY DEF TypeOK
<1> QED
  BY <1>1, <1>2, FS_Subset, FS_CardinalityType

(* Every state in which no counter of the sender has come back to zero     *)
(* satisfies the invariant.                                                *)
THEOREM Safety == Spec => []Inv
<1>1. TypeOK /\ Inv /\ [Next]_vars /\ TypeOK' => Inv'
  <2> SUFFICES ASSUME TypeOK, Inv, [Next]_vars, TypeOK', NoWrap' PROVE Safe'
    BY DEF Inv
  <2>1. CASE Write
    <3>1. NoWrap
      <4>1. PICK n \in Nat : \E pks : Transmit(DOMAIN unacknowledged, pks, n)
        <5>1. PICK k \in 1 .. Frags[written] :
                \E pks : Transmit(DOMAIN unacknowledged, pks, k)
          BY <2>1 DEF Write
        <5> QED
          BY <5>1
      <4>2. built < SeqEnd
        BY <4>1, TransmitGrows DEF NoWrap
      <4>3. PICK w \in Nat : written' = w /\ w = written + 1
        BY <2>1 DEF Write, TypeOK
      <4>4. w < SeqEnd /\ w < SplitMod
        BY <4>3 DEF NoWrap
      <4> QED
        BY <4>2, <4>3, <4>4 DEF NoWrap, TypeOK
    <3> QED
      BY <2>1, <3>1, WriteSafe DEF Inv
  <2>2. ASSUME NEW a \in acks \ lost, HandleAck(a) PROVE Safe'
    <3>1. NoWrap
      BY <2>2 DEF HandleAck, NoWrap
    <3> QED
      BY <2>2, <3>1, HandleAckSafe DEF Inv
  <2>3. ASSUME NEW old \in SUBSET DOMAIN unacknowledged, NEW n, n = Cardinality(old),
               NEW order \in Visits(old, n), Retransmit(order, n)
        PROVE  Safe'
    <3>1. n \in Nat
      BY <2>3, TrackedFinite
    <3>2. built < SeqEnd /\ UNCHANGED written
      BY <2>3, <3>1, TransmitGrows DEF Retransmit, NoWrap
    <3>3. NoWrap
      BY <3>2 DEF NoWrap
    <3>4. order \in [1 .. n -> old] /\ IsInjective(order)
      BY DEF Visits
    <3> QED
      BY <2>3, <3>1, <3>3, <3>4, RetransmitSafe DEF Inv
  <2>4. ASSUME NEW a \in acks \ lost, HandleNack(a) PROVE Safe'
    BY <2>4, <2>3 DEF HandleNack
  <2>5. ASSUME NEW old \in SUBSET DOMAIN unacknowledged, CheckResend(old) PROVE Safe'
    BY <2>5, <2>3 DEF CheckResend
  <2>6. ASSUME NEW d \in net \ lost, ReceiveDatagram(d) PROVE Safe'
    <3>1. NoWrap
      BY <2>6 DEF ReceiveDatagram, NoWrap, senderVars
    <3> QED
      BY <2>6, <3>1, ReceiveDatagramSafe DEF Inv
  <2>7. ASSUME NEW pk \in inHand, HandleDatagram(pk) PROVE Safe'
    <3>1. NoWrap
      BY <2>7 DEF HandleDatagram, NoWrap, senderVars
    <3> QED
      BY <2>7, <3>1, HandleDatagramSafe DEF Inv
  <2>8. CASE HandlePacket
    <3>1. NoWrap
      BY <2>8 DEF HandlePacket, NoWrap, senderVars
    <3> QED
      BY <2>8, <3>1, HandlePacketSafe DEF Inv
  <2>9. CASE FlushAcks
    <3>1. NoWrap
      BY <2>9 DEF FlushAcks, NoWrap, senderVars
    <3> QED
      BY <2>9, <3>1, FlushAcksSafe DEF Inv
  <2>10. CASE Close
    <3>1. NoWrap
      BY <2>10 DEF Close, NoWrap, senderVars
    <3> QED
      BY <2>10, <3>1, CloseSafe DEF Inv
  <2>11. ASSUME UNCHANGED <<senderVars, windowVars, queueVars, taskVars, net, acks>>
         PROVE  Safe'
    <3>1. NoWrap
      BY <2>11 DEF NoWrap, senderVars
    <3> QED
      BY <2>11, <3>1, LoseSafe DEF Inv
  <2>12. ASSUME NEW x \in (net \cup acks) \ lost, Lose(x) PROVE Safe'
    BY <2>12, <2>11 DEF Lose
  <2>13. CASE UNCHANGED vars
    BY <2>13, <2>11 DEF vars
  <2> QED
    BY <2>1, <2>2, <2>4, <2>5, <2>6, <2>7, <2>8, <2>9, <2>10, <2>12, <2>13 DEF Next
<1>2. Init => Inv
  BY SafeInit DEF Inv
<1> QED
  BY <1>1, <1>2, TypeCorrect, PTL DEF Spec

(* packet.rs:29, in order and not duplicated, for a connection on which no *)
(* counter wraps: contents are handed over whole, in the order of the      *)
(* writes and once each, and without gaps if no error is returned and      *)
(* nobody calls close.                                                     *)
THEOREM DeliveryInOrder == Spec => []InOrderIntact
<1>1. TypeOK /\ Inv => InOrderIntact
  <2> SUFFICES ASSUME TypeOK, NoWrap, Safe
               PROVE  /\ \A k \in DOMAIN delivered : \E m \in Messages :
                            m < written /\ delivered[k] = Whole(m)
                      /\ \A k, l \in DOMAIN delivered :
                            k < l => delivered[k][0][1] < delivered[l][0][1]
                      /\ receiving = "ok" /\ ~ closing =>
                            \A k \in DOMAIN delivered : delivered[k] = Whole(k - 1)
    BY DEF Inv, InOrderIntact
  <2>1. /\ OutputInv /\ QueueInv /\ TaskInv /\ fetched \in Seq(Contents)
        /\ delivered \in Seq(Contents) /\ pqLowest \in Nat /\ written \in Nat
    BY DEF Safe, TypeOK, SeqNumbers
  <2>2. ASSUME NEW k \in DOMAIN delivered
        PROVE  \E m \in Messages : m < written /\ delivered[k] = Whole(m)
    <3> DEFINE m == delivered[k][0][1]
    <3>1. m \in 0 .. (pqLowest - Len(fetched) - 1) /\ delivered[k] = Whole(m)
      BY <2>1 DEF OutputInv
    <3>2. PICK len \in Nat : Len(fetched) = len
      BY <2>1
    <3>3. m \in 0 .. (pqLowest - len - 1)
      BY <3>1, <3>2
    <3> HIDE DEF m
    <3>4. m < written /\ m \in Nat
      BY <3>3, <2>1 DEF QueueInv
    <3>5. m \in Messages
      <4>1. delivered[k] \in Contents
        BY <2>1
      <4>2. PICK n \in Counts : delivered[k] \in [0 .. (n - 1) -> Pieces]
        BY <4>1 DEF Contents
      <4>3. 0 \in 0 .. (n - 1)
        BY <4>2 DEF Counts, Range
      <4>4. delivered[k][0] \in Pieces
        BY <4>2, <4>3
      <4> QED
        BY <4>4, PieceShape DEF m
    <3> QED
      BY <3>1, <3>4, <3>5
  <2> QED
    BY <2>1, <2>2 DEF OutputInv, Clean
<1> QED
  BY <1>1, TypeCorrect, Safety, PTL

(* Every piece written is tracked by S or held by R at every moment.       *)
THEOREM PiecesKept == Spec => []NothingLost
<1>1. Inv => NothingLost
  BY DEF Inv, Safe, NothingLost
<1> QED
  BY <1>1, Safety, PTL

(* S tracks each packet under one number only.                             *)
THEOREM TrackedUnderOneNumber == Spec => []TrackedOnce
<1>1. Inv => TrackedOnce
  BY DEF Inv, Safe, SenderInv, TrackedOnce
<1> QED
  BY <1>1, Safety, PTL
=============================================================================
