------------------------- MODULE Reliability_proofs -------------------------
(***************************************************************************)
(* Theorems of Reliability, for every number and length of messages, every *)
(* width of the counters and every limit.                                  *)
(***************************************************************************)
EXTENDS Reliability, FiniteSetTheorems, TLAPS

USE SeqEndAssumption, MaxWindowAssumption, FragsAssumption,
    SplitModAssumption, LimitsAssumption, FlagsAssumption

-----------------------------------------------------------------------------
(* The operators of WindowOps.                                             *)

(* A masked number is a Uint24.                                            *)
LEMMA Uint24Type ==
  ASSUME NEW i \in Int
  PROVE  Uint24(i) \in SeqNumbers
BY DEF Uint24, SeqNumbers

(* The window's upper end stays a Uint24.                                  *)
LEMMA HighestType ==
  ASSUME NEW high \in SeqNumbers, NEW i \in SeqNumbers
  PROVE  HighestWith(high, i) \in SeqNumbers
BY DEF HighestWith, Uint24, SeqNumbers

(* The loop ends inside the window and passes only what is there.          *)
LEMMA RunEndsType ==
  ASSUME NEW low \in SeqNumbers, NEW high \in SeqNumbers, NEW queue,
         NEW e \in RunEnds(low, high, queue)
  PROVE  /\ e \in SeqNumbers /\ low <= e
         /\ \A i \in low .. (e - 1) : i \in queue
BY DEF RunEnds, SeqNumbers

(* What missing returns lies inside the window.                            *)
LEMMA MissingType ==
  ASSUME NEW low \in SeqNumbers, NEW high \in SeqNumbers, NEW queue,
         NEW missing \in MissingLists(low, high, queue)
  PROVE  missing \subseteq SeqNumbers
BY DEF MissingLists, SeqNumbers

(* The k-th of fewer than SeqEnd numbers taken in a row is recognised by   *)
(* its distance from the first.                                            *)
LEMMA OffsetOfNext ==
  ASSUME seq \in SeqNumbers, NEW k \in 0 .. (SeqEnd - 1)
  PROVE  NextSeq(k) \in SeqNumbers /\ OffsetOf(NextSeq(k)) = k
BY SMTT(30) DEF NextSeq, OffsetOf, Uint24, SeqNumbers

-----------------------------------------------------------------------------
(* Type correctness.                                                       *)

(* A piece of a message makes a well-formed packet.                        *)
LEMMA PacketForType ==
  ASSUME NEW m \in Messages, NEW j \in 0 .. (Frags[m] - 1),
         NEW order \in SeqNumbers, NEW id \in 0 .. (SplitMod - 1)
  PROVE  PacketFor(m, j, order, id) \in Packets
<1>1. Frags[m] \in Nat \ {0} /\ Frags[m] \in Counts
  BY DEF Messages, Counts, Range
<1>2. <<m, j>> \in Pieces
  BY <1>1 DEF Pieces
<1> QED
  BY <1>1, <1>2 DEF PacketFor, Packets, SeqNumbers

(* Sending well-formed packets keeps the sender and the path well-formed.  *)
LEMMA TransmitType ==
  ASSUME TypeOK, NEW kept \in SUBSET DOMAIN unacknowledged, NEW n \in Nat,
         NEW pks, \A k \in 0 .. (n - 1) : pks[k] \in Packets,
         Transmit(kept, pks, n)
  PROVE  /\ seq' \in SeqNumbers /\ built' \in Nat
         /\ DOMAIN unacknowledged' \subseteq SeqNumbers
         /\ \A s \in DOMAIN unacknowledged' : unacknowledged'[s] \in Packets
         /\ \A d \in net' : d.seq \in SeqNumbers /\ d.pk \in Packets
<1> DEFINE new == {NextSeq(k) : k \in 0 .. (n - 1)}
<1>1. \A k \in 0 .. (n - 1) : NextSeq(k) \in SeqNumbers /\ OffsetOf(NextSeq(k)) = k
  BY OffsetOfNext DEF Transmit, TypeOK
<1>2. seq' \in SeqNumbers /\ built' \in Nat
  BY DEF Transmit, TypeOK, NextSeq, Uint24, SeqNumbers
<1>3. \A s \in new : s \in SeqNumbers /\ pks[OffsetOf(s)] \in Packets
  BY <1>1
<1>4. unacknowledged' = [s \in kept \cup new |->
          IF s \in new THEN pks[OffsetOf(s)] ELSE unacknowledged[s]]
  BY DEF Transmit
<1>5. /\ DOMAIN unacknowledged' \subseteq SeqNumbers
      /\ \A s \in DOMAIN unacknowledged' : unacknowledged'[s] \in Packets
  BY <1>3, <1>4 DEF TypeOK
<1>6. \A d \in net' : d.seq \in SeqNumbers /\ d.pk \in Packets
  BY <1>1 DEF Transmit, TypeOK
<1> QED
  BY <1>2, <1>5, <1>6

(* Sending again what is tracked.                                          *)
LEMMA RetransmitType ==
  ASSUME TypeOK, NEW old \in SUBSET DOMAIN unacknowledged,
         NEW order \in Visits(old, Cardinality(old)),
         Retransmit(order, Cardinality(old)), hitches' \in Nat
  PROVE  TypeOK'
<1> DEFINE n == Cardinality(old)
           pks == [k \in 0 .. (n - 1) |-> unacknowledged[order[k + 1]]]
<1>1. n \in Nat
  <2>1. IsFiniteSet(SeqNumbers)
    BY FS_Interval DEF SeqNumbers
  <2>2. old \subseteq SeqNumbers
    BY DEF TypeOK
  <2> QED
    BY <2>1, <2>2, FS_Subset, FS_CardinalityType
<1>2. \A k \in 0 .. (n - 1) : pks[k] \in Packets
  <2>1. \A s \in DOMAIN unacknowledged : unacknowledged[s] \in Packets
    BY DEF TypeOK
  <2>2. order \in [1 .. n -> old]
    BY DEF Visits
  <2>3. \A k \in 0 .. (n - 1) : order[k + 1] \in DOMAIN unacknowledged
    BY <1>1, <2>2
  <2> QED
    BY <2>1, <2>3
<1>3. Transmit(DOMAIN unacknowledged \ Range(order), pks, n)
  BY DEF Retransmit
<1> HIDE DEF n, pks
<1>4. /\ seq' \in SeqNumbers /\ built' \in Nat
      /\ DOMAIN unacknowledged' \subseteq SeqNumbers
      /\ \A s \in DOMAIN unacknowledged' : unacknowledged'[s] \in Packets
      /\ \A d \in net' : d.seq \in SeqNumbers /\ d.pk \in Packets
  BY <1>1, <1>2, <1>3, TransmitType
<1>5. net \subseteq net'
  BY <1>3 DEF Transmit
<1> QED
  BY <1>4, <1>5 DEF TypeOK, Retransmit, windowVars, queueVars, taskVars

(* put and fetch keep the queue well-formed and hand over contents.        *)
LEMMA ReceivePacketType ==
  ASSUME TypeOK, NEW order \in SeqNumbers, NEW content \in Contents,
         ReceivePacket(order, content)
  PROVE  /\ pqLowest' \in SeqNumbers /\ pqHighest' \in SeqNumbers
         /\ DOMAIN pqQueue' \subseteq SeqNumbers
         /\ \A i \in DOMAIN pqQueue' : pqQueue'[i] \in Contents
         /\ fetched' \in Seq(Contents)
         /\ receiving' \in {"ok", "failed", "stopped"}
<1> DEFINE queue == WithPacket(order, content)
<1>1. CASE Occupied(order)
  BY <1>1 DEF ReceivePacket, TypeOK
<1>2. CASE ~ Occupied(order)
  <2>1. /\ DOMAIN queue \subseteq SeqNumbers
        /\ \A i \in DOMAIN queue : queue[i] \in Contents
    BY DEF TypeOK, WithPacket
  <2>2. pqHighest' \in SeqNumbers
    BY <1>2, HighestType DEF ReceivePacket, TypeOK
  <2>3. CASE Listening /\ TooBig(pqLowest, pqHighest')
    BY <1>2, <2>1, <2>2, <2>3 DEF ReceivePacket, TypeOK, Fail
  <2>4. CASE ~ (Listening /\ TooBig(pqLowest, pqHighest'))
    <3>1. PICK e \in RunEnds(pqLowest, pqHighest', DOMAIN queue) :
            /\ pqLowest' = e
            /\ pqQueue' = Restrict(queue, {i \in DOMAIN queue :
                                              ~ i \in pqLowest .. (e - 1)})
            /\ fetched' = [k \in 1 .. (e - pqLowest) |-> queue[pqLowest + k - 1]]
            /\ UNCHANGED receiving
      BY <1>2, <2>4 DEF ReceivePacket, FetchUpTo
    <3>2. /\ e \in SeqNumbers /\ pqLowest <= e
          /\ \A i \in pqLowest .. (e - 1) : i \in DOMAIN queue
      BY <2>2, RunEndsType DEF TypeOK
    <3> HIDE DEF queue
    <3>3. /\ DOMAIN pqQueue' \subseteq SeqNumbers
          /\ \A i \in DOMAIN pqQueue' : pqQueue'[i] \in Contents
      BY <3>1, <2>1 DEF Restrict
    <3>4. fetched' \in Seq(Contents)
      <4>0. pqLowest \in Int /\ e \in Int
        BY <3>2 DEF TypeOK, SeqNumbers
      <4>1. e - pqLowest \in Nat
        BY <3>2, <4>0
      <4>2. \A k \in 1 .. (e - pqLowest) :
               pqLowest + k - 1 \in pqLowest .. (e - 1)
        BY <4>0
      <4> QED
        BY SMTT(30), <4>1, <4>2, <3>1, <3>2, <2>1
    <3> QED
      BY <2>2, <3>1, <3>2, <3>3, <3>4 DEF TypeOK
  <2> QED
    BY <2>3, <2>4
<1> QED
  BY <1>1, <1>2

(* The state is well-formed initially and after every action.              *)
LEMMA TypeInit == Init => TypeOK
<1> SUFFICES ASSUME Init PROVE TypeOK
  OBVIOUS
<1>1. /\ 0 \in SeqNumbers /\ 0 \in 0 .. (SplitMod - 1)
  BY DEF SeqNumbers
<1>2. /\ DOMAIN unacknowledged = {} /\ DOMAIN splits = {} /\ DOMAIN pqQueue = {}
      /\ fetched \in Seq(Contents) /\ delivered \in Seq(Contents)
  BY DEF Init
<1> QED
  BY ZenonT(30), <1>1, <1>2 DEF Init, TypeOK

LEMMA WriteType ==
  ASSUME TypeOK, Write PROVE TypeOK'
<1> DEFINE m == written
           n == Frags[m]
           pks == [j \in 0 .. (n - 1) |-> PacketFor(m, j, order_index, split_id)]
<1>1. m \in Messages /\ n \in Nat \ {0}
  BY DEF Write, Messages
<1>2. \A j \in 0 .. (n - 1) : pks[j] \in Packets
  BY <1>1, PacketForType DEF TypeOK
<1>3. PICK k \in 1 .. n :
        /\ Transmit(DOMAIN unacknowledged, pks, k)
        /\ \/ UNCHANGED lost
           \/ lost' = lost \cup {[seq |-> NextSeq(k - 1), pk |-> pks[k - 1]]}
        /\ hitches' \in {hitches, hitches + 1}
  BY DEF Write
<1> HIDE DEF n, pks
<1>4. /\ k \in Nat \ {0} /\ k - 1 \in 0 .. (k - 1)
      /\ \A j \in 0 .. (k - 1) : j \in 0 .. (n - 1)
  BY <1>1
<1>5. /\ seq' \in SeqNumbers /\ built' \in Nat
      /\ DOMAIN unacknowledged' \subseteq SeqNumbers
      /\ \A s \in DOMAIN unacknowledged' : unacknowledged'[s] \in Packets
      /\ \A d \in net' : d.seq \in SeqNumbers /\ d.pk \in Packets
  BY <1>2, <1>3, <1>4, TransmitType
<1>6. net \subseteq net' /\ [seq |-> NextSeq(k - 1), pk |-> pks[k - 1]] \in net'
  BY <1>3, <1>4 DEF Transmit
<1>7. lost' \subseteq net' \cup acks
  BY <1>3, <1>6 DEF TypeOK
<1>8. order_index' \in SeqNumbers
  BY Uint24Type DEF Write, TypeOK, SeqNumbers
<1>9. split_id' \in 0 .. (SplitMod - 1)
  BY SMTT(30) DEF Write, TypeOK
<1>10. written' \in Nat
  BY <1>1 DEF Write, TypeOK
<1>11. hitches' \in Nat
  BY <1>3 DEF TypeOK
<1> QED
  BY <1>5, <1>8, <1>9, <1>10, <1>11, <1>7 DEF TypeOK, Write, windowVars, queueVars, taskVars

LEMMA HandleAckType ==
  ASSUME TypeOK, NEW a \in acks, HandleAck(a) PROVE TypeOK'
BY DEF TypeOK, HandleAck, windowVars, queueVars, taskVars, Restrict

LEMMA ReceiveDatagramType ==
  ASSUME TypeOK, NEW d \in net, ReceiveDatagram(d) PROVE TypeOK'
<1> DEFINE high == HighestWith(winHighest, d.seq)
           keys == winQueue \cup {d.seq}
<1>1. d.seq \in SeqNumbers /\ d.pk \in Packets /\ high \in SeqNumbers
  BY HighestType DEF TypeOK
<1>2. PICK missing \in {{}} \cup MissingLists(winLowest, high, keys) :
        /\ winLowest' \in RunEnds(winLowest, high, keys \cup missing)
        /\ winQueue' = {i \in keys \cup missing : i >= winLowest'}
        /\ acks' = IF missing = {} THEN acks
                   ELSE acks \cup {[kind |-> "nack", seqs |-> missing]}
  BY DEF ReceiveDatagram
<1>3. missing \subseteq SeqNumbers
  BY <1>1, MissingType DEF TypeOK
<1>4. winLowest' \in SeqNumbers
  BY <1>1, <1>2, RunEndsType DEF TypeOK
<1>5. /\ ack_slice' = ack_slice \cup {d.seq}
      /\ winHighest' = high
      /\ (inHand' = {d.pk} \/ inHand' = inHand)
      /\ receiving' \in {"ok", "failed", "stopped"}
      /\ UNCHANGED <<senderVars, queueVars, fetched, closing, delivered,
                     net, lost, hitches>>
  BY DEF ReceiveDatagram, Fail, TypeOK
<1>6. \A a \in acks' : a.kind \in {"ack", "nack"} /\ a.seqs \subseteq SeqNumbers
  BY <1>2, <1>3 DEF TypeOK
<1> HIDE DEF high, keys
<1>7. winQueue' \subseteq SeqNumbers /\ acks \subseteq acks'
  BY <1>1, <1>2, <1>3 DEF TypeOK, keys
<1> QED
  BY <1>1, <1>4, <1>5, <1>6, <1>7 DEF TypeOK, senderVars, queueVars

LEMMA HandleDatagramType ==
  ASSUME TypeOK, NEW pk \in inHand, HandleDatagram(pk) PROVE TypeOK'
<1> DEFINE slots == Fragments(pk)
           stored == [slots EXCEPT ![pk.split_index] = pk.content]
           Slots == UNION {[0 .. (n - 1) -> Pieces \cup {NoPiece}] : n \in Counts}
           complete == \A j \in DOMAIN stored : stored[j] # NoPiece
<1>1. /\ pk \in Packets
      /\ pk.order_index \in SeqNumbers /\ pk.split_id \in 0 .. (SplitMod - 1)
      /\ pk.split_count \in Counts /\ pk.content \in Pieces
  BY DEF TypeOK, Packets, SeqNumbers
<1>2. slots \in Slots
  BY <1>1 DEF Fragments, TypeOK
<1>3. stored \in Slots
  BY <1>1, <1>2
<1>4. complete => stored \in Contents
  <2> SUFFICES ASSUME complete PROVE stored \in Contents
    OBVIOUS
  <2> HIDE DEF stored
  <2>1. PICK n \in Counts : stored \in [0 .. (n - 1) -> Pieces \cup {NoPiece}]
    BY <1>3
  <2>2. stored \in [0 .. (n - 1) -> Pieces]
    BY <2>1
  <2> QED
    BY <2>2 DEF Contents
<1>5. [j \in {0} |-> pk.content] \in Contents
  <2>1. 1 \in Counts /\ 0 .. (1 - 1) = {0}
    BY DEF Counts
  <2> QED
    BY <1>1, <2>1 DEF Contents
<1> DEFINE Rest == /\ inHand' = {}
                   /\ UNCHANGED <<senderVars, windowVars, closing, delivered,
                                  net, acks, lost, hitches>>
           Same == UNCHANGED <<pqLowest, pqHighest, pqQueue, fetched>>
           Queue == /\ pqLowest' \in SeqNumbers /\ pqHighest' \in SeqNumbers
                    /\ DOMAIN pqQueue' \subseteq SeqNumbers
                    /\ \A i \in DOMAIN pqQueue' : pqQueue'[i] \in Contents
                    /\ fetched' \in Seq(Contents)
                    /\ receiving' \in {"ok", "failed", "stopped"}
           SplitsOK(f) == /\ DOMAIN f \subseteq 0 .. (SplitMod - 1)
                          /\ \A id \in DOMAIN f : f[id] \in Slots
<1>6. SplitsOK(splits)
  BY DEF TypeOK
<1>7. ASSUME NEW f \in Slots PROVE SplitsOK(WithEntry(pk.split_id, f))
  BY <1>1, <1>6, <1>7 DEF WithEntry
<1>8. SplitsOK(Restrict(splits, DOMAIN splits \ {pk.split_id}))
  BY <1>6 DEF Restrict
<1>9. Same /\ (Fail \/ UNCHANGED receiving) => Queue
  BY DEF TypeOK, Fail
<1>10. Rest
  BY DEF HandleDatagram
<1>11. Queue /\ SplitsOK(splits')
  <2>1. CASE ReceivePacket(pk.order_index, [j \in {0} |-> pk.content]) /\ UNCHANGED splits
    BY <2>1, <1>1, <1>5, <1>6, ReceivePacketType
  <2>2. CASE Fail /\ UNCHANGED <<queueVars, fetched>>
    BY <2>2, <1>6, <1>9 DEF queueVars
  <2>3. CASE splits' = WithEntry(pk.split_id, slots) /\ Fail /\ Same
    BY <2>3, <1>2, <1>7, <1>9
  <2>4. CASE splits' = WithEntry(pk.split_id, stored) /\ Same /\ UNCHANGED receiving
    BY <2>4, <1>3, <1>7, <1>9
  <2>5. CASE /\ complete
             /\ splits' = Restrict(splits, DOMAIN splits \ {pk.split_id})
             /\ ReceivePacket(pk.order_index, stored)
    BY <2>5, <1>1, <1>4, <1>8, ReceivePacketType
  <2> QED
    BY <2>1, <2>2, <2>3, <2>4, <2>5 DEF HandleDatagram
<1> QED
  BY <1>10, <1>11 DEF TypeOK, senderVars, windowVars

LEMMA HandlePacketType ==
  ASSUME TypeOK, HandlePacket PROVE TypeOK'
<1>1. /\ fetched # <<>> /\ fetched \in Seq(Contents) /\ delivered \in Seq(Contents)
      /\ receiving \in {"ok", "failed", "stopped"}
  BY DEF HandlePacket, TypeOK
<1>2. Head(fetched) \in Contents /\ Tail(fetched) \in Seq(Contents)
  BY <1>1
<1>3. /\ fetched' \in {Tail(fetched), <<>>}
      /\ delivered' \in {delivered, Append(delivered, Head(fetched))}
      /\ receiving' \in {"ok", "failed", "stopped"}
      /\ UNCHANGED <<senderVars, windowVars, queueVars, inHand, closing,
                     net, acks, lost, hitches>>
  BY <1>1 DEF HandlePacket, Fail
<1>4. Append(delivered, Head(fetched)) \in Seq(Contents) /\ <<>> \in Seq(Contents)
  BY <1>1, <1>2
<1>5. fetched' \in Seq(Contents) /\ delivered' \in Seq(Contents)
  BY <1>1, <1>2, <1>3, <1>4
<1> QED
  BY <1>3, <1>5 DEF TypeOK, senderVars, windowVars, queueVars

(* Every state has the types of ConnState's fields.                        *)
THEOREM TypeCorrect == Spec => []TypeOK
<1>1. TypeOK /\ [Next]_vars => TypeOK'
  <2> SUFFICES ASSUME TypeOK, [Next]_vars PROVE TypeOK'
    OBVIOUS
  <2>1. CASE Write
    BY <2>1, WriteType
  <2>2. ASSUME NEW a \in acks \ lost, HandleAck(a) PROVE TypeOK'
    BY <2>2, HandleAckType
  <2>3. ASSUME NEW a \in acks \ lost, HandleNack(a) PROVE TypeOK'
    <3> DEFINE old == a.seqs \cap DOMAIN unacknowledged
    <3>1. PICK order \in Visits(old, Cardinality(old)) :
            Retransmit(order, Cardinality(old))
      BY <2>3 DEF HandleNack
    <3>2. hitches' \in Nat
      BY <2>3 DEF HandleNack, TypeOK
    <3> QED
      BY <3>1, <3>2, RetransmitType
  <2>4. ASSUME NEW old \in SUBSET DOMAIN unacknowledged, CheckResend(old)
        PROVE  TypeOK'
    <3>1. PICK order \in Visits(old, Cardinality(old)) :
            Retransmit(order, Cardinality(old))
      BY <2>4 DEF CheckResend
    <3>2. hitches' \in Nat
      <4>1. Cardinality(old) \in Nat
        <5>1. IsFiniteSet(SeqNumbers)
          BY FS_Interval DEF SeqNumbers
        <5>2. old \subseteq SeqNumbers
          BY DEF TypeOK
        <5> QED
          BY <5>1, <5>2, FS_Subset, FS_CardinalityType
      <4> QED
        BY <4>1, <2>4 DEF CheckResend, TypeOK
    <3> QED
      BY <3>1, <3>2, RetransmitType
  <2>5. ASSUME NEW d \in net \ lost, ReceiveDatagram(d) PROVE TypeOK'
    BY <2>5, ReceiveDatagramType
  <2>6. ASSUME NEW pk \in inHand, HandleDatagram(pk) PROVE TypeOK'
    BY <2>6, HandleDatagramType
  <2>7. CASE HandlePacket
    BY <2>7, HandlePacketType
  <2>8. CASE FlushAcks
    BY <2>8 DEF TypeOK, FlushAcks, senderVars, queueVars, taskVars
  <2>9. CASE Close
    BY <2>9 DEF TypeOK, Close, senderVars, windowVars, queueVars
  <2>10. ASSUME NEW x \in (net \cup acks) \ lost, Lose(x) PROVE TypeOK'
    BY <2>10 DEF TypeOK, Lose, senderVars, windowVars, queueVars, taskVars
  <2>11. CASE UNCHANGED vars
    BY <2>11 DEF TypeOK, vars, senderVars, windowVars, queueVars, taskVars
  <2> QED
    BY <2>1, <2>2, <2>3, <2>4, <2>5, <2>6, <2>7, <2>8, <2>9, <2>10, <2>11 DEF Next
<1> QED
  BY <1>1, TypeInit, PTL DEF Spec
=============================================================================
