---------------------- MODULE ReliabilityChannel_proofs ----------------------
(***************************************************************************)
(* What a connection does that does not follow from Safe alone: a number   *)
(* is never both asked for and acknowledged, wrap or not; a connection on  *)
(* which receive returned no error does the steps of ReliableOrdered; and  *)
(* what the limit on unfinished messages comes to.                         *)
(***************************************************************************)
EXTENDS ReliabilitySafety_proofs

USE SeqEndAssumption, MaxWindowAssumption, FragsAssumption,
    SplitModAssumption, LimitsAssumption, FlagsAssumption

-----------------------------------------------------------------------------
(* What R has asked for it does not acknowledge.                           *)

(* A number is asked for only if the window has not seen it.               *)
LEMMA MissingNotSeen ==
  ASSUME NEW low \in SeqNumbers, NEW high \in SeqNumbers, NEW queue,
         NEW missing \in MissingLists(low, high, queue), NEW s \in missing
  PROVE  ~ Seen(low, queue, s)
BY DEF MissingLists, Seen, SeqNumbers

(* The window never forgets what it has seen: what leaves the queue is     *)
(* below its new lower end.                                                *)
LEMMA SeenStays ==
  ASSUME NEW low \in SeqNumbers, NEW low2 \in SeqNumbers, low <= low2,
         NEW keys, NEW queue2, queue2 = {i \in keys : i >= low2},
         NEW s \in SeqNumbers, s < low \/ s \in keys
  PROVE  Seen(low2, queue2, s)
BY DEF Seen, SeqNumbers

(* receive_datagram accepts only what was not seen, and asks only for what *)
(* is not there.                                                           *)
LEMMA ReceiveDatagramWindow ==
  ASSUME TypeOK, WindowInv, NEW d \in net, ReceiveDatagram(d)
  PROVE  WindowInv'
<1> DEFINE high == HighestWith(winHighest, d.seq)
           keys == winQueue \cup {d.seq}
<1>1. d.seq \in SeqNumbers /\ high \in SeqNumbers /\ winLowest \in SeqNumbers
  BY HighestType DEF TypeOK
<1>2. PICK missing \in {{}} \cup MissingLists(winLowest, high, keys) :
         /\ winLowest' \in RunEnds(winLowest, high, keys \cup missing)
         /\ winQueue' = {i \in keys \cup missing : i >= winLowest'}
         /\ acks' = IF missing = {} THEN acks
                    ELSE acks \cup {[kind |-> "nack", seqs |-> missing]}
  BY DEF ReceiveDatagram
<1>3. /\ ~ Seen(winLowest, winQueue, d.seq)
      /\ ack_slice' = ack_slice \cup {d.seq}
  BY DEF ReceiveDatagram
<1> HIDE DEF high, keys
<1>4. PICK low \in SeqNumbers : winLowest' = low /\ winLowest <= low
  BY <1>1, <1>2, RunEndsType
<1>5. /\ missing \subseteq SeqNumbers
      /\ \A s \in missing : ~ Seen(winLowest, keys, s)
  BY <1>1, <1>2, MissingType, MissingNotSeen
<1>6. \A s : Received(s)' <=> Received(s) \/ s = d.seq
  BY <1>2, <1>3 DEF Received
<1>7. \A s : Requested(s)' <=> Requested(s) \/ s \in missing
  <2> DEFINE nack == [kind |-> "nack", seqs |-> missing]
  <2>1. nack.kind = "nack" /\ nack.seqs = missing
    OBVIOUS
  <2>2. acks' = IF missing = {} THEN acks ELSE acks \cup {nack}
    BY <1>2
  <2> HIDE DEF nack
  <2>3. CASE missing = {}
    BY <2>2, <2>3 DEF Requested
  <2>4. CASE missing # {}
    BY <2>1, <2>2, <2>4 DEF Requested
  <2> QED
    BY <2>3, <2>4
<1>8. ASSUME NEW s \in SeqNumbers, Received(s)' \/ Requested(s)'
      PROVE  Seen(winLowest, winQueue, s)'
  <2>1. s < winLowest \/ s \in keys \cup missing
    BY <1>6, <1>7, <1>8 DEF WindowInv, Seen, keys
  <2> QED
    BY <2>1, <1>1, <1>2, <1>4, SeenStays
<1>9. ASSUME NEW s \in SeqNumbers, Requested(s)' PROVE ~ Received(s)'
  <2>1. CASE Requested(s)
    <3>1. ~ Received(s) /\ Seen(winLowest, winQueue, s)
      BY <2>1 DEF WindowInv, Requested, RequestedNotAcknowledged
    <3> QED
      BY <3>1, <1>3, <1>6
  <2>2. CASE s \in missing
    <3>1. ~ Seen(winLowest, winQueue, s) /\ s # d.seq
      BY <2>2, <1>5 DEF Seen, keys
    <3> QED
      BY <3>1, <1>6 DEF WindowInv
  <2> QED
    BY <1>7, <1>9, <2>1, <2>2
<1>10. \A a \in acks' : a.kind = "nack" => a.seqs \subseteq SeqNumbers
  BY <1>2, <1>5 DEF TypeOK
<1>11. RequestedNotAcknowledged'
  BY <1>9, <1>10 DEF RequestedNotAcknowledged, Requested
<1> QED
  BY <1>8, <1>11 DEF WindowInv

(* flush_acks makes known what was accepted before.                        *)
LEMMA FlushAcksWindow ==
  ASSUME WindowInv, FlushAcks
  PROVE  WindowInv'
<1>1. /\ acks' = acks \cup {[kind |-> "ack", seqs |-> ack_slice]}
      /\ ack_slice' = {} /\ UNCHANGED <<winLowest, winQueue>>
  BY DEF FlushAcks
<1>2. \A s : (Received(s)' <=> Received(s)) /\ (Requested(s)' <=> Requested(s))
  <2> DEFINE ack == [kind |-> "ack", seqs |-> ack_slice]
  <2>1. ack.kind = "ack" /\ ack.seqs = ack_slice /\ "ack" # "nack"
    OBVIOUS
  <2>2. acks' = acks \cup {ack}
    BY <1>1
  <2> HIDE DEF ack
  <2>3. \A s : Received(s)' <=> Received(s)
    BY <1>1, <2>1, <2>2 DEF Received
  <2>4. \A s : Requested(s)' <=> Requested(s)
    BY <2>1, <2>2 DEF Requested
  <2> QED
    BY <2>3, <2>4
<1>3. RequestedNotAcknowledged'
  BY <1>1, <1>2 DEF WindowInv, RequestedNotAcknowledged
<1> QED
  BY <1>1, <1>2, <1>3 DEF WindowInv

(* A number R has asked for again is never acknowledged afterwards, nor    *)
(* the other way round: however often the numbers wrap, S neither drops    *)
(* the only copy of what R waits for nor sends again what R has.           *)
THEOREM AskedNotAcknowledged == Spec => []RequestedNotAcknowledged
<1>1. Init => WindowInv
  BY DEF Init, WindowInv, RequestedNotAcknowledged, Received, Requested
<1>2. TypeOK /\ WindowInv /\ [Next]_vars => WindowInv'
  <2> SUFFICES ASSUME TypeOK, WindowInv, [Next]_vars PROVE WindowInv'
    OBVIOUS
  <2>1. ASSUME UNCHANGED <<windowVars, acks>> PROVE WindowInv'
    BY <2>1 DEF windowVars, WindowInv, RequestedNotAcknowledged, Received, Requested
  <2>2. CASE Write
    BY <2>1, <2>2 DEF Write
  <2>3. ASSUME NEW a \in acks \ lost, HandleAck(a) PROVE WindowInv'
    BY <2>1, <2>3 DEF HandleAck
  <2>4. ASSUME NEW a \in acks \ lost, HandleNack(a) PROVE WindowInv'
    BY <2>1, <2>4 DEF HandleNack, Retransmit
  <2>5. ASSUME NEW old \in SUBSET DOMAIN unacknowledged, CheckResend(old)
        PROVE  WindowInv'
    BY <2>1, <2>5 DEF CheckResend, Retransmit
  <2>6. ASSUME NEW d \in net \ lost, ReceiveDatagram(d) PROVE WindowInv'
    BY <2>6, ReceiveDatagramWindow
  <2>7. ASSUME NEW pk \in inHand, HandleDatagram(pk) PROVE WindowInv'
    BY <2>1, <2>7 DEF HandleDatagram
  <2>8. CASE HandlePacket
    BY <2>1, <2>8 DEF HandlePacket
  <2>9. CASE FlushAcks
    BY <2>9, FlushAcksWindow
  <2>10. CASE Close
    BY <2>1, <2>10 DEF Close
  <2>11. ASSUME NEW x \in (net \cup acks) \ lost, Lose(x) PROVE WindowInv'
    BY <2>1, <2>11 DEF Lose
  <2>12. CASE UNCHANGED vars
    BY <2>1, <2>12 DEF vars
  <2> QED
    BY <2>2, <2>3, <2>4, <2>5, <2>6, <2>7, <2>8, <2>9, <2>10, <2>11, <2>12 DEF Next
<1>3. WindowInv => RequestedNotAcknowledged
  BY DEF WindowInv
<1> QED
  BY <1>1, <1>2, <1>3, TypeCorrect, PTL DEF Spec

-----------------------------------------------------------------------------
(* The refinement of ReliableOrdered.                                      *)

(* While nothing has gone wrong, the content to be handled next is the one *)
(* after those handed over, and it has been written.                       *)
LEMMA NextInLine ==
  ASSUME TypeOK, Safe, Clean, fetched # <<>>
  PROVE  /\ Len(delivered) \in Messages /\ Len(delivered) < written
         /\ Head(fetched) = Whole(Len(delivered))
<1>1. /\ QueueInv /\ TaskInv /\ OutputInv
      /\ fetched \in Seq(Contents) /\ delivered \in Seq(Contents)
      /\ pqLowest \in Nat /\ written \in Nat
  BY DEF Safe, TypeOK, SeqNumbers
<1>2. PICK len \in Nat : Len(fetched) = len /\ len > 0
  BY <1>1
<1>3. PICK n \in Nat : Len(delivered) = n
  BY <1>1
<1>4. n = pqLowest - len /\ pqLowest <= written
  BY <1>1, <1>2, <1>3 DEF OutputInv, QueueInv
<1>5. n < written /\ pqLowest - len + 1 - 1 = n
  BY <1>1, <1>2, <1>4
<1>6. 1 \in DOMAIN fetched /\ Head(fetched) = fetched[1]
  BY <1>1, <1>2
<1>7. Head(fetched) = Whole(pqLowest - len + 1 - 1)
  BY <1>1, <1>2, <1>6 DEF TaskInv
<1>8. n \in Messages
  <2>1. PICK m \in Counts : fetched[1] \in [0 .. (m - 1) -> Pieces]
    BY <1>1, <1>6 DEF Contents
  <2>2. 0 \in 0 .. (m - 1)
    BY <2>1 DEF Counts, Range
  <2>3. fetched[1][0] \in Pieces
    BY <2>1, <2>2
  <2>4. fetched[1][0] = <<n, 0>>
    BY <2>1, <2>2, <1>5, <1>6, <1>7 DEF Whole
  <2> QED
    BY <2>3, <2>4, PieceShape
<1> QED
  BY <1>3, <1>5, <1>7, <1>8

(* The contents of the abstract channel are a sequence of N.               *)
LEMMA AbstractContents ==
  /\ Len([k \in 1 .. N |-> Whole(k - 1)]) = N
  /\ \A n \in Nat : n < N => [k \in 1 .. N |-> Whole(k - 1)][n + 1] = Whole(n)
<1> DEFINE c == [k \in 1 .. N |-> Whole(k - 1)]
<1>1. Len(c) = N
  <2>1. N \in Nat /\ DOMAIN c = 1 .. N
    OBVIOUS
  <2>2. PICK S : \A k \in 1 .. N : c[k] \in S
    <3>1. \A k \in 1 .. N : c[k] \in {Whole(i - 1) : i \in 1 .. N}
      OBVIOUS
    <3> QED
      BY <3>1
  <2>3. c \in [1 .. N -> S]
    BY <2>1, <2>2
  <2> HIDE DEF c
  <2>4. c \in Seq(S)
    BY <2>1, <2>3
  <2> QED
    BY <2>1, <2>4
<1>2. \A n \in Nat : n < N => n + 1 \in 1 .. N /\ (n + 1) - 1 = n
  OBVIOUS
<1>3. \A n \in Nat : n < N => c[n + 1] = Whole((n + 1) - 1)
  BY <1>2
<1> QED
  BY <1>1, <1>2, <1>3

(* A write puts the next content in.                                       *)
LEMMA WriteRefines ==
  ASSUME TypeOK, Write
  PROVE  Abstract!Send
<1>1. written \in Messages /\ written' = written + 1 /\ UNCHANGED delivered
  BY DEF Write, taskVars
<1>2. written < N
  BY <1>1 DEF Messages
<1> QED
  BY <1>1, <1>2, AbstractContents DEF Abstract!Send

(* Handling a packet takes the next content out, or none.                  *)
LEMMA HandlePacketRefines ==
  ASSUME TypeOK, Safe, receiving = "ok", HandlePacket
  PROVE  Abstract!Receive \/ UNCHANGED <<written, delivered>>
<1>1. UNCHANGED written /\ fetched # <<>>
  BY DEF HandlePacket, senderVars
<1>2. CASE UNCHANGED delivered
  BY <1>1, <1>2
<1>3. CASE ~ closing /\ delivered' = Append(delivered, Head(fetched))
  <2>1. /\ Len(delivered) \in Messages /\ Len(delivered) < written
        /\ Head(fetched) = Whole(Len(delivered))
    BY <1>1, <1>3, NextInLine DEF Clean
  <2>2. Len(delivered) \in Nat /\ Len(delivered) < N
    BY <2>1 DEF Messages
  <2> QED
    BY <1>1, <1>3, <2>1, <2>2, AbstractContents DEF Abstract!Receive
<1> QED
  BY <1>2, <1>3 DEF HandlePacket

(* packet.rs:29 as an abstract channel: whatever the path does, and until  *)
(* a counter wraps or receive returns an error, a step of the connection   *)
(* puts the next content in, takes the next one out, or does neither.      *)
THEOREM ReliableOrderedSteps == Spec => Abstract!Init /\ StepsAreReliableOrdered
<1> DEFINE Stutter == UNCHANGED <<written, delivered>>
           Step == NoWrap /\ receiving = "ok" => [Abstract!Next]_<<written, delivered>>
<1>1. Init => Abstract!Init
  BY DEF Init, Abstract!Init
<1>2. TypeOK /\ Inv /\ [Next]_vars => Step
  <2> SUFFICES ASSUME TypeOK, Safe, receiving = "ok", [Next]_vars
               PROVE  Abstract!Next \/ Stutter
    BY DEF Inv
  <2>1. CASE Write
    BY <2>1, WriteRefines DEF Abstract!Next
  <2>2. ASSUME NEW a \in acks \ lost, HandleAck(a) PROVE Stutter
    BY <2>2 DEF HandleAck, taskVars
  <2>3. ASSUME NEW a \in acks \ lost, HandleNack(a) PROVE Stutter
    BY <2>3 DEF HandleNack, Retransmit, taskVars
  <2>4. ASSUME NEW old \in SUBSET DOMAIN unacknowledged, CheckResend(old)
        PROVE  Stutter
    BY <2>4 DEF CheckResend, Retransmit, taskVars
  <2>5. ASSUME NEW d \in net \ lost, ReceiveDatagram(d) PROVE Stutter
    BY <2>5 DEF ReceiveDatagram, senderVars
  <2>6. ASSUME NEW pk \in inHand, HandleDatagram(pk) PROVE Stutter
    BY <2>6 DEF HandleDatagram, senderVars
  <2>7. CASE HandlePacket
    BY <2>7, HandlePacketRefines DEF Abstract!Next
  <2>8. CASE FlushAcks
    BY <2>8 DEF FlushAcks, senderVars, taskVars
  <2>9. CASE Close
    BY <2>9 DEF Close, senderVars
  <2>10. ASSUME NEW x \in (net \cup acks) \ lost, Lose(x) PROVE Stutter
    BY <2>10 DEF Lose, senderVars, taskVars
  <2>11. CASE UNCHANGED vars
    BY <2>11 DEF vars, senderVars, taskVars
  <2> QED
    BY <2>1, <2>2, <2>3, <2>4, <2>5, <2>6, <2>7, <2>8, <2>9, <2>10, <2>11 DEF Next
<1>3. TypeOK /\ Inv /\ [Next]_vars => [Step]_vars
  BY <1>2
<1> HIDE DEF Step
<1>4. Spec => Abstract!Init /\ [][Step]_vars
  BY <1>1, <1>3, TypeCorrect, Safety, PTL DEF Spec
<1> QED
  BY <1>4 DEF StepsAreReliableOrdered, Step

(* A fragment always has a slot to go to: the entry of its split id was    *)
(* made for the same message.                                              *)
LEMMA FragmentHasSlot ==
  ASSUME TypeOK, NoWrap, Safe, NEW pk \in inHand, IsSplit(pk)
  PROVE  pk.split_index \in DOMAIN Fragments(pk)
<1>1. NetInv /\ SplitsInv /\ TaskInv
  BY DEF Safe
<1>2. PICK d \in net : d.pk = pk
  BY <1>1 DEF TaskInv
<1>3. /\ pk.content \in Pieces /\ pk.split_count = Frags[pk.content[1]]
      /\ pk.split_index = pk.content[2]
  BY <1>1, <1>2, DatagramShape DEF NetInv
<1>4. /\ pk.content[1] \in Messages
      /\ pk.split_index \in 0 .. (Frags[pk.content[1]] - 1)
  BY <1>3, PieceShape
<1>5. DOMAIN Whole(pk.content[1]) = 0 .. (Frags[pk.content[1]] - 1)
  BY <1>4, WholeShape
<1>6. CASE pk.split_id \in DOMAIN splits
  <2>1. PICK e \in net :
          /\ IsSplit(e.pk) /\ e.pk.split_id = pk.split_id
          /\ DOMAIN splits[pk.split_id] = DOMAIN Whole(e.pk.content[1])
    BY <1>1, <1>6 DEF SplitsInv
  <2>2. e.pk.content[1] = pk.content[1]
    BY <1>1, <1>2, <2>1 DEF NetInv
  <2> QED
    BY <2>1, <2>2, <1>4, <1>5, <1>6 DEF Fragments
<1>7. CASE pk.split_id \notin DOMAIN splits
  BY <1>3, <1>4, <1>7 DEF Fragments
<1> QED
  BY <1>6, <1>7

(* Only the listener's limits and the application's handler make receive   *)
(* return an error: nothing the path does to the packets of a peer that    *)
(* keeps to the protocol ends a dialer's receive task.                     *)
THEOREM DialerReturnsNoError ==
  ASSUME ~ Listening, Rejected = {}
  PROVE  Spec /\ []NoWrap => [](receiving = "ok")
<1> DEFINE NoError == receiving = "ok"
<1>1. Init => NoError
  BY DEF Init
<1>2. TypeOK /\ Inv /\ NoWrap /\ NoError /\ [Next]_vars => NoError'
  <2> SUFFICES ASSUME TypeOK, NoWrap, Safe, receiving = "ok", [Next]_vars
               PROVE  receiving' = "ok"
    BY DEF Inv
  <2>1. CASE Write
    BY <2>1 DEF Write, taskVars
  <2>2. ASSUME NEW a \in acks \ lost, HandleAck(a) PROVE receiving' = "ok"
    BY <2>2 DEF HandleAck, taskVars
  <2>3. ASSUME NEW a \in acks \ lost, HandleNack(a) PROVE receiving' = "ok"
    BY <2>3 DEF HandleNack, Retransmit, taskVars
  <2>4. ASSUME NEW old \in SUBSET DOMAIN unacknowledged, CheckResend(old)
        PROVE  receiving' = "ok"
    BY <2>4 DEF CheckResend, Retransmit, taskVars
  <2>5. ASSUME NEW d \in net \ lost, ReceiveDatagram(d) PROVE receiving' = "ok"
    BY <2>5 DEF ReceiveDatagram
  <2>6. ASSUME NEW pk \in inHand, HandleDatagram(pk) PROVE receiving' = "ok"
    <3>1. \A order, content : ReceivePacket(order, content) => receiving' = "ok"
      BY DEF ReceivePacket
    <3>2. ~ SplitRefused(pk)
      BY DEF SplitRefused
    <3>3. IsSplit(pk) => pk.split_index \in DOMAIN Fragments(pk)
      BY FragmentHasSlot
    <3> QED
      BY <2>6, <3>1, <3>2, <3>3 DEF HandleDatagram
  <2>7. CASE HandlePacket
    BY <2>7 DEF HandlePacket
  <2>8. CASE FlushAcks
    BY <2>8 DEF FlushAcks, taskVars
  <2>9. CASE Close
    BY <2>9 DEF Close
  <2>10. ASSUME NEW x \in (net \cup acks) \ lost, Lose(x) PROVE receiving' = "ok"
    BY <2>10 DEF Lose, taskVars
  <2>11. CASE UNCHANGED vars
    BY <2>11 DEF vars, taskVars
  <2> QED
    BY <2>1, <2>2, <2>3, <2>4, <2>5, <2>6, <2>7, <2>8, <2>9, <2>10, <2>11 DEF Next
<1> QED
  BY <1>1, <1>2, TypeCorrect, Safety, PTL DEF Spec

(* The refinement without a condition on the step, for a dialer's Conn: it *)
(* implements the safety part of ReliableOrdered.                          *)
THEOREM DialerRefinesReliableOrdered ==
  ASSUME ~ Listening, Rejected = {}
  PROVE  Spec /\ []NoWrap => Abstract!Init /\ [][Abstract!Next]_<<written, delivered>>
<1> DEFINE Step == NoWrap /\ receiving = "ok" => [Abstract!Next]_<<written, delivered>>
<1>1. NoWrap /\ receiving = "ok" /\ [Step]_vars => [Abstract!Next]_<<written, delivered>>
  BY DEF vars, senderVars, taskVars
<1>2. Spec => [][Step]_vars
  BY ReliableOrderedSteps DEF StepsAreReliableOrdered
<1> HIDE DEF Step
<1> QED
  BY <1>1, <1>2, DialerReturnsNoError, ReliableOrderedSteps, PTL

-----------------------------------------------------------------------------
(* The limit on unfinished messages.                                       *)

(* What a packet adds to the queue and to what was fetched from it: its    *)
(* own content and no other.                                               *)
LEMMA ReceivedContent ==
  ASSUME TypeOK, NEW order \in SeqNumbers, NEW content \in Contents,
         ReceivePacket(order, content)
  PROVE  Range(pqQueue') \cup Range(fetched')
            \subseteq Range(pqQueue) \cup Range(fetched) \cup {content}
<1> DEFINE queue == WithPacket(order, content)
<1>1. CASE Occupied(order)
  BY <1>1 DEF ReceivePacket
<1>2. CASE ~ Occupied(order)
  <2>1. Range(queue) \subseteq Range(pqQueue) \cup {content}
    BY DEF WithPacket, Range
  <2>2. CASE Listening /\ TooBig(pqLowest, pqHighest')
    <3>1. pqQueue' = queue /\ fetched' = fetched
      BY <1>2, <2>2 DEF ReceivePacket
    <3> HIDE DEF queue
    <3> QED
      BY <2>1, <3>1
  <2>3. CASE ~ (Listening /\ TooBig(pqLowest, pqHighest'))
    <3>1. PICK e \in RunEnds(pqLowest, pqHighest', DOMAIN queue) :
            /\ pqQueue' = Restrict(queue, {i \in DOMAIN queue :
                                              ~ i \in pqLowest .. (e - 1)})
            /\ fetched' = [k \in 1 .. (e - pqLowest) |-> queue[pqLowest + k - 1]]
      BY <1>2, <2>3 DEF ReceivePacket, FetchUpTo
    <3>2. pqHighest' \in SeqNumbers
      BY ReceivePacketType
    <3>3. /\ e \in SeqNumbers /\ pqLowest <= e
          /\ \A i \in pqLowest .. (e - 1) : i \in DOMAIN queue
      BY <3>2, RunEndsType DEF TypeOK
    <3> HIDE DEF queue
    <3>4. Range(pqQueue') \subseteq Range(queue)
      BY <3>1 DEF Restrict, Range
    <3>5. pqLowest \in Int /\ e \in Int
      BY <3>3 DEF TypeOK, SeqNumbers
    <3>6. \A k \in 1 .. (e - pqLowest) : pqLowest + k - 1 \in DOMAIN queue
      <4>1. \A k \in 1 .. (e - pqLowest) : pqLowest + k - 1 \in pqLowest .. (e - 1)
        BY <3>5
      <4> QED
        BY <3>3, <4>1
    <3>7. Range(fetched') \subseteq Range(queue)
      BY <3>1, <3>6 DEF Range
    <3> QED
      BY <2>1, <3>4, <3>7
  <2> QED
    BY <2>2, <2>3
<1> QED
  BY <1>1, <1>2

(* A packet without the split flag is not the whole of a split message.    *)
LEMMA SinglePiece ==
  ASSUME NEW m \in Messages, Frags[m] > 1, NEW piece
  PROVE  Whole(m) # [j \in {0} |-> piece]
<1>1. Frags[m] \in Nat
  BY DEF Messages
<1>2. 1 \in 0 .. (Frags[m] - 1)
  BY <1>1
<1>3. DOMAIN Whole(m) = 0 .. (Frags[m] - 1)
  BY DEF Whole
<1>4. 1 \notin DOMAIN [j \in {0} |-> piece]
  OBVIOUS
<1> QED
  BY <1>2, <1>3, <1>4

(* While there are too many, a fragment is refused and any other packet    *)
(* brings its own content only.                                            *)
LEMMA HandleDatagramStuck ==
  ASSUME TypeOK, TooManySplits, NEW pk \in inHand, HandleDatagram(pk)
  PROVE  /\ TooManySplits'
         /\ \A m \in Messages : Frags[m] > 1 /\ Assembled(m)' => Assembled(m)
<1>1. pk \in Packets /\ pk.order_index \in SeqNumbers /\ pk.content \in Pieces
  BY DEF TypeOK, Packets, SeqNumbers
<1>2. IsSplit(pk) => SplitRefused(pk)
  BY DEF TooManySplits, SplitRefused
<1>3. delivered' = delivered
  BY DEF HandleDatagram
<1>4. CASE ReceivePacket(pk.order_index, [j \in {0} |-> pk.content]) /\ UNCHANGED splits
  <2> DEFINE content == [j \in {0} |-> pk.content]
  <2>1. content \in Contents
    <3>1. 1 \in Counts /\ 0 .. (1 - 1) = {0}
      BY DEF Counts
    <3> QED
      BY <1>1, <3>1 DEF Contents
  <2>2. \A m \in Messages : Frags[m] > 1 => Whole(m) # content
    BY SinglePiece
  <2>3. ReceivePacket(pk.order_index, content)
    BY <1>4
  <2> HIDE DEF content
  <2>4. Range(pqQueue') \cup Range(fetched')
            \subseteq Range(pqQueue) \cup Range(fetched) \cup {content}
    BY <1>1, <2>1, <2>3, ReceivedContent
  <2> QED
    BY <1>3, <1>4, <2>2, <2>4 DEF TooManySplits, Assembled
<1>5. CASE UNCHANGED <<queueVars, fetched>>
  BY <1>3, <1>5 DEF queueVars, TooManySplits, Assembled
<1> QED
  BY <1>2, <1>4, <1>5 DEF HandleDatagram

(* handle_packet hands over what had been fetched.                         *)
LEMMA HandlePacketStuck ==
  ASSUME TypeOK, HandlePacket, NEW m \in Messages, Assembled(m)'
  PROVE  Assembled(m)
<1>1. fetched \in Seq(Contents) /\ fetched # <<>> /\ delivered \in Seq(Contents)
  BY DEF TypeOK, HandlePacket
<1>2. /\ Head(fetched) = fetched[1] /\ 1 \in DOMAIN fetched
      /\ Tail(fetched) \in Seq(Contents) /\ Len(Tail(fetched)) = Len(fetched) - 1
      /\ \A k \in 1 .. Len(fetched) - 1 : Tail(fetched)[k] = fetched[k + 1]
  BY <1>1
<1>3. Range(Tail(fetched)) \subseteq Range(fetched)
  <2> SUFFICES ASSUME NEW k \in DOMAIN Tail(fetched)
               PROVE  Tail(fetched)[k] \in Range(fetched)
    BY DEF Range
  <2>1. k \in 1 .. Len(fetched) - 1 /\ k + 1 \in DOMAIN fetched
    BY <1>1, <1>2
  <2> QED
    BY <1>2, <2>1 DEF Range
<1>4. Range(<<>>) = {}
  BY DEF Range
<1>5. Range(Append(delivered, Head(fetched))) \subseteq Range(delivered) \cup Range(fetched)
  <2> DEFINE d == Append(delivered, fetched[1])
  <2> SUFFICES ASSUME NEW k \in DOMAIN d
               PROVE  d[k] \in Range(delivered) \cup {fetched[1]}
    BY <1>2 DEF Range
  <2>1. DOMAIN d = 1 .. Len(delivered) + 1 /\ DOMAIN delivered = 1 .. Len(delivered)
    BY <1>1
  <2>2. CASE k = Len(delivered) + 1
    BY <1>1, <2>2
  <2>3. CASE k # Len(delivered) + 1
    <3>1. k \in DOMAIN delivered /\ d[k] = delivered[k]
      BY <1>1, <2>1, <2>3
    <3> QED
      BY <3>1 DEF Range
  <2> QED
    BY <2>2, <2>3
<1>6. pqQueue' = pqQueue
  BY DEF HandlePacket, queueVars
<1>7. /\ fetched' \in {Tail(fetched), <<>>}
      /\ delivered' \in {delivered, Append(delivered, Head(fetched))}
  BY DEF HandlePacket
<1>8. Range(fetched') \subseteq Range(fetched)
  BY <1>3, <1>4, <1>7
<1>9. Range(delivered') \subseteq Range(delivered) \cup Range(fetched)
  BY <1>5, <1>7
<1> QED
  BY <1>6, <1>8, <1>9 DEF Assembled

(* conn.rs:544: a listener's Conn that keeps more unfinished messages than *)
(* the limit does so for good and puts none of them together any more,     *)
(* whatever fragments come, in whatever order and however often.           *)
THEOREM StuckForGood == Spec => SplitsStuck
<1> DEFINE A == /\ TooManySplits'
                /\ \A m \in Messages : Frags[m] > 1 /\ Assembled(m)' => Assembled(m)
<1>1. TypeOK /\ [Next]_vars => [TooManySplits => A]_vars
  <2> SUFFICES ASSUME TypeOK, [Next]_vars, TooManySplits PROVE A
    OBVIOUS
  <2>1. ASSUME UNCHANGED <<splits, pqQueue, fetched, delivered>> PROVE A
    BY <2>1 DEF TooManySplits, Assembled
  <2> HIDE DEF A
  <2>2. CASE Write
    BY <2>1, <2>2 DEF Write, queueVars, taskVars
  <2>3. ASSUME NEW a \in acks \ lost, HandleAck(a) PROVE A
    BY <2>1, <2>3 DEF HandleAck, queueVars, taskVars
  <2>4. ASSUME NEW a \in acks \ lost, HandleNack(a) PROVE A
    BY <2>1, <2>4 DEF HandleNack, Retransmit, queueVars, taskVars
  <2>5. ASSUME NEW old \in SUBSET DOMAIN unacknowledged, CheckResend(old) PROVE A
    BY <2>1, <2>5 DEF CheckResend, Retransmit, queueVars, taskVars
  <2>6. ASSUME NEW d \in net \ lost, ReceiveDatagram(d) PROVE A
    BY <2>1, <2>6 DEF ReceiveDatagram, queueVars
  <2>7. ASSUME NEW pk \in inHand, HandleDatagram(pk) PROVE A
    BY <2>7, HandleDatagramStuck DEF A
  <2>8. CASE HandlePacket
    <3>1. splits' = splits
      BY <2>8 DEF HandlePacket, queueVars
    <3>2. TooManySplits'
      BY <3>1 DEF TooManySplits
    <3> QED
      BY <2>8, <3>2, HandlePacketStuck DEF A
  <2>9. CASE FlushAcks
    BY <2>1, <2>9 DEF FlushAcks, queueVars, taskVars
  <2>10. CASE Close
    BY <2>1, <2>10 DEF Close, queueVars
  <2>11. ASSUME NEW x \in (net \cup acks) \ lost, Lose(x) PROVE A
    BY <2>1, <2>11 DEF Lose, queueVars, taskVars
  <2>12. CASE UNCHANGED vars
    BY <2>1, <2>12 DEF vars, queueVars, taskVars
  <2> QED
    BY <2>2, <2>3, <2>4, <2>5, <2>6, <2>7, <2>8, <2>9, <2>10, <2>11, <2>12 DEF Next
<1> QED
  BY <1>1, TypeCorrect, PTL DEF Spec, SplitsStuck

(* One key more or less is one more or less to count, at the most.         *)
LEMMA OneKey ==
  ASSUME NEW D, IsFiniteSet(D), NEW x, NEW n \in Nat, Cardinality(D) <= n
  PROVE  Cardinality(D \cup {x}) <= n + 1 /\ Cardinality(D \ {x}) <= n + 1
<1>1. Cardinality(D) \in Nat
  BY FS_CardinalityType, Zenon
<1>2. Cardinality(D \cup {x}) = IF x \in D THEN Cardinality(D) ELSE Cardinality(D) + 1
  BY FS_AddElement, Zenon
<1>3. Cardinality(D \ {x}) = IF x \in D THEN Cardinality(D) - 1 ELSE Cardinality(D)
  BY FS_RemoveElement, Zenon
<1> DEFINE c == Cardinality(D)
<1> HIDE DEF c
<1>4. (IF x \in D THEN c ELSE c + 1) <= n + 1 /\ (IF x \in D THEN c - 1 ELSE c) <= n + 1
  BY <1>1 DEF c
<1> QED
  BY <1>2, <1>3, <1>4, Zenon DEF c

(* ... and it never keeps more of them than one above the limit.           *)
THEOREM OneMoreThanTheLimit ==
  Spec => [](Listening => Cardinality(DOMAIN splits) <= MaxSplits + 1)
<1> DEFINE B == Listening => Cardinality(DOMAIN splits) <= MaxSplits + 1
<1>1. Init => B
  <2>1. ASSUME Init PROVE Cardinality(DOMAIN splits) = 0
    BY <2>1, FS_EmptySet DEF Init
  <2> QED
    BY <2>1
<1>2. TypeOK /\ B /\ [Next]_vars => B'
  <2> SUFFICES ASSUME TypeOK, B, [Next]_vars, Listening
               PROVE  Cardinality(DOMAIN splits') <= MaxSplits + 1
    OBVIOUS
  <2> DEFINE D == DOMAIN splits
  <2>1. IsFiniteSet(D) /\ Cardinality(D) \in Nat
    <3>1. IsFiniteSet(0 .. (SplitMod - 1))
      BY FS_Interval
    <3> QED
      BY <3>1, FS_Subset, FS_CardinalityType DEF TypeOK
  <2>2. CASE UNCHANGED splits
    BY <2>2
  <2>3. ASSUME NEW pk \in inHand, HandleDatagram(pk), splits' # splits
        PROVE  Cardinality(DOMAIN splits') <= MaxSplits + 1
    <3>1. /\ ~ SplitRefused(pk)
          /\ \/ \E f : splits' = WithEntry(pk.split_id, f)
             \/ splits' = Restrict(splits, D \ {pk.split_id})
      BY <2>3 DEF HandleDatagram, queueVars
    <3>2. ~ Cardinality(D) > MaxSplits
      BY <3>1 DEF SplitRefused
    <3>3. DOMAIN splits' = D \cup {pk.split_id} \/ DOMAIN splits' = D \ {pk.split_id}
      BY <3>1 DEF WithEntry, Restrict
    <3> HIDE DEF D
    <3>4. Cardinality(D) <= MaxSplits
      BY <2>1, <3>2
    <3>5. /\ Cardinality(D \cup {pk.split_id}) <= MaxSplits + 1
          /\ Cardinality(D \ {pk.split_id}) <= MaxSplits + 1
      BY <2>1, <3>4, OneKey
    <3> QED
      BY <3>3, <3>5, Zenon
  <2>4. (\E pk \in inHand : HandleDatagram(pk)) \/ UNCHANGED splits
    BY DEF Next, Write, HandleAck, HandleNack, CheckResend, Retransmit, ReceiveDatagram,
           HandlePacket, FlushAcks, Close, Lose, vars, queueVars
  <2> HIDE DEF D
  <2> QED
    BY <2>2, <2>3, <2>4
<1> QED
  BY <1>1, <1>2, TypeCorrect, PTL DEF Spec
=============================================================================
