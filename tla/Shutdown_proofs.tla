--------------------------- MODULE Shutdown_proofs ---------------------------
(***************************************************************************)
(* Theorems of Shutdown, for channels of any capacity and a peer that      *)
(* sends anything, any number of times.                                    *)
(***************************************************************************)
EXTENDS Shutdown, FiniteSetTheorems, SequenceTheorems, TLAPS

USE ShutdownAssumption

-----------------------------------------------------------------------------
(* The parts of TypeOK, by who changes them.                               *)

Datagrams == -1 .. MaxTracked

(* Where the tasks are, and the flags they set.                            *)
PlacesOK ==
    /\ ticker \in {"select", "flush", "acking", "resend", "check", "decide", "done"}
    /\ sender \in {"select", "sending", "draining", "done"}
    /\ receiver \in {"select", "ack", "data", "disconnect", "bad", "content",
                      "goodbye", "delivering", "handled", "done"}
    /\ reader \in {"idle", "select", "ended"}
    /\ writer \in {"idle", "checked", "sending", "refused"}
FlagsOK ==
    /\ closing \in {"no", "young", "mature", "overdue"}
    /\ closed \in BOOLEAN /\ ackDue \in BOOLEAN /\ quiet \in BOOLEAN
NotifyOK == waiting \subseteq Tasks /\ woken \subseteq waiting
ChannelsOK == /\ outbox \in Seq(Datagrams) /\ Len(outbox) <= OutSize
              /\ mailbox \in 0 .. InSize
PacketsOK ==
    /\ carried \in Datagrams /\ acksLeft \subseteq 0 .. MaxTracked
    /\ spawned \subseteq {"ping", "farewell"}
    /\ unacked \subseteq 0 .. MaxTracked /\ owed \subseteq 0 .. MaxTracked
    /\ sent \subseteq 0 .. MaxTracked
    /\ tracked \in 0 .. MaxTracked /\ inbound \in 0 .. MaxInbound

LEMMA TypeParts ==
  TypeOK <=> PlacesOK /\ FlagsOK /\ NotifyOK /\ ChannelsOK /\ PacketsOK
BY DEF TypeOK, PlacesOK, FlagsOK, NotifyOK, ChannelsOK, PacketsOK, Datagrams

-----------------------------------------------------------------------------
(* The channel to the sender task.                                         *)

(* Neither way to offer a datagram overfills it.                           *)
LEMMA SendAwaitType ==
  ASSUME ChannelsOK, NEW x \in Datagrams, SendAwait(x), UNCHANGED mailbox
  PROVE  ChannelsOK'
<1>1. CASE UNCHANGED outbox
  BY <1>1 DEF ChannelsOK
<1>2. CASE Len(outbox) < OutSize /\ outbox' = Append(outbox, x)
  BY <1>2 DEF ChannelsOK
<1> QED
  BY <1>1, <1>2 DEF SendAwait, Room

LEMMA TrySendType ==
  ASSUME ChannelsOK, NEW xs \in Seq(Datagrams), TrySend(xs), UNCHANGED mailbox
  PROVE  ChannelsOK'
<1> DEFINE all == outbox \o xs
<1>1. all \in Seq(Datagrams) /\ Len(all) \in Nat
  BY DEF ChannelsOK
<1>2. outbox' = IF sender = "done" THEN outbox
                ELSE IF Len(all) > OutSize THEN SubSeq(all, 1, OutSize) ELSE all
  BY DEF TrySend
<1> HIDE DEF all
<1>3. Len(all) > OutSize => /\ SubSeq(all, 1, OutSize) \in Seq(Datagrams)
                            /\ Len(SubSeq(all, 1, OutSize)) = OutSize
  BY <1>1
<1> QED
  BY <1>1, <1>2, <1>3 DEF ChannelsOK

LEMMA ChannelsStep ==
  ASSUME TypeOK, [Next]_vars
  PROVE  ChannelsOK'
<1>0. ChannelsOK /\ PacketsOK /\ -1 \in Datagrams
  BY TypeParts DEF Datagrams
<1>1. CASE UNCHANGED channels
  BY <1>0, <1>1 DEF channels, ChannelsOK
<1>2. CASE FlushAcks
  <2>1. UNCHANGED mailbox /\ (SendAwait(Ack) \/ UNCHANGED outbox)
    BY <1>2 DEF FlushAcks
  <2>2. Ack \in Datagrams
    BY DEF Ack, Datagrams
  <2> QED
    BY <1>0, <1>1, <2>1, <2>2, SendAwaitType DEF channels
<1>3. CASE CheckResend
  <2>1. UNCHANGED mailbox /\ (\/ UNCHANGED outbox
                             \/ \E n \in 1 .. Cardinality(unacked) :
                                   \E old \in [1 .. n -> unacked] : TrySend(old))
    BY <1>3 DEF CheckResend
  <2>2. ASSUME NEW n \in 1 .. Cardinality(unacked), NEW old \in [1 .. n -> unacked],
               TrySend(old)
        PROVE  ChannelsOK'
    <3>1. unacked \subseteq Datagrams
      BY <1>0 DEF PacketsOK, Datagrams
    <3>2. n \in Nat
      <4>1. unacked \subseteq 0 .. MaxTracked /\ MaxTracked \in Nat
        BY <1>0 DEF PacketsOK
      <4>2. IsFiniteSet(0 .. MaxTracked)
        BY <4>1, FS_Interval
      <4>3. IsFiniteSet(unacked)
        BY <4>1, <4>2, FS_Subset
      <4>4. Cardinality(unacked) \in Nat
        BY <4>3, FS_CardinalityType
      <4> QED
        BY <4>4
    <3>3. old \in Seq(Datagrams)
      BY <3>1, <3>2
    <3> QED
      BY <1>0, <2>1, <2>2, <3>3, TrySendType
  <2> QED
    BY <1>1, <2>1, <2>2 DEF channels
<1>4. CASE SenderTakes
  BY <1>0, <1>4 DEF SenderTakes, ChannelsOK
<1>5. CASE SenderDrains
  BY <1>0, <1>5 DEF SenderDrains, ChannelsOK
<1>6. ASSUME NEW message \in spawned, SpawnedSends(message)
      PROVE  ChannelsOK'
  <2> DEFINE x == IF message = "farewell" THEN Farewell ELSE tracked + 1
  <2>1. x \in Datagrams
    BY <1>0, <1>6 DEF SpawnedSends, PacketsOK, Farewell, Datagrams
  <2>2. TrySend(<<x>>) /\ UNCHANGED mailbox
    BY <1>6 DEF SpawnedSends
  <2> HIDE DEF x
  <2>3. <<x>> \in Seq(Datagrams)
    BY <2>1
  <2> QED
    BY <1>0, <2>2, <2>3, TrySendType
<1>7. CASE HandlePacket
  BY <1>0, <1>7 DEF HandlePacket, ChannelsOK
<1>8. CASE ReadPacket
  BY <1>0, <1>8 DEF ReadPacket, ChannelsOK
<1>9. CASE WriteSends
  <2>1. SendAwait(tracked) /\ UNCHANGED mailbox
    BY <1>9 DEF WriteSends
  <2>2. tracked \in Datagrams
    BY <1>0 DEF PacketsOK, Datagrams
  <2> QED
    BY <1>0, <2>1, <2>2, SendAwaitType
<1> QED
  BY <1>1, <1>2, <1>3, <1>4, <1>5, <1>6, <1>7, <1>8, <1>9
  DEF Next, Ticker, Sender, Handle, Read, TickerTicks, TickerCancelled,
      TickerIdles, TickerPings, TickerLooks, TickerDecides, SenderSends,
      SenderCancelled, ReceiverLoops, ReceiverCancelled, HandleAck,
      ReceiveDatagram, ReceiveFails, Receive, ReadStarts, ReadCancelled,
      WriteStarts, WriteLocked, Close, CloseFromOutside, Age, GoesQuiet, vars

-----------------------------------------------------------------------------
(* The other parts.                                                        *)

LEMMA PlacesStep ==
  ASSUME TypeOK, [Next]_vars
  PROVE  PlacesOK'
<1>0. PlacesOK /\ Kinds \subseteq {"ack", "data", "disconnect", "bad"}
  BY TypeParts
<1>1. CASE Ticker
  BY <1>0, <1>1 DEF PlacesOK, Ticker, TickerTicks, TickerCancelled, FlushAcks,
     CheckResend, TickerIdles, TickerPings, TickerLooks, TickerDecides
<1>2. CASE Sender
  BY <1>0, <1>2 DEF PlacesOK, Sender, SenderTakes, SenderSends, SenderCancelled,
     SenderDrains
<1>3. CASE Handle
  BY <1>0, <1>3 DEF PlacesOK, Handle, ReceiverLoops, ReceiverCancelled, HandleAck,
     ReceiveDatagram, HandlePacket, ReceiveFails
<1>4. CASE Read
  BY <1>0, <1>4 DEF PlacesOK, Read, ReadStarts, ReadPacket, ReadCancelled
<1>5. ASSUME NEW kind \in Kinds, Receive(kind) PROVE PlacesOK'
  BY <1>0, <1>5 DEF PlacesOK, Receive
<1>6. CASE WriteStarts \/ WriteLocked \/ WriteSends
  BY <1>0, <1>6 DEF PlacesOK, WriteStarts, WriteLocked, WriteSends
<1>7. CASE UNCHANGED tasks
  BY <1>0, <1>7 DEF PlacesOK, tasks
<1> QED
  BY <1>1, <1>2, <1>3, <1>4, <1>5, <1>6, <1>7
  DEF Next, SpawnedSends, Close, CloseFromOutside, Age, GoesQuiet, vars

(* What the two ways to close do to flags and notifications.               *)
LEMMA CloseImmediatelyType ==
  ASSUME TypeOK, CloseImmediately
  PROVE  /\ closed' \in BOOLEAN
         /\ waiting' = waiting /\ woken' \subseteq waiting
         /\ spawned' \subseteq spawned \cup {"farewell"}
<1>1. closed \in BOOLEAN /\ woken \subseteq waiting
  BY DEF TypeOK
<1>2. CASE closed
  BY <1>1, <1>2 DEF CloseImmediately
<1>3. CASE ~ closed
  BY <1>3 DEF CloseImmediately
<1> QED
  BY <1>2, <1>3

LEMMA FlagsStep ==
  ASSUME TypeOK, [Next]_vars
  PROVE  FlagsOK'
<1>0. FlagsOK
  BY TypeParts
<1>1. CASE UNCHANGED <<closing, closed, ackDue, quiet>>
  BY <1>0, <1>1 DEF FlagsOK
<1>2. ASSUME UNCHANGED <<flags, ackDue>>, quiet' \in BOOLEAN PROVE FlagsOK'
  BY <1>0, <1>2 DEF FlagsOK, flags
<1>3. ASSUME UNCHANGED <<flags, quiet>>, ackDue' \in BOOLEAN PROVE FlagsOK'
  BY <1>0, <1>3 DEF FlagsOK, flags
<1>4. ASSUME closing' \in {"no", "young", "mature", "overdue"},
             UNCHANGED <<closed, ackDue, quiet>>
      PROVE  FlagsOK'
  BY <1>0, <1>4 DEF FlagsOK
<1>5. ASSUME CloseImmediately \/ UNCHANGED <<closed>>,
             UNCHANGED <<closing, ackDue, quiet>>
      PROVE  FlagsOK'
  BY <1>0, <1>5, CloseImmediatelyType DEF FlagsOK
<1>6. CASE FlushAcks
  BY <1>0, <1>3, <1>6 DEF FlushAcks, FlagsOK
<1>7. CASE TickerPings \/ Close \/ Age
  <2>1. closing \in {"no", "young", "mature", "overdue"}
    BY <1>0 DEF FlagsOK
  <2>2. closing' \in {"no", "young", "mature", "overdue"}
    BY <1>7, <2>1 DEF TickerPings, Close, Age, StartClosing
  <2>3. UNCHANGED <<closed, ackDue, quiet>>
    BY <1>7 DEF TickerPings, Close, Age, packets
  <2> QED
    BY <1>4, <2>2, <2>3
<1>8. CASE TickerDecides \/ HandlePacket \/ CloseFromOutside
  BY <1>5, <1>8 DEF TickerDecides, HandlePacket, CloseFromOutside, packets
<1>9. CASE HandleAck \/ WriteLocked \/ \E message \in spawned : SpawnedSends(message)
  BY <1>1, <1>9 DEF HandleAck, WriteLocked, SpawnedSends, flags
<1>10. CASE GoesQuiet \/ \E kind \in Kinds : Receive(kind)
  BY <1>2, <1>10 DEF GoesQuiet, Receive, packets
<1>11. CASE ReceiveDatagram
  BY <1>3, <1>11 DEF ReceiveDatagram
<1> QED
  BY <1>1, <1>6, <1>7, <1>8, <1>9, <1>10, <1>11
  DEF Next, Ticker, Sender, Handle, Read, TickerTicks, TickerCancelled, CheckResend,
      TickerIdles, TickerLooks, SenderTakes, SenderSends, SenderCancelled,
      SenderDrains, ReceiverLoops, ReceiverCancelled, ReceiveFails, ReadStarts,
      ReadPacket, ReadCancelled, WriteStarts, WriteSends, packets, flags, vars

LEMMA NotifyStep ==
  ASSUME TypeOK, [Next]_vars
  PROVE  NotifyOK'
<1>0. NotifyOK
  BY TypeParts
<1>1. CASE UNCHANGED <<waiting, woken>>
  BY <1>0, <1>1 DEF NotifyOK
<1>2. ASSUME NEW t \in Tasks, Enter(t) \/ Leave(t) PROVE NotifyOK'
  BY <1>0, <1>2 DEF NotifyOK, Enter, Leave
<1>3. CASE CloseImmediately
  BY <1>0, <1>3, CloseImmediatelyType DEF NotifyOK
<1>4. CASE Ticker
  BY <1>1, <1>2, <1>3, <1>4
  DEF Ticker, TickerTicks, TickerCancelled, FlushAcks, CheckResend, TickerIdles,
      TickerPings, TickerLooks, TickerDecides, Tasks
<1>5. CASE Sender
  BY <1>1, <1>2, <1>5
  DEF Sender, SenderTakes, SenderSends, SenderCancelled, SenderDrains, Tasks
<1>6. CASE Handle
  BY <1>1, <1>2, <1>3, <1>6
  DEF Handle, ReceiverLoops, EnterReceiver, ReceiverCancelled, HandleAck,
      ReceiveDatagram, HandlePacket, ReceiveFails, Tasks
<1>7. CASE Read
  BY <1>2, <1>7 DEF Read, ReadStarts, ReadPacket, ReadCancelled, Tasks
<1>8. ASSUME NEW kind \in Kinds, Receive(kind) PROVE NotifyOK'
  BY <1>1, <1>2, <1>8 DEF Receive, Tasks
<1> QED
  BY <1>1, <1>3, <1>4, <1>5, <1>6, <1>7, <1>8
  DEF Next, SpawnedSends, WriteStarts, WriteLocked, WriteSends, Close,
      CloseFromOutside, Age, GoesQuiet, vars

LEMMA PacketsStep ==
  ASSUME TypeOK, [Next]_vars
  PROVE  PacketsOK'
<1>0. PacketsOK /\ ChannelsOK
  BY TypeParts
<1>1. ASSUME UNCHANGED <<carried, acksLeft, unacked, tracked, owed, sent>>,
             spawned' \subseteq {"ping", "farewell"}, inbound' \in 0 .. MaxInbound
      PROVE  PacketsOK'
  BY <1>0, <1>1 DEF PacketsOK
<1>2. CASE TickerPings \/ Close
  <2>1. owed' \in {owed, unacked}
    BY <1>2 DEF TickerPings, Close, StartClosing
  <2>2. spawned' \subseteq {"ping", "farewell"}
    BY <1>0, <1>2 DEF TickerPings, Close, PacketsOK
  <2>3. UNCHANGED <<carried, acksLeft, unacked, sent, tracked, inbound>>
    BY <1>2 DEF TickerPings, Close, packets, tasks
  <2> QED
    BY <1>0, <2>1, <2>2, <2>3 DEF PacketsOK
<1>3. CASE TickerLooks
  BY <1>0, <1>3 DEF TickerLooks, packets, flags, PacketsOK
<1>4. CASE TickerDecides
  <2>1. spawned' \subseteq spawned \cup {"farewell"}
    BY <1>4, CloseImmediatelyType DEF TickerDecides
  <2> QED
    BY <1>0, <1>4, <2>1 DEF TickerDecides, packets, PacketsOK
<1>5. CASE SenderTakes
  <2>1. Head(outbox) \in Datagrams
    BY <1>0, <1>5 DEF SenderTakes, ChannelsOK
  <2> QED
    BY <1>0, <1>5, <2>1 DEF SenderTakes, packets, flags, PacketsOK
<1>6. CASE SenderSends
  BY <1>0, <1>6 DEF SenderSends, packets, flags, PacketsOK, Ack, Datagrams
<1>7. CASE SenderDrains
  <2>1. outbox # <<>> => Head(outbox) \in Datagrams
    BY <1>0 DEF ChannelsOK
  <2>2. outbox # <<>> => {Head(outbox)} \ {Ack} \subseteq 0 .. MaxTracked
    BY <2>1 DEF Ack, Datagrams
  <2>3. sent' = sent \/ (outbox # <<>> /\ sent' = sent \cup ({Head(outbox)} \ {Ack}))
    BY <1>7 DEF SenderDrains
  <2>4. sent' \subseteq 0 .. MaxTracked
    BY <1>0, <2>2, <2>3 DEF PacketsOK
  <2> QED
    BY <1>0, <1>7, <2>4 DEF SenderDrains, packets, flags, PacketsOK
<1>8. ASSUME NEW message \in spawned, SpawnedSends(message)
      PROVE  PacketsOK'
  BY <1>0, <1>8 DEF SpawnedSends, PacketsOK, Farewell, tasks, flags
<1>9. CASE HandleAck
  BY <1>0, <1>9 DEF HandleAck, PacketsOK
<1>10. CASE WriteLocked
  <2>1. tracked' \in 0 .. MaxTracked /\ unacked' \subseteq unacked \cup {tracked'}
    BY <1>0, <1>10 DEF WriteLocked, PacketsOK
  <2> QED
    BY <1>0, <1>10, <2>1 DEF WriteLocked, PacketsOK, flags
<1>11. CASE HandlePacket \/ CloseFromOutside
  <2>1. spawned' \subseteq spawned \cup {"farewell"}
    BY <1>11, CloseImmediatelyType DEF HandlePacket, CloseFromOutside
  <2> QED
    BY <1>0, <1>1, <1>11, <2>1
    DEF HandlePacket, CloseFromOutside, packets, tasks, PacketsOK
<1>12. ASSUME NEW kind \in Kinds, Receive(kind) PROVE PacketsOK'
  BY <1>0, <1>1, <1>12 DEF Receive, packets, flags, PacketsOK
<1>13. CASE UNCHANGED <<carried, acksLeft, unacked, tracked, owed, sent, spawned, inbound>>
  BY <1>0, <1>13 DEF PacketsOK
<1> QED
  BY <1>2, <1>3, <1>4, <1>5, <1>6, <1>7, <1>8, <1>9, <1>10, <1>11, <1>12, <1>13
  DEF Next, Ticker, Sender, Handle, Read, TickerTicks, TickerCancelled, FlushAcks,
      CheckResend, TickerIdles, SenderCancelled, ReceiverLoops, ReceiverCancelled,
      ReceiveDatagram, ReceiveFails, ReadStarts, ReadPacket, ReadCancelled,
      WriteStarts, WriteSends, Age, GoesQuiet, packets, flags, tasks, vars

(* Every variable has the type its field, or its task, has.                *)
THEOREM TypeCorrect == Spec => []TypeOK
<1>1. Init => TypeOK
  <2> SUFFICES ASSUME Init PROVE TypeOK
    OBVIOUS
  <2>1. ChannelsOK
    BY DEF Init, ChannelsOK
  <2>2. PlacesOK /\ FlagsOK
    BY DEF Init, PlacesOK, FlagsOK
  <2>3. NotifyOK /\ PacketsOK
    BY DEF Init, NotifyOK, PacketsOK, Ack, Datagrams, Tasks
  <2> QED
    BY <2>1, <2>2, <2>3, TypeParts
<1>2. TypeOK /\ [Next]_vars => TypeOK'
  <2> SUFFICES ASSUME TypeOK, [Next]_vars PROVE TypeOK'
    OBVIOUS
  <2>1. PlacesOK' /\ FlagsOK' /\ NotifyOK' /\ ChannelsOK' /\ PacketsOK'
    BY PlacesStep, FlagsStep, NotifyStep, ChannelsStep, PacketsStep
  <2> QED
    BY <2>1 DEF TypeOK, PlacesOK, FlagsOK, NotifyOK, ChannelsOK, PacketsOK, Datagrams
<1> QED
  BY <1>1, <1>2, PTL DEF Spec

-----------------------------------------------------------------------------
(* How the connection ends.                                                *)

(* A packet that was tracked when close was called and is not acknowledged *)
(* is in the resend map, and in what the ticker read of it, if it is about *)
(* to decide.                                                              *)
THEOREM OwedIsTracked == Spec => []OwedTracked
<1>1. Init => OwedTracked
  BY DEF Init, OwedTracked
<1>2. OwedTracked /\ [Next]_vars => OwedTracked'
  <2> SUFFICES ASSUME OwedTracked, [Next]_vars PROVE OwedTracked'
    OBVIOUS
  <2>1. ASSUME UNCHANGED <<closing, owed, acksLeft>>, unacked \subseteq unacked',
               ticker' = ticker \/ ticker' # "decide"
        PROVE  OwedTracked'
    BY <2>1 DEF OwedTracked
  <2>2. CASE TickerPings
    BY <2>2 DEF TickerPings, StartClosing, OwedTracked, packets
  <2>3. CASE TickerLooks
    BY <2>3 DEF TickerLooks, OwedTracked, packets, flags
  <2>4. CASE TickerDecides
    BY <2>4 DEF TickerDecides, OwedTracked, packets
  <2>5. CASE Close
    BY <2>5 DEF Close, StartClosing, OwedTracked, packets, tasks
  <2>6. CASE Age
    BY <2>6 DEF Age, OwedTracked, packets, tasks
  <2>7. CASE HandleAck
    BY <2>7 DEF HandleAck, OwedTracked
  <2>8. CASE UNCHANGED <<closing, owed, acksLeft, unacked, ticker>>
    BY <2>1, <2>8
  <2>9. CASE TickerTicks \/ TickerCancelled \/ FlushAcks \/ CheckResend \/ TickerIdles
    BY <2>1, <2>9
    DEF TickerTicks, TickerCancelled, FlushAcks, CheckResend, TickerIdles, packets, flags
  <2>10. CASE WriteLocked \/ \E message \in spawned : SpawnedSends(message)
    BY <2>1, <2>10 DEF WriteLocked, SpawnedSends, flags, tasks
  <2> QED
    BY <2>2, <2>3, <2>4, <2>5, <2>6, <2>7, <2>8, <2>9, <2>10
    DEF Next, Ticker, Sender, Handle, Read, SenderTakes, SenderSends, SenderCancelled,
        SenderDrains, ReceiverLoops, ReceiverCancelled, ReceiveDatagram, HandlePacket,
        ReceiveFails, ReadStarts, ReadPacket, ReadCancelled, Receive, WriteStarts,
        WriteSends, CloseFromOutside, GoesQuiet, packets, flags, tasks, vars
<1> QED
  BY <1>1, <1>2, PTL DEF Spec

(* close is graceful: unless 5 s have passed, the ticker ends a connection *)
(* only when everything that was tracked when close was called has been    *)
(* acknowledged, although it decides with what it read under an earlier    *)
(* lock.                                                                   *)
THEOREM GracefulClose == Spec => ClosesGracefully
<1> DEFINE Graceful == ticker = "decide" /\ ticker' = "done" /\ closing # "overdue"
                          => owed = {}
<1>1. OwedTracked /\ [Next]_vars => [Graceful]_vars
  <2> SUFFICES ASSUME OwedTracked, Next, ticker = "decide", ticker' = "done",
                      closing # "overdue"
               PROVE  owed = {}
    OBVIOUS
  <2>1. TickerDecides
    BY DEF Next, Ticker, Sender, Handle, Read, TickerTicks, TickerCancelled, FlushAcks,
       CheckResend, TickerIdles, TickerPings, TickerLooks, SenderTakes, SenderSends,
       SenderCancelled, SenderDrains, ReceiverLoops, ReceiverCancelled, HandleAck,
       ReceiveDatagram, HandlePacket, ReceiveFails, ReadStarts, ReadPacket,
       ReadCancelled, SpawnedSends, Receive, WriteStarts, WriteLocked, WriteSends,
       Close, CloseFromOutside, Age, GoesQuiet, tasks
  <2>2. acksLeft = {}
    BY <2>1 DEF TickerDecides, TimeToClose
  <2> QED
    BY <2>2 DEF OwedTracked
<1> HIDE DEF Graceful
<1>2. Spec => [][Graceful]_vars
  BY <1>1, OwedIsTracked, PTL DEF Spec
<1> QED
  BY <1>2 DEF ClosesGracefully, Graceful
=============================================================================
