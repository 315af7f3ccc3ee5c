---------------------------- MODULE Reliability ----------------------------
(***************************************************************************)
(* One direction of an established connection: the Conn that writes (S),   *)
(* the Conn that receives (R) and the UDP path between them.               *)
(*                                                                         *)
(* S is ConnState.seq, order_index, split_id and retransmission; R is win, *)
(* ack_slice, splits, packet_queue and what its receive task holds between *)
(* two lock regions.  One action is one region under the state lock, with  *)
(* the local steps up to the next await.  The other direction is the same  *)
(* module with the roles exchanged: the two share no state.                *)
(*                                                                         *)
(* Messages are numbered 0, 1, ... in the order write takes the lock.      *)
(* Message m is cut into Frags[m] pieces by packet::split; a piece is the  *)
(* pair <<m, j>>, and a complete content is the function of its pieces.    *)
(***************************************************************************)
EXTENDS WindowOps, Sequences, FiniteSets, Functions

CONSTANTS
    N,              \* how many messages S writes
    Frags,          \* how many packets each message is split into
    SplitMod,       \* 2^16: split_id is sent as a u16
    MaxSplits,      \* MAX_CONCURRENT_SPLITS
    MaxSplitCount,  \* MAX_SPLIT_COUNT
    Listening,      \* handler.limits_enabled(): R is the listener's Conn
    Rejected,       \* messages on which handler.handle may return an error
    Cancelled,      \* messages whose write may be cancelled, or fail, on its way
    MayClose,       \* whether close() is called on R
    MaxLost,        \* bound: packets of either direction the path loses
    MaxHitches      \* bound: cancelled writes and needless retransmissions

ASSUME FragsAssumption == N \in Nat /\ Frags \in [0 .. (N - 1) -> Nat \ {0}]
ASSUME SplitModAssumption == SplitMod \in Nat \ {0}
ASSUME LimitsAssumption ==
    /\ MaxSplits \in Nat /\ MaxSplitCount \in Nat
    /\ MaxLost \in Nat /\ MaxHitches \in Nat
ASSUME FlagsAssumption == Listening \in BOOLEAN /\ MayClose \in BOOLEAN

Messages == 0 .. (N - 1)

VARIABLES
    \* S
    seq, order_index, split_id,
    unacknowledged,   \* sequence number -> packet waiting for its ACK
    \* R
    winLowest, winHighest, winQueue,    \* DatagramWindow, queue by its keys
    ack_slice,                          \* accepted, not acknowledged yet
    splits,                             \* split id -> pieces received
    pqLowest, pqHighest, pqQueue,       \* PacketQueue
    inHand,        \* packet of the datagram being handled: {} or {pk}
    fetched,       \* contents taken from the queue, not handled yet
    receiving,     \* "ok", "failed" (an error was returned), "stopped"
    closing,       \* whether the atomic `closing` is not 0
    delivered,     \* contents handled or handed to read(), in order
    \* the path
    net,           \* every datagram ever sent: it may arrive late or twice
    acks,          \* every ACK and NACK ever sent
    lost,          \* those that will never arrive
    \* history used by bounds and properties only (built stops at SeqEnd)
    written, built, hitches

senderVars   == <<seq, order_index, split_id, unacknowledged, written, built>>
windowVars   == <<winLowest, winHighest, winQueue, ack_slice>>
queueVars    == <<splits, pqLowest, pqHighest, pqQueue>>
taskVars     == <<inHand, fetched, receiving, closing, delivered>>
vars == <<senderVars, windowVars, queueVars, taskVars, net, acks, lost, hitches>>

-----------------------------------------------------------------------------
(* Data.                                                                   *)

(* What a packet can carry, and what can be put together from such pieces. *)
Pieces   == UNION {{<<m, j>> : j \in 0 .. (Frags[m] - 1)} : m \in Messages}
Counts   == {1} \cup Range(Frags)
Contents == UNION {[0 .. (n - 1) -> Pieces] : n \in Counts}
NoPiece  == <<>>      \* a Vec of Vecs starts with empty ones

(* A packet on the wire: a fragment of message m.  write sets the split    *)
(* flag exactly when split_count exceeds 1, and nothing reads the other    *)
(* split fields of a packet without the flag.                              *)
PacketFor(m, j, order, id) ==
    [order_index |-> order, split_id |-> id, split_count |-> Frags[m],
     split_index |-> j, content |-> <<m, j>>]

Packets == [order_index : 0 .. (SeqEnd - 1), split_id : 0 .. (SplitMod - 1),
            split_count : Counts, split_index : Nat, content : Pieces]

IsSplit(pk) == pk.split_count > 1

(* What write was given: the content the receiver should be handed.        *)
Whole(m) == [j \in 0 .. (Frags[m] - 1) |-> <<m, j>>]

Init ==
    /\ seq = 0 /\ order_index = 0 /\ split_id = 0
    /\ unacknowledged = [s \in {} |-> {}]
    /\ winLowest = 0 /\ winHighest = 0 /\ winQueue = {}
    /\ ack_slice = {}
    /\ splits = [id \in {} |-> <<>>]
    /\ pqLowest = 0 /\ pqHighest = 0 /\ pqQueue = [i \in {} |-> <<>>]
    /\ inHand = {} /\ fetched = <<>> /\ receiving = "ok"
    /\ closing = FALSE /\ delivered = <<>>
    /\ net = {} /\ acks = {} /\ lost = {}
    /\ written = 0 /\ built = 0 /\ hitches = 0

-----------------------------------------------------------------------------
(* The sender.                                                             *)

NextSeq(k) == Uint24(seq + k)
OffsetOf(s) == Uint24(s - seq)

(* seq.inc() once per packet, retransmission.add(seq, pk) and the datagram *)
(* on the wire, for the n packets pks[0], ..., pks[n - 1], after `kept` of *)
(* the map survives.  Bound: S never has SeqEnd packets outstanding, so    *)
(* that no insertion overwrites another.  (mutated: sent, not tracked.)    *)
TransmitUntracked(kept, pks, n) ==
    /\ unacknowledged' = Restrict(unacknowledged, kept)
    /\ net' = net \cup {[seq |-> NextSeq(k), pk |-> pks[k]] : k \in 0 .. (n - 1)}
    /\ seq' = NextSeq(n) /\ built' = built
Transmit(kept, pks, n) ==
    LET new == {NextSeq(k) : k \in 0 .. (n - 1)} IN
    /\ n < SeqEnd /\ new \cap kept = {}
    /\ unacknowledged' = [s \in kept \cup new |->
           IF s \in new THEN pks[OffsetOf(s)] ELSE unacknowledged[s]]
    /\ net' = net \cup {[seq |-> NextSeq(k), pk |-> pks[k]] : k \in 0 .. (n - 1)}
    /\ seq' = NextSeq(n)
    /\ built' = IF built + n < SeqEnd THEN built + n ELSE SeqEnd

(* Conn::write: the state lock is held while every fragment is sent, so    *)
(* the indices of one message are consecutive and no other step of S sees  *)
(* it half written.  Bound: S never has SplitMod split messages            *)
(* outstanding, so that no split id is taken that is still in use.  A      *)
(* write may be cancelled, or fail, where it waits for the channel: the    *)
(* indices are spent, and the last fragment is tracked but not sent.       *)
(* Bound: a cancelled write counts against MaxHitches.                     *)
Write ==
    LET m == written
        n == Frags[m]
        pks == [j \in 0 .. (n - 1) |-> PacketFor(m, j, order_index, split_id)]
    IN  /\ m \in Messages
        /\ n > 1 => \A s \in DOMAIN unacknowledged :
                      IsSplit(unacknowledged[s]) => unacknowledged[s].split_id # split_id
        /\ \E k \in 1 .. n :
             /\ Transmit(DOMAIN unacknowledged, pks, k)
             /\ \/ k = n /\ UNCHANGED <<lost, hitches>>
                \/ /\ m \in Cancelled /\ hitches < MaxHitches
                   /\ lost' = lost \cup {[seq |-> NextSeq(k - 1), pk |-> pks[k - 1]]}
                   /\ hitches' = hitches + 1
        /\ order_index' = Uint24(order_index + 1)
        /\ split_id' = IF n > 1 THEN (split_id + 1) % SplitMod ELSE split_id
        /\ written' = written + 1
        /\ UNCHANGED <<windowVars, queueVars, taskVars, acks>>

(* handle_ack: each listed number is dropped from the map, if present.     *)
(* (mutated: none is.)                                                     *)
HandleAckIgnored(a) == a.kind = "ack" /\ UNCHANGED vars
HandleAck(a) ==
    /\ a.kind = "ack" /\ a.seqs \cap DOMAIN unacknowledged # {}
    /\ unacknowledged' = Restrict(unacknowledged, DOMAIN unacknowledged \ a.seqs)
    /\ UNCHANGED <<seq, order_index, split_id, written, built,
                   windowVars, queueVars, taskVars, net, acks, lost, hitches>>

(* The loop shared by handle_nack and check_resend: each packet leaves the *)
(* map under its old number and enters it under a new one.  `order` lists  *)
(* the old numbers in the order the loop visits them.  (mutated: the old   *)
(* entry stays.)                                                           *)
RetransmitKeeping(order, n) ==
    /\ Transmit(DOMAIN unacknowledged,
                [k \in 0 .. (n - 1) |-> unacknowledged[order[k + 1]]], n)
    /\ UNCHANGED <<order_index, split_id, written,
                   windowVars, queueVars, taskVars, acks, lost>>
Retransmit(order, n) ==
    /\ Transmit(DOMAIN unacknowledged \ Range(order),
                [k \in 0 .. (n - 1) |-> unacknowledged[order[k + 1]]], n)
    /\ UNCHANGED <<order_index, split_id, written,
                   windowVars, queueVars, taskVars, acks, lost>>

(* The numbers of `old` in every order, as 1 .. n -> old without repeats.  *)
Visits(old, n) == {f \in [1 .. n -> old] : IsInjective(f)}

(* handle_nack: Acknowledgement::read yields the numbers in ascending      *)
(* order, because the writer sorted them.                                  *)
HandleNack(a) ==
    LET old == a.seqs \cap DOMAIN unacknowledged
        n   == Cardinality(old)
    IN  /\ a.kind = "nack" /\ old # {}
        /\ \E order \in Visits(old, n) :
             /\ \A i, j \in 1 .. n : i < j => order[i] < order[j]
             /\ Retransmit(order, n)
        /\ UNCHANGED hitches

(* A packet has to be sent again: its datagram cannot be accepted any more *)
(* and no acknowledgement of it is on its way.                             *)
Unanswered(s) ==
    /\ s \notin ack_slice
    /\ \A a \in acks \ lost : ~ (a.kind = "ack" /\ s \in a.seqs)
    /\ \A d \in net \ lost : d.seq = s => Seen(winLowest, winQueue, s)

(* check_resend: the packets older than 1.5 round trips, in the order of a *)
(* HashMap.  Ages are not kept: any packets may be the old ones.  Bound:   *)
(* those of a resend that nothing called for count against MaxHitches.     *)
CheckResend(old) ==
    LET n      == Cardinality(old)
        needed == \A s \in old : Unanswered(s)
    IN  /\ old # {}
        /\ needed \/ hitches + n <= MaxHitches
        /\ \E order \in Visits(old, n) : Retransmit(order, n)
        /\ hitches' = IF needed THEN hitches ELSE hitches + n

-----------------------------------------------------------------------------
(* The receiver.                                                           *)

(* An error leaves the dialer's receive loop for good (dial.rs); the       *)
(* listener blocks the address, for longer than the connection survives    *)
(* silence ("stopped") or, with block_duration zero, not at all.           *)
Fail == receiving' \in IF Listening THEN {"failed", "stopped"} ELSE {"stopped"}

Idle == inHand = {} /\ fetched = <<>>

(* The locked region of receive_datagram: DatagramWindow::add, the ACK     *)
(* noted, shift, and the NACK for what missing returns.  A datagram seen   *)
(* before changes nothing.  The packet stays in hand for the next region.  *)
ReceiveDatagram(d) ==
    LET high == HighestWith(winHighest, d.seq)
        keys == winQueue \cup {d.seq}
        canShift == winLowest \in keys /\ winLowest < high
    IN  /\ receiving # "stopped" /\ Idle
        /\ d \in net \ lost
        /\ ~ Seen(winLowest, winQueue, d.seq)
        /\ ack_slice' = ack_slice \cup {d.seq}
        /\ winHighest' = high
        /\ \E missing \in IF canShift THEN {{}}
                           ELSE MissingLists(winLowest, high, keys) :
             /\ winLowest' \in RunEnds(winLowest, high, keys \cup missing)
             /\ winQueue' = {i \in keys \cup missing : i >= winLowest'}
             /\ acks' = IF missing = {} THEN acks
                        ELSE acks \cup {[kind |-> "nack", seqs |-> missing]}
        /\ IF Listening /\ TooBig(winLowest', high)
             THEN Fail /\ UNCHANGED inHand
             ELSE inHand' = {d.pk} /\ UNCHANGED receiving
        /\ UNCHANGED <<senderVars, queueVars, fetched, closing, delivered,
                       net, lost, hitches>>

(* PacketQueue::put returns false.  (mutated: a packet that comes after a  *)
(* later one is taken for a duplicate.)                                    *)
OccupiedBelowHighest(order) == order < pqHighest
Occupied(order) == Seen(pqLowest, DOMAIN pqQueue, order)

(* The queue after put inserts, and the list fetch returns when its loop   *)
(* stops at index e.                                                       *)
WithPacket(order, content) ==
    [i \in DOMAIN pqQueue \cup {order} |-> IF i = order THEN content ELSE pqQueue[i]]
FetchUpTo(queue, e) == [k \in 1 .. (e - pqLowest) |-> queue[pqLowest + k - 1]]

(* receive_packet for a RELIABLE_ORDERED packet, the only kind a Conn      *)
(* sends: put, the limit, fetch.  (mutated: handled at once, as the other  *)
(* reliabilities are.)                                                     *)
ReceiveUnordered(order, content) ==
    fetched' = <<content>> /\ UNCHANGED <<pqLowest, pqHighest, pqQueue, receiving>>
ReceivePacket(order, content) ==
    IF Occupied(order)
    THEN UNCHANGED <<pqLowest, pqHighest, pqQueue, fetched, receiving>>
    ELSE LET queue == WithPacket(order, content)
         IN  /\ pqHighest' = HighestWith(pqHighest, order)
             /\ IF Listening /\ TooBig(pqLowest, pqHighest')
                THEN /\ Fail /\ pqQueue' = queue
                     /\ UNCHANGED <<pqLowest, fetched>>
                ELSE /\ pqLowest' \in RunEnds(pqLowest, pqHighest', DOMAIN queue)
                     /\ pqQueue' = Restrict(queue, {i \in DOMAIN queue :
                                        ~ i \in pqLowest .. (pqLowest' - 1)})
                     /\ fetched' = FetchUpTo(queue, pqLowest')
                     /\ UNCHANGED receiving

(* The limits of receive_split_packet, tested before the insertion: one    *)
(* unfinished message more than MaxSplits is kept.                         *)
SplitRefused(pk) ==
    Listening /\ (\/ pk.split_count > MaxSplitCount
                  \/ Cardinality(DOMAIN splits) > MaxSplits)

(* The entry of a fragment, or an empty one.  (mutated: inserted anew for  *)
(* every fragment.)                                                        *)
FragmentsAnew(pk) == [j \in 0 .. (pk.split_count - 1) |-> NoPiece]
Fragments(pk) ==
    IF pk.split_id \in DOMAIN splits THEN splits[pk.split_id]
    ELSE [j \in 0 .. (pk.split_count - 1) |-> NoPiece]

WithEntry(id, fragments) ==
    [i \in DOMAIN splits \cup {id} |-> IF i = id THEN fragments ELSE splits[i]]

(* handle_datagram on the packet in hand.  Between the two lock regions of *)
(* a split packet nothing else touches what they use, so they are one step.*)
HandleDatagram(pk) ==
    LET slots == Fragments(pk)
        stored == [slots EXCEPT ![pk.split_index] = pk.content]
        complete == \A j \in DOMAIN stored : stored[j] # NoPiece
    IN  /\ inHand' = {}
        /\ \/ /\ ~ IsSplit(pk)
              /\ ReceivePacket(pk.order_index, [j \in {0} |-> pk.content])
              /\ UNCHANGED splits
           \/ /\ IsSplit(pk) /\ SplitRefused(pk)
              /\ Fail /\ UNCHANGED <<queueVars, fetched>>
           \/ /\ IsSplit(pk) /\ ~ SplitRefused(pk)
              /\ pk.split_index \notin DOMAIN slots
              /\ splits' = WithEntry(pk.split_id, slots)
              /\ Fail /\ UNCHANGED <<pqLowest, pqHighest, pqQueue, fetched>>
           \/ /\ IsSplit(pk) /\ ~ SplitRefused(pk)
              /\ pk.split_index \in DOMAIN slots /\ ~ complete
              /\ splits' = WithEntry(pk.split_id, stored)
              /\ UNCHANGED <<pqLowest, pqHighest, pqQueue, fetched, receiving>>
           \/ /\ IsSplit(pk) /\ ~ SplitRefused(pk)
              /\ pk.split_index \in DOMAIN slots /\ complete
              /\ splits' = Restrict(splits, DOMAIN splits \ {pk.split_id})
              /\ ReceivePacket(pk.order_index, stored)
        /\ UNCHANGED <<senderVars, windowVars, closing, delivered, net, acks, lost, hitches>>

(* One turn of the loop over packets_to_handle: handle_packet drops the    *)
(* content of a closing connection; an error of the handler leaves the     *)
(* loop with the rest of what was fetched.                                 *)
HandlePacket ==
    LET content == Head(fetched) IN
    /\ fetched # <<>>
    /\ \/ /\ closing
          /\ fetched' = Tail(fetched) /\ UNCHANGED <<receiving, delivered>>
       \/ /\ ~ closing /\ content[0][1] \in Rejected
          /\ Fail /\ fetched' = <<>> /\ UNCHANGED delivered
       \/ /\ ~ closing
          /\ delivered' = Append(delivered, content)
          /\ fetched' = Tail(fetched) /\ UNCHANGED receiving
    /\ UNCHANGED <<senderVars, windowVars, queueVars, inHand, closing,
                   net, acks, lost, hitches>>

(* flush_acks, from the ticker: everything accepted so far is taken under  *)
(* the lock and acknowledged, handled or not.                              *)
FlushAcks ==
    /\ ack_slice # {}
    /\ acks' = acks \cup {[kind |-> "ack", seqs |-> ack_slice]}
    /\ ack_slice' = {}
    /\ UNCHANGED <<senderVars, winLowest, winHighest, winQueue, queueVars,
                   taskVars, net, lost, hitches>>

(* close(): only the flag; the ticker ends the connection later.           *)
Close ==
    /\ MayClose /\ ~ closing
    /\ closing' = TRUE
    /\ UNCHANGED <<senderVars, windowVars, queueVars, inHand, fetched, receiving,
                   delivered, net, acks, lost, hitches>>

-----------------------------------------------------------------------------
(* The path drops a packet that has not been dropped yet.                  *)
Lose(x) ==
    /\ x \in (net \cup acks) \ lost /\ Cardinality(lost) < MaxLost
    /\ lost' = lost \cup {x}
    /\ UNCHANGED <<senderVars, windowVars, queueVars, taskVars, net, acks, hitches>>

Next ==
    \/ Write
    \/ \E a \in acks \ lost : HandleAck(a) \/ HandleNack(a)
    \/ \E old \in SUBSET DOMAIN unacknowledged : CheckResend(old)
    \/ \E d \in net \ lost : ReceiveDatagram(d)
    \/ \E pk \in inHand : HandleDatagram(pk)
    \/ HandlePacket
    \/ FlushAcks
    \/ Close
    \/ \E x \in (net \cup acks) \ lost : Lose(x)

Spec == Init /\ [][Next]_vars

(* What goes on without anybody's help: a packet the path did not lose     *)
(* arrives and its receiver is scheduled; the ticker flushes every 100 ms  *)
(* and looks at every tracked packet every 300 ms.  Nobody has to write,   *)
(* to close, to lose a packet or to ask for one.                           *)
Fairness ==
    /\ \A s \in 0 .. (SeqEnd - 1) :
         /\ WF_vars(\E d \in net \ lost : d.seq = s /\ ReceiveDatagram(d))
         /\ WF_vars(\E a \in acks \ lost : s \in a.seqs /\ HandleAck(a))
         /\ WF_vars(\E old \in SUBSET DOMAIN unacknowledged :
                       s \in old /\ CheckResend(old))
    /\ WF_vars(\E pk \in inHand : HandleDatagram(pk))
    /\ WF_vars(HandlePacket)
    /\ WF_vars(FlushAcks)

FairSpec == Spec /\ Fairness

-----------------------------------------------------------------------------
(* Properties.                                                             *)

SeqNumbers == 0 .. (SeqEnd - 1)

(* Every variable has the type its field has in ConnState.                 *)
TypeOK ==
    /\ seq \in SeqNumbers /\ order_index \in SeqNumbers
    /\ split_id \in 0 .. (SplitMod - 1)
    /\ DOMAIN unacknowledged \subseteq SeqNumbers
    /\ \A s \in DOMAIN unacknowledged : unacknowledged[s] \in Packets
    /\ winLowest \in SeqNumbers /\ winHighest \in SeqNumbers
    /\ winQueue \subseteq SeqNumbers /\ ack_slice \subseteq SeqNumbers
    /\ DOMAIN splits \subseteq 0 .. (SplitMod - 1)
    /\ \A id \in DOMAIN splits :
          splits[id] \in UNION {[0 .. (n - 1) -> Pieces \cup {NoPiece}] : n \in Counts}
    /\ pqLowest \in SeqNumbers /\ pqHighest \in SeqNumbers
    /\ DOMAIN pqQueue \subseteq SeqNumbers
    /\ \A i \in DOMAIN pqQueue : pqQueue[i] \in Contents
    /\ inHand \subseteq Packets
    /\ fetched \in Seq(Contents) /\ delivered \in Seq(Contents)
    /\ receiving \in {"ok", "failed", "stopped"} /\ closing \in BOOLEAN
    /\ \A d \in net : d.seq \in SeqNumbers /\ d.pk \in Packets
    /\ \A a \in acks : a.kind \in {"ack", "nack"} /\ a.seqs \subseteq SeqNumbers
    /\ lost \subseteq net \cup acks
    /\ written \in Nat /\ built \in Nat /\ hitches \in Nat

(* No counter of the sender has come back to zero yet.                     *)
NoWrap == built < SeqEnd /\ written < SeqEnd /\ written < SplitMod

Received(s) == s \in ack_slice \/ \E a \in acks : a.kind = "ack" /\ s \in a.seqs

(* Where R keeps piece p of a message.                                     *)
InQueue(p)  == \E i \in DOMAIN pqQueue : p \in Range(pqQueue[i])
InTask(p)   == \/ \E pk \in inHand : p = pk.content
               \/ \E k \in DOMAIN fetched : p \in Range(fetched[k])
InSplits(p) == \E id \in DOMAIN splits : p \in Range(splits[id])
Done(p)     == \E k \in DOMAIN delivered : p \in Range(delivered[k])
Held(p)     == InQueue(p) \/ InTask(p) \/ InSplits(p) \/ Done(p)
Tracked(p)  == \E s \in DOMAIN unacknowledged : p = unacknowledged[s].content

(* An ACK is sent before the datagram is handled and makes S forget the    *)
(* packet, so between the two windows nothing may fall: as long as receive *)
(* has returned no error and nobody called close, every piece written is   *)
(* either still tracked for resending or in R's hands, those too a         *)
(* cancelled write has left.                                               *)
Owed(p) == \/ \E d \in net : p = d.pk.content
           \/ \E m \in Messages \ Cancelled : m < written /\ p \in Range(Whole(m))
NothingLost ==
    NoWrap /\ receiving = "ok" /\ ~ closing =>
        \A p \in Pieces : Owed(p) => Tracked(p) \/ Held(p)

(* packet.rs:29, "every packet arrives, in right order, not duplicated":   *)
(* whatever the path does, contents are handed over whole and in the order *)
(* of the writes, none twice; without an error or a close, without a gap.  *)
InOrderIntact ==
    NoWrap =>
        /\ \A k \in DOMAIN delivered : \E m \in Messages :
              m < written /\ delivered[k] = Whole(m)
        /\ \A k, l \in DOMAIN delivered :
              k < l => delivered[k][0][1] < delivered[l][0][1]
        /\ receiving = "ok" /\ ~ closing =>
              \A k \in DOMAIN delivered : delivered[k] = Whole(k - 1)

(* A packet that is sent again moves to its new number: were it left under *)
(* the old one as well, each later tick would double the copies.           *)
TrackedOnce ==
    NoWrap => \A s, t \in DOMAIN unacknowledged :
                 unacknowledged[s].content = unacknowledged[t].content => s = t

(* A number R has asked for again is never acknowledged afterwards, nor    *)
(* the other way round: S would drop the only copy while R waits for it,   *)
(* or send a packet R has.                                                 *)
RequestedNotAcknowledged ==
    \A a \in acks : a.kind = "nack" => \A s \in a.seqs : ~ Received(s)

(* The contents written and those handed over, as packet.rs:29 speaks of   *)
(* them.                                                                   *)
Abstract == INSTANCE ReliableOrdered WITH
    Contents <- [k \in 1 .. N |-> Whole(k - 1)],
    sent <- written, received <- delivered

(* A Conn on which receive returns no error and nobody calls close is the  *)
(* reliable, ordered channel of packet.rs:29, its progress included.       *)
ImplementsReliableOrdered == Abstract!Spec

(* packet.rs:29, "every packet arrives": a message whose write returned is *)
(* handed over in the end, however often its packets are lost, late or     *)
(* asked for again.  (Not so if a write before it was cancelled.)          *)
EveryPacketArrives ==
    \A m \in Messages :
        written > m ~> \E k \in DOMAIN delivered : delivered[k] = Whole(m)

(* ... and S stops tracking it: the resending of a message comes to an     *)
(* end.                                                                    *)
ResendingEnds ==
    \A m \in Messages :
        written > m ~> \A p \in Range(Whole(m)) : ~ Tracked(p)

-----------------------------------------------------------------------------
(* The inductive invariant behind InOrderIntact and NothingLost: what each *)
(* place a packet passes through holds while no counter has wrapped.       *)

Clean == receiving = "ok" /\ ~ closing

(* The counters of S are the history; what is tracked was sent under that  *)
(* number, and is tracked once.                                            *)
SenderInv ==
    /\ seq = built /\ order_index = written /\ split_id <= written
    /\ \A s \in DOMAIN unacknowledged :
          \E d \in net : d.seq = s /\ d.pk = unacknowledged[s]
    /\ TrackedOnce

(* A datagram carries a fragment of the message its indices say, its       *)
(* number is its own, and a split id belongs to one message.               *)
NetInv ==
    /\ \A d \in net :
          /\ d.seq < built /\ d.pk.content[1] < written
          /\ d.pk.order_index = d.pk.content[1]
          /\ d.pk.split_count = Frags[d.pk.content[1]]
          /\ d.pk.split_index = d.pk.content[2]
          /\ IsSplit(d.pk) => d.pk.split_id < split_id
    /\ \A d, e \in net : d.seq = e.seq => d.pk = e.pk
    /\ \A d, e \in net :
          IsSplit(d.pk) /\ IsSplit(e.pk) /\ d.pk.split_id = e.pk.split_id
              => d.pk.content[1] = e.pk.content[1]

(* The entry of a split id has room for the message of that id, and holds  *)
(* pieces of it, each in its place.                                        *)
SplitsInv ==
    \A id \in DOMAIN splits : \E d \in net :
        /\ IsSplit(d.pk) /\ d.pk.split_id = id
        /\ DOMAIN splits[id] = DOMAIN Whole(d.pk.content[1])
        /\ \A j \in DOMAIN splits[id] :
              splits[id][j] \in {NoPiece, <<d.pk.content[1], j>>}

QueueInv == pqLowest <= written
            /\ \A i \in DOMAIN pqQueue : i < written /\ pqQueue[i] = Whole(i)

(* The receive task does one thing at a time; what it fetched ends where   *)
(* the queue begins.                                                       *)
TaskInv ==
    /\ \A pk \in inHand : inHand = {pk} /\ fetched = <<>>
                           /\ \E d \in net : d.pk = pk
    /\ Len(fetched) <= pqLowest
    /\ \A k \in DOMAIN fetched : fetched[k] = Whole(pqLowest - Len(fetched) + k - 1)

(* What was handed over precedes what was fetched, with no gap if nothing  *)
(* has gone wrong.                                                         *)
OutputInv ==
    /\ \A k \in DOMAIN delivered :
          /\ delivered[k][0][1] \in 0 .. (pqLowest - Len(fetched) - 1)
          /\ delivered[k] = Whole(delivered[k][0][1])
    /\ \A k, l \in DOMAIN delivered : k < l => delivered[k][0][1] < delivered[l][0][1]
    /\ Clean => /\ Len(delivered) = pqLowest - Len(fetched)
                /\ \A k \in DOMAIN delivered : delivered[k] = Whole(k - 1)

(* R only knows of numbers that were sent; what it accepted is in its      *)
(* hands, whether acknowledged yet or not.                                 *)
AckInv  == \A s \in SeqNumbers : Received(s) => s < built
HeldInv == Clean => \A d \in net : Received(d.seq) => Held(d.pk.content)

Safe == /\ SenderInv /\ NetInv /\ SplitsInv /\ QueueInv
        /\ TaskInv /\ OutputInv /\ AckInv /\ HeldInv /\ NothingLost
Inv == NoWrap => Safe

(* Behind RequestedNotAcknowledged, wrap or not: what R has accepted or    *)
(* asked for, its window has seen.                                         *)
Requested(s) == \E a \in acks : a.kind = "nack" /\ s \in a.seqs
WindowInv ==
    /\ \A s \in SeqNumbers :
          Received(s) \/ Requested(s) => Seen(winLowest, winQueue, s)
    /\ RequestedNotAcknowledged

-----------------------------------------------------------------------------
(* Statements that ReliabilityChannel_proofs is about.                     *)

(* Until receive returns an error, every step is one of a reliable ordered *)
(* channel: it hands over the next content written, or none; also on a     *)
(* connection that is being closed, which stops handing over for good.     *)
StepsAreReliableOrdered ==
    [][NoWrap /\ receiving = "ok" => [Abstract!Next]_<<written, delivered>>]_vars

(* conn.rs:544: the limit is tested for the fragments of a message that    *)
(* has an entry, too.  Once the listener's Conn keeps more unfinished      *)
(* messages than the limit it does so for good, and puts none of them      *)
(* together, whatever is sent again; only what it had put together before  *)
(* is handed over.  This is a flaw, stated so that its extent can be       *)
(* proved; nobody relies on it.                                            *)
TooManySplits == Listening /\ Cardinality(DOMAIN splits) > MaxSplits
Assembled(m) == Whole(m) \in Range(pqQueue) \cup Range(fetched) \cup Range(delivered)
SplitsStuck ==
    [][TooManySplits =>
          /\ TooManySplits'
          /\ \A m \in Messages : Frags[m] > 1 /\ Assembled(m)' => Assembled(m)]_vars

-----------------------------------------------------------------------------
(* Statements of the comments that the code does not keep.                 *)

(* packet.rs:29 with the 16 bits of a split id running out: what is        *)
(* handed over is what was written.                                        *)
DeliveredIntact ==
    \A k \in DOMAIN delivered : \E m \in Messages : delivered[k] = Whole(m)

(* datagram_window.rs:46 and packet_queue.rs:40, "removing consecutive     *)
(* indices from the lowest", "fetches all consecutive packets starting     *)
(* from the lowest index": what is next in line never waits in a queue.    *)
NothingReadyWaits ==
    receiving = "ok" => winLowest \notin winQueue /\ pqLowest \notin DOMAIN pqQueue
=============================================================================
