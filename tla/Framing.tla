------------------------------ MODULE Framing ------------------------------
(***************************************************************************)
(* How many bytes things take: a content is cut into packets, a packet is  *)
(* written into a datagram and read from it, and the two messages of the   *)
(* connection that hold a list of addresses.  A byte is known by the field *)
(* it belongs to; what is read is right if it was read from its own bytes. *)
(***************************************************************************)
EXTENDS Integers, Sequences, SequencesExt

CONSTANTS
    Lengths,            \* of the contents that are written
    Mtus,               \* effective_mtu()
    SystemAddresses     \* in a message, 20

PACKET_ADDITIONAL_SIZE == 1 + 3 + 1 + 2 + 3 + 3 + 1
SPLIT_ADDITIONAL_SIZE == 4 + 2 + 4

ASSUME FramingAssumption ==
    /\ Lengths \subseteq Nat \ {0} /\ SystemAddresses \in Nat
    /\ Mtus \subseteq {m \in Nat : m > PACKET_ADDITIONAL_SIZE + SPLIT_ADDITIONAL_SIZE}

VARIABLES
    item,       \* what is written
    got         \* what was read from the bytes

framing == <<item, got>>
Nothing == [kind |-> "nothing"]
Refused == [kind |-> "refused"]

-----------------------------------------------------------------------------
(* packet::split: where each of the pieces begins and how long it is.      *)
(* (mutated: the split fields are forgotten; a full last piece is followed *)
(* by an empty one.)                                                       *)
MaxSizeUnsplit(n, mtu) == mtu - PACKET_ADDITIONAL_SIZE
MaxSize(n, mtu) ==
    IF n > mtu - PACKET_ADDITIONAL_SIZE
    THEN mtu - PACKET_ADDITIONAL_SIZE - SPLIT_ADDITIONAL_SIZE
    ELSE mtu - PACKET_ADDITIONAL_SIZE

FragmentCountOneMore(n, max) == n \div max + 1
FragmentCount(n, max) == (n + max - 1) \div max

Split(n, mtu) ==
    LET max == MaxSize(n, mtu) count == FragmentCount(n, max) IN
    [i \in 1 .. count |->
        [from |-> (i - 1) * max, length |-> IF i < count THEN max ELSE n - (i - 1) * max]]

-----------------------------------------------------------------------------
(* Packet::write and Packet::read.                                         *)

IsReliable(r) == r \in {2, 3, 4}
IsSequenced(r) == r \in {1, 4}
IsSequencedOrOrdered(r) == r \in {1, 3, 4}

Bytes(field, width) == [k \in 1 .. width |-> field]
When(condition, bytes) == IF condition THEN bytes ELSE <<>>

(* The header is two numbers packed into bits, the length has 13 of them.  *)
Header(p) == p.reliability * 32 + IF p.split THEN 16 ELSE 0
ContentLength(p) == (p.length * 8) % 65536

PacketFields(p) ==
    When(IsReliable(p.reliability), Bytes("message_index", 3))
    \o When(IsSequenced(p.reliability), Bytes("sequence_index", 3))
    \o When(IsSequencedOrOrdered(p.reliability), Bytes("order_index", 3) \o <<"channel">>)
    \o When(p.split, Bytes("split_count", 4) \o Bytes("split_id", 2) \o Bytes("split_index", 4))
WritePacket(p) ==
    <<Header(p), ContentLength(p), ContentLength(p)>> \o PacketFields(p)
    \o Bytes("content", p.length)

(* The datagram has a flag byte and its sequence number before the packet. *)
DatagramSize(p) == 1 + 3 + Len(WritePacket(p))

(* read takes the fields the header tells of, one after the other, and     *)
(* fails for a content of no bytes.  (mutated: of the order index three    *)
(* bytes are taken, and the channel is left.)                              *)
OrderWidthBare(r) == IF IsSequencedOrOrdered(r) THEN 3 ELSE 0
OrderWidth(r) == IF IsSequencedOrOrdered(r) THEN 4 ELSE 0
ReadPacket(bytes) ==
    LET reliability == (bytes[1] \div 32) % 8
        split == (bytes[1] \div 16) % 2 = 1
        length == bytes[2] \div 8
        message == 3
        sequence == message + IF IsReliable(reliability) THEN 3 ELSE 0
        order == sequence + IF IsSequenced(reliability) THEN 3 ELSE 0
        fragment == order + OrderWidth(reliability)
        content == fragment + IF split THEN 10 ELSE 0
    IN  IF length = 0 \/ Len(bytes) < content + length THEN Refused
        ELSE [kind |-> "packet", reliability |-> reliability, split |-> split,
              fields |-> SubSeq(bytes, message + 1, content),
              content |-> SubSeq(bytes, content + 1, content + length)]

-----------------------------------------------------------------------------
(* CONNECTION_REQUEST_ACCEPTED and NEW_INCOMING_CONNECTION: an address, in *)
(* the first one an index, a list of addresses, two times.                 *)

SIZEOF_ADDR4 == 1 + 4 + 2
SIZEOF_ADDR6 == 1 + 2 + 2 + 4 + 16 + 4
AddrSize(family) == IF family = "ipv4" THEN SIZEOF_ADDR4 ELSE SIZEOF_ADDR6

WriteMessage(m) ==
    Bytes(m.peer, AddrSize(m.peer)) \o When(m.index, Bytes("index", 2))
    \o FlattenSeq([k \in DOMAIN m.addresses |->
                     Bytes(m.addresses[k], AddrSize(m.addresses[k]))])
    \o Bytes("time", 16)

(* The list is at an end when sixteen bytes are left.  (mutated: when they *)
(* are less than an address.)                                              *)
AtTimesIfShort(left) == left < SIZEOF_ADDR4
AtTimes(left) == left = 16
ReadAddress(bytes, r) ==
    LET left == Len(bytes) - r.offset
        family == bytes[r.offset + 1]
    IN  IF r.ended \/ AtTimes(left) THEN [r EXCEPT !.ended = TRUE]
        ELSE IF left < AddrSize(family) THEN [r EXCEPT !.ended = TRUE, !.failed = TRUE]
        ELSE [r EXCEPT !.offset = @ + AddrSize(family), !.addresses = Append(@, family)]
ReadMessage(bytes, index) ==
    LET start == AddrSize(bytes[1]) + IF index THEN 2 ELSE 0
        r == FoldLeft(LAMBDA r, k : ReadAddress(bytes, r),
                      [offset |-> start, addresses |-> <<>>, ended |-> FALSE, failed |-> FALSE],
                      [k \in 1 .. SystemAddresses |-> k])
    IN  IF r.failed \/ Len(bytes) - r.offset < 16 THEN Refused
        ELSE [kind |-> "message", peer |-> bytes[1], addresses |-> r.addresses,
              times |-> SubSeq(bytes, r.offset + 1, r.offset + 16)]

-----------------------------------------------------------------------------
(* The contents and messages that are written, and the reading of them.    *)

Contents == [kind : {"content"}, length : Lengths, mtu : Mtus]
Packets == [kind : {"packet"}, reliability : 0 .. 4, split : BOOLEAN, length : Lengths]
Families == {"ipv4", "ipv6"}
AddressLists == UNION {[1 .. n -> Families] : n \in 0 .. SystemAddresses}
Messages ==
    [kind : {"message"}, peer : Families, index : BOOLEAN, addresses : AddressLists]

FramingInit == item \in Contents \cup Packets \cup Messages /\ got = Nothing

Reads ==
    /\ got = Nothing /\ UNCHANGED item
    /\ \/ item.kind = "content" /\ got' = [kind |-> "pieces", pieces |-> Split(item.length, item.mtu)]
       \/ item.kind = "packet" /\ got' = ReadPacket(WritePacket(item))
       \/ item.kind = "message" /\ got' = ReadMessage(WriteMessage(item), item.index)

FramingSpec == FramingInit /\ [][Reads]_framing

-----------------------------------------------------------------------------
(* The pieces join to the content, none is missing and none is empty: read *)
(* refuses an empty packet, and the whole message would wait for it.       *)
Pieces == got.pieces
PiecesJoin ==
    got.kind = "pieces" =>
       LET n == Len(Pieces) IN
       /\ n > 0 /\ Pieces[1].from = 0
       /\ \A i \in 1 .. n :
            /\ Pieces[i].length > 0
            /\ Pieces[i].from + Pieces[i].length =
                 IF i < n THEN Pieces[i + 1].from ELSE item.length

(* What write_locked sends for a piece, the fields of a split packet       *)
(* included when there is more than one, is no longer than the MTU allows. *)
PacketFor(i) == [kind |-> "packet", reliability |-> 3, split |-> Len(Pieces) > 1,
                 length |-> Pieces[i].length]
PiecesFit ==
    got.kind = "pieces" => \A i \in DOMAIN Pieces : DatagramSize(PacketFor(i)) <= item.mtu

(* Every packet that is written is read, each field from its own bytes.    *)
PacketsRead ==
    item.kind = "packet" /\ got # Nothing =>
       /\ got.kind = "packet" /\ got.reliability = item.reliability /\ got.split = item.split
       /\ got.fields = PacketFields(item) /\ got.content = Bytes("content", item.length)

(* connection_request_accepted.rs:63: however many addresses a peer sends, *)
(* and of whichever family, they and the times are read from their bytes.  *)
MessagesRead ==
    item.kind = "message" /\ got # Nothing =>
       /\ got.kind = "message" /\ got.peer = item.peer /\ got.addresses = item.addresses
       /\ got.times = Bytes("time", 16)
=============================================================================
