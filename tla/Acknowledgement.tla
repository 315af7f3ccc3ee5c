-------------------------- MODULE Acknowledgement --------------------------
(***************************************************************************)
(* One call of Conn::send_acknowledgement: a list of sequence numbers is   *)
(* written as records of single numbers and ranges, as many as fit one     *)
(* datagram, until the list is empty; and the reader of each datagram.     *)
(***************************************************************************)
EXTENDS Integers, Sequences, SequencesExt

CONSTANTS
    Numbers,      \* sequence numbers
    Mtu,          \* effective_mtu()
    MaxNumbers    \* MAX_ACKNOWLEDGEMENT_PACKETS

ASSUME AcknowledgementAssumption ==
    Numbers \subseteq Nat /\ Mtu \in Nat /\ Mtu > 7 /\ MaxNumbers \in Nat

VARIABLES
    packets,      \* what is left of the list
    heard,        \* what the reader has got
    refused,      \* the reader returned MaxAcknowledgement
    given, sizes  \* history: the list, the bytes of each datagram

listVars == <<packets, heard, refused, given, sizes>>

(* A list has no number twice: ack_slice gets each accepted datagram once, *)
(* missing lists each index once.                                          *)
Lists == UNION {{s \in [1 .. n -> Numbers] : \A i, j \in 1 .. n : s[i] = s[j] => i = j}
                    : n \in 0 .. Cardinality(Numbers)}

ListInit == /\ packets \in Lists /\ given = packets
            /\ heard = {} /\ refused = FALSE /\ sizes = <<>>

(* The bytes of a record, and of the buffer behind the flag byte.          *)
RecordSize(r) == IF r.first = r.last THEN 4 ELSE 7
Size(records) == FoldLeft(LAMBDA n, r : n + RecordSize(r), 2, records)

(* One turn of the loop over the sorted numbers.  w.open is the range that *)
(* has not been written yet.  (mutated: the room is not looked at; a gap   *)
(* does not end a range.)                                                  *)
WriteOneUnbounded(w, pk) ==
    IF pk = w.open.last + 1 THEN [w EXCEPT !.n = @ + 1, !.open.last = pk]
    ELSE [w EXCEPT !.n = @ + 1, !.records = Append(@, w.open),
                   !.open = [first |-> pk, last |-> pk]]
WriteOneAcrossGaps(w, pk) ==
    IF w.full \/ Size(w.records) >= Mtu - 7 THEN [w EXCEPT !.full = TRUE]
    ELSE [w EXCEPT !.n = @ + 1, !.open.last = pk]
WriteOne(w, pk) ==
    IF w.full \/ Size(w.records) >= Mtu - 7 THEN [w EXCEPT !.full = TRUE]
    ELSE IF pk = w.open.last + 1 THEN [w EXCEPT !.n = @ + 1, !.open.last = pk]
    ELSE [w EXCEPT !.n = @ + 1, !.records = Append(@, w.open),
                   !.open = [first |-> pk, last |-> pk]]

(* write_to_buf: how many of the sorted numbers it wrote, and the records. *)
Sorted(S) == [i \in 1 .. Cardinality(S) |->
                CHOOSE x \in S : Cardinality({y \in S : y < x}) = i - 1]
WriteToBuf(list) ==
    LET sorted == Sorted(ToSet(list))
        w == FoldLeft(WriteOne,
                      [n |-> 1, records |-> <<>>, full |-> FALSE,
                       open |-> [first |-> sorted[1], last |-> sorted[1]]],
                      Tail(sorted))
    IN  [n |-> w.n, records |-> Append(w.records, w.open)]

(* read: the numbers of the records; it stops with an error at the record  *)
(* that would bring too many.                                              *)
ReadOne(r, record) ==
    LET length == Cardinality(r.numbers) IN
    IF r.error \/ IF record.first = record.last THEN length + 1 > MaxNumbers
                  ELSE length + record.last - record.first > MaxNumbers
    THEN [r EXCEPT !.error = TRUE]
    ELSE [r EXCEPT !.numbers = @ \cup (record.first .. record.last)]
Read(records) == FoldLeft(ReadOne, [numbers |-> {}, error |-> FALSE], records)

(* One turn of send_acknowledgement's loop and the reader at the other     *)
(* end: handle_ack and handle_nack act on nothing when read fails.         *)
(* (mutated: one number too many is taken off the list.)                   *)
RemainingShort(list, n) == SubSeq(list, n + 2, Len(list))
Remaining(list, n) == SubSeq(list, n + 1, Len(list))
Send ==
    LET w == WriteToBuf(packets)
        r == Read(w.records)
    IN  /\ packets # <<>>
        /\ packets' = Remaining(packets, w.n)
        /\ IF r.error THEN refused' = TRUE /\ UNCHANGED heard
           ELSE heard' = heard \cup r.numbers /\ UNCHANGED refused
        /\ sizes' = Append(sizes, 1 + Size(w.records))
        /\ UNCHANGED given

ListNext == Send
ListSpec == ListInit /\ [][ListNext]_listVars /\ WF_listVars(Send)

-----------------------------------------------------------------------------
(* Properties.  A range covers nothing that was not in the list: S would drop a packet  *)
(* that R never had.                                                       *)
HeardWasGiven == heard \subseteq ToSet(given)

(* The record that is open and one more may follow the last look at the    *)
(* room: a datagram is too long by one record at the most.                 *)
OverrunBounded == \A k \in DOMAIN sizes : sizes[k] <= Mtu + 7

(* A list in ascending order, or one that fits a datagram, arrives whole,  *)
(* unless the reader finds it too long.                                    *)
AscendingArrives ==
    packets = <<>> /\ ~ refused
    /\ (\/ Len(sizes) <= 1
        \/ \A i, j \in DOMAIN given : i < j => given[i] < given[j])
        => heard = ToSet(given)

(* conn.rs:676, "Remove the packets we managed to write": every list       *)
(* arrives.  The code does not keep this: the numbers are written in       *)
(* ascending order and removed in the order of the list.                   *)
ListArrives == packets = <<>> /\ ~ refused => heard = ToSet(given)
=============================================================================
