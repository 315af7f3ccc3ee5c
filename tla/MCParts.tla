------------------------------ MODULE MCParts ------------------------------
(* The parts of a connection that keep to themselves, one at a time: a     *)
(* list of sequence numbers goes through datagrams of records              *)
(* (Acknowledgement), a content, a packet or a message through bytes       *)
(* (Framing), or datagrams come to a window (DatagramWindow).              *)
EXTENDS Acknowledgement, Framing, DatagramWindow

NoList == packets = <<>> /\ given = <<>> /\ heard = {} /\ refused = FALSE /\ sizes = <<>>
NoItem == item = Nothing /\ got = Nothing

PartsInit == Init /\ ((ListInit /\ NoItem) \/ (FramingInit /\ NoList))
PartsNext ==
    \/ Send /\ UNCHANGED <<framing, vars>>
    \/ Reads /\ UNCHANGED <<listVars, vars>>
    \/ NoList /\ NoItem /\ Tick /\ UNCHANGED <<listVars, framing>>
    \/ /\ NoList /\ NoItem /\ UNCHANGED <<listVars, framing>>
       /\ \E index \in 0 .. MaxIndex, since \in Delays : Receive(index, since)
PartsSpec == PartsInit /\ [][PartsNext]_<<listVars, framing, vars>>
=============================================================================
