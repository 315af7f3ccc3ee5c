-------------------------- MODULE ReliableOrdered --------------------------
(***************************************************************************)
(* What packet.rs:29 promises of a ReliableOrdered packet, the only kind a *)
(* Conn sends: "every packet arrives, in right order, not duplicated".     *)
(* Contents go in at one end and come out at the other, first in first     *)
(* out, and each one that went in comes out.                               *)
(***************************************************************************)
EXTENDS Naturals, Sequences

CONSTANT Contents    \* the contents written, in order

VARIABLES sent,      \* how many of them have been written
          received   \* those handed over

Init == sent = 0 /\ received = <<>>

Send == sent < Len(Contents) /\ sent' = sent + 1 /\ UNCHANGED received

Receive ==
    /\ Len(received) < sent
    /\ received' = Append(received, Contents[Len(received) + 1])
    /\ UNCHANGED sent

Next == Send \/ Receive

Spec == Init /\ [][Next]_<<sent, received>> /\ WF_<<sent, received>>(Receive)
=============================================================================
