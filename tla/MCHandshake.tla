---------------------------- MODULE MCHandshake ----------------------------
(* The dialers and the paths Handshake is checked with.                    *)
EXTENDS Handshake

Dialer(error_count, timeout) == [error_count |-> error_count, timeout |-> timeout]
Path(mtu, delay, reorders, losses, added) ==
    [mtu |-> mtu, delay |-> delay, reorders |-> reorders, losses |-> losses,
     odd |-> added, cuts |-> FALSE]
Unreliable(mtu, delay) == [Path(mtu, delay, FALSE, 0, 0) EXCEPT !.cuts = TRUE]

(* The default dialer on a slow path, on one that carries too little, on   *)
(* one that loses two datagrams, on one that loses and reorders, and on    *)
(* one that goes down; a patient one on a path that loses one datagram; an *)
(* impatient one, whose time may run out when the answer has just come.    *)
SomeDials ==
    {<<Dialer(10, 20), p>> :
        p \in {Path(1200, 2, FALSE, 0, 1), Path(500, 1, FALSE, 1, 0),
               Path(1500, 0, FALSE, 2, 0), Path(1500, 1, TRUE, 1, 0),
               Unreliable(1500, 1)}}
    \cup {<<Dialer(42, 25), Path(1500, 0, FALSE, 1, 0)>>,
          <<Dialer(10, 2), Unreliable(1500, 1)>>}
=============================================================================
