--------------------------- MODULE MCReliability ---------------------------
(* Instances of Reliability small enough for TLC.                          *)
EXTENDS Reliability, TLC

(* Messages by the number of their pieces.                                 *)
Frags11 == 0 :> 1 @@ 1 :> 1
Frags21 == 0 :> 2 @@ 1 :> 1
Frags22 == 0 :> 2 @@ 1 :> 2
Frags111 == [m \in 0 .. 2 |-> 1]
Frags1111 == [m \in 0 .. 3 |-> 1]
=============================================================================
