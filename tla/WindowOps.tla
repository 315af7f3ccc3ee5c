----------------------------- MODULE WindowOps -----------------------------
(***************************************************************************)
(* What DatagramWindow and PacketQueue have in common: a window of indices *)
(* [lowest, highest) over a map `queue`, and the loop that moves `lowest`  *)
(* past the indices that are present.  A queue is its set of keys here.    *)
(*                                                                         *)
(* Operators of a loop return the SET of possible results, so that a user  *)
(* writes \E e \in RunEnds(...) and a proof needs no induction and no      *)
(* CHOOSE; for a finite queue the set has exactly one member.  The loops   *)
(* themselves are in DatagramWindow, which is checked against these.       *)
(***************************************************************************)
EXTENDS Integers

CONSTANT SeqEnd       \* 2^24: a Uint24 is masked with 0x00FFFFFF
CONSTANT MaxWindow    \* MAX_WINDOW_SIZE

ASSUME SeqEndAssumption == SeqEnd \in Nat \ {0}
ASSUME MaxWindowAssumption == MaxWindow \in Nat

(* The value a Uint24 takes: Uint24::new masks, inc masks after adding 1.  *)
(* (mutated: the tuple constructor, which does not mask.)                  *)
Unmasked(i) == i
Uint24(i) == i % SeqEnd

(* An index below the window has been dealt with, one in the queue is      *)
(* waiting.  DatagramWindow::seen, and the two early returns of            *)
(* PacketQueue::put.                                                       *)
Seen(lowest, queue, i) == i < lowest \/ i \in queue

(* `highest` after index i is inserted.  The comparison is made on the     *)
(* unmasked i + 1, the assignment masks: the last index of the space       *)
(* sends `highest` back to 0.                                              *)
HighestWith(highest, i) == IF i >= highest THEN Uint24(i + 1) ELSE highest

(* Where the loop of DatagramWindow::shift and PacketQueue::fetch stops:   *)
(* at the first index from `lowest` that is absent, or at `highest`; at    *)
(* once when highest <= lowest.                                            *)
RunEnds(lowest, highest, queue) ==
    {e \in lowest .. (IF highest < lowest THEN lowest ELSE highest) :
        /\ \A i \in lowest .. (e - 1) : i \in queue
        /\ e \in queue => e >= highest}

(* `size() > MAX_WINDOW_SIZE`.  The subtraction is on u32: when highest is *)
(* below lowest a release build wraps to a huge number.                    *)
TooBig(lowest, highest) == highest < lowest \/ highest - lowest > MaxWindow

(* The lists DatagramWindow::missing may return, which it also inserts in  *)
(* the queue as "requested".  Walking down from highest - 1 it starts to   *)
(* collect at the first index that has waited long enough: `top`.  Which   *)
(* one that is depends on arrival times the model does not keep, so any    *)
(* waiting index may be it, and none (the result is empty then).           *)
(* (mutated: `top` itself is listed.)                                      *)
MissingAndTop(lowest, highest, queue) ==
    {{}} \cup {(lowest .. top) \ (queue \ {top}) :
                   top \in queue \cap (lowest .. (highest - 1))}
MissingLists(lowest, highest, queue) ==
    {{}} \cup {(lowest .. (top - 1)) \ queue :
                   top \in queue \cap (lowest .. (highest - 1))}
=============================================================================
