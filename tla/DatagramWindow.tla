--------------------------- MODULE DatagramWindow ---------------------------
(***************************************************************************)
(* DatagramWindow with its arrival times and its loops, driven as          *)
(* Conn::receive_datagram drives it: add, shift, and missing when shift    *)
(* moved nothing.  Reliability keeps only the keys of `queue` and leaves   *)
(* open which of them have waited too long; UsesWindowOps says that this   *)
(* is all the rest of the connection can see.                              *)
(***************************************************************************)
EXTENDS WindowOps

CONSTANTS
    MaxIndex,  \* bound: datagrams 0 .. MaxIndex arrive
    Delays,    \* values of rtt + rtt / 2, 0 until the first rtt is known
    MaxTime    \* bound on the clock

ASSUME WindowBounds ==
    /\ MaxIndex \in 0 .. (SeqEnd - 1) /\ MaxTime \in Nat
    /\ Delays \subseteq Nat /\ Delays # {}

LongAgo == -3600    \* the time given to a number that was asked for

VARIABLES lowest, highest,
          queue,      \* index -> Instant of its arrival
          now,
          missing,    \* what the last receive_datagram asks for
          asked       \* history: what all the earlier ones asked for

vars == <<lowest, highest, queue, now, missing, asked>>

Init == lowest = 0 /\ highest = 0 /\ queue = [i \in {} |-> 0] /\ now = 0
        /\ missing = {} /\ asked = {}

(* queue.insert(index, time).                                              *)
Inserted(q, index, time) ==
    [i \in DOMAIN q \cup {index} |-> IF i = index THEN time ELSE q[i]]

(* The loop of shift: where it stops.  (mutated: an if, not a loop.)       *)
ShiftEndIf(high, q) == IF lowest < high /\ lowest \in DOMAIN q THEN lowest + 1 ELSE lowest
ShiftEnd(high, q) ==
    LET from[i \in 0 .. SeqEnd] ==
            IF i < high /\ i \in DOMAIN q THEN from[i + 1] ELSE i
    IN  from[lowest]

(* One turn of the loop of missing, for `index`; r is what it carries.     *)
(* (mutated: an index that is on time takes the flag back.)                *)
LookAtLatest(r, index, since) ==
    IF index \in DOMAIN r.queue
    THEN [r EXCEPT !.late = now - r.queue[index] >= since]
    ELSE IF r.late
         THEN [r EXCEPT !.listed = @ \cup {index}, !.queue = Inserted(@, index, LongAgo)]
         ELSE r
LookAt(r, index, since) ==
    IF index \in DOMAIN r.queue
    THEN [r EXCEPT !.late = @ \/ now - r.queue[index] >= since]
    ELSE IF r.late
         THEN [r EXCEPT !.listed = @ \cup {index}, !.queue = Inserted(@, index, LongAgo)]
         ELSE r

(* The loop of missing, from highest - 1 down to lowest.                   *)
Missing(high, q, since) ==
    LET from[index \in lowest .. (IF high < lowest THEN lowest ELSE high)] ==
            IF index >= high THEN [late |-> FALSE, listed |-> {}, queue |-> q]
            ELSE LookAt(from[index + 1], index, since)
    IN  from[lowest]

(* The second shift.  (mutated: a number that was asked for is not marked.) *)
ShiftedNoMark(high, q, listed) ==
    /\ lowest' = ShiftEnd(high, [i \in DOMAIN q \ listed |-> q[i]])
    /\ queue' = [i \in {j \in DOMAIN q \ listed : j >= lowest'} |-> q[i]]
Shifted(high, q, listed) ==
    /\ lowest' = ShiftEnd(high, q)
    /\ queue' = [i \in {j \in DOMAIN q : j >= lowest'} |-> q[i]]

(* The window's part of receive_datagram, under one lock.                  *)
Receive(index, since) ==
    LET high == IF index + 1 > highest THEN Uint24(index + 1) ELSE highest
        q    == Inserted(queue, index, now)
        r    == Missing(high, q, since)
    IN  /\ index >= lowest /\ index \notin DOMAIN queue
        /\ highest' = high
        /\ IF ShiftEnd(high, q) # lowest
           THEN missing' = {} /\ Shifted(high, q, {})
           ELSE missing' = r.listed /\ Shifted(high, r.queue, r.listed)
        /\ asked' = asked \cup missing
        /\ UNCHANGED now

Tick == now < MaxTime /\ now' = now + 1
        /\ UNCHANGED <<lowest, highest, queue, missing, asked>>

Next == Tick \/ \E index \in 0 .. MaxIndex, since \in Delays : Receive(index, since)

Spec == Init /\ [][Next]_vars

-----------------------------------------------------------------------------
(* The last index before the wrap has come: highest was set to 0, and      *)
(* nothing takes that index out of the queue again.                        *)
Wrapped == SeqEnd - 1 \in DOMAIN queue

(* The window ends where its gap is: nothing below lowest or from highest  *)
(* on is kept, the next index in line is not there, and no mark of a       *)
(* number that was asked for outlives the call that made it.               *)
GapAtLowest ==
    ~ Wrapped =>
        /\ lowest <= highest
        /\ DOMAIN queue \subseteq (lowest + 1) .. (highest - 1)
        /\ \A i \in DOMAIN queue : queue[i] # LongAgo

(* A number is asked for once: the packet in it comes under another number *)
(* and a second NACK would make S send it twice.                           *)
AskedOnce == missing \cap asked = {}

(* What is asked for is what is absent below an index that has waited for  *)
(* the delay, all of it and nothing above (missing is only called when     *)
(* shift moved nothing).                                                   *)
AsksForOverdue ==
    [][now' = now /\ missing' # {} /\ ~ Wrapped' =>
        \E index \in 0 .. MaxIndex, since \in Delays :
            LET q == Inserted(queue, index, now) IN
            missing' = {i \in lowest .. highest' :
                           /\ i \notin DOMAIN q
                           /\ \E j \in DOMAIN q : j > i /\ now - q[j] >= since}]_vars

(* Every variable has the type its field has.                              *)
Typed ==
    /\ lowest \in 0 .. (SeqEnd - 1) /\ highest \in 0 .. (SeqEnd - 1)
    /\ DOMAIN queue \subseteq 0 .. (SeqEnd - 1)
    /\ queue = [i \in DOMAIN queue |-> queue[i]] /\ now \in Nat
    /\ missing \subseteq 0 .. (SeqEnd - 1) /\ asked \subseteq 0 .. (SeqEnd - 1)

(* Behind AskedOnce, wrap or not: the window has seen what it asked for.   *)
AskedSeen == \A i \in missing \cup asked : Seen(lowest, DOMAIN queue, i)

(* Whatever the arrival times, a step of the window is one that            *)
(* Reliability allows for.                                                 *)
UsesWindowOps ==
    [][now' = now => \E index \in 0 .. MaxIndex :
        LET high == HighestWith(highest, index)
            keys == DOMAIN queue \cup {index}
        IN  /\ ~ Seen(lowest, DOMAIN queue, index)
            /\ highest' = high
            /\ missing' \in IF lowest \in keys /\ lowest < high THEN {{}}
                            ELSE MissingLists(lowest, high, keys)
            /\ lowest' \in RunEnds(lowest, high, keys \cup missing')
            /\ DOMAIN queue' = {i \in keys \cup missing' : i >= lowest'}]_vars
=============================================================================
