-------------------------- MODULE Listener_proofs --------------------------
(***************************************************************************)
(* Theorems of Listener, for any number of addresses and Conns, any        *)
(* channel to accept and any block duration.                               *)
(***************************************************************************)
EXTENDS Listener, FiniteSetTheorems, TLAPS

USE DurationAssumption, ListenerAssumption

-----------------------------------------------------------------------------
(* The inductive invariant.                                                *)

(* What the listen loop holds while it handles a datagram.                 *)
Handling == {"receives", "delivers", "closes", "opens", "fails", "blocks"}
LoopKnows ==
    /\ loop \in Handling => from \in Addrs
    /\ loop \in {"receives", "delivers", "closes"} => to \in Made
    /\ loop = "opens" => Len(conns) < MaxConns

(* An entry leads to a Conn of its own address: whoever takes the entry of *)
(* a closed Conn's address out cannot leave that Conn in another's.        *)
EntryOwn == \A a \in DOMAIN connections : conns[connections[a]].addr = a

(* The one Conn made after close is the last thing the loop did.           *)
LateIsLast ==
    \A c \in Made : conns[c].late =>
       /\ closed /\ loop \in {"top", "ended"}
       /\ \A d \in Made : conns[d].late => d = c

(* The address in hand was not refused when the loop looked, and only the  *)
(* loop raises the counter or puts an address into the map.                *)
NotRefused ==
    /\ blocking = IF loop = "blocks" THEN {Ip(from)} ELSE {}
    /\ loop \in Handling \ {"blocks"} => block_count = 0 \/ Ip(from) \notin DOMAIN blocks

Typed == TypeOK /\ LoopKnows
IInv == Typed /\ EntryOwn /\ NoStaleEntry /\ LateIsLast /\ NotRefused /\ CountNotAhead

-----------------------------------------------------------------------------
(* Conns, one of them changed or one more.                                 *)

(* A Conn that changes leaves the others and their number alone.           *)
LEMMA OneConnChanges ==
  ASSUME TypeOK, NEW c \in Made, NEW r \in ConnType, conns' = [conns EXCEPT ![c] = r]
  PROVE  /\ conns' \in Seq(ConnType) /\ Len(conns') = Len(conns) /\ Made' = Made
         /\ conns'[c] = r /\ \A d \in Made \ {c} : conns'[d] = conns[d]
BY DEF TypeOK, Made

(* A new Conn gets the next number.                                        *)
LEMMA OneConnMore ==
  ASSUME TypeOK, NEW r \in ConnType, conns' = Append(conns, r)
  PROVE  /\ conns' \in Seq(ConnType) /\ Len(conns') = Len(conns) + 1
         /\ Made' = Made \cup {Len(conns) + 1} /\ Len(conns) + 1 \notin Made
         /\ conns'[Len(conns) + 1] = r /\ \A d \in Made : conns'[d] = conns[d]
BY DEF TypeOK, Made

(* close_immediately: the Conn is closed and somebody has yet to leave.    *)
SameConns ==
    /\ conns' \in Seq(ConnType) /\ Len(conns') = Len(conns) /\ Made' = Made
    /\ \A c \in Made :
         /\ conns'[c].addr = conns[c].addr /\ conns'[c].late = conns[c].late
         /\ conns'[c].closed => conns[c].closed \/ \E e \in leaving' : e[2] = c

LEMMA BeginsType ==
  ASSUME TypeOK, NEW who \in Closers, NEW c \in Made, Begins(who, c)
  PROVE  SameConns /\ leaving' \subseteq Closers \X Made /\ leaving \subseteq leaving'
<1> DEFINE r == [conns[c] EXCEPT !.closed = TRUE]
<1>1. conns[c] \in ConnType
  BY DEF TypeOK, Made
<1>2. r \in ConnType /\ r.addr = conns[c].addr /\ r.late = conns[c].late
  BY <1>1 DEF ConnType
<1>3. conns' = [conns EXCEPT ![c] = r]
  BY DEF Begins
<1>4. leaving' = leaving \cup {<<who, c>>} /\ leaving' \subseteq Closers \X Made
  BY DEF Begins, TypeOK
<1>5. \E e \in leaving' : e[2] = c
  <2>1. <<who, c>> \in leaving' /\ <<who, c>>[2] = c
    BY <1>4
  <2> QED
    BY <2>1
<1> HIDE DEF r
<1>6. /\ conns' \in Seq(ConnType) /\ Len(conns') = Len(conns) /\ Made' = Made
      /\ conns'[c] = r /\ \A d \in Made \ {c} : conns'[d] = conns[d]
  BY <1>2, <1>3, OneConnChanges
<1>7. SameConns
  <2> SUFFICES ASSUME NEW d \in Made
               PROVE  /\ conns'[d].addr = conns[d].addr /\ conns'[d].late = conns[d].late
                      /\ conns'[d].closed => conns[d].closed \/ \E e \in leaving' : e[2] = d
    BY <1>6 DEF SameConns
  <2>1. CASE d = c
    BY <2>1, <1>2, <1>5, <1>6
  <2>2. CASE d # c
    BY <2>2, <1>6
  <2> QED
    BY <2>1, <2>2
<1> QED
  BY <1>4, <1>7

(* A step of the task beside a Conn moves it and nothing else.             *)
LEMMA MovesType ==
  ASSUME TypeOK, NEW c \in Made, NEW was, NEW next \in Tasks, Moves(c, was, next)
  PROVE  SameConns
<1> DEFINE r == [conns[c] EXCEPT !.task = next]
<1>1. conns[c] \in ConnType
  BY DEF TypeOK, Made
<1>2. /\ r \in ConnType /\ r.addr = conns[c].addr /\ r.late = conns[c].late
      /\ r.closed = conns[c].closed
  BY <1>1 DEF ConnType
<1>3. conns' = [conns EXCEPT ![c] = r]
  BY DEF Moves
<1> HIDE DEF r
<1>4. /\ conns' \in Seq(ConnType) /\ Len(conns') = Len(conns) /\ Made' = Made
      /\ conns'[c] = r /\ \A d \in Made \ {c} : conns'[d] = conns[d]
  BY <1>2, <1>3, OneConnChanges
<1> SUFFICES ASSUME NEW d \in Made
             PROVE  /\ conns'[d].addr = conns[d].addr /\ conns'[d].late = conns[d].late
                    /\ conns'[d].closed => conns[d].closed
  BY <1>4 DEF SameConns
<1>5. CASE d = c
  BY <1>5, <1>2, <1>4
<1>6. CASE d # c
  BY <1>6, <1>4
<1> QED
  BY <1>5, <1>6

(* handler.close takes the address of the Conn out of the map.             *)
MapShrinks ==
    /\ DOMAIN connections' \subseteq DOMAIN connections
    /\ \A a \in DOMAIN connections' : connections'[a] = connections[a]

LEMMA WithoutShrinks ==
  ASSUME NEW addr, connections' = Without(addr)
  PROVE  MapShrinks /\ addr \notin DOMAIN connections'
BY DEF Without, Restrict, MapShrinks

(* Who leaves takes the entry with him.                                    *)
LeaveWithEntry ==
    \A e \in leaving \ leaving' : conns[e[2]].addr \notin DOMAIN connections'

LEMMA LeavesShrinks ==
  ASSUME NEW who, NEW c, Leaves(who, c)
  PROVE  /\ MapShrinks /\ LeaveWithEntry /\ leaving' \subseteq leaving
         /\ <<who, c>> \in leaving
<1>1. leaving' = leaving \ {<<who, c>>} /\ <<who, c>> \in leaving
  BY DEF Leaves
<1>2. \A e \in leaving \ leaving' : e = <<who, c>>
  BY <1>1
<1>3. MapShrinks /\ conns[c].addr \notin DOMAIN connections'
  BY WithoutShrinks DEF Leaves
<1> QED
  BY <1>1, <1>2, <1>3 DEF LeaveWithEntry

-----------------------------------------------------------------------------
(* Every step but that of a new Conn keeps the Conns and shrinks the map,  *)
(* and all of them keep the types.                                         *)
Quiet == SameConns /\ MapShrinks /\ LeaveWithEntry

LEMMA NothingMoves ==
  ASSUME TypeOK, UNCHANGED <<conns, connections, leaving>>
  PROVE  Quiet
BY DEF Quiet, SameConns, MapShrinks, LeaveWithEntry, TypeOK, Made

LEMMA OnlyConnsMove ==
  ASSUME SameConns, UNCHANGED connections, leaving \subseteq leaving'
  PROVE  Quiet
BY DEF Quiet, MapShrinks, LeaveWithEntry

LEMMA OnlyMapMoves ==
  ASSUME TypeOK, UNCHANGED conns, MapShrinks, LeaveWithEntry
  PROVE  Quiet
BY DEF Quiet, SameConns, TypeOK, Made

(* What a step must not spoil, when the Conns are as many as before.       *)
LEMMA TypedWhen ==
  ASSUME Typed, SameConns, MapShrinks, BlockListType', LoopKnows',
         closed' \in BOOLEAN, leaving' \subseteq Closers \X Made,
         loop' \in Handling \cup {"top", "recv", "ended"},
         from' \in Addrs \cup {NoAddr}, to' \in Made \cup {0},
         incoming' \in Seq(Made), Len(incoming') <= Capacity, accepted' \subseteq Made,
         closer' \in {"idle", "begun", "closing", "done"}, targets' \subseteq Made
  PROVE  Typed'
<1>1. Made' = Made /\ conns' \in Seq(ConnType) /\ Len(conns') = Len(conns)
  BY DEF SameConns
<1>2. /\ DOMAIN connections' \subseteq Addrs
      /\ \A a \in DOMAIN connections' : connections'[a] \in Made
  BY DEF Typed, TypeOK, MapShrinks
<1>3. TypeOK'
  BY <1>1, <1>2 DEF Typed, TypeOK, Handling
<1> QED
  BY <1>3 DEF Typed

(* The listen loop, its datagram and the Conn of that.                     *)
LEMMA LoopTyped ==
  ASSUME Typed, LoopTop \/ Receives \/ LoopCloses \/ Blocks
                \/ \E addr \in Addrs : RecvFrom(addr)
  PROVE  Typed' /\ Quiet
<1> USE DEF datagram
<1>0. TypeOK /\ LoopKnows
  BY DEF Typed
<1>1. ASSUME LoopTop PROVE Typed' /\ Quiet
  <2>1. Quiet
    BY <1>0, <1>1, NothingMoves DEF LoopTop
  <2> QED
    BY <1>0, <1>1, <2>1, TypedWhen
    DEF LoopTop, Quiet, TypeOK, LoopKnows, Handling, BlockListType, block_list, SameConns
<1>2. ASSUME NEW addr \in Addrs, RecvFrom(addr) PROVE Typed' /\ Quiet
  <2>1. Quiet
    BY <1>0, <1>2, NothingMoves DEF RecvFrom
  <2>2. LoopKnows' /\ loop' \in Handling \cup {"top", "recv", "ended"}
        /\ from' \in Addrs \cup {NoAddr} /\ to' \in Made \cup {0}
    BY <1>0, <1>2, <2>1 DEF RecvFrom, Done, TypeOK, LoopKnows, Handling, Quiet, SameConns
  <2> QED
    BY <1>0, <1>2, <2>1, <2>2, TypedWhen
    DEF RecvFrom, Quiet, TypeOK, BlockListType, block_list
<1>3. ASSUME Receives PROVE Typed' /\ Quiet
  <2>1. UNCHANGED <<block_list, closed, connections, incoming, accepted, closer, targets>>
    BY <1>3 DEF Receives
  <2>2. to \in Made /\ from \in Addrs
    BY <1>0, <1>3 DEF Receives, LoopKnows, Handling
  <2>3. /\ SameConns /\ leaving \subseteq leaving' /\ leaving' \subseteq Closers \X Made
        /\ Done \/ (loop' \in {"fails", "delivers", "closes"} /\ UNCHANGED datagram)
    <3>1. CASE UNCHANGED <<conns, leaving>>
               /\ (Done \/ (loop' \in {"fails", "delivers"} /\ UNCHANGED datagram))
      BY <1>0, <3>1, <2>1, NothingMoves DEF Quiet, TypeOK
    <3>2. CASE /\ Done /\ UNCHANGED leaving
               /\ conns' = [conns EXCEPT ![to].connected = TRUE,
                                        ![to].task = IF @ = "waits" THEN "woken" ELSE @]
      <4> DEFINE r == [conns[to] EXCEPT !.connected = TRUE,
                                        !.task = IF @ = "waits" THEN "woken" ELSE @]
      <4>1. conns[to] \in ConnType
        BY <1>0, <2>2 DEF TypeOK, Made
      <4>2. /\ r \in ConnType /\ r.addr = conns[to].addr /\ r.late = conns[to].late
            /\ r.closed = conns[to].closed
        BY <4>1 DEF ConnType, Tasks
      <4>3. conns' = [conns EXCEPT ![to] = r]
        BY <3>2, <2>2, <1>0 DEF TypeOK, Made
      <4> HIDE DEF r
      <4>4. /\ conns' \in Seq(ConnType) /\ Len(conns') = Len(conns) /\ Made' = Made
            /\ conns'[to] = r /\ \A d \in Made \ {to} : conns'[d] = conns[d]
        BY <1>0, <2>2, <4>2, <4>3, OneConnChanges
      <4>5. \A d \in Made : /\ conns'[d].addr = conns[d].addr
                            /\ conns'[d].late = conns[d].late
                            /\ conns'[d].closed => conns[d].closed
        <5> TAKE d \in Made
        <5>1. CASE d = to
          BY <5>1, <4>2, <4>4
        <5>2. CASE d # to
          BY <5>2, <4>4
        <5> QED
          BY <5>1, <5>2
      <4> QED
        BY <1>0, <3>2, <4>4, <4>5 DEF SameConns, TypeOK
    <3>3. CASE Begins("loop", to) /\ loop' = "closes" /\ UNCHANGED datagram
      BY <1>0, <2>2, <3>3, BeginsType DEF Closers
    <3> QED
      BY <1>3, <3>1, <3>2, <3>3 DEF Receives
  <2>4. Quiet /\ Made' = Made
    BY <2>1, <2>3, OnlyConnsMove DEF SameConns
  <2>5. LoopKnows' /\ loop' \in Handling \cup {"top", "recv", "ended"}
        /\ from' \in Addrs \cup {NoAddr} /\ to' \in Made \cup {0}
    BY <2>2, <2>3, <2>4 DEF Done, LoopKnows, Handling
  <2> QED
    BY <1>0, <2>1, <2>3, <2>4, <2>5, TypedWhen
    DEF Quiet, TypeOK, BlockListType, block_list
<1>4. ASSUME LoopCloses PROVE Typed' /\ Quiet
  <2>1. MapShrinks /\ LeaveWithEntry /\ leaving' \subseteq leaving
    BY <1>4, LeavesShrinks DEF LoopCloses
  <2>2. Quiet
    BY <1>0, <1>4, <2>1, OnlyMapMoves DEF LoopCloses
  <2> QED
    BY <1>0, <1>4, <2>1, <2>2, TypedWhen
    DEF LoopCloses, Done, Quiet, TypeOK, LoopKnows, Handling, BlockListType, block_list
<1>5. ASSUME Blocks PROVE Typed' /\ Quiet
  <2>1. Quiet
    BY <1>0, <1>5, NothingMoves DEF Blocks
  <2>2. from \in Addrs /\ Ip(from) \in Ips
    BY <1>0, <1>5 DEF Blocks, LoopKnows, Handling, Addrs, Ip
  <2>3. BlockListType'
    BY <1>0, <1>5, <2>2 DEF Blocks, Count, Insert, TypeOK, BlockListType
  <2>4. LoopKnows' /\ loop' \in Handling \cup {"top", "recv", "ended"}
        /\ from' \in Addrs \cup {NoAddr} /\ to' \in Made \cup {0}
    BY <1>0, <1>5, <2>2 DEF Blocks, Done, LoopKnows, Handling, TypeOK
  <2> QED
    BY <1>0, <1>5, <2>1, <2>3, <2>4, TypedWhen DEF Blocks, Quiet, TypeOK
<1> QED
  BY <1>1, <1>2, <1>3, <1>4, <1>5

(* The task beside a Conn.                                                 *)
LEMMA TaskTyped ==
  ASSUME Typed, NEW c \in Made, Task(c)
  PROVE  Typed' /\ Quiet
<1> USE DEF datagram, Tasks, Closers
<1>0. TypeOK /\ LoopKnows
  BY DEF Typed
<1>1. UNCHANGED <<block_list, closed, loop, datagram, accepted, closer, targets>>
  BY DEF Task, TaskWaits, TaskSends, Expires, TaskCloses, TaskRemoves
<1>2. ASSUME SameConns, MapShrinks, leaving' \subseteq Closers \X Made,
             incoming' \in Seq(Made), Len(incoming') <= Capacity
      PROVE  Typed'
  BY <1>0, <1>1, <1>2, TypedWhen
  DEF SameConns, TypeOK, LoopKnows, Handling, BlockListType, block_list
<1>3. ASSUME TaskWaits(c) PROVE Typed' /\ Quiet
  <2>1. SameConns
    <3>1. \E was : \E next \in Tasks : Moves(c, was, next)
      BY <1>3 DEF TaskWaits
    <3> QED
      BY <3>1, <1>0, MovesType
  <2> QED
    BY <1>0, <1>2, <1>3, <2>1, OnlyConnsMove DEF TaskWaits, Quiet, TypeOK
<1>4. ASSUME TaskSends(c) PROVE Typed' /\ Quiet
  <2>1. SameConns
    BY <1>0, <1>4, MovesType DEF TaskSends
  <2>2. incoming' \in Seq(Made) /\ Len(incoming') <= Capacity
    BY <1>0, <1>4 DEF TaskSends, TypeOK
  <2> QED
    BY <1>0, <1>2, <1>4, <2>1, <2>2, OnlyConnsMove DEF TaskSends, Quiet, TypeOK
<1>5. ASSUME Expires(c) PROVE Typed' /\ Quiet
  <2> DEFINE r == [conns[c] EXCEPT !.task = IF conns[c].closed THEN "removes" ELSE "closes",
                                   !.closed = TRUE]
  <2>1. conns[c] \in ConnType
    BY <1>0 DEF TypeOK, Made
  <2>2. r \in ConnType /\ r.addr = conns[c].addr /\ r.late = conns[c].late
    BY <2>1 DEF ConnType
  <2>3. conns' = [conns EXCEPT ![c] = r]
    BY <1>5 DEF Expires
  <2>4. /\ leaving' \subseteq Closers \X Made /\ leaving \subseteq leaving'
        /\ conns[c].closed \/ <<"task", c>> \in leaving'
    BY <1>0, <1>5 DEF Expires, TypeOK
  <2>5. conns[c].closed \/ \E e \in leaving' : e[2] = c
    <3>1. <<"task", c>>[2] = c
      OBVIOUS
    <3> QED
      BY <2>4, <3>1
  <2> HIDE DEF r
  <2>6. /\ conns' \in Seq(ConnType) /\ Len(conns') = Len(conns) /\ Made' = Made
        /\ conns'[c] = r /\ \A d \in Made \ {c} : conns'[d] = conns[d]
    BY <1>0, <2>2, <2>3, OneConnChanges
  <2>7. SameConns
    <3> SUFFICES ASSUME NEW d \in Made
                 PROVE  /\ conns'[d].addr = conns[d].addr /\ conns'[d].late = conns[d].late
                        /\ conns'[d].closed => conns[d].closed \/ \E e \in leaving' : e[2] = d
      BY <2>6 DEF SameConns
    <3>1. CASE d = c
      BY <3>1, <2>2, <2>5, <2>6
    <3>2. CASE d # c
      BY <3>2, <2>6
    <3> QED
      BY <3>1, <3>2
  <2> QED
    BY <1>0, <1>2, <1>5, <2>4, <2>7, OnlyConnsMove DEF Expires, Quiet, TypeOK
<1>6. ASSUME TaskCloses(c) PROVE Typed' /\ Quiet
  <2>1. SameConns
    BY <1>0, <1>6, MovesType DEF TaskCloses
  <2>2. MapShrinks /\ LeaveWithEntry /\ leaving' \subseteq leaving
    BY <1>6, LeavesShrinks DEF TaskCloses
  <2> QED
    BY <1>0, <1>2, <1>6, <2>1, <2>2 DEF TaskCloses, Quiet, TypeOK
<1>7. ASSUME TaskRemoves(c) PROVE Typed' /\ Quiet
  <2>1. SameConns
    BY <1>0, <1>7, MovesType DEF TaskRemoves
  <2>2. MapShrinks
    BY <1>7, WithoutShrinks DEF TaskRemoves
  <2>3. LeaveWithEntry
    BY <1>7 DEF TaskRemoves, LeaveWithEntry
  <2> QED
    BY <1>0, <1>2, <1>7, <2>1, <2>2, <2>3 DEF TaskRemoves, Quiet, TypeOK
<1> QED
  BY <1>3, <1>4, <1>5, <1>6, <1>7 DEF Task

(* The ticker of a Conn.                                                   *)
LEMMA TickerTyped ==
  ASSUME Typed, NEW c \in Made, TickerCloses(c) \/ TickerLeaves(c)
  PROVE  Typed' /\ Quiet
<1> USE DEF datagram, Closers
<1>0. TypeOK /\ LoopKnows
  BY DEF Typed
<1>1. UNCHANGED <<block_list, closed, loop, datagram, incoming, accepted, closer, targets>>
  BY DEF TickerCloses, TickerLeaves
<1>2. ASSUME SameConns, MapShrinks, leaving' \subseteq Closers \X Made PROVE Typed'
  BY <1>0, <1>1, <1>2, TypedWhen
  DEF SameConns, TypeOK, LoopKnows, Handling, BlockListType, block_list
<1>3. CASE TickerCloses(c)
  BY <1>0, <1>2, <1>3, BeginsType, OnlyConnsMove DEF TickerCloses, Quiet
<1>4. CASE TickerLeaves(c)
  <2>1. MapShrinks /\ LeaveWithEntry /\ leaving' \subseteq leaving
    BY <1>4, LeavesShrinks DEF TickerLeaves
  <2>2. Quiet
    BY <1>0, <1>4, <2>1, OnlyMapMoves DEF TickerLeaves
  <2> QED
    BY <1>0, <1>2, <2>1, <2>2 DEF Quiet, TypeOK
<1> QED
  BY <1>3, <1>4

(* accept and close.                                                       *)
LEMMA CloserTyped ==
  ASSUME Typed, Accept \/ Close \/ Closer
  PROVE  Typed' /\ Quiet
<1> USE DEF datagram, Closers
<1>0. TypeOK /\ LoopKnows
  BY DEF Typed
<1>1. UNCHANGED <<block_list, loop, datagram>>
  BY DEF Accept, Close, Closer, Snapshot, CloserEnds, CloserCloses, CloserLeaves
<1>2. ASSUME SameConns, MapShrinks, leaving' \subseteq Closers \X Made,
             closed' \in BOOLEAN,
             incoming' \in Seq(Made), Len(incoming') <= Capacity, accepted' \subseteq Made,
             closer' \in {"idle", "begun", "closing", "done"}, targets' \subseteq Made
      PROVE  Typed'
  BY <1>0, <1>1, <1>2, TypedWhen
  DEF SameConns, TypeOK, LoopKnows, Handling, BlockListType, block_list
<1>3. CASE Accept
  <2>1. incoming' \in Seq(Made) /\ Len(incoming') <= Capacity /\ accepted' \subseteq Made
    BY <1>0, <1>3 DEF Accept, TypeOK
  <2> QED
    BY <1>0, <1>2, <1>3, <2>1, NothingMoves DEF Accept, Quiet, TypeOK
<1>4. CASE Close \/ Snapshot \/ CloserEnds
  <2>1. Quiet /\ UNCHANGED leaving
    BY <1>0, <1>4, NothingMoves DEF Close, Snapshot, CloserEnds
  <2>2. /\ closed' \in BOOLEAN /\ targets' \subseteq Made
        /\ closer' \in {"idle", "begun", "closing", "done"}
        /\ UNCHANGED <<incoming, accepted>>
    BY <1>0, <1>4 DEF Close, Snapshot, CloserEnds, TypeOK
  <2> QED
    BY <1>0, <1>2, <2>1, <2>2 DEF Quiet, TypeOK
<1>5. ASSUME NEW c \in Made, CloserCloses(c) PROVE Typed' /\ Quiet
  <2>1. SameConns /\ leaving' \subseteq Closers \X Made /\ leaving \subseteq leaving'
    BY <1>0, <1>5, BeginsType, NothingMoves DEF CloserCloses, Quiet, TypeOK
  <2> QED
    BY <1>0, <1>2, <1>5, <2>1, OnlyConnsMove DEF CloserCloses, Quiet, MapShrinks, TypeOK
<1>6. ASSUME NEW c \in Made, CloserLeaves(c) PROVE Typed' /\ Quiet
  <2>1. MapShrinks /\ LeaveWithEntry /\ leaving' \subseteq leaving
    BY <1>6, LeavesShrinks DEF CloserLeaves
  <2>2. Quiet
    BY <1>0, <1>6, <2>1, OnlyMapMoves DEF CloserLeaves
  <2> QED
    BY <1>0, <1>2, <1>6, <2>1, <2>2 DEF CloserLeaves, Quiet, TypeOK
<1>7. CASE \E c \in DOMAIN conns : CloserCloses(c) \/ CloserLeaves(c)
  BY <1>5, <1>6, <1>7 DEF Made
<1> QED
  BY <1>3, <1>4, <1>7 DEF Closer

(* The collector of blocks.                                                *)
LEMMA GcTyped ==
  ASSUME Typed, GcBlocks
  PROVE  Typed' /\ Quiet /\ DOMAIN blocks' \subseteq DOMAIN blocks
<1> USE DEF datagram
<1>0. TypeOK /\ LoopKnows
  BY DEF Typed
<1>1. Quiet
  BY <1>0, NothingMoves DEF GcBlocks
<1>2. /\ DOMAIN Aged = DOMAIN blocks /\ Kept \subseteq DOMAIN blocks
      /\ \A ip \in DOMAIN blocks : Aged[ip] \in Nat
  BY <1>0 DEF Aged, Kept, Older, TypeOK, BlockListType
<1>3. blocks' = Aged \/ blocks' = [ip \in Kept |-> Aged[ip]]
  BY DEF GcBlocks, Collects, Restrict
<1>4. DOMAIN blocks' \subseteq DOMAIN blocks /\ \A ip \in DOMAIN blocks' : blocks'[ip] \in Nat
  BY <1>2, <1>3
<1>5. IsFiniteSet(Kept) /\ Cardinality(Kept) \in Nat
  BY <1>0, <1>2, FS_Subset, FS_CardinalityType DEF TypeOK, BlockListType
<1>6. BlockListType'
  BY <1>0, <1>4, <1>5 DEF GcBlocks, Collects, TypeOK, BlockListType
<1> QED
  BY <1>0, <1>1, <1>4, <1>6, TypedWhen DEF GcBlocks, Quiet, TypeOK, LoopKnows, Handling, SameConns

(* A new Conn, in the place of the address.                                *)
NewConn == [addr |-> from, closed |-> FALSE, connected |-> FALSE, late |-> closed,
            task |-> "loads"]

LEMMA OpensTyped ==
  ASSUME Typed, Opens
  PROVE  /\ Typed'
         /\ Made' = Made \cup {Len(conns) + 1} /\ Len(conns) + 1 \notin Made
         /\ conns'[Len(conns) + 1] = NewConn /\ \A d \in Made : conns'[d] = conns[d]
         /\ \A a \in DOMAIN connections' :
               IF a = from THEN connections'[a] = Len(conns) + 1
               ELSE a \in DOMAIN connections /\ connections'[a] = connections[a]
<1> USE DEF datagram
<1>0. TypeOK /\ LoopKnows
  BY DEF Typed
<1>1. from \in Addrs
  BY <1>0 DEF Opens, LoopKnows, Handling
<1>2. NewConn \in ConnType /\ conns' = Append(conns, NewConn)
  BY <1>0, <1>1 DEF Opens, NewConn, ConnType, Tasks, TypeOK
<1>3. /\ conns' \in Seq(ConnType) /\ Len(conns') = Len(conns) + 1
      /\ Made' = Made \cup {Len(conns) + 1} /\ Len(conns) + 1 \notin Made
      /\ conns'[Len(conns) + 1] = NewConn /\ \A d \in Made : conns'[d] = conns[d]
  BY <1>0, <1>2, OneConnMore
<1>4. /\ DOMAIN connections' \subseteq Addrs
      /\ \A a \in DOMAIN connections' :
            IF a = from THEN connections'[a] = Len(conns) + 1
            ELSE a \in DOMAIN connections /\ connections'[a] = connections[a]
  BY <1>0, <1>1 DEF Opens, TypeOK
<1>5. \A a \in DOMAIN connections' : connections'[a] \in Made'
  BY <1>0, <1>3, <1>4 DEF TypeOK
<1>6. Len(conns') <= MaxConns
  BY <1>0, <1>3 DEF Opens, LoopKnows, TypeOK
<1>7. TypeOK'
  BY <1>0, <1>3, <1>4, <1>5, <1>6
  DEF Opens, Done, TypeOK, BlockListType, block_list
<1>8. LoopKnows'
  BY DEF Opens, Done, LoopKnows, Handling
<1> QED
  BY <1>3, <1>4, <1>7, <1>8 DEF Typed

-----------------------------------------------------------------------------
(* The invariant, part by part.                                            *)

(* Every step but that of a new Conn is one of the quiet ones.             *)
LEMMA QuietOrOpens ==
  ASSUME Typed, [Next]_vars
  PROVE  Typed' /\ (Opens \/ Quiet)
<1>1. CASE Opens
  BY <1>1, OpensTyped
<1>2. CASE LoopTop \/ Receives \/ LoopCloses \/ Blocks \/ \E addr \in Addrs : RecvFrom(addr)
  BY <1>2, LoopTyped
<1>3. CASE \E c \in DOMAIN conns : Task(c) \/ TickerCloses(c) \/ TickerLeaves(c)
  BY <1>3, TaskTyped, TickerTyped DEF Made
<1>4. CASE Accept \/ Close \/ Closer
  BY <1>4, CloserTyped
<1>5. CASE GcBlocks
  BY <1>5, GcTyped
<1>6. CASE UNCHANGED vars
  <2>1. UNCHANGED <<conns, connections, leaving>>
    BY <1>6 DEF vars
  <2>2. Quiet
    BY <2>1, NothingMoves DEF Typed
  <2> QED
    BY <1>6, <2>2
    DEF vars, Typed, TypeOK, LoopKnows, Made, BlockListType, block_list, datagram
<1> QED
  BY <1>1, <1>2, <1>3, <1>4, <1>5, <1>6 DEF Next, ListenLoop

(* The map leads to the Conn of the address, and to none that is closed    *)
(* and left.                                                               *)
LEMMA EntryStep ==
  ASSUME Typed, EntryOwn, NoStaleEntry, [Next]_vars
  PROVE  EntryOwn' /\ NoStaleEntry'
<1>0. \A a \in DOMAIN connections : connections[a] \in Made
  BY DEF Typed, TypeOK
<1>1. CASE Opens
  <2> SUFFICES ASSUME NEW a \in DOMAIN connections'
               PROVE  /\ conns'[connections'[a]].addr = a
                      /\ conns'[connections'[a]].closed =>
                           \E e \in leaving' : e[2] = connections'[a]
    BY DEF EntryOwn, NoStaleEntry
  <2>1. leaving' = leaving
    BY <1>1 DEF Opens
  <2>2. CASE a = from
    BY <1>1, <2>2, OpensTyped DEF NewConn
  <2>3. CASE a # from
    <3>1. /\ a \in DOMAIN connections /\ connections'[a] = connections[a]
          /\ conns'[connections[a]] = conns[connections[a]]
      BY <1>0, <1>1, <2>3, OpensTyped
    <3> QED
      BY <2>1, <3>1 DEF EntryOwn, NoStaleEntry
  <2> QED
    BY <2>2, <2>3
<1>2. CASE Quiet
  <2> SUFFICES ASSUME NEW a \in DOMAIN connections'
               PROVE  /\ conns'[connections'[a]].addr = a
                      /\ conns'[connections'[a]].closed =>
                           \E e \in leaving' : e[2] = connections'[a]
    BY DEF EntryOwn, NoStaleEntry
  <2> DEFINE c == connections[a]
  <2>1. a \in DOMAIN connections /\ connections'[a] = c /\ c \in Made
    BY <1>0, <1>2 DEF Quiet, MapShrinks
  <2>2. conns'[c].addr = a /\ conns[c].addr = a
    BY <1>2, <2>1 DEF Quiet, SameConns, EntryOwn
  <2>3. ASSUME conns[c].closed PROVE \E e \in leaving' : e[2] = c
    <3>1. PICK e \in leaving : e[2] = c
      BY <2>1, <2>3 DEF NoStaleEntry
    <3>2. e \in leaving'
      BY <1>2, <2>2, <3>1 DEF Quiet, LeaveWithEntry
    <3> QED
      BY <3>1, <3>2
  <2>4. conns'[c].closed => conns[c].closed \/ \E e \in leaving' : e[2] = c
    BY <1>2, <2>1 DEF Quiet, SameConns
  <2> HIDE DEF c
  <2> QED
    BY <2>1, <2>2, <2>3, <2>4
<1> QED
  BY <1>1, <1>2, QuietOrOpens

(* After close there is no way from the top of the loop to another Conn.   *)
LEMMA LateStep ==
  ASSUME Typed, LateIsLast, [Next]_vars
  PROVE  LateIsLast'
<1>1. CASE Opens
  <2>1. /\ Made' = Made \cup {Len(conns) + 1} /\ Len(conns) + 1 \notin Made
        /\ conns'[Len(conns) + 1] = NewConn /\ \A d \in Made : conns'[d] = conns[d]
    BY <1>1, OpensTyped
  <2>2. loop = "opens" /\ loop' = "top" /\ UNCHANGED closed
    BY <1>1 DEF Opens, Done
  <2>3. \A d \in Made : ~ conns[d].late
    BY <2>2 DEF LateIsLast, Typed, TypeOK, ConnType, Made
  <2>4. conns'[Len(conns) + 1].late = closed
    BY <2>1 DEF NewConn
  <2>5. \A d \in Made' : conns'[d].late => d = Len(conns) + 1 /\ closed
    BY <2>1, <2>3, <2>4
  <2> QED
    BY <2>2, <2>5 DEF LateIsLast
<1>2. CASE Quiet
  <2>1. Made' = Made /\ \A c \in Made : conns'[c].late = conns[c].late
    BY <1>2 DEF Quiet, SameConns
  <2>2. closed => closed'
    BY DEF Next, ListenLoop, LoopTop, Opens, LoopCloses, Blocks, Receives, RecvFrom, Task,
           TaskWaits, TaskSends, Expires, TaskCloses, TaskRemoves, TickerCloses,
           TickerLeaves, Accept, Close, Closer, Snapshot, CloserEnds, CloserCloses,
           CloserLeaves, GcBlocks, vars
  <2>3. closed /\ loop \in {"top", "ended"} => loop' \in {"top", "ended"}
    BY DEF Next, ListenLoop, LoopTop, Opens, LoopCloses, Blocks, Receives, RecvFrom, Task,
           TaskWaits, TaskSends, Expires, TaskCloses, TaskRemoves, TickerCloses,
           TickerLeaves, Accept, Close, Closer, Snapshot, CloserEnds, CloserCloses,
           CloserLeaves, GcBlocks, vars
  <2> QED
    BY <2>1, <2>2, <2>3 DEF LateIsLast
<1> QED
  BY <1>1, <1>2, QuietOrOpens

(* The counter is at most the number of addresses in the map and in hand:  *)
(* the loop raises it for an address that is not in the map, or from 0.    *)
LEMMA CountStep ==
  ASSUME Typed, NotRefused, CountNotAhead, [Next]_vars
  PROVE  NotRefused' /\ CountNotAhead'
<1> USE DEF datagram, block_list
<1>0. /\ IsFiniteSet(DOMAIN blocks) /\ block_count \in Nat
      /\ DOMAIN blocks \subseteq Ips /\ BlockListType
  BY FS_Subset DEF Typed, TypeOK, BlockListType
<1>1. CASE /\ UNCHANGED block_list
           /\ \/ UNCHANGED <<loop, datagram>>
              \/ loop' \in {"top", "recv", "ended"} /\ loop # "blocks"
              \/ loop \in Handling \ {"blocks"} /\ loop' # "blocks" /\ UNCHANGED datagram
  BY <1>1 DEF NotRefused, CountNotAhead, Handling
<1>2. ASSUME NEW addr \in Addrs, RecvFrom(addr) PROVE NotRefused' /\ CountNotAhead'
  BY <1>2 DEF RecvFrom, IsBlocked, Done, NotRefused, CountNotAhead, Handling
<1>3. CASE loop = "fails" /\ Count(Ip(from)) /\ loop' = "blocks" /\ UNCHANGED datagram
  <2>1. blocking = {} /\ (block_count = 0 \/ Ip(from) \notin DOMAIN blocks)
    BY <1>3 DEF NotRefused, Handling
  <2>2. /\ blocking' = {Ip(from)} /\ block_count' = block_count + 1 /\ UNCHANGED blocks
        /\ DOMAIN blocks \cup blocking = DOMAIN blocks
    BY <1>3, <2>1 DEF Count
  <2>3. /\ Cardinality(DOMAIN blocks \cup {Ip(from)}) =
             IF Ip(from) \in DOMAIN blocks THEN Cardinality(DOMAIN blocks)
             ELSE Cardinality(DOMAIN blocks) + 1
        /\ Cardinality(DOMAIN blocks) \in Nat
        /\ Ip(from) \in DOMAIN blocks => Cardinality(DOMAIN blocks) # 0
    BY <1>0, FS_AddElement, FS_CardinalityType, FS_EmptySet
  <2>4. block_count <= Cardinality(DOMAIN blocks)
    BY <2>2 DEF CountNotAhead
  <2>5. block_count + 1 <= Cardinality(DOMAIN blocks \cup {Ip(from)})
    BY <1>0, <2>1, <2>3, <2>4
  <2> QED
    BY <1>3, <2>2, <2>5 DEF NotRefused, CountNotAhead, Handling
<1>4. CASE loop = "blocks" /\ Insert(Ip(from)) /\ Done
  <2>1. blocking = {Ip(from)}
    BY <1>4 DEF NotRefused
  <2>2. /\ blocking' = {} /\ UNCHANGED block_count
        /\ DOMAIN blocks' \cup blocking' = DOMAIN blocks \cup blocking
    BY <1>4, <2>1 DEF Insert
  <2> QED
    BY <1>4, <2>2 DEF NotRefused, CountNotAhead, Done, Handling
<1>5. CASE GcBlocks
  <2>1. UNCHANGED <<loop, datagram, blocking>> /\ DOMAIN blocks' \subseteq DOMAIN blocks
    BY <1>5, GcTyped DEF GcBlocks, Collects
  <2>2. CASE block_count = 0
    <3>1. block_count' = 0 /\ DOMAIN blocks' = DOMAIN blocks
      BY <1>5, <2>2 DEF GcBlocks, Collects, Aged
    <3> QED
      BY <2>1, <2>2, <3>1 DEF NotRefused, CountNotAhead, Handling
  <2>3. CASE block_count # 0
    <3>1. block_count' = Cardinality(Kept) /\ DOMAIN blocks' = Kept
      BY <1>5, <2>3 DEF GcBlocks, Collects, Restrict
    <3>2. IsFiniteSet(Kept \cup blocking)
      <4>1. IsFiniteSet(Kept) /\ IsFiniteSet(blocking)
        BY <1>0, <2>1, <3>1, FS_Subset DEF BlockListType
      <4> QED
        BY <4>1, FS_Union
    <3>3. Cardinality(Kept) <= Cardinality(Kept \cup blocking)
      BY <3>2, FS_Subset
    <3> QED
      BY <2>1, <2>3, <3>1, <3>3 DEF NotRefused, CountNotAhead, Handling
  <2> QED
    BY <2>2, <2>3
<1>6. CASE LoopTop \/ Receives \/ LoopCloses \/ Opens
  <2>1. /\ UNCHANGED block_list
        /\ \/ loop' \in {"top", "recv", "ended"} /\ loop # "blocks"
           \/ loop \in Handling \ {"blocks"} /\ loop' # "blocks" /\ UNCHANGED datagram
    BY <1>6 DEF LoopTop, Receives, LoopCloses, Opens, Done, Handling
  <2> QED
    BY <1>1, <2>1
<1>7. CASE \E c \in DOMAIN conns : Task(c) \/ TickerCloses(c) \/ TickerLeaves(c)
  <2>1. UNCHANGED <<block_list, loop, datagram>>
    BY <1>7 DEF Task, TaskWaits, TaskSends, Expires, TaskCloses, TaskRemoves, TickerCloses,
                TickerLeaves
  <2> QED
    BY <1>1, <2>1
<1>8. CASE Accept \/ Close \/ Closer \/ UNCHANGED vars
  <2>1. UNCHANGED <<block_list, loop, datagram>>
    BY <1>8 DEF Accept, Close, Closer, Snapshot, CloserEnds, CloserCloses, CloserLeaves, vars
  <2> QED
    BY <1>1, <2>1
<1>9. CASE Blocks
  BY <1>3, <1>4, <1>9 DEF Blocks
<1> QED
  BY <1>2, <1>5, <1>6, <1>7, <1>8, <1>9 DEF Next, ListenLoop

-----------------------------------------------------------------------------
(* The invariant and the theorems.                                         *)

LEMMA Initially ==
  ASSUME Init
  PROVE  IInv
<1>1. Made = {} /\ DOMAIN connections = {} /\ DOMAIN blocks = {}
  BY DEF Init, Made, NoBlocks
<1>2. Typed
  <2>1. /\ conns \in Seq(ConnType) /\ Len(conns) = 0
        /\ incoming \in Seq(Made) /\ Len(incoming) = 0
    BY DEF Init
  <2>2. BlockListType
    BY <1>1 DEF Init, NoBlocks, BlockListType
  <2>3. LoopKnows /\ from \in Addrs \cup {NoAddr} /\ to \in Made \cup {0}
    BY DEF Init, LoopKnows, Handling
  <2>4. leaving \subseteq Closers \X Made /\ accepted \subseteq Made /\ targets \subseteq Made
    BY DEF Init
  <2>5. Len(conns) <= MaxConns /\ Len(incoming) <= Capacity
    BY <2>1
  <2>6. closed \in BOOLEAN /\ loop = "top" /\ closer = "idle"
    BY DEF Init
  <2> QED
    BY <1>1, <2>1, <2>2, <2>3, <2>4, <2>5, <2>6 DEF Typed, TypeOK
<1>3. Cardinality(DOMAIN blocks \cup blocking) = 0
  BY <1>1, FS_EmptySet DEF Init, NoBlocks
<1> QED
  BY <1>1, <1>2, <1>3
  DEF Init, NoBlocks, IInv, EntryOwn, NoStaleEntry, LateIsLast, NotRefused, Handling,
      CountNotAhead

THEOREM Invariant ==
  Spec => []IInv
<1>1. IInv /\ [Next]_vars => IInv'
  BY QuietOrOpens, EntryStep, LateStep, CountStep DEF IInv
<1> QED
  BY Initially, <1>1, PTL DEF Spec

(* Every variable keeps its type: nothing names a Conn that was not made,  *)
(* and the channel to accept never holds more than it has room for.        *)
THEOREM TypeCorrect ==
  Spec => []TypeOK
BY Invariant, PTL DEF IInv, Typed

(* A closed Conn stays in the map only while somebody is still in          *)
(* close_immediately of it.                                                *)
THEOREM NoEntryIsStale ==
  Spec => []NoStaleEntry
BY Invariant, PTL DEF IInv

(* The counter never exceeds the addresses that are blocked, or just being *)
(* blocked.                                                                *)
THEOREM CounterNotAhead ==
  Spec => []CountNotAhead
BY Invariant, PTL DEF IInv

(* After close the loop makes one more Conn at most, however many          *)
(* addresses send.                                                         *)
THEOREM OneConnAfterClose ==
  Spec => []CloseMakesAtMostOne
<1>1. IInv => CloseMakesAtMostOne
  <2> SUFFICES ASSUME IInv
               PROVE  Cardinality({c \in DOMAIN conns : conns[c].late}) <= 1
    BY DEF CloseMakesAtMostOne
  <2> DEFINE L == {c \in DOMAIN conns : conns[c].late}
  <2>1. \A c \in L : L = {c}
    BY DEF IInv, LateIsLast, Made
  <2> HIDE DEF L
  <2>2. Cardinality(L) <= 1
    <3>1. CASE L = {}
      BY <3>1, FS_EmptySet
    <3>2. CASE L # {}
      <4>1. PICK c : L = {c}
        BY <2>1, <3>2
      <4>2. Cardinality(L) = 1
        BY <4>1, FS_Singleton
      <4> QED
        BY <4>2
    <3> QED
      BY <3>1, <3>2
  <2> QED
    BY <2>2 DEF L
<1> QED
  BY Invariant, <1>1, PTL
=============================================================================
