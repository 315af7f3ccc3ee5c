------------------------------ MODULE Listener ------------------------------
(***************************************************************************)
(* A Listener: the listen loop, the map `connections` it shares with its   *)
(* Conns, the task it starts beside each of them, accept, close, and the   *)
(* block list.  A Conn is known by the number of its making; two may       *)
(* belong to one address, one after the other.                             *)
(*                                                                         *)
(* close_immediately sets `closed` and then takes the entry of the Conn's  *)
(* address out of the map: two steps, and the one who set `closed` takes   *)
(* them both before it does anything else.                                 *)
(***************************************************************************)
EXTENDS BlockList, Sequences

CONSTANTS
    Ports,
    Capacity,     \* of the channel to accept, 64
    MaxConns      \* bound: Conns made

ASSUME ListenerAssumption == Capacity \in Nat \ {0} /\ MaxConns \in Nat

Addrs == Ips \X Ports
Ip(addr) == addr[1]
NoAddr == <<>>

VARIABLES
    closed,
    connections,  \* address -> Conn
    conns,        \* in the order they were made: addr, closed, connected, where
                  \* the task beside it is; late: made after close (history)
    loop,         \* the listen loop
    from, to,     \* the datagram it handles: its address and that address's Conn
    leaving,      \* who is in close_immediately of which Conn, `closed` set
    incoming,     \* the channel to accept
    accepted,
    closer,       \* Listener::close: "idle", "begun", "closing", "done"
    targets       \* what it has still to close

vars == <<block_list, closed, connections, conns, loop, from, to, leaving,
          incoming, accepted, closer, targets>>

Init ==
    /\ NoBlocks /\ closed = FALSE
    /\ connections = [a \in {} |-> 0] /\ conns = <<>>
    /\ loop = "top" /\ from = NoAddr /\ to = 0 /\ leaving = {}
    /\ incoming = <<>> /\ accepted = {}
    /\ closer = "idle" /\ targets = {}

-----------------------------------------------------------------------------
(* close_immediately, by `who`.                                            *)

Begins(who, c) ==
    /\ ~ conns[c].closed
    /\ conns' = [conns EXCEPT ![c].closed = TRUE]
    /\ leaving' = leaving \cup {<<who, c>>}

(* handler.close.  (mutated: it leaves the map alone.)                     *)
Without(addr) == Restrict(connections, DOMAIN connections \ {addr})
LeavesEntry(who, c) ==
    /\ <<who, c>> \in leaving /\ leaving' = leaving \ {<<who, c>>}
    /\ UNCHANGED connections
Leaves(who, c) ==
    /\ <<who, c>> \in leaving /\ leaving' = leaving \ {<<who, c>>}
    /\ connections' = Without(conns[c].addr)

-----------------------------------------------------------------------------
(* The listen loop.                                                        *)

datagram == <<from, to>>
Done == loop' = "top" /\ from' = NoAddr /\ to' = 0

(* (mutated: it never looks at `closed`.)                                  *)
LoopForever ==
    /\ loop = "top" /\ loop' = "recv"
    /\ UNCHANGED <<block_list, closed, connections, conns, datagram, leaving, incoming,
                   accepted, closer, targets>>
LoopTop ==
    /\ loop = "top" /\ loop' = IF closed THEN "ended" ELSE "recv"
    /\ UNCHANGED <<block_list, closed, connections, conns, datagram, leaving, incoming,
                   accepted, closer, targets>>

(* A datagram: of a refused address, of one with a Conn, or one that       *)
(* handle_unconnected answers, finds wrong, or turns into a Conn.          *)
RecvFrom(addr) ==
    /\ loop = "recv"
    /\ \/ IsBlocked(Ip(addr)) /\ Done
       \/ /\ ~ IsBlocked(Ip(addr)) /\ addr \in DOMAIN connections
          /\ loop' = "receives" /\ from' = addr /\ to' = connections[addr]
       \/ /\ ~ IsBlocked(Ip(addr)) /\ addr \notin DOMAIN connections
          /\ \/ Done
             \/ loop' = "fails" /\ from' = addr /\ to' = 0
             \/ Len(conns) < MaxConns /\ loop' = "opens" /\ from' = addr /\ to' = 0
    /\ UNCHANGED <<block_list, closed, connections, conns, leaving, incoming,
                   accepted, closer, targets>>

(* handle_open_connection_request_2, after the reply: the Conn is made,    *)
(* put into the map, and its task started.                                 *)
Opens ==
    /\ loop = "opens" /\ Done
    /\ conns' = Append(conns, [addr |-> from, closed |-> FALSE, connected |-> FALSE,
                               late |-> closed, task |-> "loads"])
    /\ connections' = [a \in DOMAIN connections \cup {from} |->
                         IF a = from THEN Len(conns) + 1 ELSE connections[a]]
    /\ UNCHANGED <<block_list, closed, leaving, incoming, accepted,
                   closer, targets>>

(* Conn::receive, which may mark the Conn as connected, close it, fail, or *)
(* have a content for the application, which must first make room for it.  *)
(* notify_waiters reaches the task only while it waits.                    *)
Receives ==
    /\ loop \in {"receives", "delivers"}
    /\ \/ Done /\ UNCHANGED <<conns, leaving>>
       \/ /\ loop = "receives" /\ loop' \in {"fails", "delivers"}
          /\ UNCHANGED <<datagram, conns, leaving>>
       \/ /\ loop = "receives" /\ ~ conns[to].connected /\ Done
          /\ conns' = [conns EXCEPT ![to].connected = TRUE,
                                    ![to].task = IF @ = "waits" THEN "woken" ELSE @]
          /\ UNCHANGED leaving
       \/ /\ loop = "receives" /\ Begins("loop", to)
          /\ loop' = "closes" /\ UNCHANGED datagram
    /\ UNCHANGED <<block_list, closed, connections, incoming, accepted,
                   closer, targets>>
LoopCloses ==
    /\ loop = "closes" /\ Leaves("loop", to) /\ Done
    /\ UNCHANGED <<block_list, closed, conns, incoming, accepted, closer,
                   targets>>

(* handle returned an error: block.                                        *)
Blocks ==
    /\ \/ loop = "fails" /\ Count(Ip(from)) /\ loop' = "blocks" /\ UNCHANGED datagram
       \/ loop = "blocks" /\ Insert(Ip(from)) /\ Done
    /\ UNCHANGED <<closed, connections, conns, leaving, incoming, accepted,
                   closer, targets>>

ListenLoop == LoopTop \/ Opens \/ LoopCloses \/ Blocks

-----------------------------------------------------------------------------
(* The task beside a Conn: wait_connected against 10 s.                    *)

Moves(c, was, next) == /\ conns[c].task = was
                      /\ conns' = [conns EXCEPT ![c].task = next]

(* wait_connected looks at `connected`, and then makes its future.         *)
TaskWaits(c) ==
    /\ \/ Moves(c, "loads", IF conns[c].connected THEN "sends" ELSE "between")
       \/ Moves(c, "between", "waits")
       \/ Moves(c, "woken", "sends")
    /\ UNCHANGED <<block_list, closed, connections, loop, datagram, leaving, incoming,
                   accepted, closer, targets>>

(* The channel to accept may be full.  (mutated: it is never.)             *)
TaskSendsAlways(c) ==
    /\ Moves(c, "sends", "done")
    /\ incoming' = Append(incoming, c)
    /\ UNCHANGED <<block_list, closed, connections, loop, datagram, leaving, accepted,
                   closer, targets>>
TaskSends(c) ==
    /\ Len(incoming) < Capacity /\ Moves(c, "sends", "done")
    /\ incoming' = Append(incoming, c)
    /\ UNCHANGED <<block_list, closed, connections, loop, datagram, leaving, accepted,
                   closer, targets>>

(* The 10 s are over: the Conn is closed, and the entry of its address     *)
(* removed, once by handler.close and once more.  (mutated: they are over  *)
(* for nobody.)                                                            *)
ExpiresNever(c) ==
    /\ c \notin DOMAIN conns
    /\ UNCHANGED vars
Expires(c) ==
    /\ conns[c].task \in {"waits", "woken"}
    /\ conns' = [conns EXCEPT ![c].task = IF conns[c].closed THEN "removes" ELSE "closes",
                              ![c].closed = TRUE]
    /\ leaving' = IF conns[c].closed THEN leaving ELSE leaving \cup {<<"task", c>>}
    /\ UNCHANGED <<block_list, closed, connections, loop, datagram, incoming, accepted,
                   closer, targets>>
TaskCloses(c) ==
    /\ Moves(c, "closes", "removes") /\ Leaves("task", c)
    /\ UNCHANGED <<block_list, closed, loop, datagram, incoming, accepted,
                   closer, targets>>
TaskRemoves(c) ==
    /\ Moves(c, "removes", "done") /\ connections' = Without(conns[c].addr)
    /\ UNCHANGED <<block_list, closed, loop, datagram, leaving, incoming, accepted,
                   closer, targets>>

Task(c) == TaskWaits(c) \/ TaskSends(c) \/ Expires(c) \/ TaskCloses(c) \/ TaskRemoves(c)

-----------------------------------------------------------------------------
(* The ticker of a Conn ends it when the application has asked for it, or  *)
(* when it has heard nothing for too long (module Shutdown).               *)

TickerCloses(c) ==
    /\ Begins("ticker", c)
    /\ UNCHANGED <<block_list, closed, connections, loop, datagram, incoming, accepted,
                   closer, targets>>
TickerLeaves(c) ==
    /\ Leaves("ticker", c)
    /\ UNCHANGED <<block_list, closed, conns, loop, datagram, incoming, accepted,
                   closer, targets>>

(* Nothing reaches a Conn that is not in the map, nor any Conn while the   *)
(* listen loop is at an end or waits for an application that does not read.*)
Unheard(c) == \/ ~ \E a \in DOMAIN connections : connections[a] = c
              \/ loop \in {"ended", "delivers"}

-----------------------------------------------------------------------------
(* accept and close.                                                       *)

(* accept refuses once the listener is closed; a call that waits already   *)
(* may still return.                                                       *)
Accept ==
    /\ incoming # <<>>
    /\ accepted' = accepted \cup {Head(incoming)} /\ incoming' = Tail(incoming)
    /\ UNCHANGED <<block_list, closed, connections, conns, loop, datagram, leaving,
                   closer, targets>>

Close ==
    /\ closer = "idle" /\ closed' = TRUE /\ closer' = "begun"
    /\ UNCHANGED <<block_list, connections, conns, loop, datagram, leaving, incoming,
                   accepted, targets>>

(* The Conns of the map at one moment, one after the other.                *)
Snapshot ==
    /\ closer = "begun" /\ closer' = "closing"
    /\ targets' = {connections[a] : a \in DOMAIN connections}
    /\ UNCHANGED <<block_list, closed, connections, conns, loop, datagram, leaving,
                   incoming, accepted>>
Busy == \E c \in DOMAIN conns : <<"closer", c>> \in leaving
CloserCloses(c) ==
    /\ closer = "closing" /\ ~ Busy /\ c \in targets /\ targets' = targets \ {c}
    /\ (Begins("closer", c) \/ (conns[c].closed /\ UNCHANGED <<conns, leaving>>))
    /\ UNCHANGED <<block_list, closed, connections, loop, datagram, incoming, accepted,
                   closer>>
CloserLeaves(c) ==
    /\ Leaves("closer", c)
    /\ UNCHANGED <<block_list, closed, conns, loop, datagram, incoming, accepted,
                   closer, targets>>
CloserEnds ==
    /\ closer = "closing" /\ ~ Busy /\ targets = {} /\ closer' = "done"
    /\ UNCHANGED <<block_list, closed, connections, conns, loop, datagram, leaving,
                   incoming, accepted, targets>>

Closer == \/ Snapshot \/ CloserEnds
          \/ \E c \in DOMAIN conns : CloserCloses(c) \/ CloserLeaves(c)

(* gc_blocks ends with the listener.                                       *)
GcBlocks ==
    /\ ~ closed /\ Collects
    /\ UNCHANGED <<closed, connections, conns, loop, datagram, leaving, incoming,
                   accepted, closer, targets>>

Next ==
    \/ ListenLoop \/ Receives \/ \E addr \in Addrs : RecvFrom(addr)
    \/ \E c \in DOMAIN conns : Task(c) \/ TickerCloses(c) \/ TickerLeaves(c)
    \/ Accept \/ Close \/ Closer \/ GcBlocks

(* Every task is scheduled, time passes, the application accepts again and *)
(* again.  It need not read, and no address has to send anything.          *)
Fairness ==
    /\ WF_vars(ListenLoop) /\ WF_vars(loop = "receives" /\ Receives)
    /\ \A c \in 1 .. MaxConns :
         LET made == c \in DOMAIN conns IN
         /\ WF_vars(made /\ Task(c)) /\ WF_vars(made /\ TickerLeaves(c))
         /\ WF_vars(made /\ Unheard(c) /\ TickerCloses(c))
    /\ WF_vars(~ closed /\ Accept) /\ WF_vars(Closer) /\ WF_vars(GcBlocks)

Spec == Init /\ [][Next]_vars /\ Fairness

-----------------------------------------------------------------------------
(* The types: among them the room in the channel, and that everything that *)
(* names a Conn names one that was made.                                   *)
Made == DOMAIN conns
Closers == {"loop", "task", "ticker", "closer"}
Tasks == {"loads", "between", "waits", "woken", "sends", "closes", "removes", "done"}
ConnType == [addr : Addrs, closed : BOOLEAN, connected : BOOLEAN, late : BOOLEAN,
             task : Tasks]
TypeOK ==
    /\ BlockListType
    /\ closed \in BOOLEAN
    /\ DOMAIN connections \subseteq Addrs /\ \A a \in DOMAIN connections : connections[a] \in Made
    /\ conns \in Seq(ConnType)
    /\ Len(conns) <= MaxConns
    /\ loop \in {"top", "recv", "receives", "delivers", "closes", "opens", "fails", "blocks",
                 "ended"}
    /\ from \in Addrs \cup {NoAddr} /\ to \in Made \cup {0}
    /\ leaving \subseteq Closers \X Made
    /\ incoming \in Seq(Made) /\ Len(incoming) <= Capacity
    /\ accepted \subseteq Made
    /\ closer \in {"idle", "begun", "closing", "done"} /\ targets \subseteq Made

(* A closed Conn does not stay in the map: a datagram is given to it only  *)
(* as long as somebody is still in close_immediately of it, so its address *)
(* can connect again, whoever closed it and whatever else was removed.     *)
NoStaleEntry ==
    \A a \in DOMAIN connections :
       conns[connections[a]].closed => \E e \in leaving : e[2] = connections[a]

(* After close the listen loop makes one more Conn at most: it looks at    *)
(* `closed` before it waits for a datagram, and not again after it.        *)
CloseMakesAtMostOne ==
    Cardinality({c \in DOMAIN conns : conns[c].late}) <= 1

(* A Conn that has connected is handed to accept or closed, also when its  *)
(* task looked at `connected` too early and missed the notification.       *)
EstablishedIsAccepted ==
    \A c \in 1 .. MaxConns :
       c \in DOMAIN conns /\ conns[c].connected
          ~> c \in accepted \/ (c \in DOMAIN conns /\ conns[c].closed)

(* After close every Conn ends, those too that are in nobody's map and the *)
(* one that was made meanwhile.                                            *)
AllClosed == \A c \in DOMAIN conns : conns[c].closed
CloseEnds == closed ~> []AllClosed

(* An address that is refused is let in again, whatever the two tasks do   *)
(* to the counter in between.                                              *)
BlockEnds == \A ip \in Ips : IsBlocked(ip) ~> ~ IsBlocked(ip) \/ closed
=============================================================================
