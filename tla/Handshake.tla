----------------------------- MODULE Handshake -----------------------------
(***************************************************************************)
(* One call of dial_addr against one Listener: MTU discovery, the opening  *)
(* of a connection, and the three messages the two Conns exchange until    *)
(* both are connected.  The listener may make several Conns for the same   *)
(* dialer, one after the other.                                            *)
(*                                                                         *)
(* Time is counted in half seconds.  A step of a task takes no time: the   *)
(* clock stops for a message that may not be under way any longer and for  *)
(* a timer that has run out.  What a Conn sends is sent again until it is  *)
(* acknowledged (module Reliability), so a lost datagram of a Conn is one  *)
(* that arrives late.                                                      *)
(***************************************************************************)
EXTENDS Integers, Sequences, FiniteSets

CONSTANTS
    Dials,          \* bound: a Dialer and a path, see the two types
    ResendTime,     \* bound: until a Conn sends a lost datagram again
    MaxPings        \* bound: pings a Conn sends, and sends again, in half a second

(* The configuration of a dialer, by default 10 errors and 10 s.           *)
DialerType == [error_count : Nat, timeout : Nat]

(* What a path may do: the largest datagram it carries, how long one may   *)
(* be under way, whether they may overtake each other, how many it may     *)
(* lose, how many unusable replies a middlebox on it adds, and whether it  *)
(* may go down for a while, or for ever, in one direction or in both.      *)
PathType == [mtu : Nat, delay : Nat, reorders : BOOLEAN, losses : Nat, odd : Nat,
             cuts : BOOLEAN]

ASSUME HandshakeAssumption ==
    /\ Dials \subseteq DialerType \X PathType /\ Dials # {}
    /\ ResendTime \in Nat /\ MaxPings \in Nat \ {0}

MAX_MTU_SIZE == 1492
MTU_SIZES == <<1492, 1200, 576>>
Attempts == 3          \* for each of the sizes
AttemptTime == 1       \* discover_mtu waits 500 ms for a reply 1
ReplyTime == 4         \* open_connection waits 2 s for a reply 2
AcceptTime == 20       \* a listener's Conn has 10 s to be connected
SilenceTime == 10      \* a Conn that hears nothing for 5 s closes

VARIABLES
    config,      \* the Dialer, chosen at the start
    path,        \* chosen at the start
    compatible,  \* chosen at the start: both have the same protocol version
    cookies,     \* chosen at the start: the listener asks for its cookie
    dial,        \* "discovering", "opening"; the steps of wait_connected:
                 \* "looking", "making", "waiting", "woken"; "connected", "failed"
    attempt,     \* requests 1 sent
    errors,
    patience,    \* until recv times out
    left,        \* until the phase of the dial times out
    reply,       \* the usable reply 1
    dialer,      \* the dialer's Conn: state, mtu, quiet, connected; the step of its
                 \* receive task: "receives", "marks"; peer, mixed: see Foreign
    conns,       \* the listener's Conns in the order they were made
    entry,       \* the one in `connections`, or 0
    blocked,     \* the listener refuses the dialer's address
    toListener, toDialer,     \* datagrams under way
    outage,      \* "none", the direction that is down, "both", "over"
    lost, odd    \* kinds of the datagrams lost; odd replies added

dialing == <<dial, attempt, errors, patience, left, reply>>
listener == <<conns, entry, blocked>>
chosen == <<config, path, compatible, cookies>>
vars == <<chosen, dialing, dialer, listener, toListener, toDialer, outage, lost, odd>>

Message(kind, mtu, by) ==
    [kind |-> kind, mtu |-> mtu, by |-> by, cookie |-> FALSE, age |-> 0]
NoReply == Message("reply 1", 0, 0)
Least(a, b) == IF a <= b THEN a ELSE b

(* message/open_connection_request_1.rs: the datagram is as long as the    *)
(* MTU allows, and the MTU is read from its length, of which the           *)
(* identifier has been taken off.                                          *)
LengthOfRequest1(mtu) == mtu - 20 - 8
ReadMtu(length) == (length - 1) + 20 + 8 + 1

Request1(n) == LET mtu == MTU_SIZES[((n - 1) \div Attempts) + 1] IN
               Message("request 1", ReadMtu(LengthOfRequest1(mtu)), 0)

(* A datagram longer than the path carries does not arrive.                *)
Fits(m) == m.mtu <= path.mtu
Through(m) == IF m.kind = "request 1" /\ ~ Fits(m) THEN <<>> ELSE <<m>>

Init ==
    /\ \E d \in Dials : config = d[1] /\ path = d[2]
    /\ compatible \in BOOLEAN /\ cookies \in BOOLEAN
    /\ dial = "discovering" /\ attempt = 1 /\ errors = 0
    /\ patience = AttemptTime /\ left = config.timeout
    /\ reply = NoReply
    /\ dialer = [state |-> "none", mtu |-> 0, quiet |-> 0, connected |-> FALSE,
                 task |-> "receives", peer |-> 0, mixed |-> FALSE]
    /\ conns = <<>> /\ entry = 0 /\ blocked = FALSE
    /\ toListener = Through(Request1(1)) /\ toDialer = <<>>
    /\ outage = "none" /\ lost = <<>> /\ odd = 0

-----------------------------------------------------------------------------
(* discover_mtu.                                                           *)

SendToListener(m) == toListener' = toListener \o Through(m)

(* dial_addr returns an error; its phases and their variables are over.    *)
Fails == /\ dial' = "failed" /\ attempt' = 0 /\ errors' = 0 /\ patience' = 0
         /\ left' = 0 /\ reply' = NoReply

(* The next attempt, with a smaller size after three; after nine attempts  *)
(* the dial has failed.                                                    *)
NextAttempt ==
    IF attempt < Attempts * Len(MTU_SIZES)
    THEN /\ attempt' = attempt + 1 /\ patience' = AttemptTime
         /\ SendToListener(Request1(attempt'))
         /\ UNCHANGED <<dial, errors, left, reply>>
    ELSE Fails /\ UNCHANGED toListener

(* The quirk of a middlebox that answers with an MTU of its own, or in the *)
(* name of nobody.                                                         *)
Usable(m) == m.mtu >= 400 /\ m.mtu <= 1500

(* Request 2 goes back with what reply 1 said.                             *)
Request2(m) == [Message("request 2", m.mtu, 0) EXCEPT !.cookie = m.cookie]

Discovers(m) ==
    /\ dial = "discovering" /\ UNCHANGED dialer
    /\ \/ /\ m.kind = "reply 1" /\ Usable(m)
          /\ dial' = "opening" /\ reply' = m /\ attempt' = 0 /\ errors' = 0
          /\ patience' = ReplyTime /\ left' = config.timeout
          /\ SendToListener(Request2(m))
       \/ m.kind = "incompatible" /\ Fails /\ UNCHANGED toListener
       \/ /\ m.kind # "incompatible" /\ (m.kind = "reply 1" => ~ Usable(m))
          /\ NextAttempt

-----------------------------------------------------------------------------
(* open_connection.                                                        *)

(* Whatever came, or did not come, counts; then request 2 is sent again.   *)
(* (mutated: the first such answer ends the dial; one too many is let by.) *)
CountErrorLate ==
    IF errors + 1 > config.error_count THEN Fails /\ UNCHANGED toListener
    ELSE /\ errors' = errors + 1
         /\ patience' = ReplyTime /\ SendToListener(Request2(reply))
         /\ UNCHANGED <<dial, attempt, left, reply>>
CountErrorStrictly == Fails /\ UNCHANGED toListener
CountError ==
    IF errors + 1 >= config.error_count THEN Fails /\ UNCHANGED toListener
    ELSE /\ errors' = errors + 1
         /\ patience' = ReplyTime /\ SendToListener(Request2(reply))
         /\ UNCHANGED <<dial, attempt, left, reply>>

(* Reply 2: the Conn is made and asks for its connection, its receive task *)
(* is spawned, and the dial comes to wait_connected.                       *)
MakeConn(m) ==
    /\ dialer' = [dialer EXCEPT !.state = "open", !.mtu = m.mtu, !.peer = m.by]
    /\ dial' = "looking" /\ left' = config.timeout
    /\ attempt' = 0 /\ errors' = 0 /\ patience' = 0 /\ reply' = NoReply
    /\ SendToListener(Message("request", 0, 0))

Opens(m) ==
    /\ dial = "opening"
    /\ \/ m.kind = "reply 2" /\ MakeConn(m)
       \/ /\ m.kind # "reply 2" /\ UNCHANGED dialer
          /\ IF m.kind = "incompatible" THEN Fails /\ UNCHANGED toListener
             ELSE CountError

-----------------------------------------------------------------------------
(* The dialer's Conn.                                                      *)

(* close_immediately; the DISCONNECT_NOTIFICATION may stay behind.         *)
DialerCloses ==
    /\ dialer' = [dialer EXCEPT !.state = "closed"]
    /\ \/ SendToListener(Message("disconnect", 0, 0))
       \/ UNCHANGED toListener

(* The two Conns number their packets from 0.  What an earlier or a later  *)
(* Conn of the listener sends may pass for new or for old, and once it has *)
(* got in, so may what the right one sends.                                *)
Foreign(m) == m.by \notin {0, dialer.peer} \/ dialer.mixed

(* DialerConnectionHandler.handle in the receive task, for the messages of *)
(* the connection; all others only show that the peer is there.            *)
(* NewIncomingConnection goes out before the Conn is marked as connected.  *)
Hears(m) == [dialer EXCEPT !.quiet = 0, !.mixed = Foreign(m)]
DialerHandles(m) ==
    /\ dialer.state = "open" /\ dialer.task = "receives" /\ UNCHANGED dialing
    /\ \/ /\ m.kind = "accepted" /\ dialer' = [Hears(m) EXCEPT !.task = "marks"]
          /\ SendToListener(Message("incoming", 0, 0))
       \/ m.kind = "disconnect" /\ DialerCloses
       \/ /\ m.kind \notin {"accepted", "disconnect"} \/ Foreign(m)
          /\ dialer' = Hears(m) /\ UNCHANGED toListener

(* A dial that has failed, or a Conn that is closing, handles nothing.     *)
DialerIgnores ==
    /\ dial = "failed" \/ dialer.state \in {"closing", "closed"}
    /\ UNCHANGED <<dialing, dialer, toListener>>

(* mark_connected.  Only the first call notifies, and only a future that   *)
(* is there.                                                               *)
MarksConnected ==
    /\ dialer.task = "marks"
    /\ dialer' = [dialer EXCEPT !.task = "receives", !.connected = TRUE]
    /\ dial' = IF dial = "waiting" /\ ~ dialer.connected THEN "woken" ELSE dial
    /\ UNCHANGED <<chosen, attempt, errors, patience, left, reply, listener,
                   toListener, toDialer, outage, lost, odd>>

(* wait_connected, in the task of the dial: it looks at connected, makes   *)
(* its future and waits; dial_addr returns the Conn when it is connected   *)
(* at the look or the future is notified.                                  *)
WaitsConnected ==
    /\ \/ dial = "looking" /\ ~ dialer.connected /\ dial' = "making" /\ UNCHANGED left
       \/ dial = "looking" /\ dialer.connected /\ dial' = "connected" /\ left' = 0
       \/ dial = "making" /\ dial' = "waiting" /\ UNCHANGED left
       \/ dial = "woken" /\ dial' = "connected" /\ left' = 0
    /\ UNCHANGED <<chosen, attempt, errors, patience, reply, dialer, listener,
                   toListener, toDialer, outage, lost, odd>>

-----------------------------------------------------------------------------
(* The listener.  It finds the Conn of the address in its map, or handles  *)
(* the message itself.                                                     *)


(* (mutated: reply 1 names the listener's own maximum.)                    *)
Reply1Largest(m) == [Message("reply 1", MAX_MTU_SIZE, 0) EXCEPT !.cookie = cookies]
Reply1(m) == [Message("reply 1", Least(m.mtu, MAX_MTU_SIZE), 0)
              EXCEPT !.cookie = cookies]
SendToDialer(m) == toDialer' = Append(toDialer, m)

HandleRequest1(m) ==
    /\ m.kind = "request 1"
    /\ IF compatible
       THEN SendToDialer(Reply1(m)) /\ UNCHANGED listener
       ELSE /\ SendToDialer(Message("incompatible", 0, 0))
            /\ blocked' = TRUE /\ UNCHANGED <<conns, entry>>

(* Request 2: the reply goes out before the Conn is made.  Without the     *)
(* right cookie the address is blocked.                                    *)
HandleRequest2(m) ==
    LET mtu == Least(m.mtu, MAX_MTU_SIZE) IN
    /\ m.kind = "request 2"
    /\ IF m.cookie = cookies
       THEN /\ SendToDialer(Message("reply 2", mtu, Len(conns) + 1))
            /\ conns' = Append(conns, [state |-> "open", mtu |-> mtu, quiet |-> 0,
                                       connected |-> FALSE, timer |-> AcceptTime])
            /\ entry' = Len(conns) + 1 /\ UNCHANGED blocked
       ELSE /\ blocked' = TRUE /\ UNCHANGED <<conns, entry, toDialer>>

(* handle_unconnected; a datagram of a Conn is no error.                   *)
HandleUnconnected(m) ==
    /\ entry = 0 /\ ~ blocked
    /\ \/ HandleRequest1(m) \/ HandleRequest2(m)
       \/ m.kind \notin {"request 1", "request 2"} /\ UNCHANGED <<listener, toDialer>>

(* close_immediately of a Conn and handler.close, which takes the entry of *)
(* the address out of the map, whichever Conn it leads to.                 *)
ListenerCloses(c) ==
    /\ conns' = [conns EXCEPT ![c].state = "closed"] /\ entry' = 0
    /\ \/ SendToDialer(Message("disconnect", 0, c))
       \/ UNCHANGED toDialer

(* ListenerConnectionHandler.handle; every datagram counts as activity.    *)
(* (mutated: the request already connects.)                                *)
HandleRequestConnecting(m) ==
    /\ m.kind = "request" /\ SendToDialer(Message("accepted", 0, entry))
    /\ conns' = [conns EXCEPT ![entry].connected = TRUE, ![entry].timer = -1]
    /\ UNCHANGED entry
HandleRequest(m) ==
    /\ m.kind = "request" /\ SendToDialer(Message("accepted", 0, entry))
    /\ conns' = [conns EXCEPT ![entry].quiet = 0] /\ UNCHANGED entry

(* mark_connected; the task that waits for it hands the Conn to accept.    *)
HandleIncoming(m) ==
    /\ m.kind = "incoming"
    /\ conns' = [conns EXCEPT ![entry].quiet = 0, ![entry].timer = -1,
                              ![entry].connected = TRUE]
    /\ UNCHANGED <<entry, toDialer>>

ListenerHandles(m) ==
    /\ entry # 0 /\ ~ blocked /\ UNCHANGED blocked
    /\ \/ conns[entry].state = "open" /\ (HandleRequest(m) \/ HandleIncoming(m))
       \/ conns[entry].state = "open" /\ m.kind = "disconnect" /\ ListenerCloses(entry)
       \/ /\ \/ m.kind \in {"request 1", "request 2"}
             \/ conns[entry].state = "closing" \/ dialer.peer # entry
          /\ conns' = [conns EXCEPT ![entry].quiet = 0] /\ UNCHANGED <<entry, toDialer>>

-----------------------------------------------------------------------------
(* The path.                                                               *)

Without(s, i) == SubSeq(s, 1, i - 1) \o SubSeq(s, i + 1, Len(s))
Down(way) == outage \in {way, "both"}
Deliverable(s, way) ==
    {i \in 1 .. Len(s) : ~ Down(way) /\ (i = 1 \/ path.reorders)}

(* A Conn that is not closed sends a datagram again that was lost.         *)
(* (mutated: it does not.)                                                 *)
AgainNever(m) == <<>>
Again(m) ==
    IF \/ m.kind \in {"request", "incoming"} /\ dialer.state = "open"
       \/ m.kind = "accepted" /\ conns[m.by].state # "closed"
    THEN <<[m EXCEPT !.age = -ResendTime]>> ELSE <<>>

DialerReceives ==
    \E i \in Deliverable(toDialer, "to dialer") :
      LET m == toDialer[i] IN
      /\ toDialer' = Without(toDialer, i)
      /\ Discovers(m) \/ Opens(m) \/ DialerHandles(m) \/ DialerIgnores
      /\ UNCHANGED <<chosen, listener, outage, lost, odd>>

ListenerReceives ==
    \E i \in Deliverable(toListener, "to listener") :
      LET m == toListener[i] IN
      /\ IF blocked \/ entry = 0
         THEN toListener' = Without(toListener, i) \o Again(m)
         ELSE toListener' = Without(toListener, i)
      /\ \/ HandleUnconnected(m) \/ ListenerHandles(m)
         \/ blocked /\ UNCHANGED <<listener, toDialer>>
      /\ UNCHANGED <<chosen, dialing, dialer, outage, lost, odd>>

Lose ==
    /\ Len(lost) < path.losses
    /\ \/ \E i \in Deliverable(toDialer, "to dialer") :
            /\ toDialer' = Without(toDialer, i) \o Again(toDialer[i])
            /\ lost' = Append(lost, toDialer[i].kind) /\ UNCHANGED toListener
       \/ \E i \in Deliverable(toListener, "to listener") :
            /\ toListener' = Without(toListener, i) \o Again(toListener[i])
            /\ lost' = Append(lost, toListener[i].kind) /\ UNCHANGED toDialer
    /\ UNCHANGED <<chosen, dialing, dialer, listener, outage, odd>>

AddOdd ==
    /\ odd < path.odd /\ odd' = odd + 1 /\ dial \in {"discovering", "opening"}
    /\ SendToDialer(Message("reply 1", 0, 0))
    /\ UNCHANGED <<chosen, dialing, dialer, listener, toListener, outage, lost>>

(* The path goes down, and may come back.                                  *)
Cut ==
    /\ path.cuts /\ outage = "none"
    /\ outage' \in {"to dialer", "to listener", "both"}
    /\ UNCHANGED <<chosen, dialing, dialer, listener, toListener, toDialer, lost, odd>>
Heal ==
    /\ outage \notin {"none", "over"} /\ outage' = "over"
    /\ UNCHANGED <<chosen, dialing, dialer, listener, toListener, toDialer, lost, odd>>

-----------------------------------------------------------------------------
(* Time.                                                                   *)

Dialing == dial \notin {"connected", "failed"}

(* recv times out: a lost answer and a slow one look the same.             *)
RecvTimesOut ==
    /\ patience = 0
    /\ \/ dial = "discovering" /\ NextAttempt
       \/ dial = "opening" /\ CountError
    /\ UNCHANGED <<chosen, dialer, listener, toDialer, outage, lost, odd>>

(* A phase of the dial times out; the last one closes the Conn.  Its       *)
(* timeout looks at wait_connected before it looks at the time.            *)
DialTimesOut ==
    /\ dial \in {"discovering", "opening", "waiting"} /\ left = 0 /\ Fails
    /\ IF dialer.state \in {"open", "closing"} THEN DialerCloses
       ELSE UNCHANGED <<dialer, toListener>>
    /\ UNCHANGED <<chosen, listener, toDialer, outage, lost, odd>>

(* The task beside a listener's Conn gives up.  It removes the entry of    *)
(* the address once more.                                                  *)
AcceptTimesOut(c) ==
    /\ conns[c].timer = 0 /\ entry' = 0
    /\ conns' = [conns EXCEPT ![c].timer = -1, ![c].state = "closed"]
    /\ IF conns[c].state = "closed" THEN UNCHANGED toDialer
       ELSE \/ SendToDialer(Message("disconnect", 0, c))
            \/ UNCHANGED toDialer
    /\ UNCHANGED <<chosen, dialing, dialer, blocked, toListener, outage, lost, odd>>

(* A Conn that has heard nothing for too long has called close and closes. *)
SilenceCloses ==
    \/ /\ dialer.state = "closing" /\ DialerCloses
       /\ UNCHANGED <<chosen, dialing, listener, toDialer, outage, lost, odd>>
    \/ \E c \in DOMAIN conns :
       /\ conns[c].state = "closing" /\ ListenerCloses(c)
       /\ UNCHANGED <<chosen, dialing, dialer, blocked, toListener, outage, lost, odd>>

(* Half a second.  A Conn pings, and sends its pings again while nobody    *)
(* acknowledges them: they keep the other Conn from closing, but a dial    *)
(* that still waits for reply 2 has to read them.                          *)
Urgent ==
    \/ \E i \in DOMAIN toDialer : toDialer[i].age >= path.delay /\ ~ Down("to dialer")
    \/ \E i \in DOMAIN toListener :
          toListener[i].age >= path.delay /\ ~ Down("to listener")
    \/ dial \in {"discovering", "opening"} /\ patience = 0
    \/ Dialing /\ left = 0
    \/ dial \in {"looking", "making", "woken"} \/ dialer.task = "marks"
    \/ \E c \in DOMAIN conns : conns[c].timer = 0

(* Every message gets older; on a path that is down it is lost in the end. *)
Older(s, way) ==
    LET expired == {i \in DOMAIN s : Down(way) /\ s[i].age >= path.delay}
        Next1(i) == IF i \in expired THEN Again(s[i]) ELSE <<[s[i] EXCEPT !.age = @ + 1]>>
        joined[n \in 0 .. Len(s)] == IF n = 0 THEN <<>> ELSE joined[n - 1] \o Next1(n)
    IN joined[Len(s)]
Open == {c \in DOMAIN conns : conns[c].state = "open"}
Pings == IF dial # "opening" \/ Open = {} THEN {<<>>}
         ELSE {[i \in 1 .. n |-> Message("ping", 0, c)] : c \in Open, n \in 1 .. MaxPings}

(* (mutated: a Conn does not look whether it hears anything.)              *)
QuieterForever(conn, hears) == conn
Quieter(conn, hears) ==
    IF hears \/ conn.state # "open" THEN [conn EXCEPT !.quiet = 0]
    ELSE [conn EXCEPT !.quiet = @ + 1,
                      !.state = IF @ = "open" /\ conn.quiet + 1 = SilenceTime
                                THEN "closing" ELSE @]

Tick ==
    /\ ~ Urgent
    /\ patience' = IF dial \in {"discovering", "opening"} THEN patience - 1 ELSE 0
    /\ left' = IF Dialing THEN left - 1 ELSE 0
    /\ dialer' = [Quieter(dialer, Open # {} /\ ~ Down("to dialer")) EXCEPT
                    !.mixed = @ \/ (dialer.state = "open" /\ Open \ {dialer.peer} # {})]
    /\ conns' = [c \in DOMAIN conns |->
                   [Quieter(conns[c], /\ entry = c /\ dialer.state = "open"
                                      /\ ~ Down("to listener")) EXCEPT
                      !.timer = IF @ > 0 THEN @ - 1 ELSE @]]
    /\ toListener' = Older(toListener, "to listener")
    /\ \E pings \in Pings : toDialer' = Older(toDialer, "to dialer") \o pings
    /\ UNCHANGED <<chosen, dial, attempt, errors, reply, entry, blocked, outage, lost, odd>>

Next ==
    \/ DialerReceives \/ MarksConnected \/ WaitsConnected
    \/ ListenerReceives \/ Lose \/ AddOdd \/ Cut \/ Heal
    \/ RecvTimesOut \/ DialTimesOut \/ SilenceCloses \/ Tick
    \/ \E c \in DOMAIN conns : AcceptTimesOut(c)

(* Both programs are scheduled and time passes.                            *)
Spec ==
    /\ Init /\ [][Next]_vars
    /\ WF_vars(DialerReceives) /\ WF_vars(MarksConnected) /\ WF_vars(WaitsConnected)
    /\ WF_vars(ListenerReceives)
    /\ WF_vars(RecvTimesOut) /\ WF_vars(DialTimesOut) /\ WF_vars(SilenceCloses)
    /\ WF_vars(\E c \in DOMAIN conns : AcceptTimesOut(c)) /\ WF_vars(Tick)

-----------------------------------------------------------------------------
(* The types: among them the limits on attempts, errors and waiting.       *)
Sizes == {0} \cup {ReadMtu(LengthOfRequest1(MTU_SIZES[i])) : i \in DOMAIN MTU_SIZES}
ConnState == {"open", "closing", "closed"}
Kinds == {"request 1", "request 2", "reply 1", "reply 2", "incompatible", "request",
          "accepted", "incoming", "disconnect", "ping"}
MessageType ==
    [kind : Kinds, mtu : Sizes, by : 0 .. Len(conns), cookie : BOOLEAN,
     age : (- ResendTime) .. path.delay]

TypeOK ==
    /\ <<config, path>> \in Dials /\ compatible \in BOOLEAN /\ cookies \in BOOLEAN
    /\ dial \in {"discovering", "opening", "looking", "making", "waiting", "woken",
                "connected", "failed"}
    /\ attempt \in 0 .. Attempts * Len(MTU_SIZES)
    /\ errors \in Nat /\ (errors = 0 \/ errors < config.error_count)
    /\ patience \in 0 .. ReplyTime /\ left \in 0 .. config.timeout
    /\ reply \in MessageType
    /\ dialer \in [state : ConnState \cup {"none"}, mtu : Sizes, quiet : 0 .. SilenceTime,
                   connected : BOOLEAN, task : {"receives", "marks"},
                   peer : 0 .. Len(conns), mixed : BOOLEAN]
    /\ conns \in Seq([state : ConnState, mtu : Sizes, quiet : 0 .. SilenceTime,
                      connected : BOOLEAN, timer : -1 .. AcceptTime])
    /\ entry \in 0 .. Len(conns) /\ blocked \in BOOLEAN
    /\ toListener \in Seq(MessageType) /\ toDialer \in Seq(MessageType)
    /\ outage \in {"none", "to dialer", "to listener", "both", "over"}
    /\ lost \in Seq(Kinds) /\ Len(lost) <= path.losses /\ odd \in 0 .. path.odd

(* Both Conns of a connection cut their datagrams to the same size, and    *)
(* one the path carries: the size that was read from the length of the     *)
(* request that got through travels through both replies and request 2.    *)
MtuAgrees ==
    dialer.state # "none" =>
       /\ dialer.mtu <= path.mtu
       /\ dialer.peer \in DOMAIN conns /\ conns[dialer.peer].mtu = dialer.mtu

(* The dialer's Conn has handled the answer to its request.                *)
Answered == dialer.task = "marks" \/ dialer.connected

(* Behind MtuAgrees and AcceptedAnswered: what the datagrams under way     *)
(* say.  None names a size the path does not carry, the message that       *)
(* connects the listener's Conn comes from a dialer that has its answer,   *)
(* and reply 2 names a Conn and its size.                                  *)
RequestType ==
    {m \in MessageType : Fits(m) /\ (m.kind = "incoming" => Answered)}
ReplyType ==
    {m \in MessageType : /\ Fits(m)
                         /\ m.kind = "reply 2" => /\ m.by \in DOMAIN conns
                                                  /\ conns[m.by].mtu = m.mtu}
DatagramsSound ==
    /\ toListener \in Seq(RequestType) /\ toDialer \in Seq(ReplyType)
    /\ Fits(reply)

(* Behind TypeOK: a Conn starts anew, and is closing when it has heard      *)
(* nothing for long enough.                                                *)
ClosesInTime ==
    /\ dial \in {"discovering", "opening"} => dialer.state = "none"
    /\ dialer.state \in {"none", "open"} => dialer.quiet < SilenceTime
    /\ \A c \in DOMAIN conns : conns[c].state = "open" => conns[c].quiet < SilenceTime

Carries(losses) == /\ compatible /\ path.mtu >= 576 /\ ~ path.cuts
                   /\ Len(lost) <= losses

(* The dialer's Conn is connected and the dial does not learn of it:       *)
(* mark_connected came between the look of wait_connected and its future.  *)
Missed == dialer.connected /\ dial \in {"making", "waiting", "failed"}

(* A path that loses nothing, carries the smallest size and takes at most  *)
(* its delay either way always lets the dial and the listener connect,     *)
(* unless wait_connected misses it: the late replies to attempts that were *)
(* given up, which open_connection counts as errors, and a middlebox's odd *)
(* reply do not use up the patience of either side.                        *)
LosslessConnects ==
    Carries(0) /\ ~ Missed =>
       /\ dial # "failed"
       /\ \A c \in DOMAIN conns : conns[c].state = "open"

(* Nor does one lost datagram keep them apart, reply 2 excepted: request 2 *)
(* is then ignored by the Conn it made before, and the dialer counts that  *)
(* Conn's pings.  A dialer that is patient enough outlives that Conn.      *)
Patient ==
    /\ config.timeout > AcceptTime + ReplyTime + 4 * path.delay
    /\ config.error_count > MaxPings * (AcceptTime + path.delay) + 1
OneLossConnects ==
    Carries(1) /\ dial = "failed" /\ ~ Missed => lost = <<"reply 2">> /\ ~ Patient

(* A Conn is handed to accept only when the dialer has got the answer to   *)
(* its request, although the message that connects it may be late and meet *)
(* another Conn of the address.  That the dial succeeds is not said: it    *)
(* may still time out, or miss that its own Conn is connected.             *)
AcceptedAnswered ==
    \A c \in DOMAIN conns : conns[c].connected => Answered

(* Whatever was lost, neither side stays connected to nobody: in the end   *)
(* there is one connection with both its ends, or none.                    *)
Together ==
    /\ dial = "connected" /\ dialer.state = "open" /\ entry = dialer.peer
    /\ Open = {entry} /\ conns[entry].connected
Apart == dialer.state \in {"none", "closed"} /\ Open = {} /\ entry = 0
Settles == <>[]Together \/ <>[](Apart /\ ~ Dialing)
=============================================================================
