--------------------------- MODULE Handshake_proofs ---------------------------
(***************************************************************************)
(* Theorems of Handshake, for every set of dialers and paths: any number   *)
(* of errors a dialer bears with, any timeout, any delay, loss and size.   *)
(***************************************************************************)
EXTENDS Handshake, SequenceTheorems, NaturalsInduction, WellFoundedInduction, TLAPS

-----------------------------------------------------------------------------
(* The parts of the invariant, by who changes them.                        *)

ConnType == [state : ConnState, mtu : Sizes, quiet : 0 .. SilenceTime,
             connected : BOOLEAN, timer : -1 .. AcceptTime]
InTime(conn) == conn.state \in {"none", "open"} => conn.quiet < SilenceTime

ChosenOK ==
    /\ <<config, path>> \in Dials /\ compatible \in BOOLEAN /\ cookies \in BOOLEAN
DialOK ==
    /\ dial \in {"discovering", "opening", "looking", "making", "waiting", "woken",
                "connected", "failed"}
    /\ attempt \in 0 .. Attempts * Len(MTU_SIZES)
    /\ errors \in Nat /\ (errors = 0 \/ errors < config.error_count)
    /\ patience \in 0 .. ReplyTime /\ left \in 0 .. config.timeout
ReplyOK == reply \in MessageType /\ Fits(reply)
DialerOK ==
    /\ dialer \in [state : ConnState \cup {"none"}, mtu : Sizes, quiet : 0 .. SilenceTime,
                   connected : BOOLEAN, task : {"receives", "marks"},
                   peer : 0 .. Len(conns), mixed : BOOLEAN]
    /\ dial \in {"discovering", "opening"} => dialer.state = "none"
    /\ InTime(dialer) /\ MtuAgrees
ConnsOK ==
    /\ conns \in Seq(ConnType) /\ \A c \in DOMAIN conns : InTime(conns[c])
    /\ entry \in 0 .. Len(conns) /\ blocked \in BOOLEAN
DatagramsOK == toListener \in Seq(RequestType) /\ toDialer \in Seq(ReplyType)
PathOK ==
    /\ outage \in {"none", "to dialer", "to listener", "both", "over"}
    /\ lost \in Seq(Kinds) /\ Len(lost) <= path.losses /\ odd \in 0 .. path.odd

IInv == /\ ChosenOK /\ DialOK /\ ReplyOK /\ DialerOK /\ ConnsOK /\ DatagramsOK /\ PathOK
        /\ AcceptedAnswered

LEMMA SeqWider ==
  ASSUME NEW S, NEW T, S \subseteq T, NEW s \in Seq(S)
  PROVE  s \in Seq(T)
OBVIOUS

LEMMA SeqJoined ==
  ASSUME NEW S, NEW s \in Seq(S), NEW t, t = <<>> \/ (\E m \in S : t = <<m>>) \/ t \in Seq(S)
  PROVE  s \o t \in Seq(S)
<1>1. ASSUME NEW m \in S PROVE <<m>> \in Seq(S)
  OBVIOUS
<1>2. <<>> \in Seq(S)
  OBVIOUS
<1>3. t \in Seq(S)
  BY <1>1, <1>2, Zenon
<1> QED
  BY <1>3

LEMMA Parts == IInv => TypeOK /\ MtuAgrees /\ AcceptedAnswered /\ DatagramsSound /\ ClosesInTime
<1>1. RequestType \subseteq MessageType /\ ReplyType \subseteq MessageType
  BY DEF RequestType, ReplyType
<1>2. DatagramsOK => toListener \in Seq(MessageType) /\ toDialer \in Seq(MessageType)
  BY <1>1, SeqWider DEF DatagramsOK
<1> QED
  BY <1>2 DEF IInv, ChosenOK, DialOK, ReplyOK, DialerOK, ConnsOK, DatagramsOK, PathOK, ConnType,
              InTime, TypeOK, DatagramsSound, ClosesInTime

-----------------------------------------------------------------------------
(* Sizes and messages.                                                     *)

LEMMA SizesAre == /\ Sizes = {0, 576, 1200, 1492} /\ Len(MTU_SIZES) = 3
                  /\ \A i \in 1 .. 3 : MTU_SIZES[i] \in {576, 1200, 1492}
<1>1. MTU_SIZES = <<1492, 1200, 576>> /\ DOMAIN MTU_SIZES = 1 .. 3
  BY DEF MTU_SIZES
<1>2. 1 .. 3 = {1, 2, 3}
  OBVIOUS
<1>3. MTU_SIZES[1] = 1492 /\ MTU_SIZES[2] = 1200 /\ MTU_SIZES[3] = 576
  BY DEF MTU_SIZES
<1> QED
  BY <1>1, <1>2, <1>3 DEF Sizes, ReadMtu, LengthOfRequest1, MTU_SIZES

LEMMA PathFields ==
  ASSUME ChosenOK
  PROVE  /\ ResendTime \in Nat /\ MaxPings \in Nat
         /\ config.error_count \in Nat /\ config.timeout \in Nat
         /\ path.mtu \in Nat /\ path.delay \in Nat /\ path.losses \in Nat /\ path.odd \in Nat
         /\ 0 \in (- ResendTime) .. path.delay /\ - ResendTime \in (- ResendTime) .. path.delay
<1>1. config \in DialerType /\ path \in PathType
  BY HandshakeAssumption DEF ChosenOK
<1>2. /\ ResendTime \in Nat /\ MaxPings \in Nat
      /\ config.error_count \in Nat /\ config.timeout \in Nat
      /\ path.mtu \in Nat /\ path.delay \in Nat /\ path.losses \in Nat /\ path.odd \in Nat
  BY <1>1, HandshakeAssumption DEF DialerType, PathType
<1>3. \A r, d \in Nat : 0 \in (- r) .. d /\ - r \in (- r) .. d
  OBVIOUS
<1> QED
  BY <1>2, <1>3

PlainKinds == Kinds \ {"reply 2", "incoming"}

LEMMA MessageTyped ==
  ASSUME ChosenOK, NEW kind \in Kinds, NEW mtu \in Sizes, NEW by \in 0 .. Len(conns)
  PROVE  /\ Message(kind, mtu, by) \in MessageType /\ Message(kind, mtu, by).kind = kind
         /\ Message(kind, mtu, by).mtu = mtu /\ Message(kind, mtu, by).by = by
<1>1. 0 \in (- ResendTime) .. path.delay
  BY PathFields
<1>2. MessageType = [kind : Kinds, mtu : Sizes, by : 0 .. Len(conns), cookie : BOOLEAN,
                     age : (- ResendTime) .. path.delay]
  BY DEF MessageType, Kinds
<1> QED
  BY <1>1, <1>2 DEF Message

(* What both may say, unless it is reply 2 or the message that connects    *)
(* the listener's Conn.                                                    *)
LEMMA PlainMessage ==
  ASSUME ChosenOK, NEW kind \in PlainKinds, NEW by \in 0 .. Len(conns)
  PROVE  /\ Message(kind, 0, by) \in MessageType /\ Message(kind, 0, by).kind = kind
         /\ Fits(Message(kind, 0, by))
         /\ Message(kind, 0, by) \in RequestType /\ Message(kind, 0, by) \in ReplyType
<1>1. kind \in Kinds /\ kind # "reply 2" /\ kind # "incoming"
  BY DEF PlainKinds
<1>2. 0 \in Sizes
  BY SizesAre
<1>3. Message(kind, 0, by) \in MessageType
  BY <1>1, <1>2, MessageTyped, Zenon
<1>4. Message(kind, 0, by).kind = kind /\ Message(kind, 0, by).mtu = 0
  BY DEF Message
<1>5. Fits(Message(kind, 0, by))
  BY <1>4, PathFields DEF Fits
<1> QED
  BY <1>1, <1>3, <1>4, <1>5 DEF RequestType, ReplyType

LEMMA NoReplyTyped ==
  ASSUME ChosenOK, ConnsOK
  PROVE  NoReply \in MessageType /\ Fits(NoReply)
<1>1. 0 \in 0 .. Len(conns)
  BY DEF ConnsOK
<1>2. "reply 1" \in PlainKinds
  BY DEF PlainKinds, Kinds
<1> QED
  BY <1>1, <1>2, PlainMessage DEF NoReply

(* The age of a datagram says nothing about what is in it.                 *)
Ages(S) == \A m \in S, age \in (- ResendTime) .. path.delay : [m EXCEPT !.age = age] \in S
LEMMA RequestsAge == Ages(RequestType)
BY DEF Ages, RequestType, MessageType, Fits
LEMMA RepliesAge == Ages(ReplyType)
BY DEF Ages, ReplyType, MessageType, Fits

LEMMA AgainType ==
  ASSUME ChosenOK, NEW S, Ages(S), NEW m \in S
  PROVE  Again(m) \in Seq(S)
<1>2. [m EXCEPT !.age = - ResendTime] \in S
  BY PathFields DEF Ages
<1> QED
  BY <1>2 DEF Again

LEMMA WithoutType ==
  ASSUME NEW S, NEW s \in Seq(S), NEW i \in 1 .. Len(s)
  PROVE  Without(s, i) \in Seq(S)
<1>1. SubSeq(s, 1, i - 1) \in Seq(S) /\ SubSeq(s, i + 1, Len(s)) \in Seq(S)
  OBVIOUS
<1> QED
  BY <1>1 DEF Without

(* Induction over 0 .. n, from the least number of a set.                  *)
LEMMA UpTo ==
  ASSUME NEW n \in Nat, NEW S, 0 \in S,
         \A k \in 1 .. n : k - 1 \in S => k \in S
  PROVE  \A k \in 0 .. n : k \in S
<1> DEFINE T == {k \in Nat : k <= n /\ k \notin S}
<1>1. SUFFICES T = {}
  OBVIOUS
<1>2. SUFFICES ASSUME T # {} PROVE FALSE
  OBVIOUS
<1>3. PICK k \in T : \A l \in T : ~ (<<l, k>> \in OpToRel(<, Nat))
  BY <1>2, WFMin, NatLessThanWellFounded, Zenon
<1>4. k \in Nat /\ k <= n /\ k \notin S /\ k # 0
  BY <1>3
<1>5. k - 1 \in Nat /\ k - 1 < k /\ k - 1 <= n /\ k \in 1 .. n
  BY <1>4
<1>6. k - 1 \notin T
  BY <1>3, <1>5 DEF OpToRel
<1> QED
  BY <1>4, <1>5, <1>6

(* The loop that joins sequences in their order.                           *)
LEMMA Joined ==
  ASSUME NEW S, NEW n \in Nat, NEW next \in [1 .. n -> Seq(S)]
  PROVE  /\ \E f : f = [k \in 0 .. n |-> IF k = 0 THEN <<>> ELSE f[k - 1] \o next[k]]
         /\ \A f : f = [k \in 0 .. n |-> IF k = 0 THEN <<>> ELSE f[k - 1] \o next[k]]
                     => f[n] \in Seq(S)
<1> DEFINE Turn(f, k) == IF k = 0 THEN <<>> ELSE f[k - 1] \o next[k]
           Loop(f, l) == f = [k \in 0 .. l |-> Turn(f, k)]
<1>1. ASSUME NEW f PROVE Turn(f, 0) \in Seq(S)
  OBVIOUS
<1>2. ASSUME NEW f, NEW k \in 1 .. n, f[k - 1] \in Seq(S) PROVE Turn(f, k) \in Seq(S)
  <2>1. next[k] \in Seq(S) /\ k # 0
    OBVIOUS
  <2>2. f[k - 1] \o next[k] \in Seq(S)
    BY <1>2, <2>1
  <2> QED
    BY <2>1, <2>2
<1>3. ASSUME NEW f, NEW g, NEW k, k = 0 \/ f[k - 1] = g[k - 1] PROVE Turn(f, k) = Turn(g, k)
  BY <1>3
<1> HIDE DEF Turn
<1>4. \E f : Loop(f, n)
  <2> DEFINE T == {l \in 0 .. n : \E f : Loop(f, l)}
  <2>1. 0 \in T
    <3> DEFINE f == [k \in 0 .. 0 |-> Turn(<<>>, k)]
               g == [k \in 0 .. 0 |-> Turn(f, k)]
    <3>1. \A k \in 0 .. 0 : f[k] = g[k]
      BY <1>3
    <3>2. f = g
      BY <3>1
    <3>3. Loop(f, 0)
      BY <3>2
    <3> HIDE DEF Loop, f
    <3> QED
      BY <3>3
  <2>2. ASSUME NEW l \in 1 .. n, l - 1 \in T PROVE l \in T
    <3>1. PICK f : Loop(f, l - 1)
      BY <2>2
    <3>2. \A k \in 0 .. (l - 1) : f[k] = Turn(f, k)
      BY <3>1
    <3> DEFINE g == [k \in 0 .. l |-> IF k = l THEN Turn(f, l) ELSE f[k]]
               h == [k \in 0 .. l |-> Turn(g, k)]
    <3>3. ASSUME NEW k \in 0 .. l PROVE g[k] = h[k]
      <4>1. g[k] = Turn(f, k)
        BY <3>2
      <4>2. k = 0 \/ (k - 1 \in 0 .. l /\ k - 1 # l)
        OBVIOUS
      <4>3. k = 0 \/ f[k - 1] = g[k - 1]
        BY <4>2
      <4>4. Turn(f, k) = Turn(g, k)
        BY <1>3, <4>3
      <4> QED
        BY <4>1, <4>4
    <3>4. g = h
      BY <3>3
    <3>5. Loop(g, l)
      BY <3>4
    <3> HIDE DEF Loop, g
    <3>6. l \in 0 .. n
      OBVIOUS
    <3> QED
      BY <3>5, <3>6
  <2> HIDE DEF T
  <2>3. \A k \in 0 .. n : k \in T
    BY <2>1, <2>2, UpTo
  <2>4. n \in T
    BY <2>3
  <2> QED
    BY <2>4 DEF T
<1>5. ASSUME NEW f, Loop(f, n) PROVE f[n] \in Seq(S)
  <2> DEFINE T == {k \in 0 .. n : f[k] \in Seq(S)}
  <2>1. \A k \in 0 .. n : f[k] = Turn(f, k)
    BY <1>5
  <2> HIDE DEF Loop
  <2>2. 0 \in T
    BY <1>1, <2>1
  <2>3. ASSUME NEW k \in 1 .. n, k - 1 \in T PROVE k \in T
    BY <1>2, <2>1, <2>3
  <2> HIDE DEF T
  <2>4. \A k \in 0 .. n : k \in T
    BY <2>2, <2>3, UpTo
  <2>5. n \in T
    BY <2>4
  <2> QED
    BY <2>5 DEF T
<1> QED
  BY <1>4, <1>5 DEF Turn

(* Half a second makes no other messages of those under way.               *)
LEMMA OlderType ==
  ASSUME ChosenOK, NEW S, Ages(S), NEW s \in Seq(S), NEW way,
         \A m \in S : m.age \in (- ResendTime) .. path.delay,
         \A i \in DOMAIN s : s[i].age >= path.delay => Down(way)
  PROVE  Older(s, way) \in Seq(S)
<1> DEFINE expired == {i \in DOMAIN s : Down(way) /\ s[i].age >= path.delay}
           Next1(i) == IF i \in expired THEN Again(s[i]) ELSE <<[s[i] EXCEPT !.age = @ + 1]>>
           next == [i \in 1 .. Len(s) |-> Next1(i)]
           Loop(f) == f = [n \in 0 .. Len(s) |-> IF n = 0 THEN <<>> ELSE f[n - 1] \o Next1(n)]
           joined == CHOOSE f : Loop(f)
<1>1. Len(s) \in Nat /\ DOMAIN s = 1 .. Len(s)
  OBVIOUS
<1>2. ASSUME NEW i \in 1 .. Len(s) PROVE Next1(i) \in Seq(S)
  <2>1. s[i] \in S
    OBVIOUS
  <2>2. CASE i \in expired
    <3>1. Again(s[i]) \in Seq(S)
      BY <2>1, AgainType
    <3> QED
      BY <2>2, <3>1
  <2>3. CASE i \notin expired
    <3>1. ~ (s[i].age >= path.delay)
      BY <1>1, <2>3
    <3>2. s[i].age + 1 \in (- ResendTime) .. path.delay
      BY <2>1, <3>1, PathFields
    <3>3. [s[i] EXCEPT !.age = @ + 1] \in S
      BY <2>1, <3>2 DEF Ages
    <3> QED
      BY <2>3, <3>3
  <2> QED
    BY <2>2, <2>3
<1>3. Older(s, way) = joined[Len(s)]
  BY DEF Older
<1> HIDE DEF Next1
<1>4. next \in [1 .. Len(s) -> Seq(S)]
  BY <1>2
<1>5. ASSUME NEW f
      PROVE  Loop(f) <=> f = [n \in 0 .. Len(s) |-> IF n = 0 THEN <<>> ELSE f[n - 1] \o next[n]]
  <2>1. \A n \in 0 .. Len(s) : n # 0 => next[n] = Next1(n)
    BY <1>1
  <2> HIDE DEF next
  <2>2. [n \in 0 .. Len(s) |-> IF n = 0 THEN <<>> ELSE f[n - 1] \o Next1(n)]
        = [n \in 0 .. Len(s) |-> IF n = 0 THEN <<>> ELSE f[n - 1] \o next[n]]
    BY <2>1
  <2> QED
    BY <2>2
<1> HIDE DEF next, Loop
<1>6. \E f : Loop(f)
  BY <1>1, <1>4, <1>5, Joined
<1>7. Loop(joined)
  BY <1>6
<1> HIDE DEF joined
<1>8. joined[Len(s)] \in Seq(S)
  BY <1>1, <1>4, <1>5, <1>7, Joined
<1> QED
  BY <1>3, <1>8

-----------------------------------------------------------------------------
(* What stays true of a message while Conns are added and the dial goes on. *)

Grows == /\ Len(conns) \in Nat /\ Len(conns') \in Nat /\ Len(conns) <= Len(conns')
         /\ DOMAIN conns = 1 .. Len(conns) /\ DOMAIN conns' = 1 .. Len(conns')
         /\ \A c \in DOMAIN conns : conns'[c].mtu = conns[c].mtu
Progresses ==
    /\ Answered => Answered'
    /\ dial' \in {"discovering", "opening"} => dial \in {"discovering", "opening"}

LEMMA ConnsFacts ==
  ASSUME ConnsOK
  PROVE  /\ Len(conns) \in Nat /\ DOMAIN conns = 1 .. Len(conns)
         /\ \A c \in 1 .. Len(conns) : conns[c] \in ConnType
         /\ UNCHANGED conns => Grows
BY DEF ConnsOK, Grows

LEMMA Monotone ==
  ASSUME Grows, Progresses, path' = path
  PROVE  /\ MessageType \subseteq MessageType' /\ RequestType \subseteq RequestType'
         /\ ReplyType \subseteq ReplyType' /\ \A m : Fits(m) => Fits(m)'
<1>0. 0 .. Len(conns) \subseteq 0 .. Len(conns')
  BY DEF Grows
<1>1. \A m : Fits(m) => Fits(m)'
  BY DEF Fits
<1>2. MessageType \subseteq MessageType'
  BY <1>0 DEF MessageType
<1>3. RequestType \subseteq RequestType'
  BY <1>1, <1>2 DEF RequestType, Progresses
<1>4. \A c \in DOMAIN conns : c \in DOMAIN conns' /\ conns'[c].mtu = conns[c].mtu
  BY DEF Grows
<1>5. ReplyType \subseteq ReplyType'
  BY <1>1, <1>2, <1>4 DEF ReplyType
<1> QED
  BY <1>1, <1>2, <1>3, <1>5

LEMMA DatagramsKept ==
  ASSUME Grows, Progresses, path' = path
  PROVE  /\ \A s \in Seq(RequestType) : s \in Seq(RequestType')
         /\ \A s \in Seq(ReplyType) : s \in Seq(ReplyType')
BY Monotone, SeqWider

LEMMA ReplyKept ==
  ASSUME ReplyOK, Grows, Progresses, path' = path, reply' = reply
  PROVE  ReplyOK'
BY Monotone DEF ReplyOK, Fits

LEMMA DialerKept ==
  ASSUME DialerOK, Grows, Progresses, path' = path,
         dialer' \in [state : ConnState \cup {"none"}, mtu : Sizes, quiet : 0 .. SilenceTime,
                      connected : BOOLEAN, task : {"receives", "marks"},
                      peer : 0 .. Len(conns), mixed : BOOLEAN],
         dialer'.mtu = dialer.mtu, dialer'.peer = dialer.peer,
         dialer.state = "none" <=> dialer'.state = "none", InTime(dialer')
  PROVE  DialerOK'
<1>1. 0 .. Len(conns) \subseteq 0 .. Len(conns')
  BY DEF Grows
<1>2. dialer' \in [state : ConnState \cup {"none"}, mtu : Sizes, quiet : 0 .. SilenceTime,
                   connected : BOOLEAN, task : {"receives", "marks"},
                   peer : 0 .. Len(conns'), mixed : BOOLEAN]
  BY <1>1
<1>3. MtuAgrees'
  BY DEF DialerOK, MtuAgrees, Grows
<1> QED
  BY <1>2, <1>3 DEF DialerOK, InTime, Progresses

LEMMA DialerUnchanged ==
  ASSUME DialerOK, Grows, Progresses, path' = path, dialer' = dialer
  PROVE  DialerOK'
BY DialerKept DEF DialerOK

(* Closing, or hearing nothing, does not change what was answered.         *)
LEMMA AnsweredKept ==
  ASSUME dialer'.connected = dialer.connected, dialer'.task = dialer.task
  PROVE  Answered => Answered'
BY DEF Answered

LEMMA ClosesAnswered ==
  ASSUME DialerOK, DialerCloses
  PROVE  Answered => Answered'
<1>1. dialer'.connected = dialer.connected /\ dialer'.task = dialer.task
  BY DEF DialerOK, DialerCloses
<1> QED
  BY <1>1, AnsweredKept

-----------------------------------------------------------------------------
(* The dialer.                                                             *)

(* Nothing longer than the path carries gets on the way.                   *)
LEMMA Sends ==
  ASSUME toListener \in Seq(RequestType), Grows, Progresses, path' = path,
         NEW m \in MessageType, m.kind = "request 1" \/ Fits(m),
         m.kind = "incoming" => Answered', SendToListener(m)
  PROVE  toListener' \in Seq(RequestType')
<1>1. m \in MessageType' /\ toListener \in Seq(RequestType')
  BY Monotone, DatagramsKept
<1>2. Fits(m) => m \in RequestType'
  BY <1>1, Monotone DEF RequestType
<1>3. Through(m) = <<>> \/ (Through(m) = <<m>> /\ Fits(m))
  BY DEF Through
<1>4. Through(m) = <<>> \/ \E x \in RequestType' : Through(m) = <<x>>
  BY <1>2, <1>3
<1>5. toListener \o Through(m) \in Seq(RequestType')
  BY <1>1, <1>4, SeqJoined
<1> QED
  BY <1>5 DEF SendToListener

(* dial_addr has returned an error.                                        *)
LEMMA FailsType ==
  ASSUME ChosenOK, ConnsOK, UNCHANGED <<path, conns, config>>, Fails
  PROVE  DialOK' /\ ReplyOK'
<1>1. NoReply \in MessageType /\ Fits(NoReply)
  BY NoReplyTyped
<1>2. MessageType' = MessageType
  BY DEF MessageType
<1>3. ReplyOK'
  BY <1>1, <1>2, PathFields DEF Fails, ReplyOK, Fits
<1>4. DialOK'
  BY PathFields, SizesAre DEF Fails, DialOK, Attempts, ReplyTime
<1> QED
  BY <1>3, <1>4

LEMMA Request1Type ==
  ASSUME ConnsOK, ChosenOK, NEW n \in 1 .. Attempts * Len(MTU_SIZES)
  PROVE  Request1(n) \in MessageType /\ Request1(n).kind = "request 1"
<1>1. ((n - 1) \div Attempts) + 1 \in 1 .. 3
  BY SizesAre DEF Attempts
<1> DEFINE mtu == MTU_SIZES[((n - 1) \div Attempts) + 1]
<1>2. mtu \in {576, 1200, 1492}
  BY <1>1, SizesAre
<1> HIDE DEF mtu
<1> DEFINE size == ReadMtu(LengthOfRequest1(mtu))
<1>3. size \in Sizes
  BY <1>2, SizesAre DEF ReadMtu, LengthOfRequest1
<1>4. Request1(n) = Message("request 1", size, 0)
  BY DEF Request1, mtu
<1>5. 0 \in 0 .. Len(conns)
  BY ConnsFacts
<1>6. "request 1" \in Kinds
  BY DEF Kinds
<1> HIDE DEF size
<1>7. Message("request 1", size, 0) \in MessageType
  BY <1>3, <1>5, <1>6, MessageTyped, Zenon
<1>8. Message("request 1", size, 0).kind = "request 1"
  BY DEF Message
<1> QED
  BY <1>4, <1>7, <1>8

(* The phases that end an attempt: the next one, or the end of the dial.   *)
LEMMA NextAttemptType ==
  ASSUME IInv, dial \in {"discovering", "opening"},
         UNCHANGED <<path, conns, config, dialer>>, NextAttempt
  PROVE  DialOK' /\ ReplyOK' /\ toListener' \in Seq(RequestType')
<1>0. Grows /\ Progresses /\ ConnsOK /\ ChosenOK /\ DialOK /\ ReplyOK
      /\ toListener \in Seq(RequestType)
  BY ConnsFacts DEF IInv, Progresses, Answered, DatagramsOK
<1>1. CASE Fails /\ UNCHANGED toListener
  BY <1>0, <1>1, FailsType, DatagramsKept
<1>2. CASE /\ attempt < Attempts * Len(MTU_SIZES)
           /\ attempt' = attempt + 1 /\ patience' = AttemptTime
           /\ SendToListener(Request1(attempt'))
           /\ UNCHANGED <<dial, errors, left, reply>>
  <2>1. attempt' \in 1 .. Attempts * Len(MTU_SIZES)
    BY <1>0, <1>2, SizesAre DEF DialOK, Attempts
  <2>2. Request1(attempt') \in MessageType /\ Request1(attempt').kind = "request 1"
    BY <1>0, <2>1, Request1Type
  <2>3. toListener' \in Seq(RequestType')
    BY <1>0, <1>2, <2>2, Sends
  <2>4. DialOK'
    BY <1>0, <1>2, <2>1, SizesAre DEF DialOK, Attempts, AttemptTime, ReplyTime
  <2>5. ReplyOK'
    BY <1>0, <1>2, ReplyKept
  <2> QED
    BY <2>3, <2>4, <2>5
<1> QED
  BY <1>1, <1>2 DEF NextAttempt

LEMMA Request2Type ==
  ASSUME ConnsOK, ChosenOK, NEW m \in MessageType, Fits(m)
  PROVE  Request2(m) \in MessageType /\ Fits(Request2(m)) /\ Request2(m).kind = "request 2"
<1>1. m.mtu \in Sizes /\ m.cookie \in BOOLEAN
  BY DEF MessageType
<1>2. 0 \in 0 .. Len(conns)
  BY ConnsFacts
<1>3. 0 \in (- ResendTime) .. path.delay
  BY PathFields
<1> QED
  BY <1>1, <1>2, <1>3 DEF Request2, Message, MessageType, Fits, Kinds

LEMMA CountErrorType ==
  ASSUME IInv, dial \in {"discovering", "opening"},
         UNCHANGED <<path, conns, config, dialer>>, CountError
  PROVE  DialOK' /\ ReplyOK' /\ toListener' \in Seq(RequestType')
<1>0. Grows /\ Progresses /\ ConnsOK /\ ChosenOK /\ DialOK /\ ReplyOK
      /\ toListener \in Seq(RequestType)
  BY ConnsFacts DEF IInv, Progresses, Answered, DatagramsOK
<1>1. CASE Fails /\ UNCHANGED toListener
  BY <1>0, <1>1, FailsType, DatagramsKept
<1>2. CASE /\ ~ (errors + 1 >= config.error_count)
           /\ errors' = errors + 1
           /\ patience' = ReplyTime /\ SendToListener(Request2(reply))
           /\ UNCHANGED <<dial, attempt, left, reply>>
  <2>1. Request2(reply) \in MessageType /\ Fits(Request2(reply))
        /\ Request2(reply).kind = "request 2"
    BY <1>0, Request2Type DEF ReplyOK
  <2>2. toListener' \in Seq(RequestType')
    BY <1>0, <1>2, <2>1, Sends
  <2>3. errors' \in Nat /\ errors' < config.error_count
    BY <1>0, <1>2, PathFields DEF DialOK
  <2>4. DialOK'
    BY <1>0, <1>2, <2>3, SizesAre DEF DialOK, Attempts, ReplyTime
  <2>5. ReplyOK'
    BY <1>0, <1>2, ReplyKept
  <2> QED
    BY <2>2, <2>4, <2>5
<1> QED
  BY <1>1, <1>2 DEF CountError

LEMMA DiscoversType ==
  ASSUME IInv, UNCHANGED <<path, conns, config>>, NEW m \in ReplyType, Discovers(m)
  PROVE  /\ DialOK' /\ ReplyOK' /\ DialerOK' /\ toListener' \in Seq(RequestType')
         /\ Progresses
<1>0. Grows /\ Progresses /\ ConnsOK /\ ChosenOK /\ DialOK /\ ReplyOK /\ DialerOK
      /\ toListener \in Seq(RequestType) /\ dial = "discovering" /\ UNCHANGED dialer
  BY ConnsFacts DEF IInv, Progresses, Answered, DatagramsOK, Discovers
<1>1. DialerOK'
  BY <1>0, DialerUnchanged
<1>2. m \in MessageType /\ Fits(m)
  BY DEF ReplyType
<1>3. CASE /\ dial' = "opening" /\ reply' = m /\ attempt' = 0 /\ errors' = 0
           /\ patience' = ReplyTime /\ left' = config.timeout
           /\ SendToListener(Request2(m))
  <2>1. Request2(m) \in MessageType /\ Fits(Request2(m)) /\ Request2(m).kind = "request 2"
    BY <1>0, <1>2, Request2Type
  <2>2. toListener' \in Seq(RequestType')
    BY <1>0, <1>3, <2>1, Sends
  <2>3. DialOK'
    BY <1>0, <1>3, SizesAre, PathFields DEF DialOK, Attempts, ReplyTime
  <2>4. ReplyOK'
    <3>1. m \in MessageType' /\ Fits(m)'
      BY <1>0, <1>2, Monotone
    <3> QED
      BY <3>1, <1>3 DEF ReplyOK, Fits
  <2> QED
    BY <1>0, <1>1, <2>2, <2>3, <2>4
<1>4. CASE Fails /\ UNCHANGED toListener
  BY <1>0, <1>1, <1>4, FailsType, DatagramsKept
<1>5. CASE NextAttempt
  BY <1>0, <1>1, <1>5, NextAttemptType
<1> QED
  BY <1>3, <1>4, <1>5 DEF Discovers

LEMMA OpensType ==
  ASSUME IInv, UNCHANGED <<path, conns, config>>, NEW m \in ReplyType, Opens(m)
  PROVE  /\ DialOK' /\ ReplyOK' /\ DialerOK' /\ toListener' \in Seq(RequestType')
         /\ Progresses
<1>6. Grows /\ ConnsOK /\ ChosenOK /\ DialOK /\ ReplyOK /\ DialerOK
      /\ toListener \in Seq(RequestType) /\ dial = "opening"
  BY ConnsFacts DEF IInv, DatagramsOK, Opens
<1>7. dialer'.connected = dialer.connected /\ dialer'.task = dialer.task
  BY <1>6 DEF Opens, MakeConn, DialerOK
<1>0. Grows /\ Progresses /\ ConnsOK /\ ChosenOK /\ DialOK /\ ReplyOK /\ DialerOK
      /\ toListener \in Seq(RequestType) /\ dial = "opening"
  BY <1>6, <1>7, AnsweredKept DEF Progresses
<1>2. m \in MessageType /\ Fits(m)
  BY DEF ReplyType
<1>3. CASE m.kind = "reply 2" /\ MakeConn(m)
  <2>1. m.by \in DOMAIN conns /\ conns[m.by].mtu = m.mtu /\ m.by \in 0 .. Len(conns)
        /\ m.mtu \in Sizes
    BY <1>2, <1>3 DEF ReplyType, MessageType
  <2>2. /\ Message("request", 0, 0) \in MessageType /\ Fits(Message("request", 0, 0))
        /\ Message("request", 0, 0).kind = "request"
    <3>1. 0 \in 0 .. Len(conns) /\ "request" \in PlainKinds
      BY <1>0, ConnsFacts DEF PlainKinds, Kinds
    <3> QED
      BY <1>0, <3>1, PlainMessage
  <2>3. toListener' \in Seq(RequestType')
    <3>1. SendToListener(Message("request", 0, 0))
      BY <1>3 DEF MakeConn
    <3> QED
      BY <1>0, <2>2, <3>1, Sends
  <2>4. DialOK'
    <3>1. /\ dial' = "looking" /\ left' = config.timeout /\ attempt' = 0 /\ errors' = 0
          /\ patience' = 0
      BY <1>3 DEF MakeConn
    <3> QED
      BY <1>0, <3>1, SizesAre, PathFields DEF DialOK, Attempts, ReplyTime
  <2>5. ReplyOK'
    <3>2. NoReply \in MessageType' /\ Fits(NoReply)'
      BY <1>0, NoReplyTyped, Monotone
    <3> QED
      BY <1>3, <3>2 DEF ReplyOK, MakeConn, Fits
  <2>6. DialerOK'
    <3>1. dialer' = [dialer EXCEPT !.state = "open", !.mtu = m.mtu, !.peer = m.by]
      BY <1>3 DEF MakeConn
    <3>2. dialer' \in [state : ConnState \cup {"none"}, mtu : Sizes, quiet : 0 .. SilenceTime,
                       connected : BOOLEAN, task : {"receives", "marks"},
                       peer : 0 .. Len(conns), mixed : BOOLEAN]
      BY <1>0, <2>1, <3>1 DEF DialerOK, ConnState
    <3> QED
      <4>1. dialer.state = "none" /\ dialer.quiet < SilenceTime
        BY <1>0 DEF DialerOK, InTime
      <4>2. dial' = "looking" /\ dialer'.quiet = dialer.quiet
        BY <1>3, <1>0, <3>1 DEF MakeConn, DialerOK
      <4>3. MtuAgrees'
        BY <1>0, <1>2, <2>1, <3>1, <3>2 DEF MtuAgrees, DialerOK, Fits
      <4> QED
        BY <3>2, <4>1, <4>2, <4>3 DEF DialerOK, InTime
  <2> QED
    BY <1>0, <2>3, <2>4, <2>5, <2>6
<1>4. CASE UNCHANGED dialer /\ Fails /\ UNCHANGED toListener
  BY <1>0, <1>4, FailsType, DatagramsKept, DialerUnchanged
<1>5. CASE UNCHANGED dialer /\ CountError
  BY <1>0, <1>5, CountErrorType, DialerUnchanged
<1> QED
  BY <1>3, <1>4, <1>5 DEF Opens

LEMMA DialerClosesType ==
  ASSUME IInv, UNCHANGED <<path, conns>>, Progresses, dialer.state # "none", DialerCloses
  PROVE  DialerOK' /\ toListener' \in Seq(RequestType')
<1>0. Grows /\ ConnsOK /\ ChosenOK /\ DialerOK /\ toListener \in Seq(RequestType)
  BY ConnsFacts DEF IInv, DatagramsOK
<1>1. DialerOK'
  <2>1. dialer' = [dialer EXCEPT !.state = "closed"]
    BY DEF DialerCloses
  <2>2. dialer' \in [state : ConnState \cup {"none"}, mtu : Sizes, quiet : 0 .. SilenceTime,
                     connected : BOOLEAN, task : {"receives", "marks"},
                     peer : 0 .. Len(conns), mixed : BOOLEAN]
    BY <1>0, <2>1 DEF DialerOK, ConnState
  <2>3. dialer'.mtu = dialer.mtu /\ dialer'.peer = dialer.peer /\ dialer'.state = "closed"
    BY <1>0, <2>1 DEF DialerOK
  <2>4. InTime(dialer')
    BY <2>3 DEF InTime
  <2> QED
    BY <1>0, <2>2, <2>3, <2>4, DialerKept
<1>2. toListener' \in Seq(RequestType')
  <2>1. CASE UNCHANGED toListener
    BY <1>0, <2>1, DatagramsKept
  <2>2. CASE SendToListener(Message("disconnect", 0, 0))
    <3>1. 0 \in 0 .. Len(conns) /\ "disconnect" \in PlainKinds
      BY <1>0, ConnsFacts DEF PlainKinds, Kinds
    <3>2. /\ Message("disconnect", 0, 0) \in MessageType /\ Fits(Message("disconnect", 0, 0))
          /\ Message("disconnect", 0, 0).kind = "disconnect"
      BY <1>0, <3>1, PlainMessage
    <3> QED
      BY <1>0, <2>2, <3>2, Sends
  <2> QED
    BY <2>1, <2>2 DEF DialerCloses
<1> QED
  BY <1>1, <1>2

(* Hearing something, or marking the Conn, changes nothing else about it.  *)
LEMMA DialerMarked ==
  ASSUME DialerOK, Grows, Progresses, path' = path, dialer.state = "open",
         NEW quiet \in {0, dialer.quiet}, NEW connected \in BOOLEAN,
         NEW task \in {"receives", "marks"}, NEW mixed \in BOOLEAN,
         dialer' = [dialer EXCEPT !.quiet = quiet, !.connected = connected, !.task = task,
                                  !.mixed = mixed]
  PROVE  DialerOK'
<1> DEFINE T == [state : ConnState \cup {"none"}, mtu : Sizes, quiet : 0 .. SilenceTime,
                 connected : BOOLEAN, task : {"receives", "marks"},
                 peer : 0 .. Len(conns), mixed : BOOLEAN]
<1>1. dialer \in T /\ InTime(dialer)
  BY DEF DialerOK
<1>2. quiet \in 0 .. SilenceTime /\ quiet < SilenceTime
  BY <1>1 DEF InTime, SilenceTime
<1>3. /\ dialer' \in T /\ dialer'.mtu = dialer.mtu /\ dialer'.peer = dialer.peer
      /\ dialer'.state = "open" /\ dialer'.quiet = quiet
  BY <1>1, <1>2
<1>4. InTime(dialer')
  BY <1>2, <1>3 DEF InTime
<1> QED
  BY <1>3, <1>4, DialerKept

LEMMA DialerHandlesType ==
  ASSUME IInv, UNCHANGED <<path, conns, config>>, NEW m \in ReplyType, DialerHandles(m)
  PROVE  /\ DialOK' /\ ReplyOK' /\ DialerOK' /\ toListener' \in Seq(RequestType')
         /\ Progresses
<1>0. /\ Grows /\ ConnsOK /\ ChosenOK /\ DialOK /\ ReplyOK /\ DialerOK
      /\ toListener \in Seq(RequestType) /\ dialer.state = "open"
      /\ UNCHANGED <<dial, attempt, errors, patience, left, reply>>
  BY ConnsFacts DEF IInv, DatagramsOK, DialerHandles, dialing
<1>1. /\ dialer.quiet \in Nat /\ dialer.connected \in BOOLEAN
      /\ dialer.task \in {"receives", "marks"}
  BY <1>0 DEF DialerOK, SilenceTime
<1>2. DialOK'
  BY <1>0 DEF DialOK
<1> DEFINE mixed == Foreign(m)
<1>3. mixed \in BOOLEAN
  BY DEF Foreign
<1> HIDE DEF mixed
<1>4. ASSUME NEW task \in {"receives", "marks"}, task = dialer.task \/ task = "marks",
             dialer' = [dialer EXCEPT !.quiet = 0, !.connected = dialer.connected,
                                      !.task = task, !.mixed = mixed]
      PROVE  DialerOK' /\ ReplyOK' /\ Progresses /\ (task = "marks" => Answered')
  <2>1. dialer'.connected = dialer.connected /\ dialer'.task = task
    BY <1>0, <1>4 DEF DialerOK
  <2>2. Progresses /\ (task = "marks" => Answered')
    BY <1>0, <1>4, <2>1 DEF Progresses, Answered
  <2>3. DialerOK'
    BY <1>0, <1>1, <1>3, <1>4, <2>2, DialerMarked
  <2> QED
    BY <1>0, <2>2, <2>3, ReplyKept
<1>5. CASE /\ dialer' = [Hears(m) EXCEPT !.task = "marks"]
           /\ SendToListener(Message("incoming", 0, 0))
  <2>1. dialer' = [dialer EXCEPT !.quiet = 0, !.connected = dialer.connected,
                                 !.task = "marks", !.mixed = mixed]
    BY <1>0, <1>5 DEF Hears, mixed, DialerOK
  <2>2. DialerOK' /\ ReplyOK' /\ Progresses /\ Answered'
    BY <1>4, <2>1
  <2>3. /\ Message("incoming", 0, 0) \in MessageType /\ Fits(Message("incoming", 0, 0))
    <3>1. 0 \in 0 .. Len(conns) /\ 0 \in Sizes /\ "incoming" \in Kinds
      BY <1>0, ConnsFacts, SizesAre DEF Kinds
    <3>2. /\ Message("incoming", 0, 0) \in MessageType
          /\ Message("incoming", 0, 0).mtu = 0
      BY <1>0, <3>1, MessageTyped
    <3> QED
      BY <1>0, <3>2, PathFields DEF Fits
  <2>4. toListener' \in Seq(RequestType')
    BY <1>0, <1>5, <2>2, <2>3, Sends
  <2> QED
    BY <1>2, <2>2, <2>4
<1>6. CASE DialerCloses
  <2>2. Progresses
    BY <1>0, <1>6, ClosesAnswered DEF Progresses
  <2> QED
    BY <1>0, <1>2, <1>6, <2>2, DialerClosesType, ReplyKept
<1>7. CASE dialer' = Hears(m) /\ UNCHANGED toListener
  <2>1. dialer' = [dialer EXCEPT !.quiet = 0, !.connected = dialer.connected,
                                 !.task = dialer.task, !.mixed = mixed]
    BY <1>0, <1>7 DEF Hears, mixed, DialerOK
  <2>2. DialerOK' /\ ReplyOK' /\ Progresses
    BY <1>1, <1>4, <2>1
  <2> QED
    BY <1>0, <1>2, <1>7, <2>2, DatagramsKept
<1> QED
  BY <1>5, <1>6, <1>7 DEF DialerHandles

(* Taking a datagram out of those under way, or having it sent again.      *)
LEMMA Taken ==
  ASSUME ChosenOK, NEW S, Ages(S), NEW s \in Seq(S), NEW way, NEW i \in Deliverable(s, way)
  PROVE  /\ s[i] \in S /\ Without(s, i) \in Seq(S)
         /\ Without(s, i) \o Again(s[i]) \in Seq(S)
<1>1. i \in 1 .. Len(s)
  BY DEF Deliverable
<1>2. s[i] \in S
  BY <1>1
<1>3. Without(s, i) \in Seq(S)
  BY <1>1, WithoutType
<1>4. Again(s[i]) \in Seq(S)
  BY <1>2, AgainType
<1> QED
  BY <1>2, <1>3, <1>4, SeqJoined

LEMMA DialerReceivesStep ==
  ASSUME IInv, DialerReceives
  PROVE  IInv'
<1>0. /\ ChosenOK /\ ConnsOK /\ DatagramsOK /\ PathOK /\ AcceptedAnswered /\ DialOK /\ ReplyOK
      /\ DialerOK
      /\ UNCHANGED <<path, conns, config, compatible, cookies, entry, blocked, outage, lost, odd>>
  BY DEF IInv, DialerReceives, chosen, listener
<1>1. PICK i \in Deliverable(toDialer, "to dialer") :
        /\ toDialer' = Without(toDialer, i)
        /\ \/ Discovers(toDialer[i]) \/ Opens(toDialer[i]) \/ DialerHandles(toDialer[i])
           \/ DialerIgnores
  BY DEF DialerReceives
<1>2. toDialer[i] \in ReplyType /\ Without(toDialer, i) \in Seq(ReplyType)
  BY <1>0, <1>1, RepliesAge, Taken DEF DatagramsOK
<1>3. Grows
  BY <1>0, ConnsFacts
<1>4. /\ DialOK' /\ ReplyOK' /\ DialerOK' /\ toListener' \in Seq(RequestType')
      /\ Progresses
  <2>1. CASE DialerIgnores
    <3>1. UNCHANGED <<dial, attempt, errors, patience, left, reply, dialer, toListener>>
      BY <2>1 DEF DialerIgnores, dialing
    <3>2. Progresses
      BY <3>1 DEF Progresses, Answered
    <3>3. DialOK'
      BY <1>0, <3>1 DEF DialOK
    <3>4. toListener' \in Seq(RequestType')
      BY <1>0, <1>3, <3>1, <3>2, DatagramsKept DEF DatagramsOK
    <3> QED
      BY <1>0, <1>3, <3>1, <3>2, <3>3, <3>4, ReplyKept, DialerUnchanged
  <2> QED
    BY <1>0, <1>1, <1>2, <2>1, DiscoversType, OpensType, DialerHandlesType
<1>5. DatagramsOK'
  BY <1>0, <1>1, <1>2, <1>3, <1>4, DatagramsKept DEF DatagramsOK
<1>6. AcceptedAnswered'
  BY <1>0, <1>4 DEF AcceptedAnswered, Progresses
<1>7. ChosenOK' /\ ConnsOK' /\ PathOK'
  BY <1>0 DEF ChosenOK, ConnsOK, PathOK
<1> QED
  BY <1>4, <1>5, <1>6, <1>7 DEF IInv

(* The Conn is marked, and the dial finds out or does not.                 *)
LEMMA ConnectedStep ==
  ASSUME IInv, MarksConnected \/ WaitsConnected
  PROVE  IInv'
<1>0. /\ ChosenOK /\ ConnsOK /\ DatagramsOK /\ PathOK /\ AcceptedAnswered /\ DialOK
      /\ ReplyOK /\ DialerOK
      /\ UNCHANGED <<path, conns, config, compatible, cookies, attempt, errors, patience,
                     reply, entry, blocked, toListener, toDialer, outage, lost, odd>>
  BY DEF IInv, MarksConnected, WaitsConnected, chosen, listener
<1>1. Grows
  BY <1>0, ConnsFacts
<1>2. Progresses /\ DialerOK' /\ DialOK'
  <2>1. CASE MarksConnected
    <3>1. /\ dialer.task = "marks" /\ UNCHANGED left
          /\ dialer' = [dialer EXCEPT !.task = "receives", !.connected = TRUE]
          /\ dial' = dial \/ (dial = "waiting" /\ dial' = "woken")
      BY <2>1 DEF MarksConnected
    <3>2. dialer'.connected = TRUE
      BY <1>0, <3>1 DEF DialerOK
    <3>3. Progresses
      BY <3>1, <3>2 DEF Progresses, Answered
    <3>4. DialOK'
      BY <1>0, <3>1 DEF DialOK
    <3>5. /\ dialer' \in [state : ConnState \cup {"none"}, mtu : Sizes, quiet : 0 .. SilenceTime,
                           connected : BOOLEAN, task : {"receives", "marks"},
                           peer : 0 .. Len(conns), mixed : BOOLEAN]
          /\ dialer'.mtu = dialer.mtu /\ dialer'.peer = dialer.peer
          /\ dialer'.state = dialer.state /\ dialer'.quiet = dialer.quiet
      BY <1>0, <3>1 DEF DialerOK
    <3>6. InTime(dialer')
      BY <1>0, <3>5 DEF DialerOK, InTime
    <3> QED
      BY <1>0, <1>1, <3>3, <3>4, <3>5, <3>6, DialerKept
  <2>2. CASE WaitsConnected
    <3>1. /\ dial \notin {"discovering", "opening"} /\ UNCHANGED dialer
          /\ dial' \in {"making", "connected", "waiting"} /\ (left' = left \/ left' = 0)
      BY <2>2 DEF WaitsConnected
    <3>2. Progresses
      BY <3>1 DEF Progresses, Answered
    <3>3. DialOK'
      BY <1>0, <3>1, PathFields DEF DialOK
    <3> QED
      BY <1>0, <1>1, <3>1, <3>2, <3>3, DialerUnchanged
  <2> QED
    BY <2>1, <2>2
<1>3. DatagramsOK' /\ ReplyOK'
  BY <1>0, <1>1, <1>2, DatagramsKept, ReplyKept DEF DatagramsOK
<1>4. AcceptedAnswered'
  BY <1>0, <1>2 DEF AcceptedAnswered, Progresses
<1>5. ChosenOK' /\ ConnsOK' /\ PathOK'
  BY <1>0 DEF ChosenOK, ConnsOK, PathOK
<1> QED
  BY <1>2, <1>3, <1>4, <1>5 DEF IInv

-----------------------------------------------------------------------------
(* The listener.                                                           *)

LEMMA ConnChanges ==
  ASSUME ConnsOK, AcceptedAnswered, NEW c \in 1 .. Len(conns), NEW r \in ConnType,
         InTime(r), r.mtu = conns[c].mtu, r.connected => Answered,
         conns' = [conns EXCEPT ![c] = r], dialer' = dialer,
         entry' \in 0 .. Len(conns), blocked' \in BOOLEAN
  PROVE  ConnsOK' /\ Grows /\ AcceptedAnswered'
<1>1. conns \in Seq(ConnType) /\ Len(conns) \in Nat /\ DOMAIN conns = 1 .. Len(conns)
  BY ConnsFacts DEF ConnsOK
<1>2. conns' \in Seq(ConnType) /\ Len(conns') = Len(conns) /\ DOMAIN conns' = DOMAIN conns
  BY <1>1
<1>3. \A d \in DOMAIN conns : conns'[d] = IF d = c THEN r ELSE conns[d]
  BY <1>1
<1>4. \A d \in DOMAIN conns' : InTime(conns'[d])
  BY <1>2, <1>3 DEF ConnsOK
<1>5. Grows
  BY <1>1, <1>2, <1>3 DEF Grows
<1>6. AcceptedAnswered'
  BY <1>2, <1>3 DEF AcceptedAnswered, Answered
<1>7. ConnsOK'
  BY <1>2, <1>4, <1>5 DEF ConnsOK, InTime
<1> QED
  BY <1>5, <1>6, <1>7

LEMMA SendsToDialer ==
  ASSUME toDialer \in Seq(ReplyType), Grows, Progresses, path' = path,
         NEW m \in ReplyType', SendToDialer(m)
  PROVE  toDialer' \in Seq(ReplyType')
<1>1. toDialer \in Seq(ReplyType')
  BY DatagramsKept
<1> QED
  BY <1>1 DEF SendToDialer

LEMMA SendsPlain ==
  ASSUME ChosenOK, toDialer \in Seq(ReplyType), Grows, Progresses, path' = path,
         NEW kind \in PlainKinds, NEW by \in 0 .. Len(conns), SendToDialer(Message(kind, 0, by))
  PROVE  toDialer' \in Seq(ReplyType')
<1>1. Message(kind, 0, by) \in ReplyType
  BY PlainMessage
<1>2. Message(kind, 0, by) \in ReplyType'
  BY <1>1, Monotone
<1> QED
  BY <1>2, SendsToDialer

LEMMA NothingChanges ==
  ASSUME IInv, UNCHANGED <<dial, dialer, path, conns, entry, blocked, toDialer>>
  PROVE  ConnsOK' /\ Grows /\ AcceptedAnswered' /\ toDialer' \in Seq(ReplyType')
<1>1. ConnsOK /\ AcceptedAnswered /\ toDialer \in Seq(ReplyType)
  BY DEF IInv, DatagramsOK
<1>2. Grows /\ Progresses
  BY <1>1, ConnsFacts DEF Progresses, Answered
<1> QED
  BY <1>1, <1>2, DatagramsKept DEF ConnsOK, AcceptedAnswered, Answered

LEMMA HandleRequest1Type ==
  ASSUME IInv, UNCHANGED <<dial, dialer, path>>, NEW m \in RequestType, HandleRequest1(m)
  PROVE  ConnsOK' /\ Grows /\ AcceptedAnswered' /\ toDialer' \in Seq(ReplyType')
<1>0. /\ ChosenOK /\ ConnsOK /\ AcceptedAnswered /\ toDialer \in Seq(ReplyType)
      /\ UNCHANGED <<conns, entry>> /\ blocked' \in BOOLEAN
  BY DEF IInv, DatagramsOK, HandleRequest1, listener, ConnsOK
<1>1. Grows /\ Progresses /\ ConnsOK' /\ AcceptedAnswered'
  BY <1>0, ConnsFacts DEF Progresses, Answered, ConnsOK, AcceptedAnswered
<1>2. CASE SendToDialer(Reply1(m))
  <2>1. m.mtu \in Sizes /\ Fits(m)
    BY DEF RequestType, MessageType
  <2>2. Least(m.mtu, MAX_MTU_SIZE) = m.mtu
    BY <2>1, SizesAre DEF Least, MAX_MTU_SIZE
  <2>3. 0 \in 0 .. Len(conns) /\ "reply 1" \in Kinds
    BY <1>0, ConnsFacts DEF Kinds
  <2> DEFINE r == Message("reply 1", m.mtu, 0)
  <2>4. r \in MessageType
    BY <1>0, <2>1, <2>3, MessageTyped, Zenon
  <2>5. r.kind = "reply 1" /\ r.mtu = m.mtu
    BY DEF Message
  <2>6. Reply1(m) = [r EXCEPT !.cookie = cookies]
    BY <2>2 DEF Reply1
  <2> HIDE DEF r
  <2>7. Reply1(m) \in MessageType /\ Reply1(m).kind = "reply 1" /\ Reply1(m).mtu = m.mtu
    BY <1>0, <2>4, <2>5, <2>6 DEF MessageType, ChosenOK
  <2>8. Reply1(m) \in ReplyType
    BY <2>1, <2>7 DEF ReplyType, Fits
  <2> QED
    BY <1>0, <1>1, <1>2, <2>8, Monotone, SendsToDialer
<1>3. CASE SendToDialer(Message("incompatible", 0, 0))
  <2>1. 0 \in 0 .. Len(conns) /\ "incompatible" \in PlainKinds
    BY <1>0, ConnsFacts DEF Kinds, PlainKinds
  <2> QED
    BY <1>0, <1>1, <1>3, <2>1, SendsPlain
<1> QED
  BY <1>1, <1>2, <1>3 DEF HandleRequest1

LEMMA Appended ==
  ASSUME NEW S, NEW s \in Seq(S), NEW x \in S
  PROVE  /\ Append(s, x) \in Seq(S) /\ Len(Append(s, x)) = Len(s) + 1
         /\ DOMAIN Append(s, x) = 1 .. (Len(s) + 1)
         /\ \A i \in 1 .. Len(s) : Append(s, x)[i] = s[i]
         /\ Append(s, x)[Len(s) + 1] = x
OBVIOUS

LEMMA HandleRequest2Type ==
  ASSUME IInv, UNCHANGED <<dial, dialer, path>>, NEW m \in RequestType, HandleRequest2(m)
  PROVE  ConnsOK' /\ Grows /\ AcceptedAnswered' /\ toDialer' \in Seq(ReplyType')
<1>0. /\ ChosenOK /\ ConnsOK /\ AcceptedAnswered /\ toDialer \in Seq(ReplyType)
      /\ Len(conns) \in Nat /\ DOMAIN conns = 1 .. Len(conns) /\ conns \in Seq(ConnType)
  BY ConnsFacts DEF IInv, DatagramsOK, ConnsOK
<1> DEFINE mtu == Least(m.mtu, MAX_MTU_SIZE)
           new == [state |-> "open", mtu |-> mtu, quiet |-> 0,
                   connected |-> FALSE, timer |-> AcceptTime]
<1>1. CASE m.cookie = cookies
  <2>1. m.mtu \in Sizes /\ Fits(m)
    BY DEF RequestType, MessageType
  <2>2. mtu = m.mtu
    BY <2>1, SizesAre DEF Least, MAX_MTU_SIZE
  <2>3. /\ SendToDialer(Message("reply 2", mtu, Len(conns) + 1))
        /\ conns' = Append(conns, new)
        /\ entry' = Len(conns) + 1 /\ UNCHANGED blocked
    BY <1>1 DEF HandleRequest2
  <2>4. mtu \in Sizes
    BY <2>1, <2>2
  <2> HIDE DEF mtu
  <2>5. new \in ConnType /\ InTime(new) /\ new.connected = FALSE /\ new.mtu = mtu
    BY <2>4 DEF ConnType, ConnState, InTime, SilenceTime, AcceptTime
  <2> HIDE DEF new
  <2>6. /\ conns' \in Seq(ConnType) /\ Len(conns') = Len(conns) + 1
        /\ DOMAIN conns' = 1 .. (Len(conns) + 1)
        /\ \A c \in 1 .. Len(conns) : conns'[c] = conns[c]
        /\ conns'[Len(conns) + 1] = new
    <3>1. conns' = Append(conns, new) /\ conns \in Seq(ConnType) /\ new \in ConnType
      BY <1>0, <2>3, <2>5
    <3> QED
      BY <3>1, Appended
  <2>7. \A c \in DOMAIN conns' : c \in DOMAIN conns \/ c = Len(conns) + 1
    BY <1>0, <2>6
  <2>8. Grows /\ Progresses
    BY <1>0, <2>6 DEF Grows, Progresses, Answered
  <2>9. ConnsOK'
    <3>1. \A c \in DOMAIN conns' : InTime(conns'[c])
      BY <1>0, <2>5, <2>6, <2>7 DEF ConnsOK
    <3>2. entry' \in 0 .. Len(conns')
      <4>1. entry' = Len(conns') /\ Len(conns') = Len(conns) + 1
        BY <2>3, <2>6
      <4>2. \A n \in Nat : n + 1 \in 0 .. (n + 1)
        OBVIOUS
      <4> QED
        BY <1>0, <4>1, <4>2
    <3> QED
      BY <1>0, <2>3, <2>6, <3>1, <3>2 DEF ConnsOK, InTime
  <2>10. AcceptedAnswered'
    BY <1>0, <2>5, <2>6, <2>7 DEF AcceptedAnswered, Answered
  <2>11. Message("reply 2", mtu, Len(conns) + 1) \in ReplyType'
    <3> DEFINE r == Message("reply 2", mtu, Len(conns) + 1)
    <3>1. /\ 0 \in (- ResendTime) .. path.delay /\ path' = path
          /\ Len(conns) + 1 \in 0 .. Len(conns')
      <4>1. Len(conns) + 1 = Len(conns') /\ Len(conns') \in Nat
        BY <1>0, <2>6
      <4> QED
        BY <1>0, <4>1, PathFields
    <3>2. r.kind = "reply 2" /\ r.mtu = mtu /\ r.by = Len(conns) + 1 /\ r.cookie = FALSE
          /\ r.age = 0
      BY DEF Message
    <3>3. r \in MessageType'
      BY <2>4, <3>1 DEF Message, MessageType, Kinds
    <3> HIDE DEF r
    <3>4. Len(conns) + 1 \in DOMAIN conns' /\ conns'[Len(conns) + 1].mtu = mtu
      BY <1>0, <2>5, <2>6
    <3> QED
      BY <2>1, <2>2, <3>1, <3>2, <3>3, <3>4 DEF ReplyType, Fits, r
  <2> QED
    BY <1>0, <2>3, <2>8, <2>9, <2>10, <2>11, SendsToDialer
<1>2. CASE m.cookie # cookies
  <2>1. blocked' = TRUE /\ UNCHANGED <<conns, entry, toDialer>>
    BY <1>2 DEF HandleRequest2
  <2>2. Grows /\ Progresses
    BY <1>0, <2>1, ConnsFacts DEF Progresses, Answered
  <2> QED
    BY <1>0, <2>1, <2>2, DatagramsKept DEF ConnsOK, AcceptedAnswered, Answered
<1> QED
  BY <1>1, <1>2

LEMMA HandleUnconnectedType ==
  ASSUME IInv, UNCHANGED <<dial, dialer, path>>, NEW m \in RequestType, HandleUnconnected(m)
  PROVE  ConnsOK' /\ Grows /\ AcceptedAnswered' /\ toDialer' \in Seq(ReplyType')
BY HandleRequest1Type, HandleRequest2Type, NothingChanges DEF HandleUnconnected, listener

(* A Conn is closed: by its peer, by its ticker, or by the task beside it. *)
LEMMA ListenerClosesType ==
  ASSUME IInv, UNCHANGED <<dial, dialer, path, blocked>>, NEW c \in DOMAIN conns, ListenerCloses(c)
  PROVE  ConnsOK' /\ Grows /\ AcceptedAnswered' /\ toDialer' \in Seq(ReplyType')
<1>0. /\ ChosenOK /\ ConnsOK /\ AcceptedAnswered /\ toDialer \in Seq(ReplyType)
      /\ Len(conns) \in Nat /\ DOMAIN conns = 1 .. Len(conns) /\ conns[c] \in ConnType
      /\ c \in 1 .. Len(conns) /\ Progresses
  BY ConnsFacts DEF IInv, DatagramsOK, ConnsOK, Progresses, Answered
<1> DEFINE r == [conns[c] EXCEPT !.state = "closed"]
<1>1. /\ r \in ConnType /\ r.mtu = conns[c].mtu /\ r.connected = conns[c].connected
      /\ r.state = "closed"
  BY <1>0 DEF ConnType, ConnState
<1>2. conns' = [conns EXCEPT ![c] = r] /\ entry' = 0
  BY DEF ListenerCloses
<1> HIDE DEF r
<1>3. r.connected => Answered
  BY <1>0, <1>1 DEF AcceptedAnswered
<1>4. InTime(r)
  BY <1>1 DEF InTime
<1>5. entry' \in 0 .. Len(conns) /\ blocked' \in BOOLEAN
  BY <1>0, <1>2 DEF ConnsOK
<1>6. ConnsOK' /\ Grows /\ AcceptedAnswered'
  BY <1>0, <1>1, <1>2, <1>3, <1>4, <1>5, ConnChanges
<1>7. toDialer' \in Seq(ReplyType')
  <2>1. CASE UNCHANGED toDialer
    BY <1>0, <1>6, <2>1, DatagramsKept
  <2>2. CASE SendToDialer(Message("disconnect", 0, c))
    <3>1. c \in 0 .. Len(conns) /\ "disconnect" \in PlainKinds
      BY <1>0 DEF PlainKinds, Kinds
    <3> QED
      BY <1>0, <1>6, <2>2, <3>1, SendsPlain
  <2> QED
    BY <2>1, <2>2 DEF ListenerCloses
<1> QED
  BY <1>6, <1>7

LEMMA ListenerHandlesType ==
  ASSUME IInv, UNCHANGED <<dial, dialer, path>>, NEW m \in RequestType, ListenerHandles(m)
  PROVE  ConnsOK' /\ Grows /\ AcceptedAnswered' /\ toDialer' \in Seq(ReplyType')
<1>9. /\ ConnsOK /\ entry # 0 /\ blocked' = blocked
  BY DEF IInv, ListenerHandles
<1>10. Len(conns) \in Nat /\ entry \in 1 .. Len(conns)
  BY <1>9, ConnsFacts DEF ConnsOK
<1>0. /\ ChosenOK /\ ConnsOK /\ AcceptedAnswered /\ toDialer \in Seq(ReplyType)
      /\ Len(conns) \in Nat /\ DOMAIN conns = 1 .. Len(conns) /\ Progresses
      /\ entry # 0 /\ entry \in 1 .. Len(conns) /\ conns[entry] \in ConnType
      /\ blocked' = blocked /\ blocked \in BOOLEAN /\ InTime(conns[entry])
  BY <1>9, <1>10, ConnsFacts DEF IInv, DatagramsOK, ConnsOK, Progresses, Answered
<1>1. conns[entry].connected => Answered
  BY <1>0 DEF AcceptedAnswered
<1> DEFINE heard == [conns[entry] EXCEPT !.quiet = 0]
<1>2. /\ heard \in ConnType /\ heard.mtu = conns[entry].mtu /\ heard.quiet = 0
      /\ heard.connected = conns[entry].connected
  BY <1>0 DEF ConnType, SilenceTime
<1>3. InTime(heard)
  BY <1>2 DEF InTime, SilenceTime
<1>4. ASSUME conns' = [conns EXCEPT ![entry].quiet = 0], UNCHANGED entry
      PROVE  ConnsOK' /\ Grows /\ AcceptedAnswered'
  <2>1. conns' = [conns EXCEPT ![entry] = heard]
    BY <1>4
  <2> HIDE DEF heard
  <2>2. entry' \in 0 .. Len(conns) /\ blocked' \in BOOLEAN
    BY <1>0, <1>4
  <2> QED
    BY <1>0, <1>1, <1>2, <1>3, <2>1, <2>2, ConnChanges
<1>5. CASE HandleRequest(m)
  <2>1. ConnsOK' /\ Grows /\ AcceptedAnswered'
    BY <1>4, <1>5 DEF HandleRequest
  <2>2. entry \in 0 .. Len(conns) /\ "accepted" \in PlainKinds
    BY <1>0 DEF PlainKinds, Kinds
  <2> QED
    BY <1>0, <1>5, <2>1, <2>2, SendsPlain DEF HandleRequest
<1>6. CASE HandleIncoming(m)
  <2> DEFINE r == [conns[entry] EXCEPT !.quiet = 0, !.timer = -1, !.connected = TRUE]
  <2>1. r \in ConnType /\ r.mtu = conns[entry].mtu /\ r.quiet = 0
    <3>1. -1 \in -1 .. AcceptTime /\ 0 \in 0 .. SilenceTime
      BY DEF SilenceTime, AcceptTime
    <3> QED
      BY <1>0, <3>1 DEF ConnType
  <2>2. InTime(r)
    BY <2>1 DEF InTime, SilenceTime
  <2>3. conns' = [conns EXCEPT ![entry] = r]
    BY <1>6 DEF HandleIncoming
  <2>4. Answered /\ UNCHANGED <<entry, toDialer>>
    BY <1>6 DEF HandleIncoming, RequestType
  <2> HIDE DEF r
  <2>5. entry' \in 0 .. Len(conns) /\ blocked' \in BOOLEAN
    BY <1>0, <2>4
  <2>6. ConnsOK' /\ Grows /\ AcceptedAnswered'
    BY <1>0, <2>1, <2>2, <2>3, <2>4, <2>5, ConnChanges
  <2> QED
    BY <1>0, <2>4, <2>6, DatagramsKept
<1>7. CASE ListenerCloses(entry)
  BY <1>0, <1>7, ListenerClosesType
<1>8. CASE conns' = [conns EXCEPT ![entry].quiet = 0] /\ UNCHANGED <<entry, toDialer>>
  BY <1>0, <1>4, <1>8, DatagramsKept
<1> QED
  BY <1>5, <1>6, <1>7, <1>8 DEF ListenerHandles

LEMMA ListenerReceivesStep ==
  ASSUME IInv, ListenerReceives
  PROVE  IInv'
<1>0. /\ ChosenOK /\ ConnsOK /\ DatagramsOK /\ PathOK /\ AcceptedAnswered /\ DialOK /\ ReplyOK
      /\ DialerOK
      /\ UNCHANGED <<path, config, compatible, cookies, dial, attempt, errors, patience,
                     left, reply, dialer, outage, lost, odd>>
  BY DEF IInv, ListenerReceives, chosen, dialing
<1>1. PICK i \in Deliverable(toListener, "to listener") :
        /\ toListener' = Without(toListener, i) \o Again(toListener[i])
           \/ toListener' = Without(toListener, i)
        /\ \/ HandleUnconnected(toListener[i]) \/ ListenerHandles(toListener[i])
           \/ blocked /\ UNCHANGED <<listener, toDialer>>
  BY DEF ListenerReceives
<1>2. /\ toListener[i] \in RequestType /\ toListener' \in Seq(RequestType)
  BY <1>0, <1>1, RequestsAge, Taken DEF DatagramsOK
<1>3. ConnsOK' /\ Grows /\ AcceptedAnswered' /\ toDialer' \in Seq(ReplyType')
  <2>1. CASE UNCHANGED <<listener, toDialer>>
    BY <1>0, <2>1, NothingChanges DEF listener
  <2> QED
    BY <1>0, <1>1, <1>2, <2>1, HandleUnconnectedType, ListenerHandlesType
<1>4. Progresses
  BY <1>0 DEF Progresses, Answered
<1>5. DatagramsOK'
  BY <1>0, <1>2, <1>3, <1>4, DatagramsKept DEF DatagramsOK
<1>6. ChosenOK' /\ DialOK' /\ PathOK'
  BY <1>0 DEF ChosenOK, DialOK, PathOK
<1>7. ReplyOK' /\ DialerOK'
  BY <1>0, <1>3, <1>4, ReplyKept, DialerUnchanged
<1> QED
  BY <1>3, <1>5, <1>6, <1>7 DEF IInv

-----------------------------------------------------------------------------
(* The path and the timers.                                                *)

LEMMA PathStep ==
  ASSUME IInv, Lose \/ AddOdd \/ Cut \/ Heal
  PROVE  IInv'
<1>0. /\ ChosenOK /\ ConnsOK /\ DatagramsOK /\ PathOK /\ AcceptedAnswered /\ DialOK /\ ReplyOK
      /\ DialerOK
  BY DEF IInv
<1>1. UNCHANGED <<path, config, compatible, cookies, dial, attempt, errors, patience,
                  left, reply, dialer, conns, entry, blocked>>
  BY DEF Lose, AddOdd, Cut, Heal, chosen, dialing, listener
<1>2. Grows /\ Progresses
  BY <1>0, <1>1, ConnsFacts DEF Progresses, Answered
<1>3. ChosenOK' /\ DialOK' /\ ConnsOK' /\ AcceptedAnswered'
  BY <1>0, <1>1 DEF ChosenOK, DialOK, ConnsOK, AcceptedAnswered, Answered
<1>4. ReplyOK' /\ DialerOK'
  BY <1>0, <1>1, <1>2, ReplyKept, DialerUnchanged
<1>5. SUFFICES /\ toListener' \in Seq(RequestType) \/ toListener' \in Seq(RequestType')
               /\ toDialer' \in Seq(ReplyType) \/ toDialer' \in Seq(ReplyType')
               /\ PathOK'
  BY <1>1, <1>2, <1>3, <1>4, DatagramsKept DEF IInv, DatagramsOK
<1>6. CASE Lose
  <2>1. ASSUME NEW s, NEW kinds, kinds \in Seq(Kinds), Len(kinds) < path.losses,
               NEW m \in MessageType
        PROVE  Append(kinds, m.kind) \in Seq(Kinds) /\ Len(Append(kinds, m.kind)) <= path.losses
    <3>1. m.kind \in Kinds
      BY DEF MessageType
    <3>2. path.losses \in Nat
      BY <1>0, PathFields
    <3> QED
      BY <2>1, <3>1, <3>2
  <2>2. Len(lost) < path.losses /\ lost \in Seq(Kinds) /\ UNCHANGED <<outage, odd>>
    BY <1>0, <1>6 DEF Lose, PathOK
  <2>3. CASE \E i \in Deliverable(toDialer, "to dialer") :
                /\ toDialer' = Without(toDialer, i) \o Again(toDialer[i])
                /\ lost' = Append(lost, toDialer[i].kind) /\ UNCHANGED toListener
    <3>1. PICK i \in Deliverable(toDialer, "to dialer") :
                /\ toDialer' = Without(toDialer, i) \o Again(toDialer[i])
                /\ lost' = Append(lost, toDialer[i].kind) /\ UNCHANGED toListener
      BY <2>3
    <3>2. toDialer[i] \in ReplyType /\ toDialer' \in Seq(ReplyType)
      BY <1>0, <3>1, RepliesAge, Taken DEF DatagramsOK
    <3>3. toDialer[i] \in MessageType
      BY <3>2 DEF ReplyType
    <3>4. PathOK'
      BY <1>0, <1>1, <2>1, <2>2, <3>1, <3>3 DEF PathOK
    <3> QED
      BY <1>0, <3>1, <3>2, <3>4 DEF DatagramsOK
  <2>4. CASE \E i \in Deliverable(toListener, "to listener") :
                /\ toListener' = Without(toListener, i) \o Again(toListener[i])
                /\ lost' = Append(lost, toListener[i].kind) /\ UNCHANGED toDialer
    <3>1. PICK i \in Deliverable(toListener, "to listener") :
                /\ toListener' = Without(toListener, i) \o Again(toListener[i])
                /\ lost' = Append(lost, toListener[i].kind) /\ UNCHANGED toDialer
      BY <2>4
    <3>2. toListener[i] \in RequestType /\ toListener' \in Seq(RequestType)
      BY <1>0, <3>1, RequestsAge, Taken DEF DatagramsOK
    <3>3. toListener[i] \in MessageType
      BY <3>2 DEF RequestType
    <3>4. PathOK'
      BY <1>0, <1>1, <2>1, <2>2, <3>1, <3>3 DEF PathOK
    <3> QED
      BY <1>0, <3>1, <3>2, <3>4 DEF DatagramsOK
  <2> QED
    BY <1>6, <2>3, <2>4 DEF Lose
<1>7. CASE AddOdd
  <2>1. 0 \in 0 .. Len(conns) /\ "reply 1" \in PlainKinds
    BY <1>0, ConnsFacts DEF PlainKinds, Kinds
  <2>2. toDialer' \in Seq(ReplyType')
    BY <1>0, <1>1, <1>2, <1>7, <2>1, SendsPlain DEF AddOdd, DatagramsOK
  <2>3. odd < path.odd /\ odd' = odd + 1 /\ UNCHANGED <<toListener, outage, lost>>
    BY <1>7 DEF AddOdd
  <2>4. odd' \in 0 .. path.odd
    <3>1. odd \in 0 .. path.odd /\ path.odd \in Nat
      BY <1>0, PathFields DEF PathOK
    <3> QED
      BY <2>3, <3>1
  <2>5. PathOK'
    BY <1>0, <1>1, <2>3, <2>4 DEF PathOK
  <2> QED
    BY <1>0, <2>2, <2>3, <2>5 DEF DatagramsOK
<1>8. CASE Cut \/ Heal
  BY <1>0, <1>1, <1>8 DEF Cut, Heal, PathOK, DatagramsOK
<1> QED
  BY <1>6, <1>7, <1>8

LEMMA DialTimersStep ==
  ASSUME IInv, RecvTimesOut \/ DialTimesOut
  PROVE  IInv'
<1>0. /\ ChosenOK /\ ConnsOK /\ DatagramsOK /\ PathOK /\ AcceptedAnswered /\ DialOK /\ ReplyOK
      /\ DialerOK
  BY DEF IInv
<1>1. UNCHANGED <<path, config, compatible, cookies, conns, entry, blocked, toDialer,
                  outage, lost, odd>>
  BY DEF RecvTimesOut, DialTimesOut, chosen, listener
<1>2. /\ Grows
  BY <1>0, <1>1, ConnsFacts
<1>3. /\ DialOK' /\ ReplyOK' /\ DialerOK' /\ toListener' \in Seq(RequestType') /\ Progresses
  <2>1. CASE RecvTimesOut
    <3>1. dial \in {"discovering", "opening"} /\ UNCHANGED dialer /\ (NextAttempt \/ CountError)
      BY <2>1 DEF RecvTimesOut
    <3>2. Progresses
      BY <3>1 DEF Progresses, Answered
    <3> QED
      BY <1>0, <1>1, <1>2, <3>1, <3>2, NextAttemptType, CountErrorType, DialerUnchanged
  <2>2. CASE DialTimesOut
    <3>1. dial # "connected" /\ Fails /\ dial' = "failed"
      BY <2>2 DEF DialTimesOut, Dialing, Fails
    <3>2. Progresses
      <4>1. UNCHANGED dialer \/ DialerCloses
        BY <2>2 DEF DialTimesOut
      <4> QED
        BY <1>0, <3>1, <4>1, ClosesAnswered, AnsweredKept DEF Progresses
    <3>3. DialOK' /\ ReplyOK'
      BY <1>0, <1>1, <3>1, FailsType
    <3>4. DialerOK' /\ toListener' \in Seq(RequestType')
      <4>1. CASE UNCHANGED <<dialer, toListener>>
        BY <1>0, <1>1, <1>2, <3>2, <4>1, DialerUnchanged, DatagramsKept DEF DatagramsOK
      <4>2. CASE dialer.state \in {"open", "closing"} /\ DialerCloses
        BY <1>0, <1>1, <3>2, <4>2, DialerClosesType
      <4> QED
        BY <2>2, <4>1, <4>2 DEF DialTimesOut
    <3> QED
      BY <3>2, <3>3, <3>4
  <2> QED
    BY <2>1, <2>2
<1>4. DatagramsOK'
  BY <1>0, <1>1, <1>2, <1>3, DatagramsKept DEF DatagramsOK
<1>5. AcceptedAnswered'
  BY <1>0, <1>1, <1>3 DEF AcceptedAnswered, Progresses
<1>6. ChosenOK' /\ ConnsOK' /\ PathOK'
  BY <1>0, <1>1 DEF ChosenOK, ConnsOK, PathOK
<1> QED
  BY <1>3, <1>4, <1>5, <1>6 DEF IInv

LEMMA ListenerTimersStep ==
  ASSUME IInv,
         \/ \E c \in DOMAIN conns : AcceptTimesOut(c)
         \/ \E c \in DOMAIN conns :
              /\ conns[c].state = "closing" /\ ListenerCloses(c)
              /\ UNCHANGED <<chosen, dialing, dialer, blocked, toListener, outage, lost, odd>>
  PROVE  IInv'
<1>0. /\ ChosenOK /\ ConnsOK /\ DatagramsOK /\ PathOK /\ AcceptedAnswered /\ DialOK /\ ReplyOK
      /\ DialerOK
  BY DEF IInv
<1>1. UNCHANGED <<path, config, compatible, cookies, dial, attempt, errors, patience,
                  left, reply, dialer, blocked, toListener, outage, lost, odd>>
  BY DEF AcceptTimesOut, chosen, dialing
<1>2. Progresses
  BY <1>1 DEF Progresses, Answered
<1>3. ConnsOK' /\ Grows /\ AcceptedAnswered' /\ toDialer' \in Seq(ReplyType')
  <2>1. ASSUME NEW c \in DOMAIN conns, AcceptTimesOut(c)
        PROVE  ConnsOK' /\ Grows /\ AcceptedAnswered' /\ toDialer' \in Seq(ReplyType')
    <3> DEFINE r == [conns[c] EXCEPT !.timer = -1, !.state = "closed"]
    <3>1. /\ Len(conns) \in Nat /\ c \in 1 .. Len(conns) /\ conns[c] \in ConnType
      BY <1>0, ConnsFacts
    <3>2. -1 \in -1 .. AcceptTime
      BY DEF AcceptTime
    <3>3. /\ r \in ConnType /\ r.mtu = conns[c].mtu /\ r.connected = conns[c].connected
          /\ r.state = "closed"
      BY <3>1, <3>2 DEF ConnType, ConnState
    <3>4. conns' = [conns EXCEPT ![c] = r] /\ entry' = 0
      BY <2>1 DEF AcceptTimesOut
    <3> HIDE DEF r
    <3>5. (r.connected => Answered) /\ InTime(r)
      BY <1>0, <3>3 DEF AcceptedAnswered, InTime
    <3>6. entry' \in 0 .. Len(conns) /\ blocked' \in BOOLEAN
      BY <1>0, <1>1, <3>1, <3>4 DEF ConnsOK
    <3>7. ConnsOK' /\ Grows /\ AcceptedAnswered'
      BY <1>0, <1>1, <3>1, <3>3, <3>4, <3>5, <3>6, ConnChanges
    <3>8. CASE UNCHANGED toDialer
      BY <1>0, <1>1, <1>2, <3>7, <3>8, DatagramsKept DEF DatagramsOK
    <3>9. CASE SendToDialer(Message("disconnect", 0, c))
      <4>1. c \in 0 .. Len(conns) /\ "disconnect" \in PlainKinds
        BY <3>1 DEF PlainKinds, Kinds
      <4> QED
        BY <1>0, <1>1, <1>2, <3>7, <3>9, <4>1, SendsPlain DEF DatagramsOK
    <3> QED
      BY <2>1, <3>7, <3>8, <3>9 DEF AcceptTimesOut
  <2> QED
    BY <1>1, <2>1, ListenerClosesType
<1>4. DatagramsOK'
  BY <1>0, <1>1, <1>2, <1>3, DatagramsKept DEF DatagramsOK
<1>5. ChosenOK' /\ DialOK' /\ PathOK'
  BY <1>0, <1>1 DEF ChosenOK, DialOK, PathOK
<1>6. ReplyOK' /\ DialerOK'
  BY <1>0, <1>1, <1>2, <1>3, ReplyKept, DialerUnchanged
<1> QED
  BY <1>3, <1>4, <1>5, <1>6 DEF IInv

LEMMA DialerSilenceStep ==
  ASSUME IInv, dialer.state = "closing", DialerCloses,
         UNCHANGED <<chosen, dialing, listener, toDialer, outage, lost, odd>>
  PROVE  IInv'
<1>0. /\ ChosenOK /\ ConnsOK /\ DatagramsOK /\ PathOK /\ AcceptedAnswered /\ DialOK /\ ReplyOK
      /\ DialerOK
  BY DEF IInv
<1>1. UNCHANGED <<path, config, compatible, cookies, dial, attempt, errors, patience,
                  left, reply, conns, entry, blocked, toDialer, outage, lost, odd>>
  BY DEF chosen, dialing, listener
<1>2. Progresses /\ Grows
  BY <1>0, <1>1, ConnsFacts, ClosesAnswered DEF Progresses
<1>3. DialerOK' /\ toListener' \in Seq(RequestType')
  BY <1>1, <1>2, DialerClosesType
<1>4. DatagramsOK'
  BY <1>0, <1>1, <1>2, <1>3, DatagramsKept DEF DatagramsOK
<1>5. ChosenOK' /\ DialOK' /\ ConnsOK' /\ PathOK' /\ AcceptedAnswered'
  BY <1>0, <1>1, <1>2 DEF ChosenOK, DialOK, ConnsOK, PathOK, AcceptedAnswered, Progresses
<1>6. ReplyOK'
  BY <1>0, <1>1, <1>2, ReplyKept
<1> QED
  BY <1>3, <1>4, <1>5, <1>6 DEF IInv

-----------------------------------------------------------------------------
(* Half a second.                                                          *)

LEMMA QuieterConn ==
  ASSUME NEW conn \in ConnType, InTime(conn), NEW hears
  PROVE  /\ Quieter(conn, hears) \in ConnType /\ InTime(Quieter(conn, hears))
         /\ Quieter(conn, hears).mtu = conn.mtu
         /\ Quieter(conn, hears).connected = conn.connected
         /\ Quieter(conn, hears).timer = conn.timer
<1>1. CASE hears \/ conn.state # "open"
  <2>1. Quieter(conn, hears) = [conn EXCEPT !.quiet = 0]
    BY <1>1 DEF Quieter
  <2> QED
    BY <2>1 DEF ConnType, InTime, SilenceTime
<1>2. CASE ~ (hears \/ conn.state # "open")
  <2>1. conn.state = "open" /\ conn.quiet \in 0 .. 9
    BY <1>2 DEF InTime, SilenceTime, ConnType
  <2>2. CASE conn.quiet + 1 = SilenceTime
    <3> DEFINE q == conn.quiet + 1
    <3>1. Quieter(conn, hears) = [conn EXCEPT !.quiet = q, !.state = "closing"]
      BY <1>2, <2>1, <2>2 DEF Quieter
    <3>2. q \in 0 .. SilenceTime
      BY <2>1 DEF SilenceTime
    <3> HIDE DEF q
    <3>3. "closing" \in ConnState
      BY DEF ConnState
    <3>4. Quieter(conn, hears) \in ConnType
      BY <3>1, <3>2, <3>3 DEF ConnType
    <3>5. /\ Quieter(conn, hears).state = "closing"
          /\ Quieter(conn, hears).mtu = conn.mtu
          /\ Quieter(conn, hears).connected = conn.connected
          /\ Quieter(conn, hears).timer = conn.timer
      BY <3>1 DEF ConnType
    <3> QED
      BY <3>4, <3>5 DEF InTime
  <2>3. CASE conn.quiet + 1 # SilenceTime
    <3>1. Quieter(conn, hears) = [conn EXCEPT !.quiet = conn.quiet + 1, !.state = "open"]
      BY <1>2, <2>1, <2>3 DEF Quieter
    <3>2. conn.quiet + 1 \in 0 .. 10 /\ conn.quiet + 1 < 10
      BY <2>1, <2>3 DEF SilenceTime
    <3> QED
      BY <3>1, <3>2 DEF ConnType, ConnState, InTime, SilenceTime
  <2> QED
    BY <2>2, <2>3
<1> QED
  BY <1>1, <1>2

LEMMA QuieterDialer ==
  ASSUME DialerOK, NEW hears
  PROVE  /\ Quieter(dialer, hears) \in
              [state : ConnState \cup {"none"}, mtu : Sizes, quiet : 0 .. SilenceTime,
               connected : BOOLEAN, task : {"receives", "marks"},
               peer : 0 .. Len(conns), mixed : BOOLEAN]
         /\ InTime(Quieter(dialer, hears))
         /\ Quieter(dialer, hears).mtu = dialer.mtu
         /\ Quieter(dialer, hears).peer = dialer.peer
         /\ Quieter(dialer, hears).connected = dialer.connected
         /\ Quieter(dialer, hears).task = dialer.task
         /\ dialer.state = "none" <=> Quieter(dialer, hears).state = "none"
<1> DEFINE T == [state : ConnState \cup {"none"}, mtu : Sizes, quiet : 0 .. SilenceTime,
                 connected : BOOLEAN, task : {"receives", "marks"},
                 peer : 0 .. Len(conns), mixed : BOOLEAN]
<1>0. dialer \in T /\ InTime(dialer)
  BY DEF DialerOK
<1>1. CASE hears \/ dialer.state # "open"
  <2>1. Quieter(dialer, hears) = [dialer EXCEPT !.quiet = 0]
    BY <1>1 DEF Quieter
  <2> QED
    BY <1>0, <2>1 DEF InTime, SilenceTime
<1>2. CASE ~ (hears \/ dialer.state # "open")
  <2>1. dialer.state = "open" /\ dialer.quiet \in 0 .. 9
    BY <1>0, <1>2 DEF InTime, SilenceTime
  <2>2. CASE dialer.quiet + 1 = SilenceTime
    <3> DEFINE q == dialer.quiet + 1
    <3>1. Quieter(dialer, hears) = [dialer EXCEPT !.quiet = q, !.state = "closing"]
      BY <1>2, <2>1, <2>2 DEF Quieter
    <3>2. q \in 0 .. SilenceTime
      BY <2>1 DEF SilenceTime
    <3> HIDE DEF q
    <3>3. "closing" \in ConnState \cup {"none"}
      BY DEF ConnState
    <3>4. Quieter(dialer, hears) \in T
      BY <1>0, <3>1, <3>2, <3>3
    <3>5. /\ Quieter(dialer, hears).state = "closing"
          /\ Quieter(dialer, hears).mtu = dialer.mtu
          /\ Quieter(dialer, hears).peer = dialer.peer
          /\ Quieter(dialer, hears).connected = dialer.connected
          /\ Quieter(dialer, hears).task = dialer.task
      BY <1>0, <3>1
    <3> QED
      BY <2>1, <3>4, <3>5 DEF InTime
  <2>3. CASE dialer.quiet + 1 # SilenceTime
    <3> DEFINE q == dialer.quiet + 1
    <3>1. Quieter(dialer, hears) = [dialer EXCEPT !.quiet = q, !.state = "open"]
      BY <1>2, <2>1, <2>3 DEF Quieter
    <3>2. q \in 0 .. SilenceTime /\ q < SilenceTime
      BY <2>1, <2>3 DEF SilenceTime
    <3> HIDE DEF q
    <3> QED
      BY <1>0, <2>1, <3>1, <3>2 DEF ConnState, InTime
  <2> QED
    BY <2>2, <2>3
<1> QED
  BY <1>1, <1>2

LEMMA PingsType ==
  ASSUME ChosenOK, ConnsOK, NEW pings \in Pings
  PROVE  pings \in Seq(ReplyType)
<1>1. CASE pings = <<>>
  BY <1>1
<1>2. ASSUME NEW c \in Open, NEW n \in 1 .. MaxPings,
             pings = [i \in 1 .. n |-> Message("ping", 0, c)]
      PROVE  pings \in Seq(ReplyType)
  <2>1. c \in 0 .. Len(conns) /\ "ping" \in PlainKinds
    BY ConnsFacts DEF Open, PlainKinds, Kinds
  <2>2. Message("ping", 0, c) \in ReplyType
    BY <2>1, PlainMessage
  <2>3. n \in Nat
    BY PathFields
  <2> QED
    BY <1>2, <2>2, <2>3
<1> QED
  BY <1>1, <1>2 DEF Pings

LEMMA TickStep ==
  ASSUME IInv, Tick
  PROVE  IInv'
<1>0. /\ ChosenOK /\ ConnsOK /\ DatagramsOK /\ PathOK /\ AcceptedAnswered /\ DialOK /\ ReplyOK
      /\ DialerOK
  BY DEF IInv
<1>1. UNCHANGED <<path, config, compatible, cookies, dial, attempt, errors, reply,
                  entry, blocked, outage, lost, odd>>
  BY DEF Tick, chosen
<1>2. /\ dial \in {"discovering", "opening"} => patience # 0
      /\ dial \notin {"connected", "failed"} => left # 0
      /\ \A i \in DOMAIN toDialer : toDialer[i].age >= path.delay => Down("to dialer")
      /\ \A i \in DOMAIN toListener : toListener[i].age >= path.delay => Down("to listener")
  BY DEF Tick, Urgent, Dialing
<1>3. DialOK'
  <2>1. /\ patience' = IF dial \in {"discovering", "opening"} THEN patience - 1 ELSE 0
        /\ left' = IF dial \notin {"connected", "failed"} THEN left - 1 ELSE 0
    BY DEF Tick, Dialing
  <2>2. patience' \in 0 .. ReplyTime
    <3>1. patience \in 0 .. 4
      BY <1>0 DEF DialOK, ReplyTime
    <3>2. patience' = 0 \/ (patience # 0 /\ patience' = patience - 1)
      BY <1>2, <2>1
    <3> QED
      BY <3>1, <3>2 DEF ReplyTime
  <2>3. left' \in 0 .. config.timeout
    <3>1. left \in 0 .. config.timeout /\ config.timeout \in Nat
      BY <1>0, PathFields DEF DialOK
    <3>2. left' = 0 \/ (left # 0 /\ left' = left - 1)
      BY <1>2, <2>1
    <3> QED
      BY <3>1, <3>2
  <2> QED
    BY <1>0, <1>1, <2>2, <2>3 DEF DialOK
<1>5. Progresses
  <2> DEFINE q == Quieter(dialer, Open # {} /\ ~ Down("to dialer"))
             mixed == q.mixed \/ (dialer.state = "open" /\ Open \ {dialer.peer} # {})
  <2>1. dialer' = [q EXCEPT !.mixed = mixed]
    BY DEF Tick
  <2>2. /\ q \in [state : ConnState \cup {"none"}, mtu : Sizes, quiet : 0 .. SilenceTime,
                  connected : BOOLEAN, task : {"receives", "marks"},
                  peer : 0 .. Len(conns), mixed : BOOLEAN]
        /\ q.connected = dialer.connected /\ q.task = dialer.task
    BY <1>0, QuieterDialer
  <2> HIDE DEF q, mixed
  <2>3. dialer'.connected = dialer.connected /\ dialer'.task = dialer.task
    BY <2>1, <2>2
  <2> QED
    BY <1>1, <2>3, AnsweredKept DEF Progresses
<1>4. ConnsOK' /\ Grows /\ AcceptedAnswered'
  <2> DEFINE hears(c) == /\ entry = c /\ dialer.state = "open" /\ ~ Down("to listener")
             q(c) == Quieter(conns[c], hears(c))
             new(c) == [q(c) EXCEPT !.timer = IF @ > 0 THEN @ - 1 ELSE @]
  <2>1. conns' = [c \in DOMAIN conns |-> new(c)]
    BY DEF Tick
  <2>2. Len(conns) \in Nat /\ DOMAIN conns = 1 .. Len(conns)
    BY <1>0, ConnsFacts
  <2> HIDE DEF hears
  <2>3. ASSUME NEW c \in DOMAIN conns
        PROVE  /\ new(c) \in ConnType /\ InTime(new(c)) /\ new(c).mtu = conns[c].mtu
               /\ new(c).connected = conns[c].connected
    <3>1. conns[c] \in ConnType /\ InTime(conns[c])
      BY <1>0, <2>2, <2>3, ConnsFacts DEF ConnsOK
    <3>2. /\ q(c) \in ConnType /\ InTime(q(c)) /\ q(c).mtu = conns[c].mtu
          /\ q(c).connected = conns[c].connected
      BY <3>1, QuieterConn
    <3> HIDE DEF q
    <3> DEFINE t == IF q(c).timer > 0 THEN q(c).timer - 1 ELSE q(c).timer
    <3>3. t \in -1 .. AcceptTime
      BY <3>2 DEF ConnType, AcceptTime
    <3>4. new(c) = [q(c) EXCEPT !.timer = t]
      OBVIOUS
    <3> HIDE DEF t, new
    <3> QED
      BY <3>2, <3>3, <3>4 DEF ConnType, InTime
  <2> HIDE DEF q, new
  <2>4. /\ conns' \in Seq(ConnType) /\ Len(conns') = Len(conns) /\ DOMAIN conns' = DOMAIN conns
    BY <2>1, <2>2, <2>3
  <2>5. \A c \in DOMAIN conns : conns'[c] = new(c)
    BY <2>1
  <2>6. Grows
    BY <2>2, <2>3, <2>4, <2>5 DEF Grows
  <2>7. AcceptedAnswered'
    BY <1>0, <1>5, <2>3, <2>4, <2>5 DEF AcceptedAnswered, Progresses
  <2>8. \A c \in DOMAIN conns' : InTime(conns'[c])
    BY <2>3, <2>4, <2>5
  <2>9. ConnsOK'
    BY <1>0, <1>1, <2>4, <2>8 DEF ConnsOK, InTime
  <2> QED
    BY <2>6, <2>7, <2>9
<1>6. DialerOK'
  <2> DEFINE q == Quieter(dialer, Open # {} /\ ~ Down("to dialer"))
             mixed == q.mixed \/ (dialer.state = "open" /\ Open \ {dialer.peer} # {})
  <2>1. dialer' = [q EXCEPT !.mixed = mixed]
    BY DEF Tick
  <2>2. /\ q \in [state : ConnState \cup {"none"}, mtu : Sizes, quiet : 0 .. SilenceTime,
                  connected : BOOLEAN, task : {"receives", "marks"},
                  peer : 0 .. Len(conns), mixed : BOOLEAN]
        /\ InTime(q) /\ q.mtu = dialer.mtu /\ q.peer = dialer.peer
        /\ dialer.state = "none" <=> q.state = "none"
    BY <1>0, QuieterDialer
  <2>3. mixed \in BOOLEAN
    OBVIOUS
  <2> HIDE DEF q, mixed
  <2>4. /\ dialer' \in [state : ConnState \cup {"none"}, mtu : Sizes, quiet : 0 .. SilenceTime,
                        connected : BOOLEAN, task : {"receives", "marks"},
                        peer : 0 .. Len(conns), mixed : BOOLEAN]
        /\ dialer'.mtu = q.mtu /\ dialer'.peer = q.peer /\ dialer'.state = q.state
        /\ dialer'.quiet = q.quiet
    BY <2>1, <2>2, <2>3
  <2>5. InTime(dialer')
    BY <2>2, <2>4 DEF InTime
  <2> QED
    BY <1>0, <1>1, <1>4, <1>5, <2>2, <2>4, <2>5, DialerKept
<1>7. DatagramsOK'
  <2>1. /\ \A m \in RequestType : m.age \in (- ResendTime) .. path.delay
        /\ \A m \in ReplyType : m.age \in (- ResendTime) .. path.delay
    BY DEF RequestType, ReplyType, MessageType
  <2>2. Older(toListener, "to listener") \in Seq(RequestType)
    BY <1>0, <1>2, <2>1, RequestsAge, OlderType DEF DatagramsOK
  <2>3. Older(toDialer, "to dialer") \in Seq(ReplyType)
    BY <1>0, <1>2, <2>1, RepliesAge, OlderType DEF DatagramsOK
  <2>4. PICK pings \in Pings : toDialer' = Older(toDialer, "to dialer") \o pings
    BY DEF Tick
  <2>5. toDialer' \in Seq(ReplyType)
    BY <1>0, <2>3, <2>4, PingsType, SeqJoined
  <2>6. toListener' \in Seq(RequestType)
    BY <2>2 DEF Tick
  <2> QED
    BY <1>1, <1>4, <1>5, <2>5, <2>6, DatagramsKept DEF DatagramsOK
<1>8. ChosenOK' /\ PathOK' /\ ReplyOK'
  BY <1>0, <1>1, <1>4, <1>5, ReplyKept DEF ChosenOK, PathOK
<1> QED
  BY <1>3, <1>4, <1>6, <1>7, <1>8 DEF IInv

-----------------------------------------------------------------------------
(* The invariant.                                                          *)

LEMMA Start == Init => IInv
<1> SUFFICES ASSUME Init PROVE IInv
  OBVIOUS
<1>1. ChosenOK
  <2>1. PICK d \in Dials : config = d[1] /\ path = d[2]
    BY DEF Init
  <2>2. d = <<d[1], d[2]>>
    BY HandshakeAssumption
  <2> QED
    BY <2>1, <2>2 DEF Init, ChosenOK
<1>2. conns = <<>> /\ Len(conns) = 0 /\ DOMAIN conns = {}
  BY DEF Init
<1>3. ConnsOK /\ AcceptedAnswered
  <2>1. conns \in Seq(ConnType)
    BY <1>2
  <2>2. entry \in 0 .. Len(conns)
    BY <1>2 DEF Init
  <2>3. blocked \in BOOLEAN
    BY DEF Init
  <2>4. (\A c \in DOMAIN conns : InTime(conns[c])) /\ AcceptedAnswered
    BY <1>2, Zenon DEF AcceptedAnswered
  <2> QED
    BY <2>1, <2>2, <2>3, <2>4, Zenon DEF ConnsOK
<1>4. DialOK
  BY <1>1, PathFields, SizesAre DEF Init, DialOK, Attempts, AttemptTime, ReplyTime
<1>5. ReplyOK
  BY <1>1, <1>3, NoReplyTyped DEF Init, ReplyOK
<1>6. DialerOK
  BY <1>2, SizesAre DEF Init, DialerOK, MtuAgrees, InTime, ConnState, SilenceTime
<1>7. DatagramsOK
  <2>1. 1 \in 1 .. Attempts * Len(MTU_SIZES)
    BY SizesAre DEF Attempts
  <2>2. Request1(1) \in MessageType /\ Request1(1).kind = "request 1"
    BY <1>1, <1>3, <2>1, Request1Type
  <2>3. Through(Request1(1)) = <<>> \/ \E m \in RequestType : Through(Request1(1)) = <<m>>
    BY <2>2 DEF Through, RequestType
  <2>4. ASSUME NEW m \in RequestType PROVE <<m>> \in Seq(RequestType)
    OBVIOUS
  <2>5. <<>> \in Seq(RequestType)
    OBVIOUS
  <2>6. Through(Request1(1)) \in Seq(RequestType)
    BY <2>3, <2>4, <2>5, Zenon
  <2> QED
    BY <2>5, <2>6 DEF Init, DatagramsOK
<1>8. PathOK
  BY <1>1, PathFields DEF Init, PathOK
<1> QED
  BY <1>1, <1>3, <1>4, <1>5, <1>6, <1>7, <1>8 DEF IInv

LEMMA Step ==
  ASSUME IInv, [Next]_vars
  PROVE  IInv'
<1>1. CASE UNCHANGED vars
  <2>1. UNCHANGED <<config, path, compatible, cookies, dial, attempt, errors, patience, left,
                    reply, dialer, conns, entry, blocked, toListener, toDialer, outage, lost, odd>>
    BY <1>1 DEF vars, chosen, dialing, listener
  <2>2. ConnsOK' /\ Grows /\ AcceptedAnswered' /\ toDialer' \in Seq(ReplyType')
    BY <2>1, NothingChanges
  <2>3. Progresses
    BY <2>1 DEF Progresses, Answered
  <2>4. ReplyOK' /\ DialerOK' /\ toListener' \in Seq(RequestType')
    BY <2>1, <2>2, <2>3, ReplyKept, DialerUnchanged, DatagramsKept DEF IInv, DatagramsOK
  <2>5. ChosenOK' /\ DialOK' /\ PathOK'
    BY <2>1 DEF IInv, ChosenOK, DialOK, PathOK
  <2> QED
    BY <2>2, <2>4, <2>5 DEF IInv, DatagramsOK
<1>2. CASE SilenceCloses
  BY <1>2, DialerSilenceStep, ListenerTimersStep DEF SilenceCloses
<1>3. CASE DialerReceives
  BY <1>3, DialerReceivesStep
<1>9. CASE MarksConnected \/ WaitsConnected
  BY <1>9, ConnectedStep
<1>4. CASE ListenerReceives
  BY <1>4, ListenerReceivesStep
<1>5. CASE Lose \/ AddOdd \/ Cut \/ Heal
  BY <1>5, PathStep
<1>6. CASE RecvTimesOut \/ DialTimesOut
  BY <1>6, DialTimersStep
<1>7. CASE Tick
  BY <1>7, TickStep
<1>8. CASE \E c \in DOMAIN conns : AcceptTimesOut(c)
  BY <1>8, ListenerTimersStep
<1> QED
  BY <1>1, <1>2, <1>3, <1>4, <1>5, <1>6, <1>7, <1>8, <1>9 DEF Next

(* The strengthened invariant of the handshake: what each task keeps and   *)
(* what the datagrams under way say of the dialer and of the Conns.        *)
THEOREM Invariant == Spec => []IInv
BY Start, Step, PTL DEF Spec

(* Every variable keeps its type, the limits on attempts, errors and       *)
(* waiting among them.                                                     *)
THEOREM TypeCorrect == Spec => []TypeOK
BY Invariant, Parts, PTL

(* Whatever is lost, late or out of order, and however often either side   *)
(* starts again: once the dialer has a Conn, it and its peer agree on a    *)
(* size, and the path carries it.                                          *)
THEOREM SizesAgree == Spec => []MtuAgrees
BY Invariant, Parts, PTL

(* The listener hands a Conn to accept only when the dialer has got the    *)
(* answer to its request, whatever becomes of the dial after that.         *)
THEOREM AcceptedIsAnswered == Spec => []AcceptedAnswered
BY Invariant, Parts, PTL
===============================================================================
