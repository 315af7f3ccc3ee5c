------------------------------ MODULE Shutdown ------------------------------
(***************************************************************************)
(* The tasks of one established Conn and how they end: the ticker, the     *)
(* sender task, the task that receives, one reader and one writer of the   *)
(* application, and the tasks send_message spawns.  They meet at the state *)
(* lock, the two channels, the atomics `closing` and `closed`, and         *)
(* cancel_notify.                                                          *)
(*                                                                         *)
(* cancel_notify is a tokio Notify: notify_waiters wakes the Notified      *)
(* futures that exist at that moment and stores nothing.  select! creates  *)
(* its futures when it is entered and drops them before the body of the    *)
(* chosen branch runs, so a task in a body is not woken; and of several    *)
(* ready branches it takes any.                                            *)
(***************************************************************************)
EXTENDS Integers, Sequences, FiniteSets, Functions

CONSTANTS
    Listening,    \* the Conn of a listener; otherwise of a dialer
    OutSize,      \* capacity of the send_tx channel, 256
    InSize,       \* capacity of the packet_tx channel, 4096
    Reads,        \* whether the application reads
    Kinds,        \* what the peer sends
    MaxTracked,   \* bound: packets written, and pings
    MaxPings,     \* bound: no ping once this many packets were sent
    MaxInbound    \* bound: datagrams the peer sends

ASSUME ShutdownAssumption ==
    /\ Listening \in BOOLEAN
    /\ OutSize \in Nat \ {0} /\ InSize \in Nat \ {0}
    /\ Reads \in BOOLEAN /\ Kinds \subseteq {"ack", "data", "disconnect", "bad"}
    /\ MaxTracked \in Nat /\ MaxPings \in 0 .. MaxTracked /\ MaxInbound \in Nat

Tasks == {"ticker", "sender", "receiver", "reader"}
Farewell == 0      \* the packet with DISCONNECT_NOTIFICATION
Ack == -1          \* an ACK or NACK: in the channel, never tracked

VARIABLES
    closing,      \* "no", or how long ago: "young" up to 1 s, "mature", "overdue" after 5 s
    closed,
    waiting,      \* tasks that hold a Notified of cancel_notify
    woken,        \* those of them notify_waiters has woken
    ticker, sender, receiver, reader, writer,    \* where each task is
    carried,      \* the datagram the sender task took from the channel
    acksLeft,     \* what the ticker read of the resend map
    outbox,       \* send_tx
    mailbox,      \* packet_tx: how many contents wait in it
    spawned,      \* messages whose send_message task has not run yet
    unacked,      \* packets in the resend map
    ackDue,       \* ack_slice is not empty
    quiet,        \* nothing has been received for 5 s
    \* history and bounds
    tracked, inbound, sent,
    owed          \* tracked when close was called, not acknowledged since

tasks == <<ticker, sender, receiver, reader, writer, carried, acksLeft>>
channels == <<outbox, mailbox>>
packets == <<unacked, ackDue, tracked>>
flags == <<closing, closed, owed>>
vars == <<tasks, channels, packets, flags, waiting, woken, spawned, quiet, inbound, sent>>

(* An established connection at rest; contents the application has not     *)
(* read yet may already wait for it.                                       *)
Init ==
    /\ closing = "no" /\ closed = FALSE
    /\ waiting = {"ticker", "sender"} \cup (IF Listening THEN {} ELSE {"receiver"})
    /\ woken = {}
    /\ ticker = "select" /\ sender = "select" /\ receiver = "select"
    /\ reader = "idle" /\ writer = "idle"
    /\ carried = Ack /\ acksLeft = {}
    /\ outbox = <<>> /\ mailbox \in 0 .. InSize /\ spawned = {}
    /\ unacked = {} /\ ackDue = FALSE /\ quiet = FALSE
    /\ tracked = 0 /\ inbound = 0 /\ sent = {} /\ owed = {}

-----------------------------------------------------------------------------
(* cancel_notify, the channels and the lock.                               *)

Enter(t) == waiting' = waiting \cup {t} /\ woken' = woken \ {t}
Leave(t) == waiting' = waiting \ {t} /\ woken' = woken \ {t}

Room == sender # "done" /\ Len(outbox) < OutSize

(* send().await: goes on when there is room, or with an error when the     *)
(* sender task has dropped its end.                                        *)
SendAwait(x) == \/ Room /\ outbox' = Append(outbox, x)
                \/ sender = "done" /\ UNCHANGED outbox

(* try_send for each of xs: what there is no room for is dropped.          *)
(* (mutated: the channel has no bound.)                                    *)
TrySendUnbounded(xs) == outbox' = outbox \o xs
TrySend(xs) ==
    LET all == outbox \o xs IN
    outbox' = IF sender = "done" THEN outbox
              ELSE IF Len(all) > OutSize THEN SubSeq(all, 1, OutSize) ELSE all

(* write_locked keeps the state lock while it waits for the channel.       *)
LockFree == writer # "sending"

(* close: compare_exchange from 0.                                         *)
StartClosing ==
    IF closing = "no" THEN closing' = "young" /\ owed' = unacked
    ELSE UNCHANGED <<closing, owed>>

(* close_immediately; the DISCONNECT_NOTIFICATION is left to a spawned     *)
(* task.                                                                   *)
CloseImmediately ==
    IF closed THEN UNCHANGED <<closed, spawned, waiting, woken>>
    ELSE /\ closed' = TRUE /\ spawned' = spawned \cup {"farewell"}
         /\ woken' = waiting /\ UNCHANGED waiting

-----------------------------------------------------------------------------
(* start_ticking.                                                          *)

TickerTicks ==
    /\ ticker = "select" /\ ticker' = "flush" /\ Leave("ticker")
    /\ UNCHANGED <<sender, receiver, reader, writer, carried, acksLeft, channels,
                   packets, flags, spawned, quiet, inbound, sent>>

TickerCancelled ==
    /\ ticker = "select" /\ "ticker" \in woken
    /\ ticker' = "done" /\ Leave("ticker")
    /\ UNCHANGED <<sender, receiver, reader, writer, carried, acksLeft, channels,
                   packets, flags, spawned, quiet, inbound, sent>>

(* flush_acks: ack_slice is taken under the lock, then sent.               *)
FlushAcks ==
    /\ \/ /\ ticker = "flush" /\ LockFree
          /\ ticker' = IF ackDue THEN "acking" ELSE "resend"
          /\ ackDue' = FALSE /\ UNCHANGED outbox
       \/ /\ ticker = "acking" /\ SendAwait(Ack)
          /\ ticker' = "resend" /\ UNCHANGED ackDue
    /\ UNCHANGED <<sender, receiver, reader, writer, carried, acksLeft, mailbox,
                   unacked, tracked, flags, waiting, woken, spawned, quiet,
                   inbound, sent>>

(* check_resend, on every third tick: the old packets, in any order, are   *)
(* offered to the channel again.                                           *)
CheckResend ==
    /\ ticker = "resend" /\ ticker' = "check"
    /\ \/ UNCHANGED outbox
       \/ LockFree /\ \E n \in 1 .. Cardinality(unacked) :
            \E old \in {f \in [1 .. n -> unacked] : IsInjective(f)} : TrySend(old)
    /\ UNCHANGED <<sender, receiver, reader, writer, carried, acksLeft, mailbox,
                   packets, flags, waiting, woken, spawned, quiet, inbound, sent>>

(* The rest of a tick when nobody has called close; on every fifth it      *)
(* pings and looks whether the peer has gone quiet.  (mutated: it does not *)
(* look.)                                                                  *)
TickerIdles ==
    /\ ticker = "check" /\ closing = "no"
    /\ ticker' = "select" /\ Enter("ticker")
    /\ UNCHANGED <<sender, receiver, reader, writer, carried, acksLeft, channels,
                   packets, flags, spawned, quiet, inbound, sent>>
TickerPingsOnly ==
    /\ ticker = "check" /\ closing = "no"
    /\ ticker' = "select" /\ Enter("ticker")
    /\ spawned' = IF tracked < MaxPings THEN spawned \cup {"ping"} ELSE spawned
    /\ UNCHANGED <<sender, receiver, reader, writer, carried, acksLeft, channels,
                   packets, flags, quiet, inbound, sent>>
TickerPings ==
    /\ ticker = "check" /\ closing = "no"
    /\ ticker' = "select" /\ Enter("ticker")
    /\ spawned' = IF tracked < MaxPings THEN spawned \cup {"ping"} ELSE spawned
    /\ IF quiet THEN StartClosing ELSE UNCHANGED <<closing, owed>>
    /\ UNCHANGED <<sender, receiver, reader, writer, carried, acksLeft, channels,
                   packets, closed, quiet, inbound, sent>>

(* The rest of a tick of a closing connection: the resend map is looked at *)
(* under the lock, the decision is made after it was let go.               *)
TickerLooks ==
    /\ ticker = "check" /\ closing # "no" /\ LockFree
    /\ acksLeft' = unacked /\ ticker' = "decide"
    /\ UNCHANGED <<sender, receiver, reader, writer, carried, channels, packets,
                   flags, waiting, woken, spawned, quiet, inbound, sent>>

(* (mutated: unacknowledged packets do not hold the end back; they hold it *)
(* back for ever.)                                                         *)
TimeToCloseSoon == closing \in {"mature", "overdue"}
TimeToCloseAcked == acksLeft = {} /\ closing \in {"mature", "overdue"}
TimeToClose == \/ acksLeft = {} /\ closing \in {"mature", "overdue"}
               \/ closing = "overdue"
TickerDecides ==
    /\ ticker = "decide" /\ acksLeft' = {}
    /\ IF TimeToClose
       THEN ticker' = "done" /\ CloseImmediately
       ELSE ticker' = "select" /\ Enter("ticker")
            /\ UNCHANGED <<closed, spawned>>
    /\ UNCHANGED <<sender, receiver, reader, writer, carried, channels,
                   packets, closing, owed, quiet, inbound, sent>>

Ticker == \/ TickerTicks \/ TickerCancelled \/ FlushAcks \/ CheckResend
          \/ TickerIdles \/ TickerPings \/ TickerLooks \/ TickerDecides

-----------------------------------------------------------------------------
(* sender_task.                                                            *)

SenderTakes ==
    /\ sender = "select" /\ outbox # <<>>
    /\ sender' = "sending" /\ carried' = Head(outbox) /\ outbox' = Tail(outbox)
    /\ Leave("sender")
    /\ UNCHANGED <<ticker, receiver, reader, writer, acksLeft, mailbox, packets,
                   flags, spawned, quiet, inbound, sent>>

SenderSends ==
    /\ sender = "sending"
    /\ sender' = "select" /\ sent' = sent \cup ({carried} \ {Ack}) /\ carried' = Ack
    /\ Enter("sender")
    /\ UNCHANGED <<ticker, receiver, reader, writer, acksLeft, channels, packets,
                   flags, spawned, quiet, inbound>>

SenderCancelled ==
    /\ sender = "select" /\ "sender" \in woken
    /\ sender' = "draining" /\ Leave("sender")
    /\ UNCHANGED <<ticker, receiver, reader, writer, carried, acksLeft, channels,
                   packets, flags, spawned, quiet, inbound, sent>>

(* try_recv until the channel is empty; then the task ends and its end of  *)
(* the channel is dropped.                                                 *)
SenderDrains ==
    /\ sender = "draining"
    /\ IF outbox = <<>> THEN sender' = "done" /\ UNCHANGED <<outbox, sent>>
       ELSE /\ sent' = sent \cup ({Head(outbox)} \ {Ack}) /\ outbox' = Tail(outbox)
            /\ UNCHANGED sender
    /\ UNCHANGED <<ticker, receiver, reader, writer, carried, acksLeft, mailbox,
                   packets, flags, waiting, woken, spawned, quiet, inbound>>

Sender == SenderTakes \/ SenderSends \/ SenderCancelled \/ SenderDrains

(* A task of send_message: the packet is tracked under the lock, its       *)
(* datagram offered to the channel.                                        *)
SpawnedSends(message) ==
    LET x == IF message = "farewell" THEN Farewell ELSE tracked + 1 IN
    /\ message \in spawned /\ LockFree
    /\ message = "ping" => tracked < MaxTracked
    /\ spawned' = spawned \ {message}
    /\ unacked' = unacked \cup {x} /\ TrySend(<<x>>)
    /\ tracked' = IF message = "ping" THEN tracked + 1 ELSE tracked
    /\ UNCHANGED <<tasks, mailbox, ackDue, flags, waiting, woken, quiet, inbound, sent>>

-----------------------------------------------------------------------------
(* The task that receives: the dialer's own, or the listen loop, which     *)
(* does not select on cancel_notify and finds the Conn in its map until    *)
(* close_immediately has taken it out.                                     *)

EnterReceiver == IF Listening THEN UNCHANGED <<waiting, woken>> ELSE Enter("receiver")

Receive(kind) ==
    /\ receiver = "select" /\ inbound < MaxInbound
    /\ Listening => ~ closed
    /\ receiver' = kind /\ inbound' = inbound + 1 /\ quiet' = FALSE
    /\ IF Listening THEN UNCHANGED <<waiting, woken>> ELSE Leave("receiver")
    /\ UNCHANGED <<ticker, sender, reader, writer, carried, acksLeft, channels,
                   packets, flags, spawned, sent>>

ReceiverLoops ==
    /\ receiver = "handled" /\ receiver' = "select" /\ EnterReceiver
    /\ UNCHANGED <<ticker, sender, reader, writer, carried, acksLeft, channels,
                   packets, flags, spawned, quiet, inbound, sent>>

ReceiverCancelled ==
    /\ receiver = "select" /\ "receiver" \in woken
    /\ receiver' = "done" /\ Leave("receiver")
    /\ UNCHANGED <<ticker, sender, reader, writer, carried, acksLeft, channels,
                   packets, flags, spawned, quiet, inbound, sent>>

(* handle_ack, for packets that reached the peer.                          *)
HandleAck ==
    /\ receiver = "ack" /\ LockFree /\ receiver' = "handled"
    /\ \E gone \in SUBSET (unacked \cap sent) :
         unacked' = unacked \ gone /\ owed' = owed \ gone
    /\ UNCHANGED <<ticker, sender, reader, writer, carried, acksLeft, channels,
                   ackDue, tracked, closing, closed, waiting, woken, spawned, quiet, inbound,
                   sent>>

(* receive_datagram up to handle_packet: the lock is let go with the       *)
(* number noted in ack_slice.                                              *)
ReceiveDatagram ==
    /\ receiver \in {"data", "disconnect"} /\ LockFree
    /\ receiver' = IF receiver = "data" THEN "content" ELSE "goodbye"
    /\ ackDue' = TRUE
    /\ UNCHANGED <<ticker, sender, reader, writer, carried, acksLeft, channels,
                   unacked, tracked, flags, waiting, woken, spawned, quiet,
                   inbound, sent>>

(* handle_packet.  A closing Conn drops what arrives, a                    *)
(* DISCONNECT_NOTIFICATION too; otherwise a content goes to the reader,    *)
(* which may have to make room first.                                      *)
HandlePacket ==
    /\ \/ /\ receiver \in {"content", "goodbye"} /\ closing # "no"
          /\ receiver' = "handled"
          /\ UNCHANGED <<mailbox, closed, spawned, waiting, woken>>
       \/ /\ receiver = "goodbye" /\ closing = "no"
          /\ receiver' = "handled" /\ CloseImmediately /\ UNCHANGED mailbox
       \/ /\ receiver = "content" /\ closing = "no" /\ receiver' = "delivering"
          /\ UNCHANGED <<mailbox, closed, spawned, waiting, woken>>
       \/ /\ receiver = "delivering" /\ mailbox < InSize
          /\ mailbox' = mailbox + 1 /\ receiver' = "handled"
          /\ UNCHANGED <<closed, spawned, waiting, woken>>
    /\ UNCHANGED <<ticker, sender, reader, writer, carried, acksLeft, outbox,
                   packets, closing, owed, quiet, inbound, sent>>

(* receive returns an error: the dialer's task ends, the listener blocks   *)
(* the address, or goes on when its block_duration is zero.                *)
ReceiveFails ==
    /\ receiver = "bad"
    /\ receiver' \in IF Listening THEN {"done", "handled"} ELSE {"done"}
    /\ UNCHANGED <<ticker, sender, reader, writer, carried, acksLeft, channels,
                   packets, flags, waiting, woken, spawned, quiet, inbound, sent>>

Handle == \/ ReceiverLoops \/ ReceiverCancelled \/ HandleAck \/ ReceiveDatagram
          \/ HandlePacket \/ ReceiveFails

-----------------------------------------------------------------------------
(* The application.                                                        *)

ReadStarts ==
    /\ Reads /\ reader = "idle" /\ reader' = "select" /\ Enter("reader")
    /\ UNCHANGED <<ticker, sender, receiver, writer, carried, acksLeft, channels,
                   packets, flags, spawned, quiet, inbound, sent>>

ReadPacket ==
    /\ reader = "select" /\ mailbox > 0
    /\ mailbox' = mailbox - 1 /\ reader' = "idle" /\ Leave("reader")
    /\ UNCHANGED <<ticker, sender, receiver, writer, carried, acksLeft, outbox,
                   packets, flags, spawned, quiet, inbound, sent>>

ReadCancelled ==
    /\ reader = "select" /\ "reader" \in woken
    /\ reader' = "ended" /\ Leave("reader")
    /\ UNCHANGED <<ticker, sender, receiver, writer, carried, acksLeft, channels,
                   packets, flags, spawned, quiet, inbound, sent>>

Read == ReadStarts \/ ReadPacket \/ ReadCancelled

(* write: `closed` is tested before the lock is asked for.                 *)
WriteStarts ==
    /\ writer = "idle" /\ tracked < MaxTracked
    /\ writer' = IF closed THEN "refused" ELSE "checked"
    /\ UNCHANGED <<ticker, sender, receiver, reader, carried, acksLeft, channels,
                   packets, flags, waiting, woken, spawned, quiet, inbound, sent>>

(* write_locked: the packet is tracked, then its datagram waits for the    *)
(* channel.  (mutated: it waits for room even when nobody will make any.)  *)
WriteLocked ==
    /\ writer = "checked"
    /\ IF tracked < MaxTracked
       THEN /\ writer' = "sending" /\ tracked' = tracked + 1
            /\ unacked' = unacked \cup {tracked'}
       ELSE writer' = "idle" /\ UNCHANGED <<tracked, unacked>>
    /\ UNCHANGED <<ticker, sender, receiver, reader, carried, acksLeft, channels,
                   ackDue, flags, waiting, woken, spawned, quiet, inbound, sent>>
WriteWaits ==
    /\ writer = "sending" /\ Room /\ outbox' = Append(outbox, tracked)
    /\ writer' = "idle"
    /\ UNCHANGED <<ticker, sender, receiver, reader, carried, acksLeft, mailbox,
                   packets, flags, waiting, woken, spawned, quiet, inbound, sent>>
WriteSends ==
    /\ writer = "sending" /\ SendAwait(tracked)
    /\ writer' = "idle"
    /\ UNCHANGED <<ticker, sender, receiver, reader, carried, acksLeft, mailbox,
                   packets, flags, waiting, woken, spawned, quiet, inbound, sent>>

Close ==
    /\ closing = "no" /\ StartClosing
    /\ UNCHANGED <<tasks, channels, packets, closed, waiting, woken,
                   spawned, quiet, inbound, sent>>

(* Listener::close, the listener's timer and the dialer's timeout call     *)
(* close_immediately from tasks of their own.                              *)
CloseFromOutside ==
    /\ ~ closed /\ CloseImmediately
    /\ UNCHANGED <<tasks, channels, packets, closing, owed, quiet, inbound, sent>>

(* Time.                                                                   *)
Age ==
    /\ closing \in {"young", "mature"}
    /\ closing' = IF closing = "young" THEN "mature" ELSE "overdue"
    /\ UNCHANGED <<tasks, channels, packets, closed, owed, waiting, woken,
                   spawned, quiet, inbound, sent>>
GoesQuiet ==
    /\ ~ quiet /\ quiet' = TRUE
    /\ UNCHANGED <<tasks, channels, packets, flags, waiting, woken, spawned,
                   inbound, sent>>

Next ==
    \/ Ticker \/ Sender \/ Handle \/ Read
    \/ \E message \in spawned : SpawnedSends(message)
    \/ \E kind \in Kinds : Receive(kind)
    \/ WriteStarts \/ WriteLocked \/ WriteSends
    \/ Close \/ CloseFromOutside \/ Age \/ GoesQuiet

Spec == Init /\ [][Next]_vars

(* Every task of the Conn is scheduled, the fifth tick comes again and     *)
(* again, time passes.  The application has to finish a write it began,    *)
(* but not to read; the peer has to do nothing.                            *)
Fairness ==
    /\ WF_vars(Ticker) /\ SF_vars(TickerPings)
    /\ WF_vars(Sender) /\ WF_vars(Handle)
    /\ WF_vars(\E message \in spawned : SpawnedSends(message))
    /\ WF_vars(WriteLocked) /\ WF_vars(WriteSends)
    /\ WF_vars(Age) /\ WF_vars(GoesQuiet)

FairSpec == Spec /\ Fairness

-----------------------------------------------------------------------------
(* Every variable has the type its field, or its task, has.                *)
TypeOK ==
    /\ closing \in {"no", "young", "mature", "overdue"} /\ closed \in BOOLEAN
    /\ waiting \subseteq Tasks /\ woken \subseteq waiting
    /\ ticker \in {"select", "flush", "acking", "resend", "check", "decide", "done"}
    /\ sender \in {"select", "sending", "draining", "done"}
    /\ receiver \in {"select", "ack", "data", "disconnect", "bad", "content",
                      "goodbye", "delivering", "handled", "done"}
    /\ reader \in {"idle", "select", "ended"}
    /\ writer \in {"idle", "checked", "sending", "refused"}
    /\ carried \in -1 .. MaxTracked /\ acksLeft \subseteq 0 .. MaxTracked
    /\ outbox \in Seq(-1 .. MaxTracked) /\ Len(outbox) <= OutSize
    /\ mailbox \in 0 .. InSize /\ spawned \subseteq {"ping", "farewell"}
    /\ unacked \subseteq 0 .. MaxTracked /\ owed \subseteq 0 .. MaxTracked
    /\ sent \subseteq 0 .. MaxTracked
    /\ ackDue \in BOOLEAN /\ quiet \in BOOLEAN
    /\ tracked \in 0 .. MaxTracked /\ inbound \in 0 .. MaxInbound

(* close is graceful: unless 5 s have passed, the ticker ends a connection *)
(* only when everything that was tracked when close was called has been    *)
(* acknowledged, although it decides after it let the lock go and packets  *)
(* go on being written and sent again.                                     *)
ClosesGracefully ==
    [][ticker = "decide" /\ ticker' = "done" /\ closing # "overdue"
          => owed = {}]_vars

(* Behind ClosesGracefully: what was tracked when close was called, and is *)
(* not acknowledged, has not left the resend map, and what the ticker read *)
(* of the map is no less.                                                  *)
OwedTracked ==
    /\ owed \subseteq unacked
    /\ ticker = "decide" => closing # "no" /\ owed \subseteq acksLeft

(* A connection that was asked to close is closed, whatever the peer, the  *)
(* reader and the writer do: no full channel and no held lock keeps the    *)
(* ticker from it.                                                         *)
CloseEnds == closing # "no" ~> closed

(* A peer that says nothing any more ends the connection and its ticker,   *)
(* even while the receiving task waits for a reader that does not read,    *)
(* and although the ticker misses a notification that comes while it       *)
(* ticks: it goes on through close and its own deadline.                   *)
SilenceEnds == []quiet ~> closed /\ ticker = "done"

(* A write that waits for the channel, with the lock held, comes back:     *)
(* also when the sender task ends in the meantime.                         *)
WriteReturns == writer = "sending" ~> writer # "sending"

-----------------------------------------------------------------------------
(* dial.rs:113, "The receive task will exit when the connection is closed  *)
(* (cancel_notify is triggered)".  The code does not keep this: a task     *)
(* that is handling the DISCONNECT_NOTIFICATION itself is not woken.       *)
ReceiveTaskEnds == closed ~> receiver = "done"
=============================================================================
