# A TLA+ specification of ragnet

ragnet is a Rust implementation of a basic version of RakNet, the UDP protocol of Minecraft
Bedrock Edition: a `Listener` and a `Dialer` that establish connections (`Conn`), and connections that
deliver user messages reliably and in order. This directory specifies how its parts behave
when their tasks interleave and the network loses, delays, reorders and repeats packets; TLC checks
the specifications on small instances and TLAPS proves their safety properties for every instance, all but two that are about timing.
Line numbers refer to `src/src/<file>` unless another path is given.

## 1. The system

| Part | State it keeps | Operations | Meets the others through |
|---|---|---|---|
| `Conn` (conn.rs) | `ConnState` under one async mutex: `seq`, `order_index`, `split_id`, `splits`, `win`, `ack_slice`, `packet_queue`, `retransmission`; atomics `closing`, `closed`, `connected`, `rtt` | `write`, `read`, `close`, `close_immediately`, `receive`, the ticker (`flush_acks`, `check_resend`, ping, timeout), the sender task, `send_message` | the channels `send_tx` (256) and `packet_tx` (4096), `cancel_notify`, `connected_notify`, the socket, its handler |
| `DatagramWindow` | `lowest`, `highest`, arrival time of each datagram above `lowest` | `add`, `shift`, `missing` | called by `receive_datagram` |
| `PacketQueue` | `lowest`, `highest`, contents waiting for their turn | `put`, `fetch` | called by `receive_packet` |
| `ResendMap` | packets by sequence number, delays | `add`, `acknowledge`, `retransmit`, `rtt` | `write`, `handle_ack`, `handle_nack`, `check_resend` |
| `Acknowledgement` | a list of numbers | `write_to_buf`, `read` | one ACK or NACK datagram |
| handlers (handler.rs) | none (dialer); the listener's map (listener) | `handle`, `limits_enabled`, `close` | called by `handle_packet` and `close_immediately` |
| `Listener` (listener.rs) | map of connections, block list and its counter, cookie salt, channel of accepted connections (64) | `listen`, the open-connection handlers, `accept`, `close`, a timer task per connection, `gc_blocks` | one socket for all connections |
| `Dialer` (dial.rs) | none between calls | `dial` (MTU discovery, request 2, connection request, timeout), `ping` | a socket and a receive task per connection |
| `packet.rs`, `binary.rs`, `message/` | none | encoding and decoding | |

What is hard about it, and what makes each part correct:

* **Reliability.** ACKs are sent before datagrams are handled and make the sender forget; NACKed
  numbers count as seen; a packet is sent again under a new number because of its age or because of a
  NACK, and the same packet may then arrive twice under two numbers; split messages interleave; the
  ticker runs between any two steps of receiving. Correct: what is handed over is what was written,
  in order, once; nothing falls between the two sides; everything arrives in the end and the resending
  stops; the counters may wrap.
* **Shutdown.** Five tasks and whoever calls `close_immediately` meet at a mutex that is held while
  waiting for a channel, at two bounded channels, and at a `Notify` that stores nothing. Correct: a
  close takes effect, gracefully while there is time for it; nobody waits for ever; the peer is told.
* **Acknowledgement lists.** What is put in several datagrams arrives in full and nothing else does.
* **Handshake.** The dialer retries three times with each of three sizes, then counts whatever
  comes in the place of reply 2 as an error; the listener answers statelessly until request 2, and
  then has a `Conn`, a timer and a map entry for the address; datagrams are late, lost or reordered,
  the path may go down. Correct: both sides agree on a size the path carries, they come together when
  the path is good enough, and neither stays connected to nobody.
* **Listener.** The listen loop, a task beside each connection, the tickers and whoever calls `close`
  change one map; entries are removed by address, whatever they lead to. Correct: a closed `Conn` does
  not keep its address, what has connected is accepted or closed, and `close` ends everything.
* **Block list.** Two tasks, a map and a counter that stands for it. Correct: a blocked address is
  refused, and not for ever.
* **Framing.** Sizes, boundaries and lists whose end is told by what is left. Correct: what is cut
  joins again, fits, and every field is read from its own bytes.

The hazards found in the survey, each at its line and with the properties that cover it, are listed
in `PROJECT.json` under `hazards`.

## 2. Modules

| Module | Models | Used by |
|---|---|---|
| `WindowOps` | `Uint24`, and what `DatagramWindow` and `PacketQueue` share: `seen`/`put`'s tests, `highest`, the loop of `shift` and `fetch`, the size test, `missing` without its clock | the next three |
| `Reliability` | one direction of a connection: the `Conn` that writes, the `Conn` that receives, the path; the refinement mapping (`Abstract`) | `MCReliability`, its proofs |
| `ReliableOrdered` | what packet.rs:29 promises of a ReliableOrdered packet: a lossless FIFO | `Reliability` |
| `MCReliability` | instances for TLC | |
| `DatagramWindow` | the window with arrival times and loops, as `receive_datagram` drives it | `MCParts`, its proofs |
| `Acknowledgement` | one call of `send_acknowledgement` and the readers of its datagrams | `MCParts`, its proofs |
| `Framing` | `split`, `Packet::write` and `read`, the two messages that hold a list of addresses | `MCParts`, its proofs |
| `MCParts` | the last three, one at a time, under one specification | |
| `Shutdown` | the tasks of one established `Conn` and the ways it ends | its proofs |
| `BlockList` | the operators of `block`, `is_blocked`, `gc_blocks` | `Listener` |
| `Listener` | the listen loop, the map, the tasks beside the connections, `accept`, `close` | its proofs |
| `Handshake` | one `dial_addr` against one listener, over a path | `MCHandshake`, its proofs |
| `MCHandshake` | the dialers and paths it is checked with | |
| `Reliability_proofs`, `ReliabilitySafety_proofs`, `ReliabilityChannel_proofs`, `DatagramWindow_proofs`, `Shutdown_proofs`, `Listener_proofs`, `Handshake_proofs`, `Wire_proofs` | the theorems (section 4) | |

### Reliability

One action is one region under the state lock, with the local steps up to the next `await`.

| Action | Code |
|---|---|
| `Write` | `write`, `write_locked`, `send_datagram`: the lock is held over all fragments of a message. For a message in `Cancelled` it may stop at any fragment, tracked but not sent (`send_datagram` adds to the map before it waits for `send_tx`) |
| `HandleAck`, `HandleNack`, `CheckResend` | `handle_ack`, `handle_nack`, `check_resend`; the last two share `Retransmit` (`ResendMap::retransmit` and `add`) |
| `ReceiveDatagram` | the locked region of `receive_datagram`: `add`, `ack_slice.push`, `shift`, `missing`, the window limit |
| `HandleDatagram` | `handle_datagram`, `receive_split_packet` and `receive_packet` on the packet in hand |
| `HandlePacket` | one turn of the loop over what was fetched: `handle_packet` |
| `FlushAcks` | `flush_acks` |
| `Close` | `close`, as far as receiving is concerned: contents are dropped from then on |
| `Lose` | the UDP path. It keeps everything ever sent, so a datagram may be late, reordered or repeated at will; what is in `lost` never arrives |

Messages are numbers; message `m` has `Frags[m]` pieces `<<m, j>>`, and what arrives is compared with
`Whole(m)`. The other direction of a connection is the same module with the roles exchanged: the two
share no variable but the lock, and every action is one region of it. Internal messages
(pings, handshake) are messages like any other here; `handler.handle` accepts each, or may return an error
on those in `Rejected`. Packet ages and the round trip time are not kept: any packet may be old enough for
`check_resend`, any waiting index old enough for `missing`. `try_send` into a full channel is the
loss of a datagram, and one ACK carries the whole list (`Acknowledgement` looks inside). An error of
`receive` ends a dialer's receive loop; the listener blocks the address for longer than a silent
connection lives, or not at all.

Bounds, all in guards and constants: the sender never has `SeqEnd` packets or `SplitMod` split messages
outstanding (2^24 and 2^16 in the code); `MaxLost` packets are lost; `MaxHitches` limits the writes that are cut short and the retransmissions
that nothing called for, taken together (those that are needed are not bounded).

### DatagramWindow

`Receive(index, since)` is the window's part of `receive_datagram`, with `shift` and `missing` as the
loops they are and a clock of a few ticks; `since` is any value rtt + rtt/2 may have, 0 before the
first `check_resend`. `UsesWindowOps` states that every step is one that `Reliability` allows for with
the operators of `WindowOps`, so that leaving out the clock there loses nothing.
It holds across the wrap of the index, and so does `AskedOnce`; `GapAtLowest` and `AsksForOverdue` hold until the last index has come (`Wrapped`).

### Acknowledgement

The state is the list that is left; `Send` is one turn of the loop of `send_acknowledgement` with the
datagram's reader. `WriteOne` and `ReadOne` are the loop bodies, folded over the numbers and records. `Sorted` is the sort of
`write_to_buf`, by rank; the list itself keeps its order, and numbers are taken off its front (`Remaining`).

### Shutdown

The tasks of a `Conn`: `ticker` (`start_ticking`), `sender` (`sender_task`), `receiver` (the dialer's
loop of dial.rs, or the listen loop), the tasks `send_message` spawns, and one `reader` and one `writer` of
the application. A tokio `Notify` is the set `waiting` of tasks that hold a `Notified` future and the set
`woken` of those `notify_waiters` has reached. `select!` creates the futures when it is entered
(`Enter`) and drops them before the chosen branch's body runs (`Leave`), so a notification that
comes while a task is in a body is lost; of several ready branches any is taken. `write_locked`
holds the state lock while it waits for `send_tx` (`writer = "sending"`), and every step that needs the
lock has `LockFree` as its guard. Time is how long ago `close` was called ("young", "mature" after 1 s,
"overdue" after 5 s) and whether the peer has been `quiet` for 5 s. The connection starts established and at
rest, with or without contents that the application has not read.

### Handshake

One call of `dial_addr` and one `Listener`, with the datagrams under way in each direction between them.

| Action | Code |
|---|---|
| `DialerReceives` | what comes from the socket: in `discover_mtu` (`Discovers`), in `open_connection` (`Opens`), or in the receive task (`DialerHandles`, the `DialerConnectionHandler`) |
| `RecvTimesOut` | 500 ms for a reply 1, 2 s for a reply 2 |
| `MarksConnected` | `mark_connected`, in the receive task after the handler has sent `NewIncomingConnection`; it wakes only a future that is there |
| `WaitsConnected` | `wait_connected` in the task of the dial: the look at `connected`, the making of the future, the waiting; `dial_addr` returns when it is woken |
| `DialTimesOut` | the three `time::timeout` of `dial_addr`; the last one closes the `Conn` |
| `ListenerReceives` | `listen` and `handle`: `HandleUnconnected` for an address without entry, `ListenerHandles` for its `Conn` |
| `AcceptTimesOut` | the 10 s of the task beside a `Conn` |
| `SilenceCloses`, `Tick` | the tickers: pings, and 5 s without a datagram |
| `Lose`, `AddOdd`, `Cut`, `Heal` | the path, and a middlebox on it (dial.rs:181) |

Time is counted in half seconds and the numbers are those of the code: a step takes no time, and `Tick`
is enabled unless a message may no longer be under way or a timer has run out. `connections` has one
address only, so it is `entry`; the listener may make several `Conn`s for it, one after the other.
The message sequence of two `Conn`s is not kept: what a `Conn` sends is sent again until it is
acknowledged (`Again`, after `ResendTime`), which is what `Reliability` shows. Two `Conn`s of the same
address number their packets alike, so a dialer that gets datagrams of both may take any of them for
old or for new (`Foreign`). Pings are sent as datagrams only while `open_connection` has to read them;
otherwise they count through `quiet`, which the other side's being there resets. A request 1 that is
longer than the path's `mtu` does not arrive. With one listener the cookie always matches and
`incompatible` never reaches `open_connection`; both branches are in the code and in the module.
The sending of `NewIncomingConnection`, `mark_connected` and the return of the dial are three steps of two tasks: in
between, the dial may time out or miss the notification (conn.rs:221) while the listener takes its `Conn` for connected. That
the listener's own task may miss it is in `Listener`.

### Listener, BlockList

`connections` maps addresses to `Conn`s, which are numbers in the order of their making. One action is one
step between two points where another task may come in: the look at `closed` (`LoopTop`) and the wait for a datagram
(`RecvFrom`) are apart, and so are the look at `connected`, the making of the future and the waiting
(`TaskWaits`), the two halves of `close_immediately` (`Begins`, `Leaves`), the removal after it
(`TaskRemoves`), the snapshot and each `Conn` closed from it (`Snapshot`, `CloserCloses`), and the two
steps of `block()` (`Count`, `Insert`). What a datagram does inside `receive` is a choice: nothing,
an error, `mark_connected`, a disconnect, or a content that needs room at the reader
(`loop = "delivers"`). A ticker may close its `Conn` at any time (the application may have asked for it);
that it must do so is assumed only of one that hears nothing (`Unheard`). `gc_blocks` is one step: between its look at the counter
and the lock the loop can only raise the counter or add to the map.

### Framing

A byte is known by the field it belongs to, so that a field is read right exactly if it is read from its own
bytes; the header, the length and the address families are the only bytes whose value steers the
reading. `Split` gives each piece its place and its length. In `MessagesRead` the addresses are of
either family in any order, and fewer than the reader's maximum, as the comment at
connection_request_accepted.rs:63 says of other implementations.

## 3. What is checked

All runs but `handshake` set `CHECK_DEADLOCK FALSE`: a direction of a connection comes to rest when all is
acknowledged, a window when all datagrams have come, a list when it is empty, a `Conn` when its
tasks have ended, a listener when it is closed; each of these is as it should be, and whether something
stops too early is what the liveness properties ask. Time never stops in `handshake`.

| Run | Instance | Shows |
|---|---|---|
| `safety` | two split messages with limits, counters that wrap, one message whose write may be cut short and one that the handler may refuse, one needless retransmission, `close` | `TypeOK`, `NothingLost`, `InOrderIntact`, `TrackedOnce`, `RequestedNotAcknowledged` |
| `order` | three messages of one packet over a window and a packet queue of two, the second may be refused, the write of the first may be cut short, one needless retransmission, `close` | `NothingLost`, `InOrderIntact` |
| `fifo` | two messages to a dialer, two packets of either direction lost | `EveryPacketArrives`, `ResendingEnds`, refinement of `ReliableOrdered` |
| `parts` | every list of up to six numbers; contents, packets and address lists around every boundary; every index of a space of 7 in every order and timing | `HeardWasGiven`, `OverrunBounded`, `AscendingArrives`; `PiecesJoin`, `PiecesFit`, `PacketsRead`, `MessagesRead`; `GapAtLowest`, `AskedOnce`, `AsksForOverdue`, `UsesWindowOps` |
| `shutdown` | a dialer's `Conn`: reader, write, ping, ACKs, disconnects, errors; channels of one slot | `TypeOK`, `ClosesGracefully` |
| `shutdown_progress` | a listener's `Conn`: a write, full channels, nobody reads | `CloseEnds`, `WriteReturns`, `SilenceEnds` |
| `handshake` | the default dialer on five paths, a patient one on a sixth | `TypeOK`, `MtuAgrees`, `LosslessConnects`, `OneLossConnects`, `AcceptedAnswered`, `Settles` |
| `listener` | one address, two `Conn`s, room for one in the channel | `TypeOK`, `NoStaleEntry`, `CloseMakesAtMostOne`, `CountNotAhead`, `EstablishedIsAccepted`, `CloseEnds`, `BlockEnds` |
| `wrap`, `reused_split_id`, `ack_order`, `receive_task` | see below | a counterexample each |

Why the bounds suffice:

* `Reliability`: the interesting cases need two packets (reordering, a gap, a NACK),
  two fragments of one message beside another message, and one packet under two numbers; the
  instances have these, and the safety properties are proved without bounds (section 4). Two
  losses are enough to lose a packet and the NACK that asks for it, or an ACK twice. In `safety` two contents may be
  handed over, a packet may travel under two numbers, the sequence numbers wrap, and the limits of the window and of the unfinished messages
  (`MaxSplits`) are exceeded. Its two contents cannot make the packet queue too long: that limit is exceeded in `order`, and with it the
  packet that closes the gap stays in the queue (conn.rs:515); there three contents are handed over, or the first and the third
  around a refused one. `split_count` stays below `MaxSplitCount` in every run. `fifo` has no needless retransmission: its liveness
  is about losses, and such retransmissions are in the two safety runs.
* `Shutdown`: a channel of one slot is full as soon as one datagram waits, and no liveness property counts
  further than that (`receive_task` has two slots); the safety properties are proved for all capacities.
* `Handshake` (`Dials`): a slow path that carries 1200 bytes and has a middlebox answers three sizes late; one that
  carries 500 fails all nine attempts; two losses lose two messages of the handshake, or one and its retry; reordering lets
  an old reply overtake; the path that goes down may do so in one direction or both, and come back. The
  patient dialer outlives the listener's `Conn` it cannot talk to. `ResendTime` and `MaxPings` are one round of
  `check_resend` and the ping with one repetition, every half second. Three properties
  hold however long things take, and are proved for every dialer and every path: `TypeOK`, `MtuAgrees`, `AcceptedAnswered`.
* `Listener`: what can go wrong with the map needs two `Conn`s of one address (`MaxConns`); addresses do not share state
  but the block list, and the safety properties are proved for all of them. A `Capacity` of one is full
  with one `Conn` waiting. `Duration` is one period of the collector.
* `Framing`: the lengths lie on, below and above one and two pieces for MTUs of the smallest that leave a piece of one
  byte, and up; the two facts about `split` and the reading of packets are proved for all. Four addresses of seven or twenty-nine bytes give every
  remainder near sixteen.

### Where the code departs from its comments

Four runs end in a counterexample, each to one statement a comment makes:

* `wrap` (datagram_window.rs:33): after the last index of 24 bits `highest` is 0, and what is next in
  line is never taken out of the window or the packet queue; the stream stops.
* `reused_split_id` (conn.rs:550): a fragment that comes once more under another sequence number, after
  its message was put together, opens an entry of `splits` that nothing removes; when the split id
  comes round, its piece ends up in another message.
* `ack_order` (conn.rs:677): a list that needs two datagrams loses numbers unless it is in ascending
  order; the NACKs of `missing` are in descending order. What is lost is made up for by
  `check_resend`.
* `receive_task` (dial.rs:113): the dialer's receive task does not end when the peer disconnects: it is
  itself in `close_immediately` when the waiters are notified.

Other steps of the models that a reader of the comments would not expect; the properties above are
stated so that they allow for them:

* listener.rs:160: a lost reply 2 defeats a default dial. The request 2 that is sent again goes to the `Conn` of the
  address, which ignores it; that `Conn`'s pings, every 500 ms, count as errors in `open_connection`
  (`OneLossConnects` excepts reply 2). A dialer that is patient enough outlives that `Conn`, after
  which a second one is made and the dial succeeds.
* dial.rs:167: a path that carries 1200 bytes and whose round trip takes about 3 s fails without any loss: six attempts
  of half a second are over before the first usable answer. `LosslessConnects` is checked with two seconds.
* dial.rs:253: reply 1 in `open_connection` does not mean that the listener did not get request 2; it is
  usually the late answer to an earlier attempt.
* handler.rs:146: `NewIncomingConnection` is only spawned before `mark_connected`; a `write` of the
  application may take the earlier order index (not in a model).
* handler.rs:148: the message that makes the listener accept leaves before the dial has returned. The dial may still fail, and the application
  of the listener then gets a `Conn` whose peer has given up. `AcceptedAnswered` says what is left: the dialer's receive task has
  handled the answer to its request. `Settles` says that both ends come down.
* conn.rs:221: a task that looks at `connected` just before `mark_connected` and makes its future just after it is not
  notified. The listener's task then waits its 10 s and closes an established connection (`EstablishedIsAccepted` allows for it with "or
  closed"); a dial waits until it times out and closes one, without any loss (`Missed`, which `LosslessConnects` and
  `OneLossConnects` except).
* listener.rs:64: the map does not hold every active connection. The removal at listener.rs:294 comes after that of
  `handler.close` and may take out a newer `Conn` of the address, which then hears nothing and ends by
  its silence (`Unheard`, `CloseEnds`).
* listener.rs:118: a `Conn` made while `close` takes its snapshot is not closed by it (`CloseMakesAtMostOne`), and ends by its silence.
* listener.rs:90: an `accept` that waits when the listener is closed never returns, because the listener
  holds the sender of the channel.
* packet.rs:225: `write` of an empty slice panics, in debug builds at the subtraction, in release builds at the
  slice that follows it. `Lengths` has no 0.
* conn.rs:251: a write that is cancelled, or fails, between two fragments has spent its order index. The fragments it
  left are resent until they are acknowledged, the peer keeps them in `splits`, and every later message
  waits in its queue for the missing index. `NothingLost` and `InOrderIntact` hold through this;
  `EveryPacketArrives` is about connections without such a write (`Cancelled` empty in `fifo`).
* conn.rs:544: one unfinished message more than the maximum of conn.rs:33 is kept, and then none of them is finished
  any more: the limit is tested for the fragments of a message that has an entry, too, and nothing takes an entry out
  but the fragment that completes it (`SplitsStuck`, proved as `StuckForGood`). With a block duration the listener ends such a connection; with
  none it goes on without split messages. Late duplicates of finished messages (`reused_split_id`) count as unfinished.
* conn.rs:440: a datagram that was asked for and is merely late is dropped as "already received".
* acknowledge.rs:74: an ACK or NACK may be up to one record longer than the effective MTU
  (`OverrunBounded` has the `+ 7`).
* conn.rs:351: the `DISCONNECT_NOTIFICATION` is never sent when the sender task drains its channel and
  ends (`SenderCancelled`, `SenderDrains`) before the task that sends it has run (`SpawnedSends`).
* conn.rs:287: a `read` that starts after the close (`ReadStarts` with `closed`) finds neither a packet nor a
  notification and never returns.
* listener.rs:331: when `Collects` runs between `Count` and `Insert`, the counter is 0 and the block has
  no effect until the next address is blocked, when the old entry is in force again, however old.

### Fairness

`Reliability` assumes that a datagram the path did not lose arrives and its receiver is scheduled, that
the ticker flushes ACKs and looks at each tracked packet (every 100 ms and 300 ms in the code), and
nothing else: nobody has to write, to close or to ask for a packet. For each sequence number the
receiver, the ACKs and the resending have a fairness condition of their own, because a scheduler that
always prefers another packet would starve one; the ticker treats all old packets in one pass, and
each lossless arrival is a matter of time. `Shutdown` assumes that every task of the `Conn` is
scheduled, that time passes and that every fifth tick comes again (strong fairness, since the model
does not count ticks); a write that has begun goes on, reading is
not assumed. `Handshake` assumes that both programs are scheduled, that time passes, and that
a path delivers what it does not lose within its delay. `Listener` assumes that its
loop runs when it has something to do, that each task beside a `Conn` is scheduled (its timer ends), that
`close_immediately` is gone through to its end, that the ticker of a `Conn` nothing reaches gives up, that
the application accepts until the listener is closed, and the collector's seconds. No address has to
send anything, so the loop may wait in `recv_from` for ever, and no application has to read.

### Seeded faults

Each property of a passing run is tried against a fault that a programmer could have put in the code: an
operator placed before the definition it replaces, with "mutated" in its comment
(`RetransmitKeeping`, `FragmentsAnew`, `ShiftedNoMark`, ...). `PROJECT.json` names the pairs. They are used by
nothing else.

## 4. What is proved

For every number and size of messages, every window, split and counter width that the named assumptions
allow (natural numbers; `SeqEnd` and `SplitMod` positive; each message has at least one piece):

| Theorem | States |
|---|---|
| `TypeCorrect` (`Reliability_proofs`) | `Spec => []TypeOK`, wraps included |
| `Safety` (`ReliabilitySafety_proofs`) | `Spec => []Inv`, the inductive invariant |
| `DeliveryInOrder` | `Spec => []InOrderIntact` |
| `PiecesKept` | `Spec => []NothingLost` |
| `TrackedUnderOneNumber` | `Spec => []TrackedOnce` |

`InOrderIntact` and `NothingLost` are about connections whose counters have not wrapped (`NoWrap`): the run
`wrap` and the run `reused_split_id` show that they do not hold beyond. `Inv == NoWrap => Safe`, and `Safe`
says of each place a packet passes through what it holds:

* `SenderInv`: while nothing has wrapped the counters are the history (`seq = built`,
  `order_index = written`); what is tracked was sent under that number, and no packet is tracked twice.
* `NetInv`: a datagram carries the piece its indices say, its number is its own, and a split id belongs to one
  message. Without it a receiver could not conclude anything from an order index or a split id.
* `SplitsInv`: the entry of a split id has room for exactly that message and holds its pieces in their
  places, even when it is a stale one.
* `QueueInv`, `TaskInv`: the contents in the queue and those fetched are whole messages at their index;
  what was fetched ends where the queue begins.
* `OutputInv`: what was handed over lies below what was fetched, in ascending order, without a gap if
  there was no error and no close. `InOrderIntact` follows.
* `AckInv`, `HeldInv`: the receiver knows only numbers that were sent, and what it has accepted is in its
  hands, acknowledged or not. This is what makes `handle_ack` harmless: the packet it
  drops is one the receiver holds. `NothingLost` needs it in that step, and
  in turn must be part of the invariant, because a retransmission keeps it only from the state before.

The proof has one lemma per action (`WriteSafe`, `HandleAckSafe`, `RetransmitSafe`,
`ReceiveDatagramSafe`, `HandleDatagramSafe`, `HandlePacketSafe`, `FlushAcksSafe`, `CloseSafe`,
`LoseSafe`), one step per conjunct in each. `TransmitStep` describes the shared sending step once, so that
`Write` and the two retransmissions use the same facts. `TransmitGrows` shows that `NoWrap` in the next state
implies it in this one, which lets the induction go through an invariant with a premise.

The same connection seen as a channel, and its window across wraps:

| Theorem (`ReliabilityChannel_proofs`) | States |
|---|---|
| `AskedNotAcknowledged` | `Spec => []RequestedNotAcknowledged`, wraps included |
| `ReliableOrderedSteps` | `Spec => Abstract!Init /\ StepsAreReliableOrdered`: as long as no counter has wrapped and `receive` has returned no error, a step of the connection is a step of `ReliableOrdered` or leaves its variables alone |
| `DialerReturnsNoError` | a dialer's `receive`, whose handler refuses nothing, returns no error (`limits_enabled` is false there, and a fragment always has its slot: `FragmentHasSlot`) |
| `DialerRefinesReliableOrdered` | from the last two: a behaviour of such a connection in which no counter wraps is one of the abstract channel, its liveness left aside |
| `StuckForGood` | `Spec => SplitsStuck`, wraps included |
| `OneMoreThanTheLimit` | a listener's `Conn` keeps at most `MaxSplits + 1` unfinished messages |

`AskedNotAcknowledged` needs only `WindowInv`: what was received or asked for counts as seen
(`SeenStays`), and what is accepted was not seen. The refinement follows from `OutputInv` of `Safe`: what is handed over
next is the whole message with the next index (`NextInLine`). `StepsAreReliableOrdered` and `SplitsStuck` are
proved and in no run: the first is the safety part of what `fifo` checks, the second describes a shortcoming of the code (section 3, conn.rs:544). `StuckForGood` needs no invariant but the types: a packet without the split
flag brings its own content only, which is no split message (`SinglePiece`), and everything else is refused.

About `DatagramWindow`, for every size of the window, every number of indices and every clock:

| Theorem (`DatagramWindow_proofs`) | States |
|---|---|
| `TypeCorrect` | `Spec => []Typed` |
| `AsksOnce` | `Spec => []AskedOnce`, wraps included |
| `StepsUseWindowOps` | `Spec => UsesWindowOps`, wraps included: the set operators of `WindowOps`, on which everything proved of `Reliability` rests, allow for each step of the loops |
| `GapKept` | `Spec => []GapAtLowest` |
| `AsksForAllOverdue` | `Spec => AsksForOverdue` |

The loops of `shift` and `missing` are recursive functions, and what they compute is proved by induction:
`ShiftEndIsRunEnd` (the loop stops at the first gap) and `MissingIsFound` (the loop lists exactly the absent
indices below a late one). `LeastNumber` (a set of numbers has a least one, from the well-foundedness of the library) is
induction as a statement about a set, which the provers can use; `Downward` is the form of it that loops which count down
need. `ReceiveOutcome` then describes a whole `Receive` without loops. `AsksOnce` needs `AskedSeen`.

About `Shutdown`, for every capacity of the channels, any number of tracked packets and any number of datagrams:

| Theorem (`Shutdown_proofs`) | States |
|---|---|
| `TypeCorrect` | `Spec => []TypeOK` |
| `OwedIsTracked` | `Spec => []OwedTracked` |
| `GracefulClose` | `Spec => ClosesGracefully` |

`OwedTracked` is what the graceful close needs: what was tracked at the close and is not
acknowledged is still in the map, and in `acksLeft`, the number the ticker decides with after it has let the lock go.
The first attempt at `TypeCorrect` showed that `TrySend` took a `SubSeq` beyond the end of what it sends when the channel
has more room than that, which no instance with one slot can show; now only what is too long is cut.

About `Listener`, for every finite set of addresses, every capacity and every number of connections:

| Theorem (`Listener_proofs`) | States |
|---|---|
| `Invariant` | `Spec => []IInv`, the inductive invariant |
| `TypeCorrect` | `Spec => []TypeOK` |
| `NoEntryIsStale` | `Spec => []NoStaleEntry` |
| `CounterNotAhead` | `Spec => []CountNotAhead` |
| `OneConnAfterClose` | `Spec => []CloseMakesAtMostOne` |

`IInv` adds to these: `EntryOwn`, an entry leads to a `Conn` of its own address (whoever takes the entry of a
closed `Conn`'s address out cannot leave that `Conn` in another's place, so `NoStaleEntry` survives the end of
`close_immediately`); `LoopKnows`, what the loop has in hand while it handles a datagram; `LateIsLast`, the `Conn` made after `close`
is the last thing the loop did before it looks at `closed` again, from which "at most one" follows; and `NotRefused`,
the address the loop is about to block was not in the map when the loop looked, and only the loop
puts addresses there, so that the raised counter and the map with the address in hand grow together (`CountNotAhead`).

About `Handshake`, for every set of dialers and paths, every `ResendTime` and every `MaxPings`:

| Theorem (`Handshake_proofs`) | States |
|---|---|
| `Invariant` | `Spec => []IInv`, the inductive invariant |
| `TypeCorrect` | `Spec => []TypeOK` |
| `SizesAgree` | `Spec => []MtuAgrees` |
| `AcceptedIsAnswered` | `Spec => []AcceptedAnswered` |

`IInv` says of each task what it keeps and of each datagram under way what it means (`DatagramsSound`): no size
that is named is larger than what the path carries, because the first one was read from the length of a request that got
through (`Fits`); a reply 2 names a `Conn` of the listener and its size, which a `Conn` never changes; and the
message that connects a `Conn` was sent by a dialer whose receive task had the answer to its request. The last is what keeps
`AcceptedAnswered` when such a message is late and meets another `Conn` than the one it was meant for. For `TypeOK` a `Conn` that is
open must have been silent for less than 5 s (`ClosesInTime`), and one that is made must start from the state
"none" of a dialer that is still opening. `OlderType` proves by the same induction as above that the recursive
function of `Older` keeps what holds of every datagram.

About `Acknowledgement`, for every set of numbers, every MTU above 7 and every maximum of the reader:

| Theorem (`Wire_proofs`) | States |
|---|---|
| `NothingInvented` | `ListSpec => []HeardWasGiven` |
| `OverrunByOneRecord` | `ListSpec => []OverrunBounded` |
| `AscendingListArrives` | `ListSpec => []AscendingArrives` |

About `Framing`, for every set of lengths and MTUs and every maximum of addresses:

| Theorem (`Wire_proofs`) | States |
|---|---|
| `SplitJoins` | `FramingSpec => []PiecesJoin` |
| `SplitFits` | `FramingSpec => []PiecesFit` |
| `WrittenIsRead` | `FramingSpec => [](LengthFits => PacketsRead)` |
| `MessageIsRead` | `FramingSpec => []MessagesRead` |

The loops over lists are folds here, and a fold is defined by a recursive function whose existence has to be shown
before it can be unfolded. `Folding` does so once: its functions for a prefix of the list
extend each other, which is an induction over a set of positions. `Sizes`, `Writes`, `Reading`, `Addressing` and `Flattened` are its
instances: each gives a fold as a sequence of states, one per turn of the loop.

With that, `WriteOneKeeps` is the proof of a loop: `WriteInv` says that the records and the open range
cover exactly the first `n` of the sorted numbers, and that the records written so far take less than the MTU; the open range
is the one that may come on top.
`Written` (`WriteToBuf` as a whole) and `ReadBack` (an error, or exactly the numbers of the records) make up `OneDatagram`, the step.
`AckInv` is the inductive invariant: what is left of the list is its end behind what was taken off; what
was heard lies in the list; if the list ascends and nothing was refused, what was taken off is what was heard;
and one datagram that ends the list was heard whole. A list in another order that takes two datagrams does not arrive, which is what the run `ack_order` shows, and
the proof needs the order for this: the `n` least numbers of what is left are its first `n` (`AscendingSorted`).

For `split` the argument is in `CountBounds` (the quotient that is rounded up is the only
number of pieces with a last one that is neither empty nor too long), `SizeWritten` (the length of
what `Packet::write` produces is the sum `PACKET_ADDITIONAL_SIZE` and `SPLIT_ADDITIONAL_SIZE` stand for) and
`PacketRead` (the offsets `read` computes from the header are the widths of the fields, `FieldsType`, so that each field is cut out
of the three parts of a packet where it was put, `InThree`). `LengthFits` is the condition that the length in bits
fits the 16 of its field; `write` does not check it, and the MTU, which `SplitFits` keeps, is far below.
`MessageRead` follows the loop over the addresses: `AddressesLie` says where each one begins, and with an address still to
come there are at least 16 + 7 bytes left, so that the test for 16 ends the list where it ends and nowhere else.

Only model-checked, and why:

* All liveness (`EveryPacketArrives`, `ResendingEnds`, `CloseEnds`, `WriteReturns`, `SilenceEnds`, `Settles`,
  `EstablishedIsAccepted`, `BlockEnds`) and with it the liveness of `ReliableOrdered`: they rest on fairness and `ENABLED`,
  which the provers here do not reason about.
* `LosslessConnects` and `OneLossConnects`: they are statements about how long everything takes, true of the dials and paths in
  `Dials` and not of all (dial.rs:167 below a slow path, section 3).

## 5. What is not modelled, and the plan

Not modelled because there is nothing to check: the byte layouts of the messages of fixed length, logging,
`ping`, `error.rs`, accessors. Not modelled because the code here never does it: packets of other reliabilities,
`DETECT_LOST_CONNECTIONS`, truncated lists. Left out: errors of the sockets (dial.rs:201 counts
them as attempts, and without a wait between them), the wall clock that a pong is compared with
(handler.rs:217), a block duration of zero.

What is left to model, in this order:

1. A write of more than 512 fragments to a listener (`MaxSplitCount` between two sizes of message), with a third message beside it.
2. The other reliabilities that a peer of another implementation may send (conn.rs:502).
