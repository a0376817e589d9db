# Formal models of the multipath QUIC stack

This directory holds TLA+ models of the QUIC implementation in
`src/src/quic/model/`, the TLC configurations that check them on small
instances, and TLAPS proofs of the results that do not depend on the size of
the instance. The repository is a fork of the ns-3 network simulator; QUIC, with
its multipath extension, is the part that is its own. The rest of ns-3 (the
event simulator, the Internet stack, the radio technologies, the routing
protocols) is upstream or vendored code and appears here only as environment.

## 1. The system

The stack runs inside a discrete event simulator: handlers are atomic, and the
interleavings come from the order of events. An event is a packet arrival, a
timer, or a call the application makes from its own event. Nothing is
multithreaded. What is hard is therefore not data races but *orders of events*:
packets lost, duplicated and reordered between two endpoints, alarms that
outlive the reason they were set for, state that one handler leaves for the
next.

| part | source | state | operations | talks to |
|---|---|---|---|---|
| L4 multiplexer | `quic-l4-protocol.cc` | bindings (UDP socket, QUIC socket, path) | UdpBind, ForwardUp, SendPacket, CloneSocket, RemoveSocket, AddPath | UDP sockets below, QuicSocketBase above |
| socket | `quic-socket-base.cc` | connection state, timers, per-path counters, received packet numbers | Connect, Send, Recv, Close, ReceivedData, OnReceivedAckFrame, SendDataPacket, SendAck, ReTxTimeout | L4, L5, tx/rx buffer, congestion control, path manager, path scheduler |
| socket tx buffer and its schedulers | `quic-socket-tx-buffer.cc`, `quic-socket-tx-scheduler.cc`, pfifo/edf variants | frames to send, sent list per path | Add, NextSequence, OnAckUpdate, Retransmission, ResetSentList | socket |
| socket rx buffer | `quic-socket-rx-buffer.cc` | bytes for the application | Add, Extract | socket |
| streams | `quic-stream-base.cc`, `quic-stream-tx-buffer.cc`, `quic-stream-rx-buffer.cc` | offsets, windows, tx and rx buffer | Send, SendPendingData, Recv | L5 |
| L5 | `quic-l5-protocol.cc` | streams | CreateStream, DispatchSend, DispatchRecv | socket, streams |
| congestion control | `quic-congestion-ops.cc`, `mp-quic-congestion-ops.cc`, `quic-bbr.cc` | window, threshold, recovery mark, RTT | OnAckReceived, OnPacketsLost, OnPacketSent | socket |
| path management | `mp-quic-path-manager.cc`, `mp-quic-subflow.cc` | subflows | AddSubflow, ADD_ADDRESS / PATH_CHALLENGE / PATH_RESPONSE | socket, L4 |
| path scheduler | `mp-quic-scheduler.cc` | last path, rewards | GetNextPathIdToUse | socket |
| wire format | `quic-header.cc`, `quic-subheader.cc`, `quic-transport-parameters.cc` | none | Serialize, Deserialize | all |

How a byte travels: the application calls `Send`; L5 distributes the data over
the streams; a stream cuts it into STREAM frames with offsets and gives them to
the socket transmission buffer (`AppendingTx`); `SendPendingData` asks the path
scheduler for a path, takes a segment out of the buffer, gives it the next
packet number of the path and records it in the path's sent list; the L4
multiplexer sends it over the UDP socket bound to the path. The peer's L4 finds
the socket by connection id, `ReceivedData` records the packet number, L5
hands each frame to its stream or to the socket, and schedules an
acknowledgment. An ACK frame travels back on the same path and drives loss
detection, congestion control and retransmission.

Properties that make the parts correct, and the hard behaviour behind each:

* acknowledgments: nothing received stays unacknowledged; two timers race and
  cancel each other;
* loss recovery: data leaves the socket only when the peer has it; ACKs arrive
  late, twice, out of order, and alarms fire when they are no longer wanted;
* streams: the application reads the bytes in order and once; frames arrive in
  any order and more than once;
* congestion control: once it is set the window keeps its floor, and it shrinks at
  most once per round trip;
* connection: both ends agree that the connection is open, every close
  terminates;
* paths: both ends use the same index for the same pair of addresses although
  the messages that set a path up are neither retransmitted nor ordered.

## 2. Modules

`AckDuty` is the abstract specification of the acknowledgment machinery: a
received packet creates a duty, an acknowledgment discharges it, no duty stays
open for ever.

`AckQueue` models `MaybeQueueAck`, `SendAck` and the two events that call it
(`m_delAckEvent`, `m_sendAckEvent`) for two endpoints that exchange data and ACK
packets over drop-tail queues of bounded capacity. One action per operation:
`SendData`, `ReceivedData`, `DelAckEvent`, `SendAckEvent`, and `Drop` for the
network. The packet counter saturates one past the larger threshold, because the
code only compares it with the thresholds. `ImplementsDuty` shows that it
implements `AckDuty`.

`LossRecovery` models one path of an open connection in both directions: packet
numbers, the sent list with its `m_sacked` flags, the ACK frames, loss
detection by reordering and by RTO, retransmission, tail loss probes and the
alarm. A frame of the model is the STREAM data one packet takes out of the
transmission buffer. `OnSendingAckFrame` and `OnAckUpdate` are modelled by what
they compute: the set of numbers a frame reports missing and the set it covers;
the truncation at `MaxTrackedGaps` is part of that. The network is the monotone
history of all packets sent: receiving any of them, any number of times, in any
order, or never, is loss, reordering and duplication at once. Windows, pacing
and the segment-size rounding of `SendPendingData` only decide how many packets
leave, so that number is chosen freely. The alarm is `armed` (the latest
`ReTxTimeout` event is pending) plus a count of superseded events, which the
code never cancels. A retransmitted packet carries, besides the data, the ACK
frames the lost packets carried, because `SendDataPacket` appends the ACK frame
to the packet object the sent list also holds; processing such an old ACK frame
again is what receiving a duplicate of an earlier packet does, which the model
allows at any time.

`Connection` models one connection from `Connect` to the removal of both sockets, at
both ends: the handshake with version negotiation and 0-RTT, transport parameters,
`Send`, `Close` with and without flushing, CONNECTION_CLOSE, the idle and draining
timeouts and the part of `QuicL4Protocol::ForwardUp` that hands packets over. One
action is one event of the simulator. The wires keep their order; a packet lost or
overtaken is a fault, and faults are bounded. The flags that a constructor leaves
uninitialized (`m_appCloseSentListNoEmpty`, and `m_flushOnClose` in a cloned socket)
start with any value (`Starts`). `SendDataPacket` schedules the idle timeout twice
and keeps one of the two events; the other is the field `orphan`. `Send` is possible
while connecting; the data waits for the handshake. A packet that exceeds the limit
of the connection, or whose frame its stream refuses (its own limit, a full
reception buffer), aborts the connection (`DispatchExcess`); the limits themselves
are not modelled, so on an open connection any packet may be such a one once the
peer has sent data of its application (`Exceeds`). The transport parameters
exchanged are the configured ones: the abort for an invalid maximum packet size is
left out. Loss detection is left to `LossRecovery`: a socket may send again what is
not acknowledged.

`Multipath` models the paths of several connections to one server: the server's
binding list, the sockets `CloneSocket` makes (which share the path manager of the
listening socket), authenticated addresses, the subflow vectors of both ends, the
ADD_ADDRESS / PATH_CHALLENGE / PATH_RESPONSE exchange, and the round robin of the
path scheduler, whose index the socket uses as a path id. Packets of one flow keep
their order unless a fault happens; different paths race.

`StreamReceive` models `QuicStreamBase::Recv` for STREAM frames and the
reordering buffer behind it (`QuicStreamRxBuffer`): in-order delivery, insertion
by offset, `GetDeliverable`, the MAX_DATA offers, and the two ways the stream
aborts the connection (flow control, buffer full). The peer cuts its bytes into
frames in any way; the network delivers a frame at any time, any number of times.
A history variable remembers whether a frame came back after it was passed up.

`SocketReceive` models the socket's reception buffer: `Add` behind `AppendingRx`
and `Extract` behind `Recv`, packet by packet, with 32-bit sizes (the modulus is
a constant) and with what `Extract` really subtracts: the size of the packet
behind the one it has just erased (`AfterErase`; after the last packet of the list
the iterator is at the end of the list, and what it yields is what memory still
holds of the erased packet).

`ReceivePath` composes the two: what the stream passes up in the event in which a
frame arrives is one packet for the socket's buffer, which drops it when it does
not fit; the application reads at any time.

`StreamSend` models `QuicStreamBase::Send`, the `SendPendingData` event and
`QuicStreamTxBuffer`: packets of the application are cut into segments, offered
to the socket, and put back when the socket refuses them. It has no specification
of its own: the socket it hands its frames to is that of `SendPath`.

`TxBuffer` models the socket's transmission buffer with the default scheduler: the
priority queue, merging and splitting in `GetNewSegment`, stream 0, the sent list,
`Retransmission`, `ResetSentList`, probes, and the ACK frame `SendDataPacket`
appends to a packet that the sent list also holds. A packet is the sequence of its
units: a frame header with the offset and length it announces, a byte, an ACK
frame, a frame of stream 0. A header says what should be behind it, so a packet
split at the wrong place shows. The sent list is kept sorted, because its order has
no effect here.

`SendPath` composes `StreamSend` and `TxBuffer`: the room the stream sees is what the
buffer reports as available, and what the stream hands over is in the buffer at
the end of the same event.

`CongestionControl` models `QuicCongestionOps` on one path: window, threshold, end
of recovery, RTO verification. There are two initial states, because the constructor
of a subflow copies window and threshold while they are 0: connecting with an
INITIAL packet and adding a path then set them, nothing does on path 0 of a server
or of a 0-RTT client. How much the window lets out is left open (the number of
packets is chosen freely), so that also a path with window 0 sends. Which packets an
ACK covers and which are lost is chosen freely, so that everything `LossRecovery`
can do, and more, drives the controller. The loop over the acknowledged packets in
`OnAckReceived` is one step per packet; nothing else can happen until it has ended.
Two history variables remember the sent list at the last cut and whether that cut
was deserved.

`MCConnection` and `MCMultipath` give the two larger modules their instances.
`AckQueueProofs`, `LossRecoveryProofs`, `CongestionControlProofs`,
`ConnectionProofs`, `ReceivePathProofs`, `SendPathProofs` and `MultipathProofs` hold
the proofs; `ListLemmas` has the lemmas on lists, loops and induction that the two
path modules share. An inductive invariant is defined at the end of the module it is
about, as a conjunction of named parts, so that TLC can check it on an instance of
its own. Operators whose comment begins with *Mutant* or *Faulty variant* are not
part of the models: each is a plausible bug in the code the definition after it
translates, and shows that a property notices it.

## 3. Runs

| run | module | what it shows |
|---|---|---|
| `ack_queue` | AckQueue | every received packet has its ACK scheduled; the decimation bound; refinement of `AckDuty` with its liveness |
| `loss_recovery` | LossRecovery | no data is lost, ACKs are true, one copy outstanding, with reordering detection and probes |
| `loss_recovery_rto` | LossRecovery | the same with RTO recovery and superseded alarms |
| `ack_gap_limit` (violation) | LossRecovery | a truncated ACK frame acknowledges packets never received |
| `probes_then_rto` (violation) | LossRecovery | after the probes the RTO does not fire |
| `connection` | MCConnection | an undisturbed handshake completes, the client opens first; a socket closes only for a reason (an application, a timeout, data beyond a limit, an uninitialized flag), and a connection in use starts to close only when all it has sent is acknowledged; a socket that does not flush is released; the program stops (fatal error, endless loop) only in the cases the properties name |
| `multipath` | MCMultipath | both ends mean the same path by an index, a path the client uses is known to the server, data goes to validated paths, every path is validated, outside the cases the properties name |
| `second_client` (violation) | MCMultipath | after the server has added a path for its first client, the clone made for the next one stays in LISTENING and ignores the INITIAL it was created for |
| `receive_path` | ReceivePath | any order, frames more than once: unless a frame comes back after it was passed up, the peer's bytes in order and nothing held back; the socket keeps the order and drops only what does not fit; an application that reads gets everything |
| `stream_stale_duplicate` (violation) | StreamReceive | a frame received again after it was passed up corrupts the byte stream |
| `send_path` | SendPath | cutting and rejection lose, repeat or misplace no byte; every accepted byte is in one place of the socket; frames stay whole, the room is kept and new data leaves in order, under the conditions below |
| `congestion_control` | CongestionControl | the floor of a window that was set, one cut per flight, no growth from packets of the recovery period |

A violation run checks one statement the repository makes about itself and shows
an execution of the code that contradicts it; `PROJECT.json` quotes the
statement.

Where a property names a case it excludes, the models show the code leaving the
expected behaviour in that case. These are known, and the property is what
holds besides:

* `Recv` returns more than it was asked for when packets have different sizes
  (`quic-socket-rx-buffer.cc:152`; `CountedIfUniform`);
* a packet larger than a segment is not counted against the stream's limit
  (`quic-stream-tx-buffer.cc:284`), and a rejected part of it makes `Rejected`
  remove an item that was never counted, or read the front of an empty list
  (`crashed` in `SendPath`; `SentListCounted`);
* a flushing socket never reaches IDLE (`quic-socket-base.h:865`), and a clone's
  flag is uninitialized (`Released` is about sockets that do not flush);
* the loop of `SendPendingData` does not end when the socket was closed before its
  first packet left, with a frame of stream 0 waiting (`quic-socket-base.cc:983`;
  `NoHangOnceSent`);
* path 0 of a server and of a 0-RTT client starts with the congestion window 0
  (`mp-quic-subflow.cc:77`), and the first acknowledgment or loss takes it to the
  minimum (`WindowFloor`, `NoGrowthFromFlight`);
* `RemoveSocket` removes one binding of a socket that has several
  (`quic-l4-protocol.h:273`); clones made during another's handshake share its
  path manager (`overlap` in `Multipath`); paths validated out of order shift the
  scheduler's index (`race`);
* a retransmission that meets a frame of stream 0 stays in the buffer and is later
  split as if it were one frame (`quic-socket-tx-scheduler.cc:258`), and the
  available size may wrap (`quic-socket-tx-buffer.cc:670`): `left = 0` in
  `FramesIntact` and `RoomKept`;
* packets that carry only an MP_ACK frame are acknowledged in turn, because
  `QuicSubheader::IsAck` knows the frame type ACK only; `m_rtoCount` can survive
  the ACK that answers the RTO (`RtoAfterAck`); data shorter than a segment waits
  for a probe (`quic-socket-base.cc:1029`); the RTT is smoothed with integer
  divisions (`quic-congestion-ops.cc:169`) and the back-off uses exclusive or for a
  power (`quic-socket-base.cc:1418`). No run is about these.

Bounds. `AckQueue`: queues of three packets, four data packets per endpoint and
`MaxBeforeAck` 3, so that packets wait on both sides of the threshold while queues
overflow. `LossRecovery`: in `loss_recovery` the client sends up to three frames with
four fresh packet numbers and the server has one, the reordering threshold is
lowered to 2 and the number of probes to 1, so that a loss is declared and
retransmitted within four numbers; in `loss_recovery_rto` there is one frame, no
probe, two fresh numbers for the server and one superseded alarm, so that the RTO,
its verification and the reset of the sent list happen. Both reach
retransmissions. `Connection`: one frame of the client's application, one fault,
an alarm sends only while at most one packet is on the wires, every value of the
uninitialized flags; each close, timeout and loss meets each stage of the
handshake. `Multipath`: one client with two further paths (two set-up exchanges
race), and two clients on one node or on two with up to one further path (clones
share a path manager), one fault each. `ReceivePath`: 5 bytes in frames of 1 or 2
with a stream buffer of 2 and a stream limit of 4 give gaps, a full buffer, a
limit reached and a frame that comes back at every stage; a socket buffer of 3 and
reads of 1 or 3 fill, refill and drain it; the modulus 64 is far above any correct
count, so that only a wrap-around reaches the upper half. `SendPath`: packets of 2
and 5 bytes around a segment of 4, a window that cuts the last segment, a socket
buffer of 6 that rejects in the middle of a packet, including with an empty sent
list; two frames of stream 0, so that one can meet a retransmission; one ACK frame
appended to a packet that may be retransmitted. After the first retransmission
that stays in the buffer the exploration allows one more retransmission or
timeout: `MaxLeft`. `CongestionControl`: five packet numbers hold a flight, its cut,
a retransmission and a second cut; the window starts at 0, or at its floor and
below the threshold, so that slow start, avoidance, the floor and the repair of a
window of 0 are all reached.
Behaviours end when numbers, bytes or packets are used up, so deadlock is not
checked.

Fairness. The simulator executes every scheduled event that is not cancelled:
`AckQueue` assumes weak fairness of the two ACK events, `Connection` of the
scheduled `SendPendingData` and `DoClose`. A packet on a wire arrives unless a fault
takes it: `Connection` assumes that the first packet of each wire is delivered,
`Multipath` that some packet on its way is. `ReceivePath` assumes that a frame
not yet received arrives in the end (the peer retransmits it) and that the
application goes on reading: `AppendingRx` calls `NotifyDataRecv` for every packet,
and the applications read in that callback, without a limit on the size. No
fairness is assumed of timeouts, losses or calls of the application.

## 4. Proofs

Every theorem holds for all values of the constants that satisfy the assumptions
of the module: any number of packets, faults, frames, connections and paths. Each
proof has the same shape: an inductive invariant holds initially and is kept by
every action, and the properties the runs check follow from it.

| module | theorem | property | inductive invariant |
|---|---|---|---|
| `AckQueueProofs` | `NothingForgotten` | `AckScheduled` | `AckInv` |
| | `DecimationHolds` | `DecimationBound` | |
| | `ImplementsDutySafety` | safety part of `ImplementsDuty` | |
| `LossRecoveryProofs` | `TypeCorrect` | `TypeOK` | `ListInv` |
| | `RetransmissionMovesData` | `OneCopyOutstanding` | `ListInv` |
| | `AcknowledgmentsAreTrue` | `AcksAreTrue` | `RecoveryInv` |
| | `DataIsNeverLost` | `NoDataLost` | `RecoveryInv` |
| `CongestionControlProofs` | `OneCutPerFlightHolds` | `OneCutPerFlight` | `CongestionInv` |
| | `NoGrowthFromFlightHolds` | `NoGrowthFromFlight` (an action property) | |
| `ConnectionProofs` | `TypeCorrect` | `TypeOK` | `ConnectionInv` |
| | `OpensInOrder` | `ClientOpensFirst` | |
| | `ClosesForAReason` | `ClosedForAReason` | |
| | `LoopEndsOnceSent` | `NoHangOnceSent` | |
| | `StopsForAReason` | `StopsOnlyDisturbed` | |
| | `ClosesAcknowledged` | `ClosedWhenAcknowledged` (an action property) | |
| `ReceivePathProofs` | `PathTypeCorrect` | `PathTypeOK` | `PathInv` |
| | `StreamInOrder` | `InOrderUnlessStale` | |
| | `ReleasesWhatItCan` | `NothingHeldBack` | |
| | `ReadsInOrder` | `Fifo` | |
| | `CountsUniform` | `CountedIfUniform` | |
| | `DropsForAReason` | `DropsOnlyWhenFull` (an action property) | |
| `SendPathProofs` | `TypeCorrect` | `PathTypeOK` | `SendInv` |
| | `StreamDelivered` | `ByteStream` | |
| | `BytesCounted` | `SentListCounted` | |
| | `BytesConserved` | `Conserved` | |
| | `HeadersTrue` | `FramesIntact` | |
| | `BufferBounded` | `RoomKept` | |
| | `NewDataOrdered` | `NewDataInOrder` | |
| `MultipathProofs` | `TypeCorrect` | type invariant | `MultipathInv` |
| | `IndexAgrees` | `IndexIsPathId` | |
| | `ActiveAgrees` | `ActiveAtBoth` | |
| | `SendsValidated` | `SendsOnActive` | |
| | `StopsForShared` | `StopsOnlyShared` | |

`AckQueueProofs` proves, for all thresholds, capacities and budgets, type
correctness, `AckInv` (inductive together with the type invariant), the two
safety properties that follow from it, and the safety part of the refinement.
`AckInv` is needed because neither property is inductive alone: that a waiting
packet has an event depends on the queue flag being set only together with the
one-step event, and on `SendAck` clearing both.

`LossRecoveryProofs` proves in two layers. `ListInv` is inductive whatever the
number of gaps an ACK frame can report: types, the sent list holds numbers that
were really used (`NumbersInv`), a received number's content has been passed up
(`ReceivedInv`), and a frame of data is outstanding in one copy only. The last is
not inductive alone: a fresh frame could already be in the sent list unless the
list holds only data taken from the buffer before (`CopiesInv`). `RecoveryInv`
adds `AcksAreTrue` and `NoDataLost` and is inductive under `MaxTrackedGaps >=
MaxPn` (the ACK frame has room for every gap). The hypothesis is necessary:
`ack_gap_limit` is the counterexample without it. All sending actions are
instances of one step (`Sending`), so the preservation argument is made once.

`CongestionControlProofs` proves type correctness, `CongestionInv` and
`NoGrowthFromFlight` for every segment size, packet size, threshold, reduction
factor of at most one and bound, for paths created with and without a window. Where
the window is still 0 nothing has been cut yet, which is what lets the invariant
distinguish the two kinds of path. That a cut is deserved is not inductive: it
needs that `m_endOfRecovery` covers the flight of the last cut, which needs that
`m_highTxMark` covers the sent list whenever a cut may happen (`MarkInv`). The
floor needs that the reduction factor times the window is a natural number not
larger than the window (`FactorShrinks`).

`ConnectionProofs`: `ConnectionInv` has a part for each question. `OpenInv`: the
packets that open the server are sent by a client that is open, so the server
cannot open first. `ReasonInv`: until an application closes, a timeout fires
or data exceeds a limit, no flag that leads to `Close` is set, no CONNECTION_CLOSE
is on a wire, and the transport parameters are still awaited where they may be taken
once; without the last, a second set of parameters would abort the connection. `HangInv`: the loop
of `SendPendingData` ends because a socket that has sent a packet and still has
frames of stream 0 keeps that packet in its sent list, which needs that no ACK
can arrive before the second flight. `StopInv`: undisturbed, the first packet
that meets a server without a socket is one `ForwardUp` creates a socket for. A
handler is a function from a socket to a socket and packets, nested several
calls deep; the proof summarizes each by a predicate on what may change
(`Closed`, `Pended`, `Effect`, `Taken`), and each part of the invariant is shown
from the summaries.

`ReceivePathProofs`: the stream and the socket keep their invariants separately.
For the stream, `CutInv` says that the peer's frames tile its stream, `BufferInv`
that the buffer holds received frames in the order of their offsets and counts
their bytes, `PassedInv` that until an old frame comes back whole frames were
passed up and everything else received is in the buffer behind a gap.
`InOrderUnlessStale` needs all three: the bytes `GetDeliverable` counts and the
bytes `Extract` takes out are computed by two different loops, and agree because
the deliverable items are a prefix of the buffer. For the socket, `Fifo` is
inductive; that the byte count is right for packets of one size needs that the
count never exceeds the buffer, or `Available` would wrap around. The loops are
recursive functions over the positions of a list, and the proofs go by induction
over these positions (`Induction`, `RecursionExists` in `ListLemmas`, from the
well-foundedness of the natural numbers).

`SendPathProofs`: most of the seven properties are not inductive; `SendInv` adds what
they depend on.

* `StreamInv`, of the stream: its frames follow one another without a gap (`Run`), no
  packet it holds is empty, and while nothing was cut the counter, the sent list and
  the offset agree. A turn of the loop of `SendPendingData` keeps this whether the
  socket takes the frame or rejects it: `ByteStream`, `SentListCounted`.
* `ListsOK`, `HeadersOK`: what `Split` takes off a packet is a header, also in a
  packet that was merged from several frames, and the list of stream 0 holds no stream
  data. So merging and splitting move bytes but neither lose nor copy them. `Conserved`
  counts them: a byte's number occurs at one place of the lists (`OncePlaced`), so the
  packet an ACK removes takes all places of its numbers with it.
* `Ordered`: retransmissions are first in the priority queue; behind them the new
  data is in whole frames, one behind the other up to the last byte handed over, and
  the keys, which are offsets of the frames before they were split, keep this order.
  The second part of a split frame therefore goes back to where it came from:
  `NewDataInOrder`.
* `FreshInv`: while every retransmission has left at once (`left = 0`) the queue holds
  new data only, the packets sent are well formed, and the content is within the
  buffer. `FramesIntact` and `RoomKept` need it because `DoRetransmit` puts any packets
  back, whatever the room, and asks for one packet as large as all of them: when none
  stays, that packet is exactly what was put back (`ResendExact`), and the queue is
  what it was. `Available` is a difference modulo 2^32; its value is the real room only
  because the room is kept (`ModSub`).

The loops (the turns of `SendPendingData`, the packets of one event, `Add`,
`Retransmission`) are recursive functions over positions, and each proof about one is
an induction whose step is a lemma about one turn.

`MultipathProofs`: a packet that arrives is first taken off its flow
(`Remaining`), then its handler runs, in which sockets and subflows only grow
(`ClientsGrow`, `ServerGrows`) and packets are added at the end of one flow
(`Adds`); facts about packets that only look at what grows are kept by every
handler (`PacketsStep`). The parts of `MultipathInv`:

* `PacketInv`: what a packet on its way says about its sender, e.g. a
  PATH_RESPONSE that the server has validated the path;
* `ValidInv`: what a client takes for active, the server has validated, in the
  *first* socket of the connection. With `SocketInv` (the first binding of a
  socket that is not closed is ahead of those of later sockets) and
  `FirstStuck` (of two sockets of a connection the first never leaves its
  handshake) that is the socket `ForwardUp` finds: `ActiveAtBoth`;
* `OpeningInv`: a connection has one handshake packet on its way at most, and
  then at most one socket, which waits; `FirstStuck` depends on it;
* `NodeInv`, `ServedInv`: a node knows the server from an open connection of its
  own, and a client that is open has a socket unless two share a node:
  `StopsOnlyShared`;
* `CalmInv`, of runs without fault, closing or overlap: one handshake at a time,
  further paths for one connection, addresses announced in order and ahead of
  everything else on their flow, each with the number the client expects next:
  `IndexIsPathId`;
* `ClientInv`: active paths are a prefix until a path overtakes one of a lower id;
  an index below the number of active paths then names an active one (a counting
  argument): `SendsOnActive`.

Only model-checked: the properties of the violation runs, and everything that
needs fairness, because the prover handles neither liveness nor ENABLED:
`HandshakeCompletes`, `Released`, `PathsValidated`, `EverythingRead` and the liveness
part of the refinement of `AckDuty`. The induction theorems of the proof library take an
operator as a parameter, which the installed provers cannot instantiate; the
inductions here are over sets of numbers instead.

## 5. Plan

To prove: that `LossRecovery` implements an abstract reliable channel (see below), step
by step; every safety property of a passing run has its theorem.

Modelling left: the loops of `OnSendingAckFrame` and `OnAckUpdate` as algorithms
against the closed forms `Missing` and `Covers` of `LossRecovery`; L5 over several
streams (what `DispatchSend` returns when one of them refuses); MAX_DATA, which a
late frame may set back; two paths in `TxBuffer`, where frames of stream 0 are
always recorded for path 0; an abstract reliable channel that `LossRecovery`
implements.

## 6. Not modelled

The wire format (pure encoding), BBR (a rate estimator over real-valued time),
OLIA's increase (floating point over all paths), the path schedulers MinRtt, Blest, Ecf
and Peekaboo (they choose by RTT estimates, send rates and learned weights), the
EDF and PFIFO variants of the transmission scheduler (off by default), RTT
estimation and the length of timers (any pending alarm may expire next), the
legacy branch that drives a TCP congestion controller, the time-based loss
detection that is off by default, flow control of the connection, the distribution
of data over several streams, FIN, RST_STREAM and STOP_SENDING, binding to
addresses and IPv6, `m_serverBusy` (no code sets it), logging and tracing, helpers,
examples and plots. The rest of ns-3 (the simulator core, the Internet stack, the
radio technologies, the routing protocols: nearly all lines of the repository) is
upstream or vendored and appears as environment only.
