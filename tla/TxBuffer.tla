------------------------------ MODULE TxBuffer ------------------------------
(***************************************************************************)
(* The socket's transmission buffer, QuicSocketTxBuffer, with the default  *)
(* scheduler QuicSocketTxScheduler, for one data stream, stream 0 and one  *)
(* path: what happens to the frames of a stream between the stream and the *)
(* packets on the wire, through merging, splitting and retransmission.     *)
(*                                                                         *)
(* A packet is the sequence of its units: the header of a STREAM frame     *)
(* with the offset and the length it announces, a byte of stream data, an  *)
(* ACK frame, a frame of stream 0.  Each counts as one byte.  A header     *)
(* says what the bytes behind it are, so that splitting a packet at the    *)
(* wrong place shows.  Which packets are acknowledged or lost, and when    *)
(* probes are sent, is the subject of LossRecovery: here all of it may     *)
(* happen at any time.                                                     *)
(***************************************************************************)
EXTENDS Integers, Sequences, FiniteSets, SequencesExt

CONSTANTS TxBufferSize,  \* m_maxBuffer of the socket's transmission buffer
          SegSize,       \* GetSegSize ()
          MaxZero,       \* bound: frames of stream 0
          MaxAcks,       \* bound: ACK frames added to data packets
          MaxLeft,       \* bound: retransmissions and timeouts from the first
                         \* retransmission that stays in the buffer
          Modulus        \* number of values of a uint32_t

VARIABLES queue,     \* m_appList of the scheduler, first item first
          zeroList,  \* m_streamZeroList
          sent,      \* m_subflowSentList[0], sorted: its order has no effect
          acked,     \* bytes of stream data in packets acknowledged
          zeros,     \* history: frames of stream 0 accepted
          acks,      \* history: ACK frames added to data packets
          left       \* history: retransmissions and timeouts, counted from
                     \* the first retransmission that stayed in the buffer

txVars == <<queue, zeroList, sent, acked, zeros, acks, left>>

Unit(kind, n, len) == [kind |-> kind, n |-> n, len |-> len]
Header(offset, len) == Unit("header", offset, len)
AckFrame == Unit("ack", 0, 0)
ZeroFrame == Unit("zero", 0, 0)

\* A STREAM frame as the stream builds it.
StreamFrame(f) ==
    <<Header(f.offset, Len(f.bytes))>>
        \o [i \in 1..Len(f.bytes) |-> Unit("byte", f.bytes[i], 0)]

\* All units in a sequence of items, the places of the stream's bytes among
\* units, and these bytes.
Units(items) == FlattenSeq([i \in 1..Len(items) |-> items[i].packet])
Places(units) == {i \in 1..Len(units) : units[i].kind = "byte"}
Numbers(units) == {units[i].n : i \in Places(units)}

Size(items) == Len(Units(items))

AppSize == Size(queue)
Available == (TxBufferSize - Size(zeroList) - AppSize) % Modulus

TxInit ==
    /\ queue = <<>>
    /\ zeroList = <<>>
    /\ sent = <<>>
    /\ acked = {}
    /\ zeros = 0
    /\ acks = 0
    /\ left = 0

-----------------------------------------------------------------------------
(* The scheduler                                                           *)

\* QuicSocketTxScheduleItem::Compare: retransmissions have priority -1, new
\* data the time at which it was added, which grows with its offset.
Before(a, b) == IF a.retx # b.retx THEN a.retx ELSE a.key < b.key

\* Mutant: items of one priority are not ordered by offset.
InsertUnordered(q, item, first) ==
    IF item.retx THEN <<item>> \o q ELSE Append(q, item)

\* The priority queue leaves the order of equal items open.
Insert(q, item, first) ==
    LET ahead(i) == Before(q[i], item) \/ (~first /\ ~Before(item, q[i]))
        place == CHOOSE i \in 1..(Len(q) + 1) : /\ \A j \in 1..(i - 1) : ahead(j)
                                                /\ i <= Len(q) => ~ahead(i)
    IN  InsertAt(q, place, item)

\* Mutant: the second part of a split packet keeps the offset of the first.
SplitOldOffset(item, size) ==
    LET old == Head(item.packet)
        data == Tail(item.packet)
    IN  [first |-> <<Header(old.n, size)>> \o SubSeq(data, 1, size),
         second |-> <<Header(old.n, Len(data) - size)>>
                        \o SubSeq(data, size + 1, Len(data))]

\* A packet is split as if it were one frame: its first header is removed and
\* both parts get a header of their own.
Split(item, size) ==
    LET old == Head(item.packet)
        data == Tail(item.packet)
    IN  [first |-> <<Header(old.n, size)>> \o SubSeq(data, 1, size),
         second |-> <<Header(old.n + size, Len(data) - size)>>
                        \o SubSeq(data, size + 1, Len(data))]

\* GetNewSegment of the scheduler: whole items while they fit, then the first
\* part of one that does not if more than its header fits.  The second part
\* goes back with the priority and the key of the whole.
GetNewSegment(q, numBytes, first) ==
    LET k == CHOOSE n \in 0..Len(q) :
                 /\ Size(SubSeq(q, 1, n)) <= numBytes
                 /\ n < Len(q) => Size(SubSeq(q, 1, n + 1)) > numBytes
        whole == Units(SubSeq(q, 1, k))
        size == numBytes - Len(whole) - 1
        rest == SubSeq(q, k + 1, Len(q))
    IN  IF rest = <<>> \/ size <= 0
        THEN [packet |-> whole, queue |-> rest]
        ELSE LET parts == Split(Head(rest), size) IN
             [packet |-> whole \o parts.first,
              queue |-> Insert(Tail(rest),
                               [Head(rest) EXCEPT !.packet = parts.second], first)]

-----------------------------------------------------------------------------
(* Sending                                                                 *)

\* The state the handlers below work on, with the bytes to retransmit.
Buffer == [queue |-> queue, zero |-> zeroList, sent |-> sent, toRetx |-> 0]

\* A packet enters the sent list.
Record(list, item) ==
    LET ahead(i) == Head(list[i].packet).n <= Head(item.packet).n
        place == CHOOSE i \in 1..(Len(list) + 1) : /\ \A j \in 1..(i - 1) : ahead(j)
                                                   /\ i <= Len(list) => ~ahead(i)
    IN  InsertAt(list, place, item)

\* SendDataPacket: a frame of stream 0 goes first and alone, else a segment of
\* at most maxSize bytes.  The ACK frame is added to the packet that the sent
\* list holds, so that it will be retransmitted with it.
SendDataPacket(s, maxSize, ack, first) ==
    LET seg == GetNewSegment(s.queue, maxSize, first)
        tail == IF ack THEN <<AckFrame>> ELSE <<>>
    IN  CASE s.zero # <<>> ->
               [s EXCEPT !.zero = Tail(@),
                         !.sent = Record(@, [zero |-> TRUE,
                                             packet |-> Head(s.zero).packet \o tail])]
          [] s.zero = <<>> /\ seg.packet # <<>> ->
               [s EXCEPT !.queue = seg.queue,
                         !.sent = Record(@, [zero |-> FALSE,
                                             packet |-> seg.packet \o tail])]
          [] OTHER -> s

\* Packets of the given sizes, one after the other.
SendPackets(s, sizes, ack, first) ==
    LET after[i \in 0..Len(sizes)] ==
            IF i = 0 THEN s ELSE SendDataPacket(after[i - 1], sizes[i], ack, first)
    IN  after[Len(sizes)]

\* The outcome of a handler that sends n packets.
Leaves(s, n, ack) ==
    /\ acks' = acks + (IF ack THEN n ELSE 0)
    /\ acks' <= MaxAcks
    /\ queue' = s.queue
    /\ zeroList' = s.zero
    /\ sent' = s.sent

\* The stream's frames enter the buffer; the stream has found room for each.
Add(frames) ==
    /\ queue' = LET after[i \in 0..Len(frames)] ==
                        IF i = 0 THEN queue
                        ELSE Insert(after[i - 1],
                                    [retx |-> FALSE, key |-> frames[i].offset,
                                     packet |-> StreamFrame(frames[i])], FALSE)
                IN  after[Len(frames)]
    /\ UNCHANGED <<zeroList, sent, acked, zeros, acks, left>>

\* A frame of stream 0 enters the buffer.
AddStream0 ==
    /\ zeros < MaxZero
    /\ Available >= 1
    /\ zeroList' = Append(zeroList, [packet |-> <<ZeroFrame>>])
    /\ zeros' = zeros + 1
    /\ UNCHANGED <<queue, sent, acked, acks, left>>

\* SendPendingData of the socket: all frames of stream 0, then as many full
\* segments as there are and as the window, which is any number, allows.
SendPendingData(ack, first) ==
    \E n \in 0..(AppSize \div SegSize) :
        LET count == Len(zeroList) + n IN
        /\ count > 0
        /\ \E s \in {SendPackets(Buffer, [i \in 1..count |-> SegSize], ack, first)} :
               Leaves(s, count, ack)
        /\ UNCHANGED <<acked, zeros, left>>

\* A tail loss probe sends one packet, a retransmission timeout sends two, of
\* what the window allows up to a segment.
ReTxTimeout(sizes, ack, first) ==
    /\ left < MaxLeft
    /\ \E s \in {SendPackets(Buffer, sizes, ack, first)} : Leaves(s, Len(sizes), ack)
    /\ left' = IF left > 0 THEN left + 1 ELSE 0
    /\ UNCHANGED <<acked, zeros>>

\* A lost packet goes back to the buffer whatever its room: one of stream 0 to
\* the front of its list, others to the scheduler.
Requeue(s, item, first) ==
    LET n == Len(item.packet) IN
    IF item.zero
    THEN [s EXCEPT !.zero = <<[packet |-> item.packet]>> \o @, !.toRetx = @ + n]
    ELSE [s EXCEPT !.queue = Insert(@, [retx |-> TRUE, key |-> Head(item.packet).n,
                                        packet |-> item.packet], first),
                   !.toRetx = @ + n]

\* Mutant: the lost packets are not taken out of the sent list.
RetransmissionKeepsLost(lost, first) ==
    LET after[k \in 0..Len(sent)] ==
            LET i == Len(sent) - k + 1 IN
            IF k = 0 THEN Buffer
            ELSE IF i \in lost THEN Requeue(after[k - 1], sent[i], first)
            ELSE after[k - 1]
    IN  after[Len(sent)]

\* Retransmission: the lost packets go back from the last to the first, then
\* they leave the sent list.
Retransmission(lost, first) ==
    LET after[k \in 0..Len(sent)] ==
            LET i == Len(sent) - k + 1 IN
            IF k = 0 THEN [Buffer EXCEPT !.sent = <<>>]
            ELSE IF i \in lost THEN Requeue(after[k - 1], sent[i], first)
            ELSE [after[k - 1] EXCEPT !.sent = <<sent[i]>> \o @]
    IN  after[Len(sent)]

\* DoRetransmit: the lost packets go back, then one packet as large as all of
\* them together is sent; if a frame of stream 0 takes its place they stay.
DoRetransmit(lost, ack, first) ==
    /\ left < MaxLeft
    /\ \E s \in {Retransmission(lost, first)} :
           \E t \in {SendDataPacket(s, s.toRetx, ack, first)} : Leaves(t, 1, ack)
    /\ left' = IF \/ left > 0
                  \/ zeroList' # <<>>
                  \/ \E i \in 1..Len(queue') : queue'[i].retx
               THEN left + 1 ELSE 0
    /\ UNCHANGED <<acked, zeros>>

\* A packet has been acknowledged and leaves the sent list (CleanSentList).
Acknowledged(i) ==
    /\ acked' = acked \cup Numbers(sent[i].packet)
    /\ sent' = RemoveAt(sent, i)
    /\ UNCHANGED <<queue, zeroList, zeros, acks, left>>

\* What the socket may do.  Equal items occur only after a retransmission has
\* stayed in the queue.  A probe of one byte would have no room for data.
TxNext ==
    \/ AddStream0
    \/ \E i \in 1..Len(sent) : Acknowledged(i)
    \/ \E ack \in IF acks < MaxAcks THEN BOOLEAN ELSE {FALSE},
          first \in IF left = 0 THEN {FALSE} ELSE BOOLEAN :
           \/ SendPendingData(ack, first)
           \/ \E s \in 2..SegSize : ReTxTimeout(<<s>>, ack, first)
           \/ \E s \in 2..SegSize : \E t \in 2..s : ReTxTimeout(<<s, t>>, ack, first)
           \/ \E lost \in SUBSET (1..Len(sent)) \ {{}} : DoRetransmit(lost, ack, first)
-----------------------------------------------------------------------------
\* The parts of the inductive invariant, for a queue q, a list z of stream 0 and a
\* sent list s.
AnyUnit == [kind : {"header", "byte", "ack", "zero"}, n : Nat, len : Nat]

ListsOK(q, z, s) ==
    /\ q \in Seq([retx : BOOLEAN, key : Nat, packet : Seq(AnyUnit)])
    /\ z \in Seq([packet : Seq(AnyUnit)])
    /\ s \in Seq([zero : BOOLEAN, packet : Seq(AnyUnit)])

\* What Split takes off a packet is a header, and stream 0 holds no stream data.
Opens(p) == p # <<>> /\ p[1].kind = "header"
Bare(p) == p # <<>> /\ \A i \in 1..Len(p) : p[i].kind \in {"ack", "zero"}

HeadersOK(q, z, s) ==
    /\ \A i \in 1..Len(q) : Opens(q[i].packet)
    /\ \A i \in 1..Len(z) : Bare(z[i].packet)
    /\ \A i \in 1..Len(s) : IF s[i].zero THEN Bare(s[i].packet) ELSE Opens(s[i].packet)

\* A packet that is one STREAM frame, and the byte behind it.
Frame(p) ==
    /\ Len(p) > 1
    /\ p[1] = Header(p[1].n, Len(p) - 1)
    /\ \A j \in 2..Len(p) : p[j] = Unit("byte", p[1].n + j - 2, 0)
End(p) == p[1].n + Len(p) - 1

\* Retransmissions come first.  New data is in frames, one behind the other up to
\* the last of size bytes, and their keys keep them in this order.
Ordered(q, size) ==
    /\ \A i, j \in 1..Len(q) : i < j /\ q[j].retx => q[i].retx
    /\ \A i \in 1..Len(q) : ~q[i].retx =>
           /\ Frame(q[i].packet) /\ q[i].key <= q[i].packet[1].n
           /\ End(q[i].packet) = IF i = Len(q) THEN size ELSE q[i + 1].packet[1].n
    /\ \A i, j \in 1..Len(q) : i < j /\ ~q[i].retx =>
           /\ q[i].key < q[j].key
           /\ End(q[i].packet) <= q[j].packet[1].n
=============================================================================
