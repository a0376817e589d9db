------------------------------ MODULE SendPath ------------------------------
(***************************************************************************)
(* From the application to the wire: a stream (StreamSend) gives its       *)
(* frames to the transmission buffer of the socket (TxBuffer) within one   *)
(* event, through QuicL5Protocol::Send and AppendingTx, as long as that    *)
(* buffer reports room; the socket sends, retransmits and forgets packets  *)
(* at any time.                                                            *)
(***************************************************************************)
EXTENDS StreamSend, FiniteSets

CONSTANTS TxBufferSize,  \* m_maxBuffer of the socket's transmission buffer
          MaxZero,       \* bound: frames of stream 0
          MaxAcks,       \* bound: ACK frames added to data packets
          MaxLeft        \* bound: retransmissions and timeouts from the first
                         \* retransmission that stays in the buffer

ASSUME SendPathAssumption ==
    /\ HeaderSize = 1
    /\ TxBufferSize \in 0..(Modulus - 1)
    /\ MaxZero \in Nat /\ MaxAcks \in Nat /\ MaxLeft \in Nat

VARIABLES queue, zeroList, sent, acked, zeros, acks, left  \* of the socket

Tx == INSTANCE TxBuffer

txVars == <<queue, zeroList, sent, acked, zeros, acks, left>>
pathVars == <<vars, txVars>>

PathInit == Init /\ Tx!TxInit /\ room = Tx!Available

\* The application writes to the stream.
Write(size) == Send(size) /\ UNCHANGED txVars

\* The stream's event: what the socket accepts is in its buffer at once.
Hand ==
    /\ SendPendingData
    /\ Tx!Add(SubSeq(frames', Len(frames) + 1, Len(frames')))

\* The socket works on its buffer, which changes the room.
Transmit ==
    /\ Tx!TxNext
    /\ room' = Tx!Available'
    /\ UNCHANGED <<written, appList, sentList, bufSent, sentSize, frames,
                   pending, crashed, large>>

PathNext ==
    \/ \E size \in AppSizes : Write(size)
    \/ Hand
    \/ ~crashed /\ Transmit

PathSpec == PathInit /\ [][PathNext]_pathVars
-----------------------------------------------------------------------------
\* The variables have their types, and the stream's view of the room is the
\* buffer's.
PathTypeOK ==
    /\ TypeOK
    /\ room = Tx!Available
    /\ acked \subseteq Byte
    /\ zeros \in 0..MaxZero
    /\ acks \in 0..MaxAcks
    /\ left \in 0..MaxLeft

\* Every byte the socket accepted from the stream is in exactly one place: in
\* the buffer, in one packet of the sent list, or acknowledged, through every
\* merge, split and retransmission (GetNewSegment, Retransmission).
Conserved ==
    LET held == Tx!Units(queue) \o Tx!Units(sent) IN
    /\ Tx!Numbers(held) \cap acked = {}
    /\ Tx!Numbers(held) \cup acked = 0..(sentSize - 1)
    /\ Cardinality(Tx!Places(held)) = sentSize - Cardinality(acked)

\* A header announces exactly the bytes that follow it, and every byte has a
\* header.
WellFormed(units) ==
    LET covered(i) == (i + 1)..(i + units[i].len)
        headers == {i \in 1..Len(units) : units[i].kind = "header"}
    IN  /\ \A i \in headers : \A j \in covered(i) :
               /\ j <= Len(units)
               /\ units[j].kind = "byte"
               /\ units[j].n = units[i].n + (j - i - 1)
        /\ \A j \in 1..Len(units) :
               units[j].kind = "byte" => \E i \in headers : j \in covered(i)

\* In the buffer and on the wire every frame carries the bytes its header
\* announces, as long as every retransmission has left as one packet: a packet
\* of several frames is never split (GetNewSegment takes it for one frame).
FramesIntact ==
    left = 0 => /\ \A i \in 1..Len(queue) : WellFormed(queue[i].packet)
                /\ \A i \in 1..Len(sent) : WellFormed(sent[i].packet)

\* As long as every retransmission has left at once the buffer holds no more
\* than its size, and Available, an unsigned difference, has not wrapped around.
RoomKept == left = 0 => Tx!AppSize + Tx!Size(zeroList) <= TxBufferSize

\* The data not yet sent is the end of the stream, in order: nothing new leaves
\* ahead of older new data, whatever was split or put back in between.
NewDataInOrder ==
    LET new == {i \in 1..Len(queue) : ~queue[i].retx}
        places(i) == Tx!Places(queue[i].packet)
        byte(i, j) == queue[i].packet[j].n
    IN  /\ \A i, k \in new : \A j \in places(i), l \in places(k) :
               i < k \/ (i = k /\ j < l) => byte(i, j) < byte(k, l)
        /\ \E n \in 0..sentSize :
               UNION {Tx!Numbers(queue[i].packet) : i \in new} = n..(sentSize - 1)
-----------------------------------------------------------------------------
\* The frames of a list carry the first size bytes of the stream, one behind the
\* other; the next one begins where the first i end.
NextOffset(list, size, i) == IF i = Len(list) THEN size ELSE list[i + 1].offset
Run(list, size) ==
    /\ NextOffset(list, size, 0) = 0
    /\ \A i \in 1..Len(list) :
           /\ list[i].bytes # <<>>
           /\ \A j \in 1..Len(list[i].bytes) : list[i].bytes[j] = list[i].offset + j - 1
           /\ list[i].offset + Len(list[i].bytes) = NextOffset(list, size, i)

\* The stream: its frames follow one another, no packet is empty or above a segment
\* unless the application wrote one, and all that was sent is in the sent list as
\* long as nothing was cut.
StreamInv ==
    /\ ByteStream
    /\ Run(frames, sentSize)
    /\ \A i \in 1..Len(appList) : /\ appList[i] # <<>>
                                  /\ large \/ Len(appList[i]) <= SegSize
    /\ ~large /\ sentSize + SegSize <= MaxStreamData =>
           bufSent = sentSize /\ Total(sentList) = sentSize /\ ~crashed

\* As long as every retransmission has left at once, the queue holds new data only.
FreshInv ==
    left = 0 => /\ \A i \in 1..Len(queue) : ~queue[i].retx
                /\ \A i \in 1..Len(sent) : WellFormed(sent[i].packet)
                /\ Tx!AppSize + Tx!Size(zeroList) <= TxBufferSize

\* The inductive invariant.
SendInv ==
    /\ PathTypeOK /\ StreamInv
    /\ Tx!ListsOK(queue, zeroList, sent) /\ Tx!HeadersOK(queue, zeroList, sent)
    /\ Tx!Ordered(queue, sentSize)
    /\ Conserved
    /\ FreshInv
=============================================================================
